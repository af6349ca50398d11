-------------------- MODULE JobQueueCoordinator_proofs --------------------
(* Theorems about one queue of a processing node, for every worker count:   *)
(* its counts, and how quiet it is once it has answered its shutdown.       *)
EXTENDS JobQueueCoordinator, FiniteSetTheorems, TLAPS

----------------------------------------------------------------------------
(* Results that are reported and not yet received *)

ResultType == [copy : Copies, ok : BOOLEAN]

\* Where the result that is at position k after one at i was received stood before.
Before(i, k) == IF k < i THEN k ELSE k + 1

LEMMA RemovedResult ==
    ASSUME NEW S, NEW s \in Seq(S), NEW i \in 1..Len(s)
    PROVE  /\ RemoveAt(s, i) \in Seq(S)
           /\ Len(s) \in Nat \ {0} /\ i \in 1..Len(s)
           /\ Len(RemoveAt(s, i)) = Len(s) - 1
           /\ \A k \in 1..Len(s) - 1 : RemoveAt(s, i)[k] = s[Before(i, k)]
<1> DEFINE a == SubSeq(s, 1, i - 1)
           b == SubSeq(s, i + 1, Len(s))
<1>1. i \in 1..Len(s) /\ Len(s) \in Nat \ {0}
  OBVIOUS
<1>2. /\ a \in Seq(S) /\ Len(a) = i - 1
      /\ \A k \in 1..i - 1 : a[k] = s[k]
  BY <1>1
<1>3. /\ b \in Seq(S) /\ Len(b) = Len(s) - i
      /\ \A k \in 1..Len(s) - i : b[k] = s[k + i]
  BY <1>1
<1> HIDE DEF a, b
<1>4. /\ a \o b \in Seq(S)
      /\ Len(a \o b) = Len(a) + Len(b)
      /\ \A k \in 1..Len(a) : (a \o b)[k] = a[k]
      /\ \A k \in 1..Len(b) : (a \o b)[Len(a) + k] = b[k]
  <2>1. a \in Seq(S) /\ b \in Seq(S)
    BY <1>2, <1>3
  <2> QED BY <2>1
<1>5. Len(a \o b) = Len(s) - 1
  <2>1. Len(a) + Len(b) = Len(s) - 1
    BY <1>1, <1>2, <1>3
  <2> QED BY <1>4, <2>1
<1>6. ASSUME NEW k \in 1..Len(s) - 1 PROVE (a \o b)[k] = s[Before(i, k)]
  <2>1. CASE k < i
    <3>1. k \in 1..Len(a) /\ k \in 1..i - 1
      BY <1>1, <1>2, <2>1
    <3> QED BY <1>2, <1>4, <2>1, <3>1 DEF Before
  <2>2. CASE k >= i
    <3> DEFINE m == k - Len(a)
    <3>0. /\ Len(a) = i - 1 /\ Len(b) = Len(s) - i
          /\ i \in Int /\ k \in Int /\ Len(s) \in Int
          /\ i <= k /\ k <= Len(s) - 1
      BY <1>1, <1>2, <1>3, <2>2
    <3>1. /\ m \in 1..Len(b) /\ m \in 1..Len(s) - i /\ Len(a) + m = k
          /\ m + i = k + 1 /\ ~(k < i)
      BY <3>0
    <3> HIDE DEF m
    <3>2. (a \o b)[k] = b[m]
      BY <1>4, <3>1
    <3>3. b[m] = s[k + 1]
      BY <1>3, <3>1
    <3> QED BY <3>1, <3>2, <3>3 DEF Before
  <2>3. k < i \/ k >= i
    BY <1>1
  <2> QED BY <2>1, <2>2, <2>3
<1>7. RemoveAt(s, i) = a \o b
  BY DEF RemoveAt, a, b
<1> QED BY <1>1, <1>4, <1>5, <1>6, <1>7

----------------------------------------------------------------------------
(* Lemmas about the operators *)

\* The round robin stays within the pool.
LEMMA NextWorkerInPool ==
    ASSUME NEW w \in Workers
    PROVE  NextWorker(w) \in Workers
BY CoordinatorAssumption DEF Workers, NextWorker

LEMMA ElementOf ==
    ASSUME NEW S, NEW s \in Seq(S), NEW i \in 1..Len(s)
    PROVE  s[i] \in S
OBVIOUS

\* The first message of the layer actor's mailbox, when it is a write, is
\* about a job; taking any message leaves a mailbox.
LEMMA LayerMailbox ==
    ASSUME layerBox \in Seq(LayerMsg), layerBox # << >>
    PROVE  /\ Tail(layerBox) \in Seq(LayerMsg)
           /\ Head(layerBox) \in LayerMsg
           /\ Head(layerBox).op \in WriteOps => Head(layerBox).job \in Jobs
<1>1. Tail(layerBox) \in Seq(LayerMsg) /\ Head(layerBox) \in LayerMsg
  OBVIOUS
<1>2. Head(layerBox).op \in WriteOps => Head(layerBox).job \in Jobs
  BY <1>1 DEF LayerMsg, WriteOps, GetJobsMsg, FlushMsg, Msg
<1> QED BY <1>1, <1>2

\* A copy of a job is neither the stop of a worker nor an idle worker.
LEMMA CopiesAreNoStop ==
    /\ \A c \in Copies : c # StopMsg /\ c # NoCopy /\ c.job \in Jobs
    /\ NoJob \notin Jobs /\ StopMsg = NoCopy
BY CoordinatorAssumption DEF Copies, StopMsg, NoCopy, CopyOf

\* What a write makes of a row is a row.
LEMMA WrittenIsRow ==
    ASSUME NEW r \in Row, NEW op \in WriteOps
    PROVE  Written(op, r) \in Row
<1>1. CASE op = "InProgress"  BY <1>1 DEF Written, Row
<1>2. CASE op = "Success"  BY <1>2 DEF Written, Row
<1>3. CASE op = "Failed"  BY <1>3 DEF Written, Row
<1>4. CASE op = "Retry"
  <2>1. r.retries + 1 \in Nat
    BY DEF Row
  <2>2. Written(op, r) = [r EXCEPT !.status = "Retry", !.leased = FALSE,
                                   !.retries = r.retries + 1]
    BY <1>4 DEF Written
  <2> HIDE DEF Written
  <2>3. \A n \in Nat : [r EXCEPT !.status = "Retry", !.leased = FALSE,
                                !.retries = n] \in Row
    BY DEF Row
  <2> QED BY <2>1, <2>2, <2>3
<1> QED BY <1>1, <1>2, <1>3, <1>4 DEF WriteOps

\* A claim keeps the table a table.
LEMMA ClaimedIsStore ==
    ASSUME store \in [Jobs -> Row], NEW S
    PROVE  Claimed(S) \in [Jobs -> Row]
BY DEF Claimed, Row

\* Every message the coordinator sends the layer actor belongs there.
LEMMA LayerMessages ==
    /\ \A j \in Jobs, op \in WriteOps : Msg(op, j) \in LayerMsg
    /\ GetJobsMsg \in LayerMsg
    /\ FlushMsg \in LayerMsg
    /\ \A r : OutcomeOp(r) \in WriteOps
BY DEF LayerMsg, Msg, WriteOps, GetJobsMsg, FlushMsg, OutcomeOp

\* Messages that arrive or are taken leave a mailbox.
LEMMA InboxMoves ==
    ASSUME NEW box \in InboxType
    PROVE  /\ [box EXCEPT !.JobSweep = @ + 1] \in InboxType
           /\ [box EXCEPT !.SilentRetrySweep = @ + 1] \in InboxType
           /\ [box EXCEPT !.QueueShutDown = @ + 1] \in InboxType
           /\ box.QueueShutDown > 0 =>
                  [box EXCEPT !.QueueShutDown = @ - 1] \in InboxType
           /\ [box EXCEPT !.ShutDownQueues = TRUE] \in InboxType
           /\ [box EXCEPT !.ShutDownQueues = FALSE] \in InboxType
           /\ [box EXCEPT !.PoisonPill = TRUE] \in InboxType
           /\ \A i \in 1..Len(box.results) :
                  [box EXCEPT !.results = RemoveAt(@, i)] \in InboxType
           /\ \A c \in Copies, ok \in BOOLEAN :
                  [box EXCEPT !.results = Append(@, Result(c, ok))] \in InboxType
<1>1. [box EXCEPT !.JobSweep = @ + 1] \in InboxType
  BY DEF InboxType
<1>2. [box EXCEPT !.SilentRetrySweep = @ + 1] \in InboxType
  BY DEF InboxType
<1>3. [box EXCEPT !.QueueShutDown = @ + 1] \in InboxType
  BY DEF InboxType
<1>4. box.QueueShutDown > 0 => [box EXCEPT !.QueueShutDown = @ - 1] \in InboxType
  BY DEF InboxType
<1>5. [box EXCEPT !.ShutDownQueues = TRUE] \in InboxType
  BY DEF InboxType
<1>6. [box EXCEPT !.ShutDownQueues = FALSE] \in InboxType
  BY DEF InboxType
<1>7. [box EXCEPT !.PoisonPill = TRUE] \in InboxType
  BY DEF InboxType
<1>8. \A R \in Seq(ResultType) : [box EXCEPT !.results = R] \in InboxType
  BY DEF InboxType, ResultType
<1>9. box.results \in Seq(ResultType)
  BY DEF InboxType, ResultType
<1>10. ASSUME NEW i \in 1..Len(box.results)
       PROVE  [box EXCEPT !.results = RemoveAt(@, i)] \in InboxType
  <2>1. RemoveAt(box.results, i) \in Seq(ResultType)
    BY <1>9, RemovedResult
  <2> QED BY <1>8, <2>1
<1>11. ASSUME NEW c \in Copies, NEW ok \in BOOLEAN
       PROVE  [box EXCEPT !.results = Append(@, Result(c, ok))] \in InboxType
  <2>1. Result(c, ok) \in ResultType
    BY DEF Result, ResultType
  <2>2. Append(box.results, Result(c, ok)) \in Seq(ResultType)
    BY <1>9, <2>1
  <2> QED BY <1>8, <2>2
<1> QED BY <1>1, <1>2, <1>3, <1>4, <1>5, <1>6, <1>7, <1>10, <1>11

\* Taking a sweep, and sending oneself a silent one, leaves a mailbox.
LEMMA InboxSweeps ==
    ASSUME inbox \in InboxType, NEW kind \in SweepKinds, inbox[kind] > 0
    PROVE  /\ [inbox EXCEPT ![kind] = @ - 1] \in InboxType
           /\ [[inbox EXCEPT ![kind] = @ - 1] EXCEPT !.SilentRetrySweep = @ + 1]
                  \in InboxType
<1>2. [inbox EXCEPT ![kind] = @ - 1] \in InboxType
  <2>1. CASE kind = "JobSweep"
    <3>1. [inbox EXCEPT ![kind] = @ - 1] = [inbox EXCEPT !.JobSweep = inbox.JobSweep - 1]
      BY <2>1
    <3>2. inbox.JobSweep > 0
      BY <2>1
    <3>3. [inbox EXCEPT !.JobSweep = inbox.JobSweep - 1] \in InboxType
      BY <3>2 DEF InboxType
    <3> QED BY <3>1, <3>3
  <2>2. CASE kind = "SilentRetrySweep"
    <3>1. [inbox EXCEPT ![kind] = @ - 1]
              = [inbox EXCEPT !.SilentRetrySweep = inbox.SilentRetrySweep - 1]
      BY <2>2
    <3>2. inbox.SilentRetrySweep > 0
      BY <2>2
    <3>3. [inbox EXCEPT !.SilentRetrySweep = inbox.SilentRetrySweep - 1] \in InboxType
      BY <3>2 DEF InboxType
    <3> QED BY <3>1, <3>3
  <2> QED BY <2>1, <2>2 DEF SweepKinds
<1> QED BY <1>2, InboxMoves

----------------------------------------------------------------------------
(* Types *)

LEMMA InitTypeOK == Init => TypeOK
<1> SUFFICES ASSUME Init PROVE TypeOK
  OBVIOUS
<1>1. 1 \in Workers
  BY CoordinatorAssumption DEF Workers
<1>2. inbox \in InboxType
  BY DEF Init, EmptyInbox, InboxType
<1>3. store \in [Jobs -> Row]
  BY DEF Init, Row
<1>4. /\ layerBox \in Seq(LayerMsg)
      /\ workerBox \in [Workers -> Seq(Copies \cup {StopMsg})]
      /\ running \in [Workers -> Copies \cup {NoCopy}]
  BY DEF Init
<1>5. ShuttingDown \in BOOLEAN
  BY DEF Init
<1> QED BY <1>1, <1>2, <1>3, <1>4, <1>5 DEF Init, TypeOK

LEMMA ShellTypeOK == TypeOK /\ ShellStep => TypeOK'
<1> SUFFICES ASSUME TypeOK, ShellStep PROVE TypeOK'
  OBVIOUS
<1> USE DEF TypeOK, coordinator, workers
<1>1. CASE Pulse  BY InboxMoves, <1>1 DEF Pulse
<1>2. CASE ShutDownQueue  BY InboxMoves, <1>2 DEF ShutDownQueue
<1>3. CASE SendPoisonPill  BY InboxMoves, <1>3 DEF SendPoisonPill
<1>4. CASE GiveUp  BY <1>4 DEF GiveUp
<1> QED BY <1>1, <1>2, <1>3, <1>4 DEF ShellStep

LEMMA CoordinatorTypeOK == TypeOK /\ CoordinatorStep => TypeOK'
<1> SUFFICES ASSUME TypeOK, CoordinatorStep PROVE TypeOK'
  OBVIOUS
<1> USE DEF TypeOK, coordinator, workers
<1>1. ASSUME NEW kind \in SweepKinds, Sweep(kind) PROVE TypeOK'
  <2>1. inbox' \in InboxType
    BY <1>1, InboxSweeps DEF Sweep, TakeSweep
  <2>2. layerBox' \in Seq(LayerMsg)
    BY <1>1, LayerMessages DEF Sweep
  <2> QED BY <1>1, <2>1, <2>2 DEF Sweep
<1>2. ASSUME NEW kind \in SweepKinds, SweepSaturated(kind) PROVE TypeOK'
  BY <1>2, InboxSweeps DEF SweepSaturated, TakeSweep
<1>3. ASSUME NEW kind \in SweepKinds, IgnoreSweep(kind) PROVE TypeOK'
  BY <1>3, InboxSweeps DEF IgnoreSweep, TakeSweep
<1>4. CASE AskTimesOut  BY <1>4 DEF AskTimesOut
<1>5. ASSUME NEW c \in batch, Dispatch(c) PROVE TypeOK'
  <2>0. c \in Copies /\ c.job \in Jobs
    BY DEF Copies
  <2>1. Append(layerBox, Msg("InProgress", c.job)) \in Seq(LayerMsg)
        /\ Append(layerBox, Msg("Failed", c.job)) \in Seq(LayerMsg)
    BY <2>0, LayerMessages DEF WriteOps
  <2>2. [workerBox EXCEPT ![nextWorker] = Append(@, c)]
            \in [Workers -> Seq(Copies \cup {StopMsg})]
    BY <2>0
  <2>3. CASE c.job \in Unresolvable
    BY <1>5, <2>1, <2>3 DEF Dispatch, FailMissingType
  <2>4. CASE c.job \notin Unresolvable
    <3> DispatchJob(c)
      BY <1>5, <2>4 DEF Dispatch
    <3>1. /\ nextWorker' \in Workers
          /\ workerBox' \in [Workers -> Seq(Copies \cup {StopMsg})]
          /\ layerBox' \in Seq(LayerMsg)
          /\ PendingItems' \in Int
      <4>1. nextWorker' \in Workers
        BY NextWorkerInPool DEF DispatchJob
      <4>2. workerBox' \in [Workers -> Seq(Copies \cup {StopMsg})]
        BY <2>2 DEF DispatchJob
      <4>3. layerBox' \in Seq(LayerMsg)
        BY <2>1 DEF DispatchJob
      <4>4. PendingItems' \in Int
        BY DEF DispatchJob
      <4> QED BY <4>1, <4>2, <4>3, <4>4
    <3>2. /\ step' \in {"idle", "asking", "dispatching", "flushing", "stopped"}
          /\ batch' \subseteq Copies
          /\ UNCHANGED <<ShuttingDown, ShutdownCount, inbox, running, store, shell>>
      BY <1>5 DEF Dispatch
    <3> QED BY <3>1, <3>2
  <2> QED BY <2>3, <2>4
<1>6. ASSUME NEW i \in 1..Len(inbox.results), ReceiveResult(i) PROVE TypeOK'
  <2>0. inbox.results \in Seq(ResultType)
    BY DEF InboxType, ResultType
  <2>1. inbox.results[i] \in ResultType
    BY <1>6, <2>0, ElementOf
  <2>2. inbox.results[i].copy.job \in Jobs
    BY <2>1 DEF Copies, ResultType
  <2>3. layerBox' \in Seq(LayerMsg)
    BY <1>6, <2>2, LayerMessages DEF ReceiveResult
  <2>4. inbox' \in InboxType
    BY <1>6, InboxMoves DEF ReceiveResult
  <2> QED BY <1>6, <2>3, <2>4 DEF ReceiveResult
<1>7. CASE ReceiveShutDownQueues
  <2>1. inbox' \in InboxType
    BY <1>7, InboxMoves DEF ReceiveShutDownQueues
  <2>2. workerBox' \in [Workers -> Seq(Copies \cup {StopMsg})]
    BY <1>7 DEF ReceiveShutDownQueues, WithStop
  <2> QED BY <1>7, <2>1, <2>2 DEF ReceiveShutDownQueues
<1>8. CASE ReceiveQueueShutDown
  <2>1. inbox' \in InboxType
    BY <1>8, InboxMoves DEF ReceiveQueueShutDown
  <2>2. step' \in {"idle", "asking", "dispatching", "flushing", "stopped"}
        /\ layerBox' \in Seq(LayerMsg)
    <3>0. Append(layerBox, FlushMsg) \in Seq(LayerMsg)
      BY LayerMessages
    <3>1. CASE AllStopped(ShutdownCount')
      <4>1. step' = "flushing" /\ layerBox' = Append(layerBox, FlushMsg)
        BY <1>8, <3>1 DEF ReceiveQueueShutDown
      <4> QED BY <3>0, <4>1
    <3>2. CASE ~AllStopped(ShutdownCount')
      BY <1>8, <3>2 DEF ReceiveQueueShutDown
    <3> QED BY <3>1, <3>2
  <2> QED BY <1>8, <2>1, <2>2 DEF ReceiveQueueShutDown
<1>9. CASE ReceivePoisonPill
  <2>1. inbox' \in InboxType
    BY <1>9 DEF ReceivePoisonPill, EmptyInbox, InboxType
  <2> QED BY <1>9, <2>1 DEF ReceivePoisonPill
<1> QED BY <1>1, <1>2, <1>3, <1>4, <1>5, <1>6, <1>7, <1>8, <1>9
        DEF CoordinatorStep

LEMMA LayerTypeOK == TypeOK /\ LayerStep => TypeOK'
<1> SUFFICES ASSUME TypeOK, LayerStep PROVE TypeOK'
  OBVIOUS
<1> USE DEF TypeOK, coordinator, workers
<1>1. ASSUME NEW op \in WriteOps, LayerWrites(op) PROVE TypeOK'
  <2>1. layerBox' \in Seq(LayerMsg) /\ Head(layerBox).job \in Jobs
    BY <1>1, LayerMailbox DEF LayerWrites, LayerReads
  <2>2. store' \in [Jobs -> Row]
    BY <1>1, <2>1, WrittenIsRow DEF LayerWrites
  <2> QED BY <1>1, <2>1, <2>2 DEF LayerWrites
<1>2. CASE LayerDropsWrite
  BY <1>2, LayerMailbox DEF LayerDropsWrite, LayerReads
<1>3. CASE LayerAnswersGetJobs
  <2>1. PICK S \in Batches :
            /\ store' = Claimed(S)
            /\ batch' = {CopyOf(j, store[j].retries) : j \in S}
            /\ step' = IF S = {} THEN "idle" ELSE "dispatching"
    BY <1>3 DEF LayerAnswersGetJobs
  <2>2. S \subseteq Jobs
    BY DEF Batches
  <2>3. batch' \subseteq Copies
    BY <2>1, <2>2 DEF Row, CopyOf, Copies
  <2>4. layerBox' \in Seq(LayerMsg)
    BY <1>3, LayerMailbox DEF LayerAnswersGetJobs, LayerReads
  <2> QED BY <1>3, <2>1, <2>2, <2>3, <2>4, ClaimedIsStore DEF LayerAnswersGetJobs
<1>4. CASE LayerLosesGetJobs
  BY <1>4, LayerMailbox, ClaimedIsStore DEF LayerLosesGetJobs, LayerReads
<1>5. CASE LayerFlushes
  BY <1>5, LayerMailbox DEF LayerFlushes, LayerReads
<1> QED BY <1>1, <1>2, <1>3, <1>4, <1>5 DEF LayerStep

LEMMA LeaseTypeOK ==
    ASSUME TypeOK, NEW j \in Jobs, LeaseExpires(j)
    PROVE  TypeOK'
BY DEF TypeOK, LeaseExpires, Row, coordinator, workers

LEMMA WorkerTypeOK ==
    ASSUME TypeOK, NEW w \in Workers, WorkerStep(w)
    PROVE  TypeOK'
<1> USE DEF TypeOK, coordinator, workers
<1>1. workerBox[w] # << >> => /\ Head(workerBox[w]) \in Copies \cup {StopMsg}
                              /\ Tail(workerBox[w]) \in Seq(Copies \cup {StopMsg})
  OBVIOUS
<1>2. CASE StartJob(w)
  BY <1>1, <1>2 DEF StartJob, WorkerReads
<1>3. CASE FinishJob(w)
  <2>1. running[w] \in Copies
    BY <1>3 DEF FinishJob
  <2>2. inbox' \in InboxType
    <3>0. inbox \in InboxType
      OBVIOUS
    <3>1. PICK ok \in BOOLEAN :
              inbox' = IF step = "stopped" THEN inbox
                       ELSE [inbox EXCEPT !.results = Append(@, Result(running[w], ok))]
      BY <1>3 DEF FinishJob
    <3>2. [inbox EXCEPT !.results = Append(@, Result(running[w], ok))] \in InboxType
      BY <2>1, <3>0, InboxMoves
    <3> QED BY <3>0, <3>1, <3>2
  <2> QED BY <1>3, <2>2 DEF FinishJob
<1>4. CASE StopWorker(w)
  <2>1. inbox' \in InboxType
    BY <1>4, InboxMoves DEF StopWorker
  <2> QED BY <1>1, <1>4, <2>1 DEF StopWorker, WorkerReads
<1> QED BY <1>2, <1>3, <1>4 DEF WorkerStep

\* The state of a queue is well typed, whatever its worker count and its faults.
THEOREM TypeCorrect == Spec => []TypeOK
<1>1. TypeOK /\ [Next]_vars => TypeOK'
  <2> SUFFICES ASSUME TypeOK, [Next]_vars PROVE TypeOK'
    OBVIOUS
  <2>1. CASE Next
    BY <2>1, ShellTypeOK, CoordinatorTypeOK, LayerTypeOK, LeaseTypeOK, WorkerTypeOK
       DEF Next
  <2>2. CASE UNCHANGED vars
    BY <2>2 DEF vars, coordinator, workers, TypeOK
  <2> QED BY <2>1, <2>2
<1> QED BY <1>1, InitTypeOK, PTL DEF Spec

----------------------------------------------------------------------------
(* Backpressure *)

\* The bound on PendingItems is not inductive alone.  An Ask is only out below
\* saturation, and what the answer brings is counted before it is dispatched.
PendingBound ==
    /\ IsFiniteSet(batch)
    /\ PendingItems <= 3 * WorkerCount - 1
    /\ step = "asking" => PendingItems <= 2 * WorkerCount - 1
    /\ step = "dispatching" =>
           PendingItems + Cardinality(batch) <= 3 * WorkerCount - 1

LEMMA FiniteBatches ==
    ASSUME NEW S, S \subseteq Jobs
    PROVE  IsFiniteSet(S) /\ Cardinality(S) \in Nat
BY CoordinatorAssumption, FS_Subset, FS_CardinalityType

LEMMA FiniteCopies ==
    ASSUME NEW S, IsFiniteSet(S), NEW T, T = {CopyOf(j, store[j].retries) : j \in S}
    PROVE  IsFiniteSet(T) /\ Cardinality(T) <= Cardinality(S) /\ Cardinality(T) \in Nat
<1> DEFINE f == [j \in S |-> CopyOf(j, store[j].retries)]
<1>1. f \in Surjection(S, T)
  BY DEF Surjection
<1> QED BY <1>1, FS_Surjection, FS_CardinalityType

LEMMA CoordinatorPendingBound ==
    TypeOK /\ PendingBound /\ CoordinatorStep => PendingBound'
<1> SUFFICES ASSUME TypeOK, PendingBound, CoordinatorStep PROVE PendingBound'
  OBVIOUS
<1> WorkerCount \in Nat \ {0} /\ PendingItems \in Int /\ batch \subseteq Copies
  BY CoordinatorAssumption DEF TypeOK
<1> USE DEF PendingBound, coordinator
<1>1. ASSUME NEW kind \in SweepKinds, Sweep(kind) PROVE PendingBound'
  BY <1>1 DEF Sweep, Saturated
<1>2. ASSUME NEW kind \in SweepKinds, SweepSaturated(kind) \/ IgnoreSweep(kind)
      PROVE  PendingBound'
  BY <1>2 DEF SweepSaturated, IgnoreSweep
<1>3. CASE AskTimesOut  BY <1>3 DEF AskTimesOut
<1>4. ASSUME NEW c \in batch, Dispatch(c) PROVE PendingBound'
  <2>1. /\ Cardinality(batch) \in Nat /\ IsFiniteSet(batch')
        /\ Cardinality(batch') = Cardinality(batch) - 1
    BY <1>4, FS_RemoveElement, FS_CardinalityType DEF Dispatch
  <2>2. Cardinality(batch') \in Nat
    BY <2>1, FS_CardinalityType
  <2>3. PendingItems' \in {PendingItems, PendingItems + 1}
    BY <1>4 DEF Dispatch, FailMissingType, DispatchJob
  <2>4. step = "dispatching" /\ step' \in {"idle", "dispatching"}
    BY <1>4 DEF Dispatch
  <2> QED BY <2>1, <2>2, <2>3, <2>4
<1>5. ASSUME NEW i \in 1..Len(inbox.results), ReceiveResult(i) PROVE PendingBound'
  BY <1>5 DEF ReceiveResult, Receiving
<1>6. CASE ReceiveShutDownQueues  BY <1>6 DEF ReceiveShutDownQueues
<1>7. CASE ReceiveQueueShutDown
  BY <1>7 DEF ReceiveQueueShutDown, Receiving
<1>8. CASE ReceivePoisonPill  BY <1>8 DEF ReceivePoisonPill
<1> QED BY <1>1, <1>2, <1>3, <1>4, <1>5, <1>6, <1>7, <1>8 DEF CoordinatorStep

LEMMA LayerPendingBound ==
    TypeOK /\ PendingBound /\ LayerStep => PendingBound'
<1> SUFFICES ASSUME TypeOK, PendingBound, LayerStep PROVE PendingBound'
  OBVIOUS
<1> WorkerCount \in Nat \ {0} /\ PendingItems \in Int
  BY CoordinatorAssumption DEF TypeOK
<1> USE DEF PendingBound, coordinator
<1>1. ASSUME NEW op \in WriteOps, LayerWrites(op) PROVE PendingBound'
  BY <1>1 DEF LayerWrites
<1>2. CASE LayerDropsWrite  BY <1>2 DEF LayerDropsWrite
<1>3. CASE LayerAnswersGetJobs
  <2>1. PICK S \in Batches : /\ batch' = {CopyOf(j, store[j].retries) : j \in S}
                             /\ step' \in {"idle", "dispatching"}
    BY <1>3 DEF LayerAnswersGetJobs
  <2>2. /\ IsFiniteSet(batch') /\ Cardinality(batch') \in Nat
        /\ Cardinality(batch') <= WorkerCount
    <3>1. /\ IsFiniteSet(S) /\ Cardinality(S) \in Nat /\ Cardinality(S) <= WorkerCount
      BY FiniteBatches DEF Batches
    <3>2. /\ IsFiniteSet(batch') /\ Cardinality(batch') <= Cardinality(S)
          /\ Cardinality(batch') \in Nat
      BY <2>1, <3>1, FiniteCopies
    <3> QED BY <3>1, <3>2
  <2>3. PendingItems <= 2 * WorkerCount - 1 /\ PendingItems' = PendingItems
    BY <1>3 DEF LayerAnswersGetJobs, AskIsLive
  <2> QED BY <2>1, <2>2, <2>3
<1>4. CASE LayerLosesGetJobs  BY <1>4 DEF LayerLosesGetJobs
<1>5. CASE LayerFlushes  BY <1>5 DEF LayerFlushes
<1> QED BY <1>1, <1>2, <1>3, <1>4, <1>5 DEF LayerStep

\* Readme.MD's bound holds for every number of workers: at most
\* (numWorkers*3)-1 jobs are pending, however fetches, dispatches, outcomes and
\* time-outs interleave.
THEOREM BackpressureHolds == Spec => []Backpressure
<1>1. Init => PendingBound
  BY CoordinatorAssumption, FS_EmptySet DEF Init, PendingBound
<1>2. TypeOK /\ PendingBound /\ [Next]_vars => PendingBound'
  <2> SUFFICES ASSUME TypeOK, PendingBound, [Next]_vars PROVE PendingBound'
    OBVIOUS
  <2> USE DEF PendingBound, coordinator
  <2>1. CASE ShellStep
    BY <2>1 DEF ShellStep, Pulse, ShutDownQueue, SendPoisonPill, GiveUp
  <2>2. CASE CoordinatorStep  BY <2>2, CoordinatorPendingBound
  <2>3. CASE LayerStep  BY <2>3, LayerPendingBound
  <2>4. ASSUME NEW j \in Jobs, LeaseExpires(j) PROVE PendingBound'
    BY <2>4 DEF LeaseExpires
  <2>5. ASSUME NEW w \in Workers, WorkerStep(w) PROVE PendingBound'
    BY <2>5 DEF WorkerStep, StartJob, FinishJob, StopWorker
  <2>6. CASE UNCHANGED vars  BY <2>6 DEF vars
  <2> QED BY <2>1, <2>2, <2>3, <2>4, <2>5, <2>6 DEF Next
<1>3. PendingBound => Backpressure
  BY DEF PendingBound, Backpressure
<1> QED BY <1>1, <1>2, <1>3, TypeCorrect, PTL DEF Spec

----------------------------------------------------------------------------
(* Mailboxes *)

LEMMA AppendedBox ==
    ASSUME NEW S, NEW s \in Seq(S), NEW e
    PROVE  /\ Len(Append(s, e)) = Len(s) + 1 /\ Len(s) \in Nat
           /\ \A i \in 1..Len(s) : Append(s, e)[i] = s[i]
           /\ Append(s, e)[Len(s) + 1] = e
           /\ Append(s, e) # << >>
OBVIOUS

LEMMA TakenBox ==
    ASSUME NEW S, NEW s \in Seq(S), s # << >>
    PROVE  /\ Tail(s) \in Seq(S)
           /\ Len(s) \in Nat \ {0} /\ Len(Tail(s)) = Len(s) - 1
           /\ Head(s) = s[1]
           /\ \A i \in 1..Len(s) - 1 : Tail(s)[i] = s[i + 1]
           /\ Tail(s) = << >> <=> Len(s) = 1
<1>1. /\ Tail(s) \in Seq(S)
      /\ Len(s) \in Nat \ {0} /\ Len(Tail(s)) = Len(s) - 1
      /\ Head(s) = s[1]
      /\ \A i \in 1..Len(s) - 1 : Tail(s)[i] = s[i + 1]
  OBVIOUS
<1>2. \A t \in Seq(S) : t = << >> <=> Len(t) = 0
  OBVIOUS
<1> QED BY <1>1, <1>2

NoStop(box) == \A i \in 1..Len(box) : box[i] # StopMsg

StopIsLast(box) ==
    /\ box # << >>
    /\ box[Len(box)] = StopMsg
    /\ \A i \in 1..Len(box) - 1 : box[i] # StopMsg

LEMMA StoppedBox ==
    ASSUME NEW S, NEW box \in Seq(S), NoStop(box)
    PROVE  StopIsLast(WithStop(box))
BY AppendedBox DEF NoStop, StopIsLast, WithStop

LEMMA ReadBox ==
    ASSUME NEW S, NEW box \in Seq(S), box # << >>
    PROVE  /\ NoStop(box) => NoStop(Tail(box)) /\ Head(box) # StopMsg
           /\ StopIsLast(box) /\ Head(box) = StopMsg => Tail(box) = << >>
           /\ StopIsLast(box) /\ Head(box) # StopMsg => StopIsLast(Tail(box))
<1> DEFINE n == Len(box)
           rest == Tail(box)
<1>1. /\ rest \in Seq(S) /\ n \in Nat \ {0} /\ Len(rest) = n - 1
      /\ Head(box) = box[1] /\ rest = << >> <=> n = 1
      /\ \A i \in 1..n - 1 : rest[i] = box[i + 1]
  BY TakenBox
<1> HIDE DEF rest
<1>2. NoStop(box) => NoStop(rest) /\ Head(box) # StopMsg
  BY <1>1 DEF NoStop
<1>3. StopIsLast(box) /\ Head(box) = StopMsg => rest = << >>
  BY <1>1 DEF StopIsLast
<1>4. ASSUME StopIsLast(box), Head(box) # StopMsg PROVE StopIsLast(rest)
  <2>1. n > 1
    BY <1>1, <1>4 DEF StopIsLast
  <2>2. rest # << >> /\ rest[n - 1] = box[n]
    BY <1>1, <2>1
  <2>3. \A i \in 1..n - 2 : rest[i] # StopMsg
    BY <1>1, <1>4, <2>1 DEF StopIsLast
  <2> QED BY <1>1, <1>4, <2>1, <2>2, <2>3 DEF StopIsLast
<1> QED BY <1>2, <1>3, <1>4 DEF rest

----------------------------------------------------------------------------
(* The inductive invariant *)

\* The workers that have read to the end of their mailbox, once it has one.
Gone == {w \in Workers : workerBox[w] = << >>}

HasFlush == \E i \in 1..Len(layerBox) : layerBox[i] = FlushMsg

\* Something that happens only after the last worker has reported.
Answering ==
    \/ step \in {"flushing", "stopped"}
    \/ HasFlush
    \/ shell \in {"answered", "closed"}
    \/ inbox.PoisonPill

BeforeShutdown ==
    ~ShuttingDown =>
        /\ \A w \in Workers : NoStop(workerBox[w])
        /\ ShutdownCount = 0 /\ inbox.QueueShutDown = 0
        /\ ~Answering

AskedOnce ==
    /\ shell = "open" => ~ShuttingDown /\ ~inbox.ShutDownQueues
    /\ inbox.ShutDownQueues => ~ShuttingDown

\* The priority mailbox lets the shutdown in only between two messages, so that
\* no fetched job is still to be sent out.
NothingToSend ==
    /\ batch # {} => step = "dispatching"
    /\ ShuttingDown => step \in {"idle", "flushing", "stopped"}

\* The FIFO mailbox of a worker keeps the stop behind its jobs.
DuringShutdown ==
    ShuttingDown =>
        \A w \in Workers : IF workerBox[w] = << >> THEN running[w] = NoCopy
                                                   ELSE StopIsLast(workerBox[w])

\* Every worker is counted once.
CountIsRight ==
    ShuttingDown /\ step # "stopped" =>
        ShutdownCount + inbox.QueueShutDown = Cardinality(Gone)

AllGone == Answering => Gone = Workers

StoppedIsEmpty == step = "stopped" => layerBox = << >>

ShutdownInvariant ==
    /\ BeforeShutdown
    /\ AskedOnce
    /\ NothingToSend
    /\ DuringShutdown
    /\ CountIsRight
    /\ AllGone
    /\ StoppedIsEmpty

----------------------------------------------------------------------------
(* Lemmas on its parts *)

LEMMA WorkersAreFinite ==
    /\ IsFiniteSet(Workers) /\ Cardinality(Workers) = WorkerCount
    /\ IsFiniteSet(Gone) /\ Cardinality(Gone) \in Nat
    /\ Cardinality(Gone) <= WorkerCount
    /\ Cardinality(Gone) = WorkerCount => Gone = Workers
<1>1. IsFiniteSet(Workers) /\ Cardinality(Workers) = WorkerCount
  BY CoordinatorAssumption, FS_Interval DEF Workers
<1>2. Gone \in SUBSET Workers
  BY DEF Gone
<1> QED BY <1>1, <1>2, FS_Subset, FS_CardinalityType

\* A message that is no flush leaves the layer actor's mailbox without one.
LEMMA SentNoFlush ==
    ASSUME TypeOK, NEW m, m.op # "ShutDownQueues", layerBox' = Append(layerBox, m)
    PROVE  HasFlush' => HasFlush
<1>1. m # FlushMsg
  BY DEF FlushMsg, Msg
<1>2. /\ Len(layerBox') = Len(layerBox) + 1 /\ Len(layerBox) \in Nat
      /\ \A i \in 1..Len(layerBox) : layerBox'[i] = layerBox[i]
      /\ layerBox'[Len(layerBox) + 1] = m
  BY AppendedBox DEF TypeOK
<1> QED BY <1>1, <1>2 DEF HasFlush

LEMMA ReadNoFlush ==
    ASSUME TypeOK, layerBox # << >>, layerBox' = Tail(layerBox)
    PROVE  HasFlush' => HasFlush
<1>1. /\ Len(layerBox) \in Nat \ {0} /\ Len(layerBox') = Len(layerBox) - 1
      /\ \A i \in 1..Len(layerBox) - 1 : layerBox'[i] = layerBox[i + 1]
  BY TakenBox DEF TypeOK
<1> SUFFICES ASSUME HasFlush' PROVE HasFlush
  OBVIOUS
<1>2. PICK i \in 1..Len(layerBox) - 1 : layerBox'[i] = FlushMsg
  BY <1>1 DEF HasFlush, FlushMsg, Msg
<1>3. i + 1 \in 1..Len(layerBox) /\ layerBox[i + 1] = FlushMsg
  BY <1>1, <1>2
<1> QED BY <1>3 DEF HasFlush

----------------------------------------------------------------------------
(* Each step keeps it *)

\* Most steps leave workers and shutdown alone.
LEMMA QuietStepKeeps ==
    ASSUME ShutdownInvariant,
           UNCHANGED <<ShuttingDown, ShutdownCount, workerBox, running>>,
           inbox'.QueueShutDown = inbox.QueueShutDown,
           inbox'.ShutDownQueues = inbox.ShutDownQueues,
           shell' = "open" => shell = "open",
           Answering' => Answering,
           NothingToSend', StoppedIsEmpty',
           step = "stopped" => step' = "stopped"
    PROVE  ShutdownInvariant'
<1> USE DEF ShutdownInvariant
<1>1. BeforeShutdown' /\ AskedOnce' /\ DuringShutdown' /\ AllGone'
  BY DEF BeforeShutdown, AskedOnce, DuringShutdown, AllGone, Gone
<1>2. CountIsRight'
  BY DEF CountIsRight, Gone
<1> QED BY <1>1, <1>2

LEMMA ShellKeeps ==
    ASSUME TypeOK, ShutdownInvariant, ShellStep
    PROVE  ShutdownInvariant'
<1> inbox \in InboxType
  BY DEF TypeOK
<1> USE DEF ShutdownInvariant, coordinator, workers
<1>1. CASE Pulse \/ GiveUp
  <2>1. /\ UNCHANGED <<coordinator, layerBox, workers>>
        /\ inbox'.QueueShutDown = inbox.QueueShutDown
        /\ inbox'.ShutDownQueues = inbox.ShutDownQueues
        /\ inbox'.PoisonPill = inbox.PoisonPill
        /\ shell' \in {shell, "gaveUp"}
    BY <1>1 DEF Pulse, GiveUp, InboxType
  <2>2. Answering' => Answering
    BY <2>1 DEF Answering, HasFlush
  <2> QED BY <2>1, <2>2, QuietStepKeeps DEF NothingToSend, StoppedIsEmpty
<1>2. CASE ShutDownQueue
  <2>1. /\ UNCHANGED <<coordinator, layerBox, workers>> /\ shell = "open" /\ shell' = "asked"
        /\ inbox'.QueueShutDown = inbox.QueueShutDown
        /\ inbox'.ShutDownQueues = TRUE
        /\ inbox'.PoisonPill = inbox.PoisonPill
    BY <1>2 DEF ShutDownQueue, InboxType
  <2>2. (Answering' <=> Answering) /\ ~ShuttingDown
    BY <2>1 DEF Answering, HasFlush, AskedOnce
  <2> QED BY <2>1, <2>2
          DEF BeforeShutdown, AskedOnce, NothingToSend, DuringShutdown, CountIsRight,
              AllGone, Gone, StoppedIsEmpty
<1>3. CASE SendPoisonPill
  <2>1. /\ UNCHANGED <<coordinator, layerBox, workers>>
        /\ shell = "answered" /\ shell' = "closed"
        /\ inbox'.QueueShutDown = inbox.QueueShutDown
        /\ inbox'.ShutDownQueues = inbox.ShutDownQueues
    BY <1>3 DEF SendPoisonPill, InboxType
  <2>2. Answering
    BY <2>1 DEF Answering
  <2> QED BY <2>1, <2>2, QuietStepKeeps DEF NothingToSend, StoppedIsEmpty
<1> QED BY <1>1, <1>2, <1>3 DEF ShellStep

LEMMA SweepKeeps ==
    ASSUME TypeOK, ShutdownInvariant, NEW kind \in SweepKinds,
           Sweep(kind) \/ SweepSaturated(kind) \/ IgnoreSweep(kind)
    PROVE  ShutdownInvariant'
<1> USE DEF ShutdownInvariant, coordinator, workers
<1>1. inbox \in InboxType /\ kind \in {"JobSweep", "SilentRetrySweep"}
  BY DEF TypeOK, SweepKinds
<1>2. /\ UNCHANGED <<ShuttingDown, ShutdownCount, workerBox, running, batch, shell>>
      /\ inbox'.QueueShutDown = inbox.QueueShutDown
      /\ inbox'.ShutDownQueues = inbox.ShutDownQueues
      /\ inbox'.PoisonPill = inbox.PoisonPill
      /\ step = "idle"
  BY <1>1 DEF Sweep, SweepSaturated, IgnoreSweep, TakeSweep, Receiving, InboxType
<1>3. CASE Sweep(kind)
  <2>1. step' = "asking" /\ ~ShuttingDown /\ layerBox' = Append(layerBox, GetJobsMsg)
    BY <1>3 DEF Sweep
  <2>2. GetJobsMsg.op # "ShutDownQueues"
    BY DEF GetJobsMsg, Msg
  <2>3. HasFlush' => HasFlush
    BY <2>1, <2>2, SentNoFlush
  <2>4. Answering' => Answering
    BY <1>2, <2>1, <2>3 DEF Answering
  <2> QED BY <1>2, <2>1, <2>4, QuietStepKeeps DEF NothingToSend, StoppedIsEmpty
<1>4. CASE SweepSaturated(kind) \/ IgnoreSweep(kind)
  <2>1. UNCHANGED <<step, layerBox>>
    BY <1>4 DEF SweepSaturated, IgnoreSweep
  <2>2. Answering' => Answering
    BY <1>2, <2>1 DEF Answering, HasFlush
  <2> QED BY <1>2, <2>1, <2>2, QuietStepKeeps DEF NothingToSend, StoppedIsEmpty
<1> QED BY <1>3, <1>4

LEMMA DispatchKeeps ==
    ASSUME TypeOK, ShutdownInvariant, NEW c \in batch, Dispatch(c)
    PROVE  ShutdownInvariant'
<1> USE DEF ShutdownInvariant
<1>1. /\ UNCHANGED <<ShuttingDown, ShutdownCount, inbox, running, shell>>
      /\ step = "dispatching" /\ step' \in {"idle", "dispatching"}
      /\ batch' # {} => step' = "dispatching"
  BY DEF Dispatch
<1>2. ~ShuttingDown
  BY <1>1 DEF NothingToSend
<1>3. PICK op \in {"InProgress", "Failed"} : layerBox' = Append(layerBox, Msg(op, c.job))
  BY DEF Dispatch, FailMissingType, DispatchJob
<1>4. HasFlush' => HasFlush
  <2>1. Msg(op, c.job).op # "ShutDownQueues"
    BY DEF Msg
  <2> QED BY <1>3, <2>1, SentNoFlush
<1>5. Answering' => Answering
  BY <1>1, <1>4 DEF Answering
<1>6. \A w \in Workers : NoStop(workerBox'[w])
  <2>1. \A w \in Workers : workerBox'[w] \in {workerBox[w], Append(workerBox[w], c)}
    BY DEF Dispatch, FailMissingType, DispatchJob, TypeOK
  <2>2. ASSUME NEW w \in Workers PROVE NoStop(Append(workerBox[w], c))
    <3>1. workerBox[w] \in Seq(Copies \cup {StopMsg}) /\ NoStop(workerBox[w]) /\ c # StopMsg
      BY <1>2, CopiesAreNoStop DEF TypeOK, BeforeShutdown
    <3> QED BY <3>1, AppendedBox DEF NoStop
  <2>3. \A w \in Workers : NoStop(workerBox[w])
    BY <1>2 DEF BeforeShutdown
  <2> QED BY <2>1, <2>2, <2>3
<1> QED BY <1>1, <1>2, <1>5, <1>6
        DEF BeforeShutdown, AskedOnce, NothingToSend, DuringShutdown, CountIsRight,
            AllGone, StoppedIsEmpty

LEMMA ReceiveResultKeeps ==
    ASSUME TypeOK, ShutdownInvariant, NEW i \in 1..Len(inbox.results), ReceiveResult(i)
    PROVE  ShutdownInvariant'
<1> USE DEF ShutdownInvariant, coordinator, workers
<1> DEFINE r == inbox.results[i]
<1>1. /\ UNCHANGED <<ShuttingDown, ShutdownCount, workerBox, running, batch, shell, step>>
      /\ layerBox' = Append(layerBox, Msg(OutcomeOp(r), r.copy.job))
      /\ step = "idle"
  BY DEF ReceiveResult, Receiving
<1>2. /\ inbox'.QueueShutDown = inbox.QueueShutDown
      /\ inbox'.ShutDownQueues = inbox.ShutDownQueues
      /\ inbox'.PoisonPill = inbox.PoisonPill
  BY DEF ReceiveResult, TypeOK, InboxType
<1>3. Msg(OutcomeOp(r), r.copy.job).op # "ShutDownQueues"
  BY DEF Msg, OutcomeOp
<1>4. HasFlush' => HasFlush
  BY <1>1, <1>3, SentNoFlush
<1>5. Answering' => Answering
  BY <1>1, <1>2, <1>4 DEF Answering
<1> QED BY <1>1, <1>2, <1>5, QuietStepKeeps DEF NothingToSend, StoppedIsEmpty

LEMMA AskTimesOutKeeps ==
    ASSUME TypeOK, ShutdownInvariant, AskTimesOut
    PROVE  ShutdownInvariant'
<1>1. /\ UNCHANGED <<batch, ShuttingDown, ShutdownCount, inbox, layerBox, workerBox,
                     running, shell>>
      /\ step = "asking" /\ step' = "idle"
  BY DEF AskTimesOut, workers
<1>2. Answering' => Answering
  BY <1>1 DEF Answering, HasFlush
<1> QED BY <1>1, <1>2, QuietStepKeeps DEF ShutdownInvariant, NothingToSend, StoppedIsEmpty

LEMMA ReceiveShutDownQueuesKeeps ==
    ASSUME TypeOK, ShutdownInvariant, ReceiveShutDownQueues
    PROVE  ShutdownInvariant'
<1> USE DEF ShutdownInvariant
<1>1. /\ UNCHANGED <<step, batch, ShutdownCount, layerBox, running, shell>>
      /\ step = "idle" /\ inbox.ShutDownQueues /\ ShuttingDown'
      /\ workerBox' = [w \in Workers |-> WithStop(workerBox[w])]
  BY DEF ReceiveShutDownQueues
<1>2. /\ inbox'.QueueShutDown = inbox.QueueShutDown
      /\ ~inbox'.ShutDownQueues
      /\ inbox'.PoisonPill = inbox.PoisonPill
  BY DEF ReceiveShutDownQueues, TypeOK, InboxType
<1>3. ~ShuttingDown /\ shell # "open" /\ batch = {}
  BY <1>1 DEF AskedOnce, NothingToSend
<1>4. ~Answering'
  BY <1>1, <1>2, <1>3 DEF BeforeShutdown, Answering, HasFlush
<1>5. \A w \in Workers : StopIsLast(workerBox'[w])
  BY <1>1, <1>3, StoppedBox DEF BeforeShutdown, TypeOK
<1>6. Gone' = {} /\ Cardinality(Gone') = 0
  <2>1. Gone' = {}
    BY <1>5 DEF Gone, StopIsLast
  <2> QED BY <2>1, FS_EmptySet
<1>7. ShutdownCount' = 0 /\ inbox'.QueueShutDown = 0
  BY <1>1, <1>2, <1>3 DEF BeforeShutdown
<1> QED BY <1>1, <1>2, <1>3, <1>4, <1>5, <1>6, <1>7
        DEF BeforeShutdown, AskedOnce, NothingToSend, DuringShutdown, CountIsRight,
            AllGone, StoppedIsEmpty, StopIsLast

LEMMA ReceiveQueueShutDownKeeps ==
    ASSUME TypeOK, ShutdownInvariant, ReceiveQueueShutDown
    PROVE  ShutdownInvariant'
<1> USE DEF ShutdownInvariant, workers
<1>1. /\ UNCHANGED <<batch, ShuttingDown, workerBox, running, shell>>
      /\ step = "idle" /\ ShutdownCount' = ShutdownCount + 1
      /\ inbox.QueueShutDown > 0
  BY DEF ReceiveQueueShutDown, Receiving
<1>2. /\ inbox'.QueueShutDown = inbox.QueueShutDown - 1
      /\ inbox'.ShutDownQueues = inbox.ShutDownQueues
      /\ inbox'.PoisonPill = inbox.PoisonPill
      /\ inbox.QueueShutDown \in Nat /\ ShutdownCount \in Nat
  BY DEF ReceiveQueueShutDown, TypeOK, InboxType
<1>3. ShuttingDown
  BY <1>1 DEF BeforeShutdown
<1>4. ShutdownCount' + inbox'.QueueShutDown = Cardinality(Gone) /\ Gone' = Gone
  BY <1>1, <1>2, <1>3 DEF CountIsRight, Gone
<1>5. CASE AllStopped(ShutdownCount')
  <2>1. Gone = Workers
    BY <1>1, <1>2, <1>4, <1>5, WorkersAreFinite, CoordinatorAssumption DEF AllStopped
  <2>2. step' = "flushing"
    BY <1>5 DEF ReceiveQueueShutDown
  <2> QED BY <1>1, <1>2, <1>3, <1>4, <2>1, <2>2
          DEF BeforeShutdown, AskedOnce, NothingToSend, DuringShutdown, CountIsRight,
              AllGone, StoppedIsEmpty
<1>6. CASE ~AllStopped(ShutdownCount')
  <2>1. UNCHANGED <<step, layerBox>>
    BY <1>6 DEF ReceiveQueueShutDown
  <2>2. Answering' => Answering
    BY <1>1, <1>2, <2>1 DEF Answering, HasFlush
  <2> QED BY <1>1, <1>2, <1>3, <1>4, <2>1, <2>2
          DEF BeforeShutdown, AskedOnce, NothingToSend, DuringShutdown, CountIsRight,
              AllGone, StoppedIsEmpty
<1> QED BY <1>5, <1>6

LEMMA ReceivePoisonPillKeeps ==
    ASSUME TypeOK, ShutdownInvariant, ReceivePoisonPill
    PROVE  ShutdownInvariant'
<1> USE DEF ShutdownInvariant
<1>1. /\ UNCHANGED <<batch, ShuttingDown, ShutdownCount, running, shell>>
      /\ step = "idle" /\ step' = "stopped" /\ inbox.PoisonPill
      /\ inbox' = EmptyInbox /\ layerBox' = << >>
      /\ workerBox' = [w \in Workers |-> << >>]
  BY DEF ReceivePoisonPill, Receiving
<1>2. Answering /\ ShuttingDown /\ Gone = Workers
  BY <1>1 DEF Answering, BeforeShutdown, AllGone
<1>3. \A w \in Workers : running[w] = NoCopy
  BY <1>2 DEF DuringShutdown, Gone
<1>4. batch = {} /\ shell # "open"
  BY <1>1, <1>2 DEF NothingToSend, AskedOnce
<1> QED BY <1>1, <1>2, <1>3, <1>4
        DEF BeforeShutdown, AskedOnce, NothingToSend, DuringShutdown, CountIsRight,
            AllGone, Gone, StoppedIsEmpty, EmptyInbox

LEMMA LayerKeeps ==
    ASSUME TypeOK, ShutdownInvariant, LayerStep
    PROVE  ShutdownInvariant'
<1> USE DEF ShutdownInvariant, coordinator, workers
<1>1. /\ layerBox # << >> /\ layerBox' = Tail(layerBox)
      /\ UNCHANGED <<ShuttingDown, ShutdownCount, inbox, workerBox, running>>
  BY DEF LayerStep, LayerWrites, LayerDropsWrite, LayerAnswersGetJobs, LayerLosesGetJobs,
         LayerFlushes, LayerReads
<1>2. (HasFlush' => HasFlush) /\ step # "stopped"
  BY <1>1, ReadNoFlush DEF StoppedIsEmpty
<1>3. CASE UNCHANGED <<step, batch, shell>>
  <2>1. Answering' => Answering
    BY <1>1, <1>2, <1>3 DEF Answering
  <2> QED BY <1>1, <1>2, <1>3, <2>1, QuietStepKeeps DEF NothingToSend, StoppedIsEmpty
<1>4. CASE LayerAnswersGetJobs
  <2>1. /\ step = "asking" /\ shell' = shell /\ step' \in {"idle", "dispatching"}
        /\ batch' # {} => step' = "dispatching"
    BY <1>4 DEF LayerAnswersGetJobs, AskIsLive
  <2>2. Answering' => Answering
    BY <1>1, <1>2, <2>1 DEF Answering
  <2> QED BY <1>1, <1>2, <2>1, <2>2, QuietStepKeeps DEF NothingToSend, StoppedIsEmpty
<1>5. CASE LayerFlushes
  <2>1. Head(layerBox).op = "ShutDownQueues" /\ step' = "idle" /\ batch' = batch
        /\ shell' \in {shell, "answered"}
    BY <1>5 DEF LayerFlushes, LayerReads
  <2>2. Head(layerBox) = FlushMsg
    BY <1>1, <2>1, LayerMailbox DEF TypeOK, LayerMsg, WriteOps, GetJobsMsg, Msg
  <2>3. HasFlush
    BY <1>1, <2>2, TakenBox DEF HasFlush, TypeOK
  <2>4. Answering /\ ShuttingDown
    BY <2>3 DEF Answering, BeforeShutdown
  <2>5. batch = {}
    BY <2>4 DEF NothingToSend
  <2> QED BY <1>1, <1>2, <2>1, <2>4, <2>5, QuietStepKeeps DEF NothingToSend, StoppedIsEmpty
<1> QED BY <1>3, <1>4, <1>5
        DEF LayerStep, LayerWrites, LayerDropsWrite, LayerLosesGetJobs

LEMMA WorkerKeeps ==
    ASSUME TypeOK, ShutdownInvariant, NEW w \in Workers, WorkerStep(w)
    PROVE  ShutdownInvariant'
<1> USE DEF ShutdownInvariant, coordinator
<1>1. UNCHANGED <<step, batch, ShuttingDown, ShutdownCount, layerBox, shell>>
  BY DEF WorkerStep, StartJob, FinishJob, StopWorker
<1>2. workerBox[w] \in Seq(Copies \cup {StopMsg}) /\ inbox \in InboxType
      /\ workerBox \in [Workers -> Seq(Copies \cup {StopMsg})]
      /\ running \in [Workers -> Copies \cup {NoCopy}]
  BY DEF TypeOK
<1>3. CASE FinishJob(w)
  <2>1. /\ UNCHANGED workerBox
        /\ running' = [running EXCEPT ![w] = NoCopy]
        /\ inbox'.QueueShutDown = inbox.QueueShutDown
        /\ inbox'.ShutDownQueues = inbox.ShutDownQueues
        /\ inbox'.PoisonPill = inbox.PoisonPill
    BY <1>2, <1>3 DEF FinishJob, InboxType
  <2>2. Answering' <=> Answering
    BY <1>1, <2>1 DEF Answering, HasFlush
  <2>3. DuringShutdown'
    BY <1>1, <1>2, <2>1 DEF DuringShutdown
  <2>4. CountIsRight' /\ AllGone'
    BY <1>1, <2>1, <2>2 DEF CountIsRight, AllGone, Gone
  <2> QED BY <1>1, <2>1, <2>2, <2>3, <2>4
          DEF BeforeShutdown, AskedOnce, NothingToSend, StoppedIsEmpty
<1>4. CASE StartJob(w)
  <2>1. /\ UNCHANGED inbox /\ workerBox[w] # << >> /\ Head(workerBox[w]) # StopMsg
        /\ workerBox' = [workerBox EXCEPT ![w] = Tail(@)]
        /\ \A v \in Workers : v # w => running'[v] = running[v]
    BY <1>4 DEF StartJob, WorkerReads, TypeOK
  <2>2. Answering' <=> Answering
    BY <1>1, <2>1 DEF Answering, HasFlush
  <2>3. BeforeShutdown'
    BY <1>1, <1>2, <2>1, <2>2, ReadBox DEF BeforeShutdown
  <2>4. DuringShutdown'
    <3> SUFFICES ASSUME ShuttingDown, NEW v \in Workers
                 PROVE  IF workerBox'[v] = << >> THEN running'[v] = NoCopy
                                                 ELSE StopIsLast(workerBox'[v])
      BY <1>1 DEF DuringShutdown
    <3>1. CASE v # w  BY <1>2, <2>1, <3>1 DEF DuringShutdown
    <3>2. CASE v = w
      <4>1. StopIsLast(Tail(workerBox[w]))
        BY <1>2, <2>1, ReadBox DEF DuringShutdown
      <4> QED BY <1>2, <2>1, <3>2, <4>1 DEF StopIsLast
    <3> QED BY <3>1, <3>2
  <2>5. ShuttingDown => Gone' = Gone
    <3> SUFFICES ASSUME ShuttingDown PROVE Gone' = Gone
      OBVIOUS
    <3>1. Tail(workerBox[w]) # << >>
      BY <1>2, <2>1, ReadBox DEF DuringShutdown, StopIsLast
    <3> QED BY <1>2, <2>1, <3>1 DEF Gone
  <2>6. CountIsRight' /\ AllGone'
    BY <1>1, <2>1, <2>2, <2>5 DEF CountIsRight, AllGone, BeforeShutdown
  <2> QED BY <1>1, <2>1, <2>3, <2>4, <2>6 DEF AskedOnce, NothingToSend, StoppedIsEmpty
<1>5. CASE StopWorker(w)
  <2>1. /\ UNCHANGED running /\ running[w] = NoCopy
        /\ workerBox[w] # << >> /\ Head(workerBox[w]) = StopMsg
        /\ workerBox' = [workerBox EXCEPT ![w] = Tail(@)]
        /\ inbox'.QueueShutDown = inbox.QueueShutDown + 1
        /\ inbox'.ShutDownQueues = inbox.ShutDownQueues
        /\ inbox'.PoisonPill = inbox.PoisonPill
    BY <1>2, <1>5 DEF StopWorker, WorkerReads, InboxType
  <2>2. Answering' <=> Answering
    BY <1>1, <2>1 DEF Answering, HasFlush
  <2>3. ShuttingDown
    BY <1>2, <2>1, ReadBox DEF BeforeShutdown
  <2>4. Tail(workerBox[w]) = << >>
    BY <1>2, <2>1, <2>3, ReadBox DEF DuringShutdown
  <2>5. w \notin Gone /\ Gone' = Gone \cup {w}
    BY <1>2, <2>1, <2>4 DEF Gone
  <2>6. Cardinality(Gone') = Cardinality(Gone) + 1 /\ Cardinality(Gone) \in Nat
    BY <2>5, WorkersAreFinite, FS_AddElement
  <2>7. CountIsRight'
    <3>1. inbox.QueueShutDown \in Nat /\ ShutdownCount \in Nat
      BY DEF TypeOK, InboxType
    <3> QED BY <1>1, <2>1, <2>6, <3>1 DEF CountIsRight
  <2>8. AllGone'
    BY <2>2, <2>5 DEF AllGone
  <2>9. DuringShutdown'
    BY <1>1, <1>2, <2>1, <2>4 DEF DuringShutdown
  <2> QED BY <1>1, <2>1, <2>2, <2>3, <2>7, <2>8, <2>9
          DEF BeforeShutdown, AskedOnce, NothingToSend, StoppedIsEmpty
<1> QED BY <1>3, <1>4, <1>5 DEF WorkerStep

----------------------------------------------------------------------------
(* Theorems *)

LEMMA ShutdownInvariance == Spec => []ShutdownInvariant
<1>1. Init => ShutdownInvariant
  BY DEF Init, ShutdownInvariant, BeforeShutdown, AskedOnce, NothingToSend, DuringShutdown,
         CountIsRight, AllGone, StoppedIsEmpty, Answering, HasFlush, EmptyInbox, NoStop
<1>2. TypeOK /\ ShutdownInvariant /\ [Next]_vars => ShutdownInvariant'
  <2> SUFFICES ASSUME TypeOK, ShutdownInvariant, [Next]_vars PROVE ShutdownInvariant'
    OBVIOUS
  <2>1. CASE CoordinatorStep
    BY <2>1, SweepKeeps, AskTimesOutKeeps, DispatchKeeps, ReceiveResultKeeps,
       ReceiveShutDownQueuesKeeps, ReceiveQueueShutDownKeeps, ReceivePoisonPillKeeps
       DEF CoordinatorStep
  <2>2. ASSUME UNCHANGED <<step, batch, ShuttingDown, ShutdownCount, inbox, layerBox,
                           workerBox, running, shell>>
        PROVE  ShutdownInvariant'
    BY <2>2 DEF ShutdownInvariant, BeforeShutdown, AskedOnce, NothingToSend, DuringShutdown,
                CountIsRight, AllGone, StoppedIsEmpty, Answering, HasFlush, Gone
  <2>3. ASSUME NEW j \in Jobs, LeaseExpires(j) PROVE ShutdownInvariant'
    BY <2>2, <2>3 DEF LeaseExpires, coordinator, workers
  <2>4. CASE UNCHANGED vars
    BY <2>2, <2>4 DEF vars, coordinator, workers
  <2> QED BY <2>1, <2>3, <2>4, ShellKeeps, LayerKeeps, WorkerKeeps DEF Next
<1> QED BY <1>1, <1>2, TypeCorrect, PTL DEF Spec

\* When the shell is told in time that the queue is shut down, no job runs, none
\* waits in a worker's mailbox and none is about to be sent: the doc of
\* ShutDownQueue, for every number of workers and whatever fails.
THEOREM QuietWhenAnswered == Spec => []QuietAfterAnswer
<1>1. TypeOK /\ ShutdownInvariant => QuietAfterAnswer
  <2> SUFFICES ASSUME TypeOK, ShutdownInvariant, shell \in {"answered", "closed"}
               PROVE  Busy = {} /\ Queued = {} /\ batch = {}
    BY DEF QuietAfterAnswer
  <2>1. Answering /\ ShuttingDown /\ Gone = Workers
    BY DEF Answering, ShutdownInvariant, BeforeShutdown, AllGone
  <2>2. \A w \in Workers : workerBox[w] = << >> /\ running[w] = NoCopy
    BY <2>1 DEF ShutdownInvariant, DuringShutdown, Gone
  <2>3. Busy = {}
    BY <2>2 DEF Busy
  <2>4. Queued = {}
    BY <2>2 DEF Queued, JobsWaiting
  <2>5. batch = {}
    BY <2>1 DEF ShutdownInvariant, NothingToSend
  <2> QED BY <2>3, <2>4, <2>5
<1> QED BY <1>1, ShutdownInvariance, TypeCorrect, PTL

----------------------------------------------------------------------------
(* The copies with the workers, counted *)

LEMMA PlacesAreFinite ==
    ASSUME TypeOK
    PROVE  /\ IsFiniteSet(Queued) /\ Cardinality(Queued) \in Nat
           /\ IsFiniteSet(Busy) /\ Cardinality(Busy) \in Nat
<1>1. IsFiniteSet(Workers) /\ Busy \subseteq Workers
  BY CoordinatorAssumption, FS_Interval DEF Workers, Busy
<1>2. ASSUME NEW w \in Workers PROVE IsFiniteSet({w} \X JobsWaiting(w))
  <2>1. Len(workerBox[w]) \in Nat
    BY DEF TypeOK
  <2>2. IsFiniteSet(1..Len(workerBox[w])) /\ JobsWaiting(w) \subseteq 1..Len(workerBox[w])
    BY <2>1, FS_Interval DEF JobsWaiting
  <2>3. IsFiniteSet(JobsWaiting(w)) /\ IsFiniteSet({w})
    BY <2>2, FS_Subset, FS_Singleton
  <2> QED BY <2>3, FS_Product
<1>3. PICK boxes : boxes = {{w} \X JobsWaiting(w) : w \in Workers}
  OBVIOUS
<1>4. IsFiniteSet(boxes)
  <2> DEFINE f == [w \in Workers |-> {w} \X JobsWaiting(w)]
  <2>1. f \in Surjection(Workers, boxes)
    BY <1>3 DEF Surjection
  <2> QED BY <1>1, <2>1, FS_Surjection
<1>5. IsFiniteSet(UNION boxes)
  BY <1>2, <1>3, <1>4, FS_UNION
<1> QED BY <1>1, <1>3, <1>5, FS_Subset, FS_CardinalityType DEF Queued

LEMMA CopySentIsCounted ==
    ASSUME TypeOK, NEW c \in Copies, DispatchJob(c), UNCHANGED running
    PROVE  /\ Cardinality(Queued') = Cardinality(Queued) + 1
           /\ Busy' = Busy
<1>0. PICK w : w = nextWorker
  OBVIOUS
<1>1. PICK n : n = Len(workerBox[w]) + 1
  OBVIOUS
<1>2. /\ w \in Workers /\ workerBox[w] \in Seq(Copies \cup {StopMsg})
      /\ workerBox'[w] = Append(workerBox[w], c)
      /\ \A v \in Workers \ {w} : workerBox'[v] = workerBox[v]
  BY <1>0 DEF TypeOK, DispatchJob
<1>3. /\ n \in Nat /\ n \notin 1..Len(workerBox[w])
      /\ 1..Len(workerBox'[w]) = 1..Len(workerBox[w]) \cup {n}
      /\ \A i \in 1..Len(workerBox[w]) : workerBox'[w][i] = workerBox[w][i]
      /\ workerBox'[w][n] = c
  BY <1>1, <1>2, AppendedBox
<1>4. JobsWaiting(w)' = JobsWaiting(w) \cup {n} /\ n \notin JobsWaiting(w)
  BY <1>3, CopiesAreNoStop DEF JobsWaiting
<1>5. \A v \in Workers \ {w} : JobsWaiting(v)' = JobsWaiting(v)
  BY <1>2 DEF JobsWaiting
<1>6. Queued' = Queued \cup {<<w, n>>} /\ <<w, n>> \notin Queued
  <2>1. \A p : p \in Queued <=> \E v \in Workers : \E i \in JobsWaiting(v) : p = <<v, i>>
    BY DEF Queued
  <2>2. \A p : p \in Queued' <=> \E v \in Workers : \E i \in JobsWaiting(v)' : p = <<v, i>>
    BY DEF Queued
  <2>3. \A p : p \in Queued' <=> p \in Queued \/ p = <<w, n>>
    BY <1>2, <1>4, <1>5, <2>1, <2>2
  <2>4. <<w, n>> \notin Queued
    BY <1>4, <2>1
  <2> QED BY <2>3, <2>4
<1> QED BY <1>6, PlacesAreFinite, FS_AddElement DEF Busy

\* What stands behind the message that is taken moves up.
LEMMA CopyTakenIsCounted ==
    ASSUME TypeOK, NEW w \in Workers, workerBox[w] # << >>,
           workerBox' = [workerBox EXCEPT ![w] = Tail(@)]
    PROVE  Cardinality(Queued') = IF Head(workerBox[w]) = StopMsg THEN Cardinality(Queued)
                                  ELSE Cardinality(Queued) - 1
<1> DEFINE box == workerBox[w]
           first == <<w, 1>>
           others == Queued \ {first}
           Was(p) == IF p[1] = w THEN <<w, p[2] + 1>> ELSE p
           was == [p \in Queued' |-> Was(p)]
<1>1. /\ Len(box) \in Nat \ {0} /\ Len(workerBox'[w]) = Len(box) - 1 /\ Head(box) = box[1]
      /\ \A i \in 1..Len(box) - 1 : workerBox'[w][i] = box[i + 1]
      /\ \A v \in Workers \ {w} : workerBox'[v] = workerBox[v]
  <2>1. workerBox \in [Workers -> Seq(Copies \cup {StopMsg})]
    BY DEF TypeOK
  <2>2. box \in Seq(Copies \cup {StopMsg}) /\ workerBox'[w] = Tail(box)
    BY <2>1
  <2> QED BY <2>1, <2>2, TakenBox
<1>2. \A v \in Workers \ {w} : JobsWaiting(v)' = JobsWaiting(v)
  BY <1>1 DEF JobsWaiting
<1>3. \A i \in JobsWaiting(w)' : i \in Nat /\ i + 1 \in JobsWaiting(w) /\ i + 1 # 1
  BY <1>1 DEF JobsWaiting
<1>4. \A i \in JobsWaiting(w) : i # 1 => i - 1 \in JobsWaiting(w)' /\ (i - 1) + 1 = i
  BY <1>1 DEF JobsWaiting
<1>5. \A p : p \in Queued <=> \E v \in Workers : \E i \in JobsWaiting(v) : p = <<v, i>>
  BY DEF Queued
<1>6. \A p : p \in Queued' <=> \E v \in Workers : \E i \in JobsWaiting(v)' : p = <<v, i>>
  BY DEF Queued
<1>7. ASSUME NEW p \in Queued' PROVE Was(p) \in others
  <2>0. PICK v \in Workers : \E i \in JobsWaiting(v)' : p = <<v, i>>
    BY <1>6
  <2>1. PICK i \in JobsWaiting(v)' : p = <<v, i>>
    BY <2>0
  <2>2. CASE v = w
    BY <1>3, <1>5, <2>1, <2>2
  <2>3. CASE v # w
    BY <1>2, <1>5, <2>1, <2>3
  <2> QED BY <2>2, <2>3
<1>8. ASSUME NEW p \in Queued', NEW q \in Queued', Was(p) = Was(q) PROVE p = q
  <2>0. /\ \E v \in Workers : \E i \in JobsWaiting(v)' : p = <<v, i>>
        /\ \E u \in Workers : \E k \in JobsWaiting(u)' : q = <<u, k>>
    BY <1>6
  <2>1. PICK v \in Workers : \E i \in JobsWaiting(v)' : p = <<v, i>>
    BY <2>0
  <2>2. PICK i \in JobsWaiting(v)' : p = <<v, i>>
    BY <2>1
  <2>3. PICK u \in Workers : \E k \in JobsWaiting(u)' : q = <<u, k>>
    BY <2>0
  <2>4. PICK k \in JobsWaiting(u)' : q = <<u, k>>
    BY <2>3
  <2>5. Was(p)[1] = v /\ Was(q)[1] = u
    BY <2>2, <2>4
  <2>6. u = v
    BY <1>8, <2>5
  <2>7. CASE v = w
    <3>1. i + 1 = k + 1 /\ i \in Nat /\ k \in Nat
      BY <1>3, <1>8, <2>2, <2>4, <2>6, <2>7
    <3> QED BY <2>2, <2>4, <2>6, <3>1
  <2>8. CASE v # w
    BY <1>8, <2>2, <2>4, <2>6, <2>8
  <2> QED BY <2>7, <2>8
<1>9. ASSUME NEW q \in others PROVE \E p \in Queued' : Was(p) = q
  <2>0. PICK v \in Workers : \E i \in JobsWaiting(v) : q = <<v, i>>
    BY <1>5
  <2>1. PICK i \in JobsWaiting(v) : q = <<v, i>>
    BY <2>0
  <2>2. CASE v = w
    <3>1. i # 1
      BY <2>1, <2>2
    <3>2. i - 1 \in JobsWaiting(w)' /\ (i - 1) + 1 = i
      BY <1>4, <2>2, <3>1
    <3>3. <<w, i - 1>> \in Queued' /\ Was(<<w, i - 1>>) = q
      BY <1>6, <2>1, <2>2, <3>2
    <3> QED BY <3>3
  <2>3. CASE v # w
    <3>1. q \in Queued' /\ Was(q) = q
      BY <1>2, <1>6, <2>1, <2>3
    <3> QED BY <3>1
  <2> QED BY <2>2, <2>3
<1> HIDE DEF Was, others
<1>10. was \in Injection(Queued', others) /\ was \in Surjection(Queued', others)
  BY <1>7, <1>8, <1>9 DEF Injection, Surjection, IsInjective
<1>11. IsFiniteSet(Queued) /\ IsFiniteSet(others) /\ Cardinality(Queued) \in Nat
       /\ Cardinality(others) = IF first \in Queued THEN Cardinality(Queued) - 1
                                                    ELSE Cardinality(Queued)
  BY PlacesAreFinite, FS_RemoveElement DEF others
<1>12. Cardinality(Queued') = Cardinality(others)
  BY <1>10, <1>11, FS_Injection
<1>13. first \in Queued <=> Head(workerBox[w]) # StopMsg
  <2>1. 1 \in JobsWaiting(w) <=> Head(workerBox[w]) # StopMsg
    BY <1>1 DEF JobsWaiting
  <2> QED BY <1>5, <2>1
<1> QED BY <1>11, <1>12, <1>13

\* The backpressure is real: PendingItems is the number of copies that wait in a
\* worker's mailbox, run, or are reported and not yet heard of, for every number
\* of workers and whatever fails, also while a job is with the workers twice.
THEOREM PendingCountsCopies == Spec => []PendingIsInFlight
<1>1. Init => PendingIsInFlight
  <2> SUFFICES ASSUME Init PROVE PendingItems = CopyCount
    BY DEF PendingIsInFlight
  <2>1. \A w \in Workers : JobsWaiting(w) = {}
    BY DEF Init, JobsWaiting
  <2>2. Queued = {} /\ Busy = {} /\ Len(inbox.results) = 0
    BY <2>1 DEF Init, Queued, Busy, EmptyInbox
  <2> QED BY <2>2, FS_EmptySet DEF Init, CopyCount
<1>2. TypeOK /\ TypeOK' /\ ShutdownInvariant /\ PendingIsInFlight /\ [Next]_vars
          => PendingIsInFlight'
  <2> SUFFICES ASSUME TypeOK, TypeOK', ShutdownInvariant, PendingIsInFlight, [Next]_vars,
                      step' # "stopped"
               PROVE  PendingItems' = CopyCount'
    BY DEF PendingIsInFlight
  <2>0. /\ IsFiniteSet(Queued) /\ Cardinality(Queued) \in Nat
        /\ IsFiniteSet(Busy) /\ Cardinality(Busy) \in Nat
        /\ Len(inbox.results) \in Nat /\ PendingItems \in Int
        /\ inbox.results \in Seq(ResultType)
        /\ workerBox \in [Workers -> Seq(Copies \cup {StopMsg})]
        /\ running \in [Workers -> Copies \cup {NoCopy}]
    <3>1. inbox.results \in Seq(ResultType)
      BY DEF TypeOK, InboxType, ResultType
    <3>2. Len(inbox.results) \in Nat
      BY <3>1
    <3> QED BY <3>1, <3>2, PlacesAreFinite DEF TypeOK
  <2>a. ASSUME step # "stopped" PROVE PendingItems = CopyCount
    BY <2>a DEF PendingIsInFlight
  <2>b. ASSUME step # "stopped", UNCHANGED <<PendingItems, workers>>,
               inbox'.results = inbox.results
        PROVE  PendingItems' = CopyCount'
    <3>1. Queued' = Queued /\ Busy' = Busy
      BY <2>b DEF workers, Queued, Busy, JobsWaiting
    <3> QED BY <2>a, <2>b, <3>1 DEF CopyCount
  <2>1. CASE ShellStep
    <3>1. UNCHANGED <<coordinator, workers>> /\ inbox'.results = inbox.results
      BY <2>1 DEF ShellStep, Pulse, ShutDownQueue, SendPoisonPill, GiveUp, TypeOK, InboxType
    <3> QED BY <2>b, <3>1 DEF coordinator
  <2>2. CASE \E kind \in SweepKinds : Sweep(kind) \/ SweepSaturated(kind) \/ IgnoreSweep(kind)
    <3>1. /\ UNCHANGED <<PendingItems, workers>> /\ inbox'.results = inbox.results
          /\ step # "stopped"
      BY <2>2 DEF Sweep, SweepSaturated, IgnoreSweep, TakeSweep, Receiving, coordinator, TypeOK,
                  InboxType, SweepKinds
    <3> QED BY <2>b, <3>1
  <2>3. CASE AskTimesOut
    BY <2>3, <2>b DEF AskTimesOut
  <2>4. ASSUME NEW c \in batch, Dispatch(c) PROVE PendingItems' = CopyCount'
    <3>1. c \in Copies /\ UNCHANGED <<inbox, running>> /\ step # "stopped"
      BY <2>4 DEF Dispatch, TypeOK
    <3>2. CASE c.job \in Unresolvable
      BY <2>4, <2>b, <3>1, <3>2 DEF Dispatch, FailMissingType, workers
    <3>3. CASE c.job \notin Unresolvable
      <4>1. DispatchJob(c) /\ PendingItems' = PendingItems + 1
        BY <2>4, <3>3 DEF Dispatch, DispatchJob
      <4>2. Cardinality(Queued') = Cardinality(Queued) + 1 /\ Busy' = Busy
        BY <3>1, <4>1, CopySentIsCounted
      <4> QED BY <2>0, <2>a, <3>1, <4>1, <4>2 DEF CopyCount
    <3> QED BY <3>2, <3>3
  <2>5. ASSUME NEW i \in 1..Len(inbox.results), ReceiveResult(i) PROVE PendingItems' = CopyCount'
    <3>1. /\ UNCHANGED workers /\ step # "stopped" /\ PendingItems' = PendingItems - 1
          /\ inbox'.results = RemoveAt(inbox.results, i)
      BY <2>5 DEF ReceiveResult, Receiving, TypeOK, InboxType
    <3>2. Len(inbox'.results) = Len(inbox.results) - 1
      BY <2>0, <3>1, RemovedResult
    <3>3. Queued' = Queued /\ Busy' = Busy
      BY <3>1 DEF workers, Queued, Busy, JobsWaiting
    <3> QED BY <2>0, <2>a, <3>1, <3>2, <3>3 DEF CopyCount
  <2>6. CASE ReceiveShutDownQueues
    <3>1. /\ UNCHANGED <<PendingItems, running>> /\ inbox'.results = inbox.results
          /\ step # "stopped" /\ workerBox' = [w \in Workers |-> WithStop(workerBox[w])]
      BY <2>6 DEF ReceiveShutDownQueues, TypeOK, InboxType
    <3>2. ASSUME NEW w \in Workers PROVE JobsWaiting(w)' = JobsWaiting(w)
      <4>1. workerBox[w] \in Seq(Copies \cup {StopMsg})
            /\ workerBox'[w] = Append(workerBox[w], StopMsg)
        BY <2>0, <3>1 DEF WithStop
      <4> QED BY <4>1, AppendedBox DEF JobsWaiting
    <3>3. Queued' = Queued /\ Busy' = Busy
      BY <3>1, <3>2 DEF Queued, Busy
    <3> QED BY <2>a, <3>1, <3>3 DEF CopyCount
  <2>7. CASE ReceiveQueueShutDown
    <3>1. /\ UNCHANGED <<PendingItems, workers>> /\ inbox'.results = inbox.results
          /\ step # "stopped"
      BY <2>7 DEF ReceiveQueueShutDown, Receiving, TypeOK, InboxType
    <3> QED BY <2>b, <3>1
  <2>8. CASE ReceivePoisonPill
    BY <2>8 DEF ReceivePoisonPill
  <2>9. CASE LayerStep
    <3>1. UNCHANGED <<PendingItems, workers, inbox>> /\ layerBox # << >>
      BY <2>9 DEF LayerStep, LayerWrites, LayerDropsWrite, LayerAnswersGetJobs,
                  LayerLosesGetJobs, LayerFlushes, LayerReads, coordinator
    <3> QED BY <2>b, <3>1 DEF ShutdownInvariant, StoppedIsEmpty
  <2>10. ASSUME NEW j \in Jobs, LeaseExpires(j) PROVE PendingItems' = CopyCount'
    BY <2>10, <2>b DEF LeaseExpires, coordinator
  <2>11. ASSUME NEW w \in Workers, WorkerStep(w) PROVE PendingItems' = CopyCount'
    <3>0. UNCHANGED <<step, PendingItems>> /\ step # "stopped"
      BY <2>11 DEF WorkerStep, StartJob, FinishJob, StopWorker, coordinator
    <3>1. CASE StartJob(w)
      <4>1. /\ UNCHANGED inbox /\ running[w] = NoCopy /\ workerBox[w] # << >>
            /\ Head(workerBox[w]) # StopMsg
            /\ workerBox' = [workerBox EXCEPT ![w] = Tail(@)]
            /\ running' = [running EXCEPT ![w] = Head(workerBox[w])]
        BY <3>1 DEF StartJob, WorkerReads
      <4>2. Cardinality(Queued') = Cardinality(Queued) - 1
        BY <4>1, CopyTakenIsCounted
      <4>3. Busy' = Busy \cup {w} /\ w \notin Busy
        BY <2>0, <4>1, CopiesAreNoStop DEF Busy
      <4>4. Cardinality(Busy') = Cardinality(Busy) + 1
        BY <2>0, <4>3, FS_AddElement
      <4> QED BY <2>0, <2>a, <3>0, <4>1, <4>2, <4>4 DEF CopyCount
    <3>2. CASE FinishJob(w)
      <4>1. /\ UNCHANGED workerBox /\ running[w] # NoCopy
            /\ running' = [running EXCEPT ![w] = NoCopy]
            /\ \E ok \in BOOLEAN : inbox'.results = Append(inbox.results, Result(running[w], ok))
        BY <3>0, <3>2 DEF FinishJob, TypeOK, InboxType
      <4>2. Len(inbox'.results) = Len(inbox.results) + 1
        BY <2>0, <4>1, AppendedBox
      <4>3. Busy' = Busy \ {w} /\ w \in Busy /\ Queued' = Queued
        BY <2>0, <4>1 DEF Busy, Queued, JobsWaiting
      <4>4. Cardinality(Busy') = Cardinality(Busy) - 1
        BY <2>0, <4>3, FS_RemoveElement
      <4> QED BY <2>0, <2>a, <3>0, <4>2, <4>3, <4>4 DEF CopyCount
    <3>3. CASE StopWorker(w)
      <4>1. /\ UNCHANGED running /\ workerBox[w] # << >> /\ Head(workerBox[w]) = StopMsg
            /\ workerBox' = [workerBox EXCEPT ![w] = Tail(@)]
            /\ inbox'.results = inbox.results
        BY <3>3 DEF StopWorker, WorkerReads, TypeOK, InboxType
      <4>2. Cardinality(Queued') = Cardinality(Queued)
        BY <4>1, CopyTakenIsCounted
      <4>3. Busy' = Busy
        BY <4>1 DEF Busy
      <4> QED BY <2>a, <3>0, <4>1, <4>2, <4>3 DEF CopyCount
    <3> QED BY <2>11, <3>1, <3>2, <3>3 DEF WorkerStep
  <2>12. CASE UNCHANGED vars
    <3>1. UNCHANGED <<step, PendingItems, workers, inbox>>
      BY <2>12 DEF vars, coordinator
    <3> QED BY <2>b, <3>1
  <2> QED BY <2>1, <2>2, <2>3, <2>4, <2>5, <2>6, <2>7, <2>8, <2>9, <2>10, <2>11, <2>12
          DEF Next, CoordinatorStep
<1> QED BY <1>1, <1>2, TypeCorrect, ShutdownInvariance, PTL DEF Spec

=============================================================================
