------------------------ MODULE JobQueueCoordinator ------------------------
(***************************************************************************)
(* One queue of a queue-processing node: the JobQueueCoordinator actor, its *)
(* JobQueueLayerActor, its pool of JobWorkerActors, and the shell that      *)
(* pulses the queue and shuts it down.                                      *)
(*                                                                          *)
(* The layer actor and the workers have FIFO mailboxes.  The coordinator    *)
(* has the ShutdownPriorityMailbox, an UnboundedPriorityMailbox: it hands   *)
(* out a message of the best priority, in no promised order among equals,   *)
(* so its mailbox is a bag here.  The job store is seen through what the    *)
(* writes make of it; module SqlJobQueue has its statements and its clock.  *)
(***************************************************************************)
EXTENDS Integers, Sequences, FiniteSets, SequencesExt

CONSTANTS
    Jobs,             \* the jobs of this queue
    NoJob,            \* an idle worker
    WorkerCount,      \* SetJobQueueConfiguration.NumWorkers
    MaxRetries,       \* per job: RetryParameters.MaxRetries
    Unresolvable,     \* jobs that come back with TypeExecutedOn = null
    AggressiveSweep,  \* SetJobQueueConfiguration.AggressiveSweep
    MaxSweeps,        \* bound: unread sweeps in the mailbox when a pulse comes
    MaxAsks,          \* bound: unread GetJobs messages in the layer actor's
    Faults            \* the faults that may happen, see FaultKinds

\* "lostFetch":      the store throws in GetJobs, or the 30 s Ask times out
\* "dropInProgress": the store throws in MarkJobInProgress, and the layer actor
\*                   drops the write
\* "dropOutcome":    the same for the Mark* call of an outcome
\* "giveUp":         the shell's shutdown Ask times out
FaultKinds == {"lostFetch", "dropInProgress", "dropOutcome", "giveUp"}

\* A fetched job, with the RetryCount that it had in the store.
CopyOf(j, n) == [job |-> j, retries |-> n]

NoCopy == CopyOf(NoJob, 0)         \* what an idle worker executes

StopMsg == NoCopy                  \* in a worker's mailbox, behind its jobs

ASSUME CoordinatorAssumption ==
    /\ IsFiniteSet(Jobs)
    /\ NoJob \notin Jobs
    /\ WorkerCount \in Nat \ {0}
    /\ MaxRetries \in [Jobs -> Nat]
    /\ Unresolvable \subseteq Jobs
    /\ AggressiveSweep \in BOOLEAN
    /\ MaxSweeps \in Nat
    /\ MaxAsks \in Nat
    /\ Faults \subseteq FaultKinds

Workers == 1..WorkerCount

VARIABLES
    step,          \* where the coordinator is: between messages, or blocked
    batch,         \* fetched copies that HandleSweep's loop has still to send out
    PendingItems, ShuttingDown, ShutdownCount,
    inbox,         \* the coordinator's mailbox, by kind of message
    layerBox,      \* the layer actor's mailbox
    workerBox,     \* the workers' mailboxes
    running,       \* the copy each worker executes
    nextWorker,    \* where the RoundRobinPool sends the next job
    store,         \* the queue table, by job
    shell          \* the shell's ShutDownQueue call

coordinator == <<step, batch, PendingItems, ShuttingDown, ShutdownCount, nextWorker>>
workers == <<workerBox, running>>
vars == <<coordinator, inbox, layerBox, workers, store, shell>>

----------------------------------------------------------------------------
(* Messages *)

Msg(op, j) == [op |-> op, job |-> j]
GetJobsMsg == Msg("GetJobs", NoJob)
FlushMsg == Msg("ShutDownQueues", NoJob)

Result(c, ok) == [copy |-> c, ok |-> ok]   \* JobSuceeded or JobFailed

EmptyInbox == [JobSweep |-> 0, SilentRetrySweep |-> 0, QueueShutDown |-> 0,
               results |-> << >>, ShutDownQueues |-> FALSE, PoisonPill |-> FALSE]

\* The coordinator takes its next message: none is left of priority 0, which
\* PriorityGenerator gives to ShutDownQueues alone.
Receiving == step = "idle" /\ ~inbox.ShutDownQueues

----------------------------------------------------------------------------
(* The copies of jobs that are on their way through the workers.  A job whose *)
(* InProgress write is dropped may be fetched again, and be there twice.      *)

JobsWaiting(w) == {i \in 1..Len(workerBox[w]) : workerBox[w][i] # StopMsg}

Queued == UNION {{w} \X JobsWaiting(w) : w \in Workers}

Busy == {w \in Workers : running[w] # NoCopy}

Flying == {workerBox[p[1]][p[2]] : p \in Queued} \cup {running[w] : w \in Busy}
          \cup {inbox.results[i].copy : i \in 1..Len(inbox.results)}

InFlight == {c.job : c \in Flying}

----------------------------------------------------------------------------
(* The shell: pulses, ShutDownQueue *)

Pulse ==
    /\ shell = "open"
    /\ inbox.JobSweep + inbox.SilentRetrySweep < MaxSweeps
    /\ inbox' = [inbox EXCEPT !.JobSweep = @ + 1]
    /\ UNCHANGED <<coordinator, layerBox, workers, store, shell>>

\* Cancels the pulses and asks.
ShutDownQueue ==
    /\ shell = "open"
    /\ shell' = "asked"
    /\ inbox' = [inbox EXCEPT !.ShutDownQueues = TRUE]
    /\ UNCHANGED <<coordinator, layerBox, workers, store>>

\* The answer came in time; ShutDownQueue goes on to the PoisonPill.
SendPoisonPill ==
    /\ shell = "answered"
    /\ shell' = "closed"
    /\ inbox' = [inbox EXCEPT !.PoisonPill = TRUE]
    /\ UNCHANGED <<coordinator, layerBox, workers, store>>

\* The Ask throws: its finally blocks forget the queue, no PoisonPill is sent.
GiveUp ==
    /\ "giveUp" \in Faults
    /\ shell = "asked"
    /\ shell' = "gaveUp"
    /\ UNCHANGED <<coordinator, inbox, layerBox, workers, store>>

----------------------------------------------------------------------------
(* JobQueueCoordinator.Receive *)

SweepKinds == {"JobSweep", "SilentRetrySweep"}

\* Mutant: Readme.MD's "when there are more numWorkers*2 pending jobs".
SaturatedBeyond == PendingItems > WorkerCount * 2

Saturated == PendingItems >= WorkerCount * 2

TakeSweep(kind) == Receiving /\ inbox[kind] > 0

UnreadAsks == Cardinality({i \in 1..Len(layerBox) : layerBox[i] = GetJobsMsg})

\* HandleSweep below saturation: Ask the layer actor and block.
Sweep(kind) ==
    /\ TakeSweep(kind)
    /\ ~ShuttingDown
    /\ ~Saturated
    /\ UnreadAsks < MaxAsks
    /\ inbox' = [inbox EXCEPT ![kind] = @ - 1]
    /\ layerBox' = Append(layerBox, GetJobsMsg)
    /\ step' = "asking"
    /\ UNCHANGED <<batch, PendingItems, ShuttingDown, ShutdownCount, nextWorker,
                   workers, store, shell>>

\* HandleSweep at saturation: an aggressive queue sends itself another sweep.
SweepSaturated(kind) ==
    /\ TakeSweep(kind)
    /\ ~ShuttingDown
    /\ Saturated
    /\ LET taken == [inbox EXCEPT ![kind] = @ - 1]
       IN  inbox' = IF AggressiveSweep
                      THEN [taken EXCEPT !.SilentRetrySweep = @ + 1]
                      ELSE taken
    /\ UNCHANGED <<coordinator, layerBox, workers, store, shell>>

\* While shutting down a sweep is an unhandled custom message.
IgnoreSweep(kind) ==
    /\ TakeSweep(kind)
    /\ ShuttingDown
    /\ inbox' = [inbox EXCEPT ![kind] = @ - 1]
    /\ UNCHANGED <<coordinator, layerBox, workers, store, shell>>

\* GetJobs did not answer within 30 s; the queue waits for another sweep.
AskTimesOut ==
    /\ "lostFetch" \in Faults
    /\ step = "asking"
    /\ step' = "idle"
    /\ UNCHANGED <<batch, PendingItems, ShuttingDown, ShutdownCount, nextWorker,
                   inbox, layerBox, workers, store, shell>>

\* Mutant: the pool never wraps round.
NextWorkerUnwrapped(w) == w + 1

\* RoundRobinPool(WorkerCount).
NextWorker(w) == (w % WorkerCount) + 1

\* Mutant: the InProgress write is not sent.
DispatchJobUnmarked(c) ==
    /\ workerBox' = [workerBox EXCEPT ![nextWorker] = Append(@, c)]
    /\ nextWorker' = NextWorker(nextWorker)
    /\ PendingItems' = PendingItems + 1
    /\ UNCHANGED layerBox

\* Mutant: pending jobs are counted by their id.
DispatchJobOncePerId(c) ==
    /\ workerBox' = [workerBox EXCEPT ![nextWorker] = Append(@, c)]
    /\ nextWorker' = NextWorker(nextWorker)
    /\ layerBox' = Append(layerBox, Msg("InProgress", c.job))
    /\ PendingItems' = IF c.job \in InFlight THEN PendingItems ELSE PendingItems + 1

\* One round of HandleSweep's loop over the fetched jobs.
DispatchJob(c) ==
    /\ workerBox' = [workerBox EXCEPT ![nextWorker] = Append(@, c)]
    /\ nextWorker' = NextWorker(nextWorker)
    /\ layerBox' = Append(layerBox, Msg("InProgress", c.job))
    /\ PendingItems' = PendingItems + 1

\* Mutant: the job without a type is counted as pending.
FailMissingTypeCounted(c) ==
    /\ layerBox' = Append(layerBox, Msg("Failed", c.job))
    /\ PendingItems' = PendingItems + 1
    /\ UNCHANGED <<workerBox, nextWorker>>

FailMissingType(c) ==
    /\ layerBox' = Append(layerBox, Msg("Failed", c.job))
    /\ UNCHANGED <<workerBox, nextWorker, PendingItems>>

Dispatch(c) ==
    /\ step = "dispatching"
    /\ c \in batch
    /\ IF c.job \in Unresolvable THEN FailMissingType(c) ELSE DispatchJob(c)
    /\ batch' = batch \ {c}
    /\ step' = IF batch' = {} THEN "idle" ELSE "dispatching"
    /\ UNCHANGED <<ShuttingDown, ShutdownCount, inbox, running, store, shell>>

\* JobSuceeded, or JobFailed with or without a retry left.
RetriesExhausted(c) == MaxRetries[c.job] <= c.retries

OutcomeOp(r) ==
    IF r.ok THEN "Success"
            ELSE IF RetriesExhausted(r.copy) THEN "Failed" ELSE "Retry"

ReceiveResult(i) ==
    /\ Receiving
    /\ i \in 1..Len(inbox.results)
    /\ LET r == inbox.results[i]
       IN  layerBox' = Append(layerBox, Msg(OutcomeOp(r), r.copy.job))
    /\ inbox' = [inbox EXCEPT !.results = RemoveAt(@, i)]
    /\ PendingItems' = PendingItems - 1
    /\ UNCHANGED <<step, batch, ShuttingDown, ShutdownCount, nextWorker, workers,
                   store, shell>>

\* Mutant: the workers have the priority mailbox too.
WithStopFirst(box) == <<StopMsg>> \o box

\* Broadcast(ShutDownQueues), to one worker's FIFO mailbox.
WithStop(box) == Append(box, StopMsg)

ReceiveShutDownQueues ==
    /\ step = "idle"
    /\ inbox.ShutDownQueues
    /\ inbox' = [inbox EXCEPT !.ShutDownQueues = FALSE]
    /\ ShuttingDown' = TRUE
    /\ workerBox' = [w \in Workers |-> WithStop(workerBox[w])]
    /\ UNCHANGED <<step, batch, PendingItems, ShutdownCount, nextWorker, layerBox,
                   running, store, shell>>

\* Mutant: the count is compared before it is raised.
AllStoppedBefore(n) == n - 1 = WorkerCount

AllStopped(n) == n = WorkerCount

\* A worker has stopped; the last one makes the coordinator flush the layer
\* actor, blocking without a timeout.
ReceiveQueueShutDown ==
    /\ Receiving
    /\ inbox.QueueShutDown > 0
    /\ inbox' = [inbox EXCEPT !.QueueShutDown = @ - 1]
    /\ ShutdownCount' = ShutdownCount + 1
    /\ IF AllStopped(ShutdownCount')
         THEN step' = "flushing" /\ layerBox' = Append(layerBox, FlushMsg)
         ELSE UNCHANGED <<step, layerBox>>
    /\ UNCHANGED <<batch, PendingItems, ShuttingDown, nextWorker, workers,
                   store, shell>>

\* The coordinator stops and its children with it; what is still in the
\* mailboxes goes to dead letters.
ReceivePoisonPill ==
    /\ Receiving
    /\ inbox.PoisonPill
    /\ step' = "stopped"
    /\ inbox' = EmptyInbox
    /\ layerBox' = << >>
    /\ workerBox' = [w \in Workers |-> << >>]
    /\ UNCHANGED <<batch, PendingItems, ShuttingDown, ShutdownCount, nextWorker,
                   running, store, shell>>

----------------------------------------------------------------------------
(* JobQueueLayerActor.Receive: the first message of its mailbox *)

LayerReads(op) == layerBox # << >> /\ Head(layerBox).op = op

WriteOps == {"InProgress", "Success", "Failed", "Retry"}

\* What the Mark* statement makes of the row.
Written(op, r) ==
    CASE op = "InProgress" -> [r EXCEPT !.status = "InProgress", !.leased = FALSE]
      [] op = "Success" -> [r EXCEPT !.status = "Processed", !.leased = FALSE]
      [] op = "Failed" -> [r EXCEPT !.status = "Failed", !.leased = FALSE]
      [] op = "Retry" -> [r EXCEPT !.status = "Retry", !.leased = FALSE,
                                   !.retries = @ + 1]

LayerWrites(op) ==
    /\ LayerReads(op)
    /\ op \in WriteOps
    /\ store' = [store EXCEPT ![Head(layerBox).job] = Written(op, @)]
    /\ layerBox' = Tail(layerBox)
    /\ UNCHANGED <<coordinator, inbox, workers, shell>>

\* The store throws; the layer actor catches it and goes on to the next message.
LayerDropsWrite ==
    /\ \E op \in WriteOps :
           /\ LayerReads(op)
           /\ (IF op = "InProgress" THEN "dropInProgress" ELSE "dropOutcome") \in Faults
    /\ layerBox' = Tail(layerBox)
    /\ UNCHANGED <<coordinator, inbox, workers, store, shell>>

\* Mutant: jobs InProgress are fetched again.
FetchableInProgress(j) ==
    store[j].status \in {"New", "Retry", "InProgress"} /\ ~store[j].leased

Fetchable(j) ==
    /\ ~store[j].leased
    /\ \/ store[j].status = "New"
       \/ store[j].status = "Retry" /\ MaxRetries[j] >= store[j].retries

Claimed(S) == [j \in Jobs |-> [store[j] EXCEPT !.leased = @ \/ j \in S]]

\* The batches GetJobs may return: of the fetchable jobs those that are due.
Batches == {S \in SUBSET {j \in Jobs : Fetchable(j)} : Cardinality(S) <= WorkerCount}

\* The coordinator still waits for the answer to the GetJobs being read: it
\* asks again only when it has given up on the Ask before.
AskIsLive ==
    /\ step = "asking"
    /\ \A i \in 2..Len(layerBox) : layerBox[i].op # "GetJobs"

LayerAnswersGetJobs ==
    /\ LayerReads("GetJobs")
    /\ AskIsLive
    /\ \E S \in Batches :
           /\ store' = Claimed(S)
           /\ batch' = {CopyOf(j, store[j].retries) : j \in S}
           /\ step' = IF S = {} THEN "idle" ELSE "dispatching"
    /\ layerBox' = Tail(layerBox)
    /\ UNCHANGED <<PendingItems, ShuttingDown, ShutdownCount, nextWorker, inbox,
                   workers, shell>>

\* GetJobs throws, before or after the claim, or nobody waits for its answer:
\* the jobs it claimed come back when the lease runs out.
LayerLosesGetJobs ==
    /\ LayerReads("GetJobs")
    /\ "lostFetch" \in Faults
    /\ \E S \in Batches : store' = Claimed(S)
    /\ layerBox' = Tail(layerBox)
    /\ UNCHANGED <<coordinator, inbox, workers, shell>>

\* All writes before it are done; the coordinator unblocks and answers the
\* shell, if that still waits.
LayerFlushes ==
    /\ LayerReads("ShutDownQueues")
    /\ layerBox' = Tail(layerBox)
    /\ step' = "idle"
    /\ shell' = IF shell = "asked" THEN "answered" ELSE shell
    /\ UNCHANGED <<batch, PendingItems, ShuttingDown, ShutdownCount, nextWorker,
                   inbox, workers, store>>

\* A lease runs out, by time alone: also that of a job which waits or runs.
LeaseExpires(j) ==
    /\ store[j].leased
    /\ store' = [store EXCEPT ![j].leased = FALSE]
    /\ UNCHANGED <<coordinator, inbox, layerBox, workers, shell>>

----------------------------------------------------------------------------
(* JobWorkerActor.Receive *)

WorkerReads(w) == running[w] = NoCopy /\ workerBox[w] # << >>

StartJob(w) ==
    /\ WorkerReads(w)
    /\ Head(workerBox[w]) # StopMsg
    /\ running' = [running EXCEPT ![w] = Head(workerBox[w])]
    /\ workerBox' = [workerBox EXCEPT ![w] = Tail(@)]
    /\ UNCHANGED <<coordinator, inbox, layerBox, store, shell>>

\* ExecuteJob returns or throws. A stopped coordinator hears nothing of it.
FinishJob(w) ==
    /\ running[w] # NoCopy
    /\ \E ok \in BOOLEAN :
           inbox' = IF step = "stopped" THEN inbox
                    ELSE [inbox EXCEPT !.results = Append(@, Result(running[w], ok))]
    /\ running' = [running EXCEPT ![w] = NoCopy]
    /\ UNCHANGED <<coordinator, layerBox, workerBox, store, shell>>

StopWorker(w) ==
    /\ WorkerReads(w)
    /\ Head(workerBox[w]) = StopMsg
    /\ workerBox' = [workerBox EXCEPT ![w] = Tail(@)]
    /\ inbox' = [inbox EXCEPT !.QueueShutDown = @ + 1]
    /\ UNCHANGED <<coordinator, layerBox, running, store, shell>>

----------------------------------------------------------------------------

Init ==
    /\ step = "idle"
    /\ batch = {}
    /\ PendingItems = 0
    /\ ShuttingDown = FALSE
    /\ ShutdownCount = 0
    /\ inbox = EmptyInbox
    /\ layerBox = << >>
    /\ workerBox = [w \in Workers |-> << >>]
    /\ running = [w \in Workers |-> NoCopy]
    /\ nextWorker = 1
    /\ store = [j \in Jobs |-> [status |-> "New", retries |-> 0, leased |-> FALSE]]
    /\ shell = "open"

ShellStep == Pulse \/ ShutDownQueue \/ SendPoisonPill \/ GiveUp

CoordinatorStep ==
    \/ \E kind \in SweepKinds : Sweep(kind) \/ SweepSaturated(kind) \/ IgnoreSweep(kind)
    \/ AskTimesOut
    \/ \E c \in batch : Dispatch(c)
    \/ \E i \in 1..Len(inbox.results) : ReceiveResult(i)
    \/ ReceiveShutDownQueues \/ ReceiveQueueShutDown \/ ReceivePoisonPill

LayerStep ==
    \/ \E op \in WriteOps : LayerWrites(op)
    \/ LayerDropsWrite \/ LayerAnswersGetJobs \/ LayerLosesGetJobs \/ LayerFlushes

WorkerStep(w) == StartJob(w) \/ FinishJob(w) \/ StopWorker(w)

Next ==
    \/ ShellStep
    \/ CoordinatorStep
    \/ LayerStep
    \/ \E j \in Jobs : LeaseExpires(j)
    \/ \E w \in Workers : WorkerStep(w)

Spec == Init /\ [][Next]_vars

\* Actors are scheduled fairly, each kind of message is received in the end,
\* and jobs end.  Nothing is said of pulses, faults and leases, nor of when the
\* shell is told to shut the queue down.
FairSpec ==
    /\ Spec
    /\ \A kind \in SweepKinds : WF_vars(Sweep(kind)) /\ WF_vars(SweepSaturated(kind))
                               /\ WF_vars(IgnoreSweep(kind))
    /\ WF_vars(AskTimesOut)
    /\ WF_vars(\E c \in batch : Dispatch(c))
    /\ WF_vars(\E i \in 1..Len(inbox.results) : ReceiveResult(i))
    /\ WF_vars(ReceiveShutDownQueues)
    /\ WF_vars(ReceiveQueueShutDown)
    /\ WF_vars(LayerStep)
    /\ \A w \in Workers : WF_vars(WorkerStep(w))

----------------------------------------------------------------------------
(* Properties *)

Row == [status : {"New", "InProgress", "Retry", "Processed", "Failed"},
        retries : Nat, leased : BOOLEAN]

Copies == [job : Jobs, retries : Nat]

InboxType == [JobSweep : Nat, SilentRetrySweep : Nat, QueueShutDown : Nat,
              results : Seq([copy : Copies, ok : BOOLEAN]),
              ShutDownQueues : BOOLEAN, PoisonPill : BOOLEAN]

LayerMsg == [op : WriteOps, job : Jobs] \cup {GetJobsMsg, FlushMsg}

\* Types; the worker the pool serves next is one it has.
TypeOK ==
    /\ step \in {"idle", "asking", "dispatching", "flushing", "stopped"}
    /\ batch \subseteq Copies
    /\ PendingItems \in Int
    /\ ShuttingDown \in BOOLEAN
    /\ ShutdownCount \in Nat
    /\ inbox \in InboxType
    /\ layerBox \in Seq(LayerMsg)
    /\ workerBox \in [Workers -> Seq(Copies \cup {StopMsg})]
    /\ running \in [Workers -> Copies \cup {NoCopy}]
    /\ nextWorker \in Workers
    /\ store \in [Jobs -> Row]
    /\ shell \in {"open", "asked", "answered", "closed", "gaveUp"}

\* Readme.MD: "You could theoretically wind up with up to (numWorkers*3)-1
\* queued up before it stops fetching."
Backpressure == PendingItems <= 3 * WorkerCount - 1

CopyCount == Cardinality(Queued) + Cardinality(Busy) + Len(inbox.results)

\* PendingItems counts exactly the copies of jobs in the workers' mailboxes, in
\* execution, and reported but not yet received: the backpressure the
\* coordinator computes from it is real, whatever fails.
PendingIsInFlight == step # "stopped" => PendingItems = CopyCount

\* Those copies are of as many different jobs: nothing that waits, runs or has
\* run is fetched again, although its lease may run out at any time and the
\* writes that would tell the store are still under way (unless they fail).
NoJobTwice == CopyCount = Cardinality(InFlight)

\* Once the asynchronous writes are drained the store is right about who is in
\* progress: the jobs with the workers, and no others (unless writes fail).
DrainedStoreIsCurrent ==
    step = "idle" /\ layerBox = << >> =>
        {j \in Jobs : store[j].status = "InProgress"} = InFlight

Lifecycle == {<<"New", "InProgress">>, <<"New", "Failed">>, <<"Retry", "InProgress">>,
              <<"InProgress", "Processed">>, <<"InProgress", "Failed">>,
              <<"InProgress", "Retry">>}

\* Although MarkJobInProgress is sent after the job has gone to its worker, the
\* store never sees an outcome before it, nor two outcomes of one attempt.
OutcomeFollowsInProgress ==
    [][\A j \in Jobs : store'[j].status # store[j].status =>
           <<store[j].status, store'[j].status>> \in Lifecycle]_vars

\* ShutDownQueue's doc: only "after Timeout has passed, there are no guarantees
\* whether jobs are still running".  When the answer comes in time none runs,
\* none waits in a worker's mailbox, and none is about to be sent.
QuietAfterAnswer ==
    shell \in {"answered", "closed"} => Busy = {} /\ Queued = {} /\ batch = {}

\* The same doc: only after the timeout is there no guarantee "whether a
\* completed job will be marked as successful".  So when the answer came in time
\* and the coordinator has stopped, no job is left InProgress.
CompletedJobsMarked ==
    step = "stopped" => \A j \in Jobs : store[j].status # "InProgress"

\* ShutDownQueue is answered, if the shell waits: the sweeps die out, every
\* worker reaches the end of its mailbox, and the flush cannot block for ever.
ShutdownCompletes == shell = "asked" ~> shell # "asked"

============================================================================
