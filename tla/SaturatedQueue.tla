--------------------------- MODULE SaturatedQueue ---------------------------
(***************************************************************************)
(* A coordinator with more work than workers, and the mailbox as the heap   *)
(* it is.  JobQueueCoordinator takes the mailbox to be a bag that delays no *)
(* message for ever; here the order in which the heap hands messages out    *)
(* decides whether results, sweeps and the end of a shutdown get through.   *)
(* Jobs are counted, not named, and the store always has more of them.      *)
(***************************************************************************)
EXTENDS Naturals, Sequences, FiniteSets

CONSTANTS
    WorkerCount,
    AggressiveSweeps, \* the values StartJobQueue is given for aggressiveSweep
    MaxSweeps         \* bound: sweeps the coordinator has yet to deal with

ASSUME SaturationAssumption ==
    /\ WorkerCount \in Nat \ {0}
    /\ AggressiveSweeps \subseteq BOOLEAN
    /\ MaxSweeps \in Nat \ {0}

VARIABLES
    aggressiveSweep,  \* set once, by the configuration
    heap,             \* the coordinator's mailbox, by kind of message
    step,             \* between messages, in a GetJobs Ask, or in a saturated sweep
    PendingItems, ShuttingDown, ShutdownCount,
    atWork,           \* jobs in the workers' mailboxes or running
    stopped,          \* workers that have read their ShutDownQueues
    shell             \* the shell's ShutDownQueue call

vars == <<aggressiveSweep, heap, step, PendingItems, ShuttingDown, ShutdownCount,
          atWork, stopped, shell>>

Kinds == {"JobSweep", "SilentRetrySweep", "Result", "QueueShutDown", "ShutDownQueues"}

SweepKinds == {"JobSweep", "SilentRetrySweep"}

Mailbox == INSTANCE ShutdownPriorityMailbox WITH
               Messages <- Kinds, Shutdowns <- {"ShutDownQueues"}

Unread(kinds) == Cardinality({i \in DOMAIN heap : heap[i] \in kinds})

Arrive(kind) == heap' = Mailbox!Enqueue(heap, kind)

----------------------------------------------------------------------------
(* The shell *)

\* Pulses are seconds apart.  They pile up behind a coordinator that is
\* blocked in an Ask, else the one before has been read.
Pulse ==
    /\ shell = "open"
    /\ Unread(SweepKinds) < MaxSweeps
    /\ step = "asking" \/ Unread({"JobSweep"}) = 0
    /\ Arrive("JobSweep")
    /\ UNCHANGED <<aggressiveSweep, step, PendingItems, ShuttingDown, ShutdownCount, atWork, stopped, shell>>

ShutDownQueue ==
    /\ shell = "open"
    /\ shell' = "asked"
    /\ Arrive("ShutDownQueues")
    /\ UNCHANGED <<aggressiveSweep, step, PendingItems, ShuttingDown, ShutdownCount, atWork, stopped>>

----------------------------------------------------------------------------
(* The coordinator *)

Saturated == PendingItems >= WorkerCount * 2

Receives(kinds) ==
    /\ step = "idle"
    /\ heap # << >>
    /\ Mailbox!Front(heap) \in kinds
    /\ heap' = Mailbox!Dequeue(heap)

\* Mutant: every queue sends itself saturated sweeps again.
AfterSaturatedSweepAlways == "resweep"

AfterSaturatedSweep == IF aggressiveSweep THEN "resweep" ELSE "idle"

ReceiveSweep ==
    /\ Receives(SweepKinds)
    /\ step' = CASE ShuttingDown -> "idle"
                 [] ~ShuttingDown /\ Saturated -> AfterSaturatedSweep
                 [] OTHER -> "asking"
    /\ UNCHANGED <<aggressiveSweep, PendingItems, ShuttingDown, ShutdownCount, atWork, stopped, shell>>

\* GetJobs answers and the jobs go to the workers; or it fails, and none do.
DispatchJobs ==
    /\ step = "asking"
    /\ step' = "idle"
    /\ \E fetched \in 0..WorkerCount :
           /\ PendingItems' = PendingItems + fetched
           /\ atWork' = atWork + fetched
    /\ UNCHANGED <<aggressiveSweep, heap, ShuttingDown, ShutdownCount, stopped, shell>>

\* Self.Tell(new SilentRetrySweep()), at the end of a saturated sweep.
Resweep ==
    /\ step = "resweep"
    /\ step' = "idle"
    /\ Arrive("SilentRetrySweep")
    /\ UNCHANGED <<aggressiveSweep, PendingItems, ShuttingDown, ShutdownCount, atWork, stopped, shell>>

ReceiveResult ==
    /\ Receives({"Result"})
    /\ PendingItems' = PendingItems - 1
    /\ UNCHANGED <<aggressiveSweep, step, ShuttingDown, ShutdownCount, atWork, stopped, shell>>

ReceiveShutDownQueues ==
    /\ Receives({"ShutDownQueues"})
    /\ ShuttingDown' = TRUE
    /\ UNCHANGED <<aggressiveSweep, step, PendingItems, ShutdownCount, atWork, stopped, shell>>

\* The last worker's message: the layer actor is flushed and the shell answered.
ReceiveQueueShutDown ==
    /\ Receives({"QueueShutDown"})
    /\ ShutdownCount' = ShutdownCount + 1
    /\ shell' = IF ShutdownCount' = WorkerCount THEN "answered" ELSE shell
    /\ UNCHANGED <<aggressiveSweep, step, PendingItems, ShuttingDown, atWork, stopped>>

----------------------------------------------------------------------------
(* The workers *)

FinishJob ==
    /\ atWork > 0
    /\ atWork' = atWork - 1
    /\ Arrive("Result")
    /\ UNCHANGED <<aggressiveSweep, step, PendingItems, ShuttingDown, ShutdownCount, stopped, shell>>

\* A worker has come to the end of its mailbox; the jobs of the others remain.
StopWorker ==
    /\ ShuttingDown
    /\ stopped < WorkerCount
    /\ stopped + 1 = WorkerCount => atWork = 0
    /\ stopped' = stopped + 1
    /\ Arrive("QueueShutDown")
    /\ UNCHANGED <<aggressiveSweep, step, PendingItems, ShuttingDown, ShutdownCount, atWork, shell>>

----------------------------------------------------------------------------

Init ==
    /\ aggressiveSweep \in AggressiveSweeps
    /\ heap = << >>
    /\ step = "idle"
    /\ PendingItems = 0
    /\ ShuttingDown = FALSE
    /\ ShutdownCount = 0
    /\ atWork = 0
    /\ stopped = 0
    /\ shell = "open"

CoordinatorStep ==
    \/ ReceiveSweep \/ DispatchJobs \/ Resweep \/ ReceiveResult
    \/ ReceiveShutDownQueues \/ ReceiveQueueShutDown

Next == Pulse \/ ShutDownQueue \/ CoordinatorStep \/ FinishJob \/ StopWorker

Spec == Init /\ [][Next]_vars

\* The coordinator reads on, jobs end and workers stop.  Which message is next
\* is the heap's choice, so no fairness is asked of a kind of message; nor do
\* pulses or a shutdown have to come.
FairSpec ==
    /\ Spec
    /\ WF_vars(CoordinatorStep)
    /\ WF_vars(FinishJob)
    /\ WF_vars(StopWorker)

----------------------------------------------------------------------------
(* Properties *)

\* Types; the pending jobs are those at work and those whose results wait.
TypeOK ==
    /\ heap \in Seq(Kinds)
    /\ step \in {"idle", "asking", "resweep"}
    /\ ShuttingDown \in BOOLEAN
    /\ ShutdownCount \in 0..stopped
    /\ stopped \in 0..WorkerCount
    /\ shell \in {"open", "asked", "answered"}
    /\ atWork \in Nat
    /\ PendingItems = atWork + Unread({"Result"})

\* Whatever was sent and received before, the array heap hands out a message of
\* the best priority waiting, and loses or repeats none.  This is what module
\* JobQueueCoordinator takes its mailbox to be.
Bag == INSTANCE PriorityBag WITH
           Messages <- Kinds, Shutdowns <- {"ShutDownQueues"},
           pending <- [k \in {heap[i] : i \in DOMAIN heap} |-> Unread({k})]

ImplementsBag == Bag!Spec

\* The shell's doc of aggressiveSweep speaks of resweeps "until the saturation
\* condition has ended".  It does end: jobs finish, and their results are
\* received although sweeps keep coming.
SaturationEnds == Saturated ~> ~Saturated

\* The same for a queue without aggressive sweeps, whose results have to pass
\* the pulses only.
PlainSaturationEnds == Saturated /\ ~aggressiveSweep ~> ~Saturated

\* A shutdown is answered even if it comes while self-sent sweeps starve every
\* other message: ShutDownQueues passes them, and after it they are not
\* sent again.
ShutdownCompletes == shell = "asked" ~> shell = "answered"

=============================================================================
