------------------------ MODULE CoordinatorLifecycle ------------------------
(* A processing node, seen from its store, implements the life of a job. *)
EXTENDS JobQueueCoordinator

CONSTANTS Node, NoNode     \* this node, and nobody

ASSUME NodeAssumption == Node # NoNode

\* A job is in the node's hands from the moment GetJobs answers with it until
\* its outcome is written: while it is to be dispatched, is with the workers, or
\* has a write waiting in the layer actor's mailbox.
InHand == {c.job : c \in batch} \cup InFlight
          \cup {layerBox[i].job : i \in {k \in 1..Len(layerBox) :
                                            layerBox[k].op \in WriteOps}}

\* The stopped coordinator's workers may still run, but report to nobody.
HolderOf(j) == IF step # "stopped" /\ j \in InHand THEN Node ELSE NoNode

StatusOf(j) == CASE store[j].status \in {"New", "Retry"} -> "Waiting"
                 [] store[j].status = "InProgress" -> "Running"
                 [] OTHER -> store[j].status

Job == INSTANCE JobLifecycle WITH
           Nodes <- {Node},
           status <- [j \in Jobs |-> StatusOf(j)],
           holder <- [j \in Jobs |-> HolderOf(j)],
           retries <- [j \in Jobs |-> store[j].retries]

\* Coordinator, layer actor and workers, none of which waits for another's
\* writes, together move each job through its life: nothing is fetched while
\* it is still in the node, every outcome finds the job Running, and retries
\* are decided on a count that is still the stored one.
ImplementsLifecycle == Job!Spec

=============================================================================
