------------------------ MODULE SqlJobQueueLifecycle ------------------------
(* The SQL job store implements the life of a job. *)
EXTENDS SqlJobQueue

CONSTANT NoNode     \* nobody holds the job

ASSUME NoNodeAssumption == NoNode \notin Nodes

\* A row before its publishing UPDATE is no job yet: GetJobs does not see it.
StatusOf(j) ==
    CASE row[j].status \in {"New", "Retry"} -> "Waiting"
      [] row[j].status = "InProgress" -> "Running"
      [] row[j].status \in {"Processed", "Failed"} -> row[j].status
      [] row[j].status = "Inserting" -> "NotAdded"
      [] row[j].status = "Absent" -> IF adder[j] = "added" THEN "Purged"
                                                           ELSE "NotAdded"

HeldBy(n, j) == \E e \in held[n] : e.job = j

HolderOf(j) == IF \E n \in Nodes : HeldBy(n, j)
                 THEN CHOOSE n \in Nodes : HeldBy(n, j)
                 ELSE NoNode

Job == INSTANCE JobLifecycle WITH
           status <- [j \in Jobs |-> StatusOf(j)],
           holder <- [j \in Jobs |-> HolderOf(j)],
           retries <- [j \in Jobs |-> row[j].retryCount]

\* The statements of adders, nodes and a purger, however they interleave and
\* wherever a crash, a lost fetch or a lost outcome cuts them off, add up to
\* jobs that are added once, held by one node, tried within their budget and
\* never revived.
ImplementsLifecycle == Job!Spec

=============================================================================
