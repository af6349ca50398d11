----------------------- MODULE MCSqlJobQueueLifecycle -----------------------
(* A small instance of the SQL job store and its refinement for TLC. *)
EXTENDS SqlJobQueueLifecycle, TLC

CONSTANTS a, b

\* The first job has a parameter and a retry; the second has to wait for its
\* time, and its type may be missing.
MCMaxRetries == [j \in Jobs |-> IF j = a THEN 1 ELSE 0]
MCDoNotExecuteBefore == [j \in Jobs |-> IF j = b THEN 2 ELSE 0]
MCChildren == [j \in Jobs |-> IF j = a THEN {"params"} ELSE {}]

\* Nodes are not interchangeable: who holds a job is a CHOOSE among them.
Symmetry == Permutations(LockGuids)

=============================================================================
