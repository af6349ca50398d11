--------------------------- MODULE MCSqlJobQueue ---------------------------
(* Small instances of the SQL job store for TLC. *)
EXTENDS SqlJobQueue, TLC

CONSTANTS a, b

\* The first job may be retried and waits for its time; the second is not.
MCMaxRetries == [j \in Jobs |-> IF j = a THEN 1 ELSE 0]
MCDoNotExecuteBefore == [j \in Jobs |-> IF j = a THEN 2 ELSE 0]
MCChildren == [j \in Jobs |-> IF j = a THEN {"params"} ELSE {}]

Symmetry == Permutations(Nodes) \cup Permutations(LockGuids)

============================================================================
