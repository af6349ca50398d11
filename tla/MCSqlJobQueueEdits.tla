------------------------- MODULE MCSqlJobQueueEdits -------------------------
(* Small instances of the edited SQL job store for TLC. *)
EXTENDS SqlJobQueueEdits, TLC

CONSTANTS a

\* One job with a retry and a parameter; commands may also name a second.
MCMaxRetries == [j \in Jobs |-> 1]
MCDoNotExecuteBefore == [j \in Jobs |-> 0]
MCChildren == [j \in Jobs |-> {"params"}]
MCOrdinals == [j \in Jobs |-> {1}]

Symmetry == Permutations(Nodes) \cup Permutations(LockGuids)

=============================================================================
