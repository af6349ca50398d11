----------------------- MODULE MCJobQueueCoordinator -----------------------
(* Small instances of one queue of a processing node for TLC. *)
EXTENDS JobQueueCoordinator

CONSTANTS a, b

\* Only the first job may be retried.
MCMaxRetries == [j \in Jobs |-> IF j = a THEN 1 ELSE 0]

=============================================================================
