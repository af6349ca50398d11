----------------------- MODULE MCCoordinatorLifecycle -----------------------
(* A small instance of the processing node's refinement for TLC. *)
EXTENDS CoordinatorLifecycle

CONSTANTS a, b

\* Only the first job may be retried.
MCMaxRetries == [j \in Jobs |-> IF j = a THEN 1 ELSE 0]

=============================================================================
