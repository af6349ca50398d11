------------------------ MODULE MCFileSystemJobQueue ------------------------
(* A small instance of the file system job store for TLC. *)
EXTENDS FileSystemJobQueue

CONSTANTS a, b

\* Only the first job may be retried.
MCMaxRetries == [j \in Jobs |-> IF j = a THEN 1 ELSE 0]

=============================================================================
