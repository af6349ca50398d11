---------------------------- MODULE JobLifecycle ----------------------------
(***************************************************************************)
(* What a job store and the nodes that serve it promise of each job: one    *)
(* holder at a time, one outcome per attempt, a bounded number of retries,  *)
(* and an end that lasts.  It has no statements, leases, files, mailboxes   *)
(* or clocks; modules SqlJobQueueLifecycle, CoordinatorLifecycle and        *)
(* FileSystemJobQueue show that the stores and the engine implement it.     *)
(***************************************************************************)
EXTENDS Naturals

CONSTANTS
    Jobs,
    Nodes,        \* who fetches and runs jobs
    NoNode,       \* nobody holds the job
    MaxRetries    \* per job: RetryParameters.MaxRetries

VARIABLES
    status,       \* where each job is in its life
    holder,       \* the node that has each job in hand
    retries       \* the failed attempts that were counted

lifecycle == <<status, holder, retries>>

Statuses == {"NotAdded", "Waiting", "Running", "Processed", "Failed", "Purged"}

\* A queue may hold jobs from before.
Init ==
    /\ status \in [Jobs -> {"NotAdded", "Waiting"}]
    /\ holder = [j \in Jobs |-> NoNode]
    /\ retries = [j \in Jobs |-> 0]

Become(j, s) == status' = [status EXCEPT ![j] = s]

LetGo(j) == holder' = [holder EXCEPT ![j] = NoNode]

\* AddJob, at the moment the job becomes visible.
Add(j) ==
    /\ status[j] = "NotAdded"
    /\ Become(j, "Waiting")
    /\ UNCHANGED <<holder, retries>>

\* GetJobs: a node gets jobs that wait, nobody holds, and may still be tried.
Take(n, S) ==
    /\ \A j \in S : /\ status[j] = "Waiting"
                    /\ holder[j] = NoNode
                    /\ retries[j] <= MaxRetries[j]
    /\ holder' = [j \in Jobs |-> IF j \in S THEN n ELSE holder[j]]
    /\ UNCHANGED <<status, retries>>

\* MarkJobInProgress, by the holder and once per attempt.
Start(n, j) ==
    /\ status[j] = "Waiting" /\ holder[j] = n
    /\ Become(j, "Running")
    /\ UNCHANGED <<holder, retries>>

\* MarkJobFailed for a job that cannot be run at all.
Reject(n, j) ==
    /\ status[j] = "Waiting" /\ holder[j] = n
    /\ Become(j, "Failed")
    /\ LetGo(j)
    /\ UNCHANGED retries

Runs(n, j) == status[j] = "Running" /\ holder[j] = n

\* MarkJobSuccess.
Succeed(n, j) ==
    /\ Runs(n, j)
    /\ Become(j, "Processed")
    /\ LetGo(j)
    /\ UNCHANGED retries

\* MarkJobFailed, when and only when the retries are used up.
Fail(n, j) ==
    /\ Runs(n, j)
    /\ retries[j] >= MaxRetries[j]
    /\ Become(j, "Failed")
    /\ LetGo(j)
    /\ UNCHANGED retries

\* MarkJobInRetryAndIncrement.
Retry(n, j) ==
    /\ Runs(n, j)
    /\ retries[j] < MaxRetries[j]
    /\ Become(j, "Waiting")
    /\ LetGo(j)
    /\ retries' = [retries EXCEPT ![j] = @ + 1]

\* A node dies, or an outcome is not written: the job keeps its status.
Forget(n, S) ==
    /\ \A j \in S : holder[j] = n
    /\ holder' = [j \in Jobs |-> IF j \in S THEN NoNode ELSE holder[j]]
    /\ UNCHANGED <<status, retries>>

\* PurgeQueue, of jobs that have ended.
Purge(S) ==
    /\ \A j \in S : status[j] \in {"Processed", "Failed"} /\ holder[j] = NoNode
    /\ status' = [j \in Jobs |-> IF j \in S THEN "Purged" ELSE status[j]]
    /\ retries' = [j \in Jobs |-> IF j \in S THEN 0 ELSE retries[j]]
    /\ UNCHANGED holder

Next ==
    \/ \E j \in Jobs : Add(j)
    \/ \E n \in Nodes, S \in SUBSET Jobs : Take(n, S) \/ Forget(n, S)
    \/ \E n \in Nodes, j \in Jobs : \/ Start(n, j) \/ Reject(n, j) \/ Succeed(n, j)
                                    \/ Fail(n, j) \/ Retry(n, j)
    \/ \E S \in SUBSET Jobs : Purge(S)

Spec == Init /\ [][Next]_lifecycle

=============================================================================
