---------------------------- MODULE SqlJobQueue ----------------------------
(***************************************************************************)
(* The SQL job store: BaseSqlJobQueueAdder, BaseSqlJobQueueManager and     *)
(* BaseSqlJobQueuePurger, used by several queue-processing nodes at once.  *)
(* The store opens no transaction, so every SQL statement is an action of  *)
(* its own and the statements of different callers interleave freely.      *)
(*                                                                         *)
(* A node stands for one JobQueueCoordinator with its JobQueueLayerActor:  *)
(* it fetches, writes InProgress for each job it got, and later writes the *)
(* outcome, in that order (the layer actor's mailbox is FIFO).             *)
(***************************************************************************)
EXTENDS Naturals, FiniteSets

CONSTANTS
    Jobs,               \* the jobs that are ever added, one GUID each
    Nodes,              \* the queue processors that share the table
    LockGuids,          \* the values of Guid.NewGuid() in GetJobs
    NoLock,             \* a LockGuid column that was never written
    FetchSize,          \* GetJobs.FetchSize, the worker count of a node
    LeaseTimeout,       \* JobClaimLockTimeoutInSeconds
    MaxRetries,         \* per job: RetryParameters.MaxRetries
    MinRetryWait,       \* RetryParameters.MinRetryWait
    DoNotExecuteBefore, \* per job: the execution time, 0 when null
    Children,           \* per job: the child tables it has rows in
    Unresolvable,       \* jobs whose type the node's resolver maps to null
    PurgeStates,        \* the states PurgeQueue is called with
    Faults,             \* the faults that may happen, see FaultKinds
    MaxTime             \* bound: the clock stops here

ChildTables == {"params", "generics"}

\* "crash":     a node, an adder or the purger dies between two statements
\* "lostFetch": GetJobs throws, or its answer arrives after the 30 s Ask
\* "dropInProgress", "dropOutcome": a Mark* statement throws; the layer actor
\*              logs it and goes on with the next message
\* "late":      a node may take longer than the lease to write InProgress
FaultKinds == {"crash", "lostFetch", "dropInProgress", "dropOutcome", "late"}

ASSUME StoreAssumption ==
    /\ NoLock \notin LockGuids
    /\ FetchSize \in Nat \ {0}
    /\ LeaseTimeout \in Nat
    /\ MaxRetries \in [Jobs -> Nat]
    /\ MinRetryWait \in Nat
    /\ DoNotExecuteBefore \in [Jobs -> Nat]
    /\ Children \in [Jobs -> SUBSET ChildTables]
    /\ Unresolvable \subseteq Jobs
    /\ Faults \subseteq FaultKinds
    /\ MaxTime \in Nat

VARIABLES
    now,        \* DateTime.Now, the same on every host
    row,        \* the queue table, by job
    child,      \* the parameter and generic-parameter tables, by job
    adder,      \* how far the AddJob call of each job has come
    fetch,      \* the GetJobs call of each node
    held,       \* the jobs a node has fetched and not yet written off
    purge,      \* the PurgeQueue call
    succeeded   \* history: jobs whose success a node has reported

vars == <<now, row, child, adder, fetch, held, purge, succeeded>>

----------------------------------------------------------------------------
(* Rows *)

NoTime == 0      \* a null date; the clock starts at 1

JobStates == {"Inserting", "New", "InProgress", "Retry", "Processed", "Failed"}

\* "Absent" is a row that was not inserted yet or has been deleted.
AbsentRow == [status |-> "Absent", lockGuid |-> NoLock, lockClaim |-> NoTime,
              lastAttempt |-> NoTime, retryCount |-> 0, created |-> NoTime]

\* Mutant: the row is inserted as 'New', ahead of its parameters.
InsertedRowAsNew(t) == [AbsentRow EXCEPT !.status = "New", !.created = t]

\* _addJobImpl's INSERT.
InsertedRow(t) == [AbsentRow EXCEPT !.status = "Inserting", !.created = t]

\* MarkJobInProgress, MarkJobSuccess, MarkJobFailed and
\* MarkJobInRetryAndIncrement: what the UPDATE makes of the row.
InProgressRow(r, t) == [r EXCEPT !.status = "InProgress", !.lockClaim = NoTime,
                                 !.lastAttempt = t]
ProcessedRow(r) == [r EXCEPT !.status = "Processed", !.lockClaim = NoTime]
FailedRow(r) == [r EXCEPT !.status = "Failed", !.lockClaim = NoTime]
\* Mutant: LastAttempt is set to the time of the next attempt.
RetryRowAtNextAttempt(r, t) ==
    [r EXCEPT !.status = "Retry", !.lockClaim = NoTime,
              !.lastAttempt = t + MinRetryWait, !.retryCount = @ + 1]

RetryRow(r, t) == [r EXCEPT !.status = "Retry", !.lockClaim = NoTime,
                            !.lastAttempt = t, !.retryCount = @ + 1]

\* Mutant: the claim forgets to set LockClaimTime.
ClaimedRowUntimed(r, guid, t) == [r EXCEPT !.lockGuid = guid]

\* The claim of GetJobs on one row.
ClaimedRow(r, guid, t) == [r EXCEPT !.lockGuid = guid, !.lockClaim = t]

\* UPDATE ... WHERE JobGuid = j: no row, no effect; nothing else is tested.
Update(j, r) ==
    row' = [row EXCEPT ![j] = IF @.status = "Absent" THEN @ ELSE r]

----------------------------------------------------------------------------
(* What GetJobs may claim, seen at the caller's lockTime t *)

\* Mutants: a lease that never runs out, and one that runs out at once.
LeaseFreeIfNeverClaimed(r, t) == r.lockClaim = NoTime
LeaseFreeAtOnce(r, t) == r.lockClaim <= t

LeaseFree(r, t) == r.lockClaim = NoTime \/ r.lockClaim + LeaseTimeout < t

\* Mutant: the wait between attempts is not observed.
RetryDueAtOnce(j, r, t) == MaxRetries[j] >= r.retryCount

RetryDue(j, r, t) ==
    /\ MaxRetries[j] >= r.retryCount
    /\ r.lastAttempt + MinRetryWait <= t

Eligible(j, r, t) ==
    /\ DoNotExecuteBefore[j] <= t
    /\ r.status = "New" \/ (r.status = "Retry" /\ RetryDue(j, r, t))
    /\ LeaseFree(r, t)

EligibleJobs(t) == {j \in Jobs : Eligible(j, row[j], t)}

MostRecentDate(r) == IF r.created > r.lastAttempt THEN r.created
                                                  ELSE r.lastAttempt

\* ORDER BY MostRecentDate, TOP FetchSize; ties fall either way.
IsOldestBatch(S, E) ==
    /\ Cardinality(S) = IF Cardinality(E) < FetchSize THEN Cardinality(E)
                                                      ELSE FetchSize
    /\ \A j \in S, k \in E \ S : MostRecentDate(row[j]) <= MostRecentDate(row[k])

Batches(t) == {S \in SUBSET EligibleJobs(t) : IsOldestBatch(S, EligibleJobs(t))}

----------------------------------------------------------------------------
(* AddJob: four statements on one connection, no transaction *)

InsertJobRow(j) ==
    /\ adder[j] = "start"
    /\ row' = [row EXCEPT ![j] = InsertedRow(now)]
    /\ adder' = [adder EXCEPT ![j] = "inserted"]
    /\ UNCHANGED <<now, child, fetch, held, purge, succeeded>>

\* The bulk copy into one child table; nothing is copied when there are no rows.
InsertChildren(j, table, from, to) ==
    /\ adder[j] = from
    /\ child' = [child EXCEPT ![j] = @ \cup (Children[j] \cap {table})]
    /\ adder' = [adder EXCEPT ![j] = to]
    /\ UNCHANGED <<now, row, fetch, held, purge, succeeded>>

InsertParams(j) == InsertChildren(j, "params", "inserted", "params")
InsertGenerics(j) == InsertChildren(j, "generics", "params", "generics")

PublishJob(j) ==
    /\ adder[j] = "generics"
    /\ Update(j, [row[j] EXCEPT !.status = "New"])
    /\ adder' = [adder EXCEPT ![j] = "added"]
    /\ UNCHANGED <<now, child, fetch, held, purge, succeeded>>

\* The adding process dies, or a statement throws, between two statements.
AbandonAdd(j) ==
    /\ "crash" \in Faults
    /\ adder[j] \in {"inserted", "params", "generics"}
    /\ adder' = [adder EXCEPT ![j] = "abandoned"]
    /\ UNCHANGED <<now, row, child, fetch, held, purge, succeeded>>

----------------------------------------------------------------------------
(* GetJobs: take the time and a GUID, UPDATE to claim, SELECT to read back *)

IdleFetch == [step |-> "idle", guid |-> NoLock, at |-> NoTime]

GuidsInUse == {row[j].lockGuid : j \in Jobs}
              \cup {fetch[n].guid : n \in Nodes}
              \cup {e.guid : e \in UNION {held[n] : n \in Nodes}}

\* The layer actor serves one message at a time: no write during its GetJobs.
LayerFree(n) == fetch[n].step = "idle"

\* The coordinator sends the InProgress writes of a batch before anything else,
\* so the layer actor makes them before the next GetJobs and the next outcome.
BatchMarked(n) == LayerFree(n) /\ \A e \in held[n] : e.stage # "fetched"

BeginFetch(n) ==
    /\ BatchMarked(n)
    /\ \E g \in LockGuids \ GuidsInUse :
           fetch' = [fetch EXCEPT ![n] = [step |-> "claim", guid |-> g, at |-> now]]
    /\ UNCHANGED <<now, row, child, adder, held, purge, succeeded>>

ClaimJobs(n) ==
    /\ fetch[n].step = "claim"
    /\ \E S \in Batches(fetch[n].at) :
           row' = [j \in Jobs |->
                     IF j \in S THEN ClaimedRow(row[j], fetch[n].guid, fetch[n].at)
                                ELSE row[j]]
    /\ fetch' = [fetch EXCEPT ![n].step = "select"]
    /\ UNCHANGED <<now, child, adder, held, purge, succeeded>>

\* What SELECT ... WHERE LockGuid = guid hands to the node for one row.
Fetched(j, f) == [job |-> j, guid |-> f.guid, at |-> f.at,
                  retries |-> row[j].retryCount, stage |-> "fetched"]

SelectClaimed(n) ==
    /\ fetch[n].step = "select"
    /\ LET mine == {j \in Jobs : row[j].lockGuid = fetch[n].guid}
       IN  held' = [held EXCEPT ![n] = @ \cup {Fetched(j, fetch[n]) : j \in mine}]
    /\ fetch' = [fetch EXCEPT ![n] = IdleFetch]
    /\ UNCHANGED <<now, row, child, adder, purge, succeeded>>

\* GetJobs throws, or the coordinator has stopped waiting for the answer:
\* rows that were claimed stay claimed until the lease runs out.
LoseFetch(n) ==
    /\ "lostFetch" \in Faults
    /\ now + LeaseTimeout < MaxTime        \* bound: the lease can still run out
    /\ fetch[n].step # "idle"
    /\ fetch' = [fetch EXCEPT ![n] = IdleFetch]
    /\ UNCHANGED <<now, row, child, adder, held, purge, succeeded>>

----------------------------------------------------------------------------
(* The writes of a node, in the order its coordinator sends them *)

Release(n, e) == held' = [held EXCEPT ![n] = @ \ {e}]

Advance(n, e) ==
    held' = [held EXCEPT ![n] = (@ \ {e}) \cup {[e EXCEPT !.stage = "running"]}]

MarkJobInProgress(n, e) ==
    /\ LayerFree(n)
    /\ e.stage = "fetched"
    /\ e.job \notin Unresolvable
    /\ Update(e.job, InProgressRow(row[e.job], now))
    /\ Advance(n, e)
    /\ UNCHANGED <<now, child, adder, fetch, purge, succeeded>>

\* HandleSweep's branch for a job without a type: it never runs.
MarkTypeMissing(n, e) ==
    /\ LayerFree(n)
    /\ e.stage = "fetched"
    /\ e.job \in Unresolvable
    /\ Update(e.job, FailedRow(row[e.job]))
    /\ Release(n, e)
    /\ UNCHANGED <<now, child, adder, fetch, purge, succeeded>>

MarkJobSuccess(n, e) ==
    /\ BatchMarked(n)
    /\ e.stage = "running"
    /\ Update(e.job, ProcessedRow(row[e.job]))
    /\ Release(n, e)
    /\ succeeded' = succeeded \cup {e.job}
    /\ UNCHANGED <<now, child, adder, fetch, purge>>

\* Mutant: one retry too many.
RetriesExceeded(e) == MaxRetries[e.job] < e.retries

\* The coordinator decides on the retry count it fetched, not the stored one.
RetriesExhausted(e) == MaxRetries[e.job] <= e.retries

MarkJobFailed(n, e) ==
    /\ BatchMarked(n)
    /\ e.stage = "running"
    /\ RetriesExhausted(e)
    /\ Update(e.job, FailedRow(row[e.job]))
    /\ Release(n, e)
    /\ UNCHANGED <<now, child, adder, fetch, purge, succeeded>>

MarkJobInRetryAndIncrement(n, e) ==
    /\ BatchMarked(n)
    /\ e.stage = "running"
    /\ ~RetriesExhausted(e)
    /\ Update(e.job, RetryRow(row[e.job], now))
    /\ Release(n, e)
    /\ UNCHANGED <<now, child, adder, fetch, purge, succeeded>>

\* The InProgress write throws: the layer actor drops it, the job runs anyway.
DropInProgress(n, e) ==
    /\ "dropInProgress" \in Faults
    /\ LayerFree(n)
    /\ e.stage = "fetched"
    /\ e.job \notin Unresolvable
    /\ Advance(n, e)
    /\ UNCHANGED <<now, row, child, adder, fetch, purge, succeeded>>

\* The outcome write throws and nobody writes it again, although a success
\* has been reported to OnJobSuccess.
DropOutcome(n, e) ==
    /\ "dropOutcome" \in Faults
    /\ \/ BatchMarked(n) /\ e.stage = "running"
       \/ LayerFree(n) /\ e.stage = "fetched" /\ e.job \in Unresolvable
    /\ Release(n, e)
    /\ \/ succeeded' = succeeded
       \/ e.stage = "running" /\ succeeded' = succeeded \cup {e.job}
    /\ UNCHANGED <<now, row, child, adder, fetch, purge>>

Crash(n) ==
    /\ "crash" \in Faults
    /\ held[n] # {} \/ fetch[n].step # "idle"
    /\ held' = [held EXCEPT ![n] = {}]
    /\ fetch' = [fetch EXCEPT ![n] = IdleFetch]
    /\ UNCHANGED <<now, row, child, adder, purge, succeeded>>

----------------------------------------------------------------------------
(* PurgeQueue: three DELETEs, each looking for the rows to purge afresh *)

IdlePurge == [step |-> "idle", state |-> "none", before |-> NoTime]

Purgeable(j, state, before) == row[j].status = state /\ row[j].created < before

WithoutChildren(table, state, before) ==
    [j \in Jobs |-> IF Purgeable(j, state, before) THEN child[j] \ {table}
                                                   ELSE child[j]]

PurgeParams ==
    /\ purge.step = "idle"
    /\ \E state \in PurgeStates, before \in 1..(now + 1) :
           /\ child' = WithoutChildren("params", state, before)
           /\ purge' = [step |-> "generics", state |-> state, before |-> before]
    /\ UNCHANGED <<now, row, adder, fetch, held, succeeded>>

PurgeGenerics ==
    /\ purge.step = "generics"
    /\ child' = WithoutChildren("generics", purge.state, purge.before)
    /\ purge' = [purge EXCEPT !.step = "rows"]
    /\ UNCHANGED <<now, row, adder, fetch, held, succeeded>>

PurgeRows ==
    /\ purge.step = "rows"
    /\ row' = [j \in Jobs |-> IF Purgeable(j, purge.state, purge.before)
                                THEN AbsentRow ELSE row[j]]
    /\ purge' = IdlePurge
    /\ UNCHANGED <<now, child, adder, fetch, held, succeeded>>

AbandonPurge ==
    /\ "crash" \in Faults
    /\ purge.step # "idle"
    /\ purge' = IdlePurge
    /\ UNCHANGED <<now, row, child, adder, fetch, held, succeeded>>

----------------------------------------------------------------------------
(* Time *)

\* No fetch is older than the lease before its jobs are written InProgress.
\* The code does not enforce it: it is what a 180 s lease is chosen for.
Timely(t) ==
    \A n \in Nodes :
        /\ fetch[n].step # "idle" => t <= fetch[n].at + LeaseTimeout
        /\ \A e \in held[n] : e.stage = "fetched" => t <= e.at + LeaseTimeout

Tick ==
    /\ now < MaxTime
    /\ "late" \in Faults \/ Timely(now + 1)
    /\ now' = now + 1
    /\ UNCHANGED <<row, child, adder, fetch, held, purge, succeeded>>

----------------------------------------------------------------------------

Init ==
    /\ now = 1
    /\ row = [j \in Jobs |-> AbsentRow]
    /\ child = [j \in Jobs |-> {}]
    /\ adder = [j \in Jobs |-> "start"]
    /\ fetch = [n \in Nodes |-> IdleFetch]
    /\ held = [n \in Nodes |-> {}]
    /\ purge = IdlePurge
    /\ succeeded = {}

AddStep(j) == InsertJobRow(j) \/ InsertParams(j) \/ InsertGenerics(j) \/ PublishJob(j)

Outcome(n, e) == MarkJobSuccess(n, e) \/ MarkJobFailed(n, e)
                 \/ MarkJobInRetryAndIncrement(n, e)

Next ==
    \/ \E j \in Jobs : AddStep(j) \/ AbandonAdd(j)
    \/ \E n \in Nodes : BeginFetch(n) \/ ClaimJobs(n) \/ SelectClaimed(n)
                        \/ LoseFetch(n) \/ Crash(n)
    \/ \E n \in Nodes : \E e \in held[n] :
           \/ MarkJobInProgress(n, e) \/ MarkTypeMissing(n, e) \/ Outcome(n, e)
           \/ DropInProgress(n, e) \/ DropOutcome(n, e)
    \/ PurgeParams \/ PurgeGenerics \/ PurgeRows \/ AbandonPurge
    \/ Tick

Spec == Init /\ [][Next]_vars

\* Pulses come for ever and the layer actor keeps serving, jobs end, the
\* adder runs on and so does the clock; crashes and purges are not due. An
\* outcome is strongly fair: it waits in the layer actor's FIFO mailbox behind
\* GetJobs calls, each of which holds it up once and not for ever.
FairSpec ==
    /\ Spec
    /\ WF_vars(Tick)
    /\ \A j \in Jobs : WF_vars(AddStep(j))
    /\ \A n \in Nodes :
           /\ WF_vars(BeginFetch(n))
           /\ WF_vars(ClaimJobs(n))
           /\ WF_vars(SelectClaimed(n))
           /\ WF_vars(\E e \in held[n] : MarkJobInProgress(n, e) \/ MarkTypeMissing(n, e))
           /\ SF_vars(\E e \in held[n] : Outcome(n, e))

----------------------------------------------------------------------------
(* Properties *)

Time == 0..now

RowType == [status : JobStates \cup {"Absent"}, lockGuid : LockGuids \cup {NoLock},
            lockClaim : Time, lastAttempt : Time, retryCount : Nat, created : Time]

FetchType == {IdleFetch}
             \cup [step : {"claim", "select"}, guid : LockGuids, at : 1..now]

EntryType == [job : Jobs, guid : LockGuids, at : 1..now, retries : Nat,
              stage : {"fetched", "running"}]

PurgeType == {IdlePurge}
             \cup [step : {"generics", "rows"}, state : PurgeStates, before : Nat]

\* Types; in particular no date in the table lies in the future.
TypeOK ==
    /\ now \in Nat \ {0}
    /\ row \in [Jobs -> RowType]
    /\ child \in [Jobs -> SUBSET ChildTables]
    /\ adder \in [Jobs -> {"start", "inserted", "params", "generics", "added",
                           "abandoned"}]
    /\ fetch \in [Nodes -> FetchType]
    /\ held \in [Nodes -> SUBSET EntryType]
    /\ purge \in PurgeType
    /\ succeeded \subseteq Jobs

\* At any moment at most one node holds a job, and holds it once: the claiming
\* UPDATE is the lock (the comment in GetJobs), and a lease is only taken over
\* from a node that has given the job up.
ExclusiveHolder ==
    \A n, m \in Nodes : \A d \in held[n], e \in held[m] :
        d.job = e.job => n = m /\ d = e

\* What a node holds is what the store says: a fetched job is still claimed
\* under the fetch's own GUID and waits to run, a running one is InProgress, and
\* the retry count the coordinator will decide on is the one in the row.
HeldAgreesWithStore ==
    \A n \in Nodes : \A e \in held[n] :
        /\ row[e.job].lockGuid = e.guid
        /\ row[e.job].retryCount = e.retries
        /\ IF e.stage = "fetched" THEN row[e.job].status \in {"New", "Retry"}
                                  ELSE row[e.job].status = "InProgress"

\* A job that reached Processed or Failed stays there until it is purged: no
\* statement of another node, however interleaved, brings it back.
TerminalIsFinal ==
    [][\A j \in Jobs : row[j].status \in {"Processed", "Failed"} =>
           row'[j].status \in {row[j].status, "Absent"}]_vars

\* The stored retry count never passes MaxRetries, so no job can sit in Retry
\* with its budget overdrawn, where neither a fetch nor a failure reaches it.
RetryBudget == \A j \in Jobs : row[j].retryCount <= MaxRetries[j]

PickedUp(n) == {e \in held'[n] \ held[n] : e.stage = "fetched"}

\* No job is handed out before its execution time, nor a retry before the wait
\* since the last attempt is over, as the row stands when it is read back
\* (which is a statement later than the one that tested it).
NoEarlyHandOut ==
    [][\A n \in Nodes : \A e \in PickedUp(n) :
           /\ DoNotExecuteBefore[e.job] <= now
           /\ e.retries > 0 => row[e.job].lastAttempt + MinRetryWait <= now]_vars

\* A job is handed out with all its parameters and generic types, although
\* they are inserted, read and purged by separate statements.
FetchedComplete ==
    [][\A n \in Nodes : \A e \in PickedUp(n) : child[e.job] = Children[e.job]]_vars

\* Readme.MD on OnJobSuccess: "The Queue processor will not pick up this job
\* again."
SucceededNotPickedUpAgain ==
    [][\A n \in Nodes : \A e \in PickedUp(n) : e.job \notin succeeded]_vars

\* Every job that was added ends Processed or Failed, whatever fetches are
\* lost on the way: the lease hands its job to a later fetch.
EveryJobSettles ==
    \A j \in Jobs : adder[j] = "added" ~> row[j].status \in {"Processed", "Failed"}

============================================================================
