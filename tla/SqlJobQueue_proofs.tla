------------------------ MODULE SqlJobQueue_proofs ------------------------
(* Theorems about the SQL job store, for any jobs, nodes and lease.        *)
EXTENDS SqlJobQueueLifecycle, TLAPS

----------------------------------------------------------------------------
(* Lemmas about rows *)

\* Every statement makes a row of a row.
LEMMA RowsAreRows ==
    ASSUME TypeOK, NEW r \in RowType
    PROVE  /\ AbsentRow \in RowType
           /\ InsertedRow(now) \in RowType
           /\ InProgressRow(r, now) \in RowType
           /\ ProcessedRow(r) \in RowType
           /\ FailedRow(r) \in RowType
           /\ RetryRow(r, now) \in RowType
           /\ [r EXCEPT !.status = "New"] \in RowType
           /\ \A g \in LockGuids, t \in Time : ClaimedRow(r, g, t) \in RowType
<1> now \in Nat \ {0} /\ now \in Time /\ NoTime \in Time
  BY DEF TypeOK, Time, NoTime
<1>1. AbsentRow \in RowType
  BY DEF AbsentRow, RowType
<1>2. InsertedRow(now) \in RowType
  BY DEF InsertedRow, AbsentRow, RowType, JobStates
<1>3. InProgressRow(r, now) \in RowType
  BY DEF InProgressRow, RowType, JobStates
<1>4. ProcessedRow(r) \in RowType /\ FailedRow(r) \in RowType
  BY DEF ProcessedRow, FailedRow, RowType, JobStates
<1>5. RetryRow(r, now) \in RowType
  <2>1. r.retryCount + 1 \in Nat
    BY DEF RowType
  <2>2. \A c \in Nat : [r EXCEPT !.status = "Retry", !.lockClaim = NoTime,
                                !.lastAttempt = now, !.retryCount = c] \in RowType
    BY DEF RowType, JobStates
  <2> QED BY <2>1, <2>2 DEF RetryRow
<1>6. [r EXCEPT !.status = "New"] \in RowType
  BY DEF RowType, JobStates
<1>7. ASSUME NEW g \in LockGuids, NEW t \in Time PROVE ClaimedRow(r, g, t) \in RowType
  BY DEF ClaimedRow, RowType
<1> QED BY <1>1, <1>2, <1>3, <1>4, <1>5, <1>6, <1>7

\* UPDATE ... WHERE JobGuid = j changes row j or, when it is absent, none.
LEMMA UpdateChangesOne ==
    ASSUME TypeOK, NEW j \in Jobs, NEW r \in RowType, Update(j, r)
    PROVE  /\ row' \in [Jobs -> RowType]
           /\ \A k \in Jobs : k # j => row'[k] = row[k]
           /\ row'[j] = IF row[j].status = "Absent" THEN row[j] ELSE r
BY DEF Update, TypeOK

----------------------------------------------------------------------------
(* Type correctness *)

\* Actions that leave the clock alone leave the types' bounds alone.
LEMMA SameClock ==
    now' = now => /\ RowType' = RowType
                  /\ FetchType' = FetchType
                  /\ EntryType' = EntryType
BY DEF RowType, Time, FetchType, EntryType

\* An entry that a node holds, when the action is about one.
LEMMA HeldTypes ==
    ASSUME TypeOK, NEW n \in Nodes, NEW e \in held[n]
    PROVE  /\ e \in EntryType
           /\ row[e.job] \in RowType
           /\ Release(n, e) => held' \in [Nodes -> SUBSET EntryType]
           /\ Advance(n, e) => held' \in [Nodes -> SUBSET EntryType]
<1>1. held \in [Nodes -> SUBSET EntryType] /\ e \in EntryType
  BY DEF TypeOK
<1>2. row[e.job] \in RowType
  BY <1>1 DEF TypeOK, EntryType
<1>3. [e EXCEPT !.stage = "running"] \in EntryType
  BY <1>1 DEF EntryType
<1> QED BY <1>1, <1>2, <1>3 DEF Release, Advance

LEMMA AdderTypes ==
    ASSUME TypeOK, NEW j \in Jobs, AddStep(j) \/ AbandonAdd(j)
    PROVE  TypeOK'
<1> USE SameClock, StoreAssumption
<1>1. CASE InsertJobRow(j)
  BY <1>1, RowsAreRows DEF InsertJobRow, TypeOK
<1>2. CASE InsertParams(j)
  BY <1>2 DEF InsertParams, InsertChildren, TypeOK, ChildTables
<1>3. CASE InsertGenerics(j)
  BY <1>3 DEF InsertGenerics, InsertChildren, TypeOK, ChildTables
<1>4. CASE PublishJob(j)
  <2>1. row[j] \in RowType
    BY DEF TypeOK
  <2>2. row' \in [Jobs -> RowType]
    BY <1>4, <2>1, RowsAreRows, UpdateChangesOne DEF PublishJob
  <2> QED BY <1>4, <2>2 DEF PublishJob, TypeOK
<1>5. CASE AbandonAdd(j)
  BY <1>5 DEF AbandonAdd, TypeOK
<1> QED BY <1>1, <1>2, <1>3, <1>4, <1>5 DEF AddStep

LEMMA FetchTypes ==
    ASSUME TypeOK, NEW n \in Nodes,
           BeginFetch(n) \/ ClaimJobs(n) \/ SelectClaimed(n) \/ LoseFetch(n) \/ Crash(n)
    PROVE  TypeOK'
<1> USE SameClock, StoreAssumption
<1> fetch \in [Nodes -> FetchType] /\ IdleFetch \in FetchType
  BY DEF TypeOK, FetchType
<1>1. CASE BeginFetch(n)
  <2>1. PICK g \in LockGuids : fetch' = [fetch EXCEPT ![n] =
                                           [step |-> "claim", guid |-> g, at |-> now]]
    BY <1>1 DEF BeginFetch
  <2>2. [step |-> "claim", guid |-> g, at |-> now] \in FetchType
    BY DEF FetchType, TypeOK
  <2>3. fetch' \in [Nodes -> FetchType]
    BY <2>1, <2>2
  <2> QED BY <1>1, <2>3 DEF BeginFetch, TypeOK
<1>2. CASE ClaimJobs(n)
  <2>1. fetch[n].guid \in LockGuids /\ fetch[n].at \in Time
    BY <1>2 DEF ClaimJobs, FetchType, IdleFetch, TypeOK, Time
  <2>2. \A j \in Jobs : ClaimedRow(row[j], fetch[n].guid, fetch[n].at) \in RowType
    BY <2>1, RowsAreRows DEF TypeOK
  <2>3. row' \in [Jobs -> RowType]
    BY <1>2, <2>2 DEF ClaimJobs, TypeOK
  <2>4. [fetch[n] EXCEPT !.step = "select"] \in FetchType
    BY <1>2 DEF ClaimJobs, FetchType, IdleFetch
  <2>5. fetch' \in [Nodes -> FetchType]
    BY <1>2, <2>4 DEF ClaimJobs
  <2> QED BY <1>2, <2>3, <2>5 DEF ClaimJobs, TypeOK
<1>3. CASE SelectClaimed(n)
  <2>1. fetch[n].guid \in LockGuids /\ fetch[n].at \in 1..now
    BY <1>3 DEF SelectClaimed, FetchType, IdleFetch
  <2>2. \A j \in Jobs : Fetched(j, fetch[n]) \in EntryType
    BY <2>1 DEF Fetched, EntryType, TypeOK, RowType
  <2>3. held' \in [Nodes -> SUBSET EntryType]
    BY <1>3, <2>2 DEF SelectClaimed, TypeOK
  <2>4. fetch' \in [Nodes -> FetchType]
    BY <1>3 DEF SelectClaimed
  <2> QED BY <1>3, <2>3, <2>4 DEF SelectClaimed, TypeOK
<1>4. CASE LoseFetch(n)
  BY <1>4 DEF LoseFetch, TypeOK
<1>5. CASE Crash(n)
  BY <1>5 DEF Crash, TypeOK
<1> QED BY <1>1, <1>2, <1>3, <1>4, <1>5

\* The writes of a node.
NodeWrite(n, e) ==
    \/ MarkJobInProgress(n, e) \/ MarkTypeMissing(n, e) \/ Outcome(n, e)
    \/ DropInProgress(n, e) \/ DropOutcome(n, e)

LEMMA WriteTypes ==
    ASSUME TypeOK, NEW n \in Nodes, NEW e \in held[n], NodeWrite(n, e)
    PROVE  TypeOK'
<1> USE SameClock, HeldTypes
<1> e.job \in Jobs /\ row[e.job] \in RowType
  BY DEF EntryType
<1>1. CASE MarkJobInProgress(n, e)
  <2>1. row' \in [Jobs -> RowType]
    BY <1>1, RowsAreRows, UpdateChangesOne DEF MarkJobInProgress
  <2> QED BY <1>1, <2>1 DEF MarkJobInProgress, TypeOK
<1>2. CASE MarkTypeMissing(n, e)
  <2>1. row' \in [Jobs -> RowType]
    BY <1>2, RowsAreRows, UpdateChangesOne DEF MarkTypeMissing
  <2> QED BY <1>2, <2>1 DEF MarkTypeMissing, TypeOK
<1>3. CASE MarkJobSuccess(n, e)
  <2>1. row' \in [Jobs -> RowType]
    BY <1>3, RowsAreRows, UpdateChangesOne DEF MarkJobSuccess
  <2> QED BY <1>3, <2>1 DEF MarkJobSuccess, TypeOK
<1>4. CASE MarkJobFailed(n, e)
  <2>1. row' \in [Jobs -> RowType]
    BY <1>4, RowsAreRows, UpdateChangesOne DEF MarkJobFailed
  <2> QED BY <1>4, <2>1 DEF MarkJobFailed, TypeOK
<1>5. CASE MarkJobInRetryAndIncrement(n, e)
  <2>1. row' \in [Jobs -> RowType]
    BY <1>5, RowsAreRows, UpdateChangesOne DEF MarkJobInRetryAndIncrement
  <2> QED BY <1>5, <2>1 DEF MarkJobInRetryAndIncrement, TypeOK
<1>6. CASE DropInProgress(n, e)
  BY <1>6 DEF DropInProgress, TypeOK
<1>7. CASE DropOutcome(n, e)
  BY <1>7 DEF DropOutcome, TypeOK
<1> QED BY <1>1, <1>2, <1>3, <1>4, <1>5, <1>6, <1>7 DEF NodeWrite, Outcome

PurgeStep == PurgeParams \/ PurgeGenerics \/ PurgeRows \/ AbandonPurge

LEMMA PurgeTypes ==
    ASSUME TypeOK, PurgeStep
    PROVE  TypeOK'
<1> USE SameClock
<1> now \in Nat \ {0} /\ IdlePurge \in PurgeType
  BY DEF TypeOK, PurgeType
<1>1. \A table, state, before :
          WithoutChildren(table, state, before) \in [Jobs -> SUBSET ChildTables]
  BY DEF WithoutChildren, TypeOK
<1>2. CASE PurgeParams
  <2>1. PICK state \in PurgeStates, before \in 1..(now + 1) :
            /\ child' = WithoutChildren("params", state, before)
            /\ purge' = [step |-> "generics", state |-> state, before |-> before]
    BY <1>2 DEF PurgeParams
  <2>2. purge' \in PurgeType
    BY <2>1 DEF PurgeType
  <2> QED BY <1>1, <1>2, <2>1, <2>2 DEF PurgeParams, TypeOK, PurgeType
<1>3. CASE PurgeGenerics
  <2>1. purge' \in PurgeType
    BY <1>3 DEF PurgeGenerics, PurgeType, TypeOK, IdlePurge
  <2> QED BY <1>1, <1>3, <2>1 DEF PurgeGenerics, TypeOK, PurgeType
<1>4. CASE PurgeRows
  <2>1. AbsentRow \in RowType
    BY DEF AbsentRow, RowType, TypeOK, Time, NoTime
  <2>2. row' \in [Jobs -> RowType]
    BY <1>4, <2>1 DEF PurgeRows, TypeOK
  <2> QED BY <1>4, <2>2 DEF PurgeRows, TypeOK, PurgeType
<1>5. CASE AbandonPurge
  BY <1>5 DEF AbandonPurge, TypeOK, PurgeType
<1> QED BY <1>2, <1>3, <1>4, <1>5 DEF PurgeStep

LEMMA TickTypes == TypeOK /\ Tick => TypeOK'
<1> SUFFICES ASSUME TypeOK, Tick PROVE TypeOK'
  OBVIOUS
<1> now \in Nat \ {0} /\ now' = now + 1
  BY DEF TypeOK, Tick
<1>1. Time \subseteq Time' /\ 1..now \subseteq 1..now'
  BY DEF Time
<1>2. RowType \subseteq RowType' /\ FetchType \subseteq FetchType'
      /\ EntryType \subseteq EntryType'
  BY <1>1 DEF RowType, FetchType, EntryType
<1> QED BY <1>2 DEF Tick, TypeOK, PurgeType

LEMMA StepTypes == TypeOK /\ [Next]_vars => TypeOK'
<1> SUFFICES ASSUME TypeOK, [Next]_vars PROVE TypeOK'
  OBVIOUS
<1>1. ASSUME NEW j \in Jobs, AddStep(j) \/ AbandonAdd(j) PROVE TypeOK'
  BY <1>1, AdderTypes
<1>2. ASSUME NEW n \in Nodes, BeginFetch(n) \/ ClaimJobs(n) \/ SelectClaimed(n)
                              \/ LoseFetch(n) \/ Crash(n)
      PROVE  TypeOK'
  BY <1>2, FetchTypes
<1>3. ASSUME NEW n \in Nodes, NEW e \in held[n], NodeWrite(n, e) PROVE TypeOK'
  BY <1>3, WriteTypes
<1>4. CASE PurgeStep  BY <1>4, PurgeTypes
<1>5. CASE Tick  BY <1>5, TickTypes
<1>6. CASE UNCHANGED vars
  BY <1>6, SameClock DEF vars, TypeOK, PurgeType
<1> QED BY <1>1, <1>2, <1>3, <1>4, <1>5, <1>6 DEF Next, NodeWrite, PurgeStep

LEMMA InitTypes == Init => TypeOK
<1> SUFFICES ASSUME Init PROVE TypeOK
  OBVIOUS
<1>1. AbsentRow \in RowType
  BY DEF AbsentRow, RowType, Time, NoTime, Init
<1> QED BY <1>1 DEF Init, TypeOK, FetchType, PurgeType

\* The store's types hold for any jobs, nodes, faults and purges; no date in the
\* queue table is ever in the future.
THEOREM TypeCorrect == Spec => []TypeOK
BY InitTypes, StepTypes, PTL DEF Spec

----------------------------------------------------------------------------
(* The claim protocol: GetJobs hands a job to one node at a time, for any  *)
(* jobs, nodes, lease and order of the statements.                         *)


\* What the claim protocol needs: no InProgress write is lost, no fetch
\* outlives its lease, and only finished jobs are purged.
Orderly ==
    /\ Faults \cap {"late", "dropInProgress"} = {}
    /\ PurgeStates \subseteq {"Processed", "Failed"}

\* AddJob publishes only rows that were never New before.
Unpublished ==
    \A j \in Jobs : adder[j] \in {"start", "inserted", "params", "generics"} =>
        row[j].status \in {"Absent", "Inserting"}

\* A job that was never handed out has no retries.
Untried ==
    \A j \in Jobs : row[j].status \in {"Absent", "Inserting", "New"} =>
        row[j].retryCount = 0

\* The GUID of a running GetJobs is its own.
GuidsDistinct ==
    \A n \in Nodes : fetch[n].step # "idle" =>
        \A m \in Nodes : /\ n # m => fetch[m].guid # fetch[n].guid
                         /\ \A e \in held[m] : e.guid # fetch[n].guid

\* Before its UPDATE no row bears it.
ClaimIsFresh ==
    \A n \in Nodes : fetch[n].step = "claim" =>
        \A j \in Jobs : row[j].lockGuid # fetch[n].guid

ClaimedAt(r, j, t) ==
    /\ r.status \in {"New", "Retry"}
    /\ r.lockClaim = t
    /\ DoNotExecuteBefore[j] <= t
    /\ r.status = "Retry" => r.lastAttempt + MinRetryWait <= t

\* After it, the rows that bear it stay as they were claimed.
ClaimIsKept ==
    \A n \in Nodes : fetch[n].step = "select" =>
        \A j \in Jobs : row[j].lockGuid = fetch[n].guid =>
            ClaimedAt(row[j], j, fetch[n].at)

\* What a node holds, the store knows to be held.
HeldIsKept ==
    \A n \in Nodes : \A e \in held[n] :
        /\ row[e.job].lockGuid = e.guid
        /\ row[e.job].retryCount = e.retries
        /\ e.stage = "fetched" => /\ row[e.job].status \in {"New", "Retry"}
                                  /\ row[e.job].lockClaim = e.at
        /\ e.stage = "running" => row[e.job].status = "InProgress"

\* The inductive invariant: leases are not taken over while they are needed, so
\* a job has at most one holder, who alone writes its row.
ClaimInvariant ==
    /\ Timely(now)
    /\ Unpublished
    /\ Untried
    /\ GuidsDistinct
    /\ ClaimIsFresh
    /\ ClaimIsKept
    /\ HeldIsKept
    /\ ExclusiveHolder
    /\ RetryBudget
----------------------------------------------------------------------------
(* Consequences of the invariant *)

\* A held row is one that only its holder may write.
LEMMA HeldRow ==
    ASSUME TypeOK, ClaimInvariant, NEW n \in Nodes, NEW e \in held[n]
    PROVE  /\ e.job \in Jobs
           /\ row[e.job].status \in {"New", "Retry", "InProgress"}
           /\ row[e.job].lockGuid = e.guid
           /\ adder[e.job] \notin {"start", "inserted", "params", "generics"}
           /\ \A m \in Nodes : \A d \in held[m] : d.job = e.job => n = m /\ d = e
<1>1. e \in EntryType
  BY DEF TypeOK
<1>2. row[e.job].status \in {"New", "Retry", "InProgress"} /\ row[e.job].lockGuid = e.guid
  BY <1>1 DEF ClaimInvariant, HeldIsKept, EntryType
<1>3. e.job \in Jobs
  BY <1>1 DEF EntryType
<1>4. adder[e.job] \notin {"start", "inserted", "params", "generics"}
  BY <1>2, <1>3 DEF ClaimInvariant, Unpublished
<1>5. \A m \in Nodes : \A d \in held[m] : d.job = e.job => n = m /\ d = e
  BY DEF ClaimInvariant, ExclusiveHolder
<1> QED BY <1>2, <1>3, <1>4, <1>5

\* A GetJobs that is under way has a GUID and a time.
LEMMA RunningFetch ==
    ASSUME TypeOK, NEW n \in Nodes, fetch[n].step # "idle"
    PROVE  /\ fetch[n].guid \in LockGuids
           /\ fetch[n].guid # NoLock
           /\ fetch[n].at \in 1..now
BY StoreAssumption DEF TypeOK, FetchType, IdleFetch

----------------------------------------------------------------------------
(* Steps that write no row: nodes and fetches may be forgotten *)

LEMMA ForgettingKeepsClaims ==
    ASSUME TypeOK, ClaimInvariant, now' = now, row' = row,
           held' \in [Nodes -> SUBSET EntryType], fetch' \in [Nodes -> FetchType],
           \A n \in Nodes : held'[n] \subseteq held[n],
           \A n \in Nodes : fetch'[n] \in {fetch[n], IdleFetch},
           Unpublished'
    PROVE  ClaimInvariant'
<1> USE DEF ClaimInvariant
<1>1. \A n \in Nodes : fetch'[n].step # "idle" => fetch'[n] = fetch[n]
  BY DEF IdleFetch
<1>2. \A n \in Nodes : fetch'[n].guid \in {fetch[n].guid, NoLock}
  BY DEF IdleFetch
<1>3. Timely(now)'
  BY <1>1 DEF Timely
<1>4. GuidsDistinct'
  <2> SUFFICES ASSUME NEW n \in Nodes, fetch'[n].step # "idle", NEW m \in Nodes
               PROVE  /\ n # m => fetch'[m].guid # fetch'[n].guid
                      /\ \A e \in held'[m] : e.guid # fetch'[n].guid
    BY DEF GuidsDistinct
  <2>1. fetch'[n] = fetch[n] /\ fetch[n].step # "idle"
    BY <1>1
  <2>2. n # m => fetch[m].guid # fetch[n].guid
    BY <2>1 DEF GuidsDistinct
  <2>3. \A e \in held[m] : e.guid # fetch[n].guid
    BY <2>1 DEF GuidsDistinct
  <2> QED BY <2>1, <2>2, <2>3, <1>2, RunningFetch
<1>5. ClaimIsFresh' /\ ClaimIsKept'
  BY <1>1 DEF ClaimIsFresh, ClaimIsKept
<1>6. HeldIsKept' /\ ExclusiveHolder'
  BY DEF HeldIsKept, ExclusiveHolder
<1>7. Untried' /\ RetryBudget'
  BY DEF Untried, RetryBudget
<1> QED BY <1>3, <1>4, <1>5, <1>6, <1>7

----------------------------------------------------------------------------
(* Steps that write rows nobody holds: the adder and the purger *)

LEMMA UnheldRowsKeepClaims ==
    ASSUME TypeOK, ClaimInvariant, UNCHANGED <<now, fetch, held>>, Unpublished',
           \A j \in Jobs : row'[j] # row[j] =>
               /\ row[j].status \notin {"New", "Retry", "InProgress"}
               /\ row'[j].lockGuid \in {row[j].lockGuid, NoLock}
               /\ row'[j].retryCount = 0
    PROVE  ClaimInvariant'
<1> USE DEF ClaimInvariant
<1>1. Timely(now)' /\ GuidsDistinct' /\ ExclusiveHolder'
  BY DEF Timely, GuidsDistinct, ExclusiveHolder
<1>2. Untried' /\ RetryBudget'
  BY StoreAssumption DEF Untried, RetryBudget
<1>3. ClaimIsFresh'
  BY RunningFetch DEF ClaimIsFresh
<1>4. ClaimIsKept'
  <2> SUFFICES ASSUME NEW n \in Nodes, fetch[n].step = "select", NEW j \in Jobs,
                      row'[j].lockGuid = fetch[n].guid
               PROVE  row'[j] = row[j] /\ row[j].lockGuid = fetch[n].guid
    BY DEF ClaimIsKept, ClaimedAt
  <2>1. fetch[n].guid # NoLock
    BY RunningFetch
  <2>2. row[j].lockGuid = fetch[n].guid
    BY <2>1
  <2>3. row[j].status \in {"New", "Retry"}
    BY <2>2 DEF ClaimIsKept, ClaimedAt
  <2> QED BY <2>2, <2>3
<1>5. HeldIsKept'
  <2>1. \A n \in Nodes : \A e \in held[n] : row'[e.job] = row[e.job]
    BY HeldRow
  <2> QED BY <2>1 DEF HeldIsKept
<1> QED BY <1>1, <1>2, <1>3, <1>4, <1>5

LEMMA AdderKeepsClaims ==
    ASSUME TypeOK, ClaimInvariant, NEW j \in Jobs, AddStep(j) \/ AbandonAdd(j)
    PROVE  ClaimInvariant'
<1> row \in [Jobs -> RowType] /\ adder \in [Jobs -> {"start", "inserted", "params",
                                                    "generics", "added", "abandoned"}]
  BY DEF TypeOK
<1>1. CASE InsertJobRow(j)
  <2>1. \A k \in Jobs : k # j => row'[k] = row[k] /\ adder'[k] = adder[k]
    BY <1>1 DEF InsertJobRow
  <2>2. row[j].status \in {"Absent", "Inserting"}
    BY <1>1 DEF InsertJobRow, ClaimInvariant, Unpublished
  <2>3. row'[j] = InsertedRow(now)
    BY <1>1 DEF InsertJobRow
  <2>4. row'[j].status = "Inserting" /\ row'[j].lockGuid = NoLock
        /\ row'[j].retryCount = 0
    BY <2>3 DEF InsertedRow, AbsentRow
  <2>5. Unpublished'
    BY <2>1, <2>4 DEF Unpublished, ClaimInvariant
  <2> QED BY <1>1, <2>1, <2>2, <2>4, <2>5, UnheldRowsKeepClaims DEF InsertJobRow
<1>2. CASE InsertParams(j) \/ InsertGenerics(j) \/ AbandonAdd(j)
  <2>1. UNCHANGED <<now, row, fetch, held>>
    BY <1>2 DEF InsertParams, InsertGenerics, InsertChildren, AbandonAdd
  <2>2. adder[j] \in {"inserted", "params", "generics"}
    BY <1>2 DEF InsertParams, InsertGenerics, InsertChildren, AbandonAdd
  <2>3. \A k \in Jobs : k # j => adder'[k] = adder[k]
    BY <1>2 DEF InsertParams, InsertGenerics, InsertChildren, AbandonAdd
  <2>4. Unpublished'
    BY <2>1, <2>2, <2>3 DEF Unpublished, ClaimInvariant
  <2> QED BY <2>1, <2>4, ForgettingKeepsClaims DEF TypeOK
<1>3. CASE PublishJob(j)
  <2>1. row[j].status \in {"Absent", "Inserting"}
    BY <1>3 DEF PublishJob, ClaimInvariant, Unpublished
  <2>2. \A k \in Jobs : k # j => row'[k] = row[k] /\ adder'[k] = adder[k]
    BY <1>3 DEF PublishJob, Update
  <2>3. row'[j] \in {row[j], [row[j] EXCEPT !.status = "New"]}
    BY <1>3 DEF PublishJob, Update
  <2>4. row'[j].lockGuid = row[j].lockGuid /\ row'[j].retryCount = row[j].retryCount
    BY <2>3 DEF RowType
  <2>5. row[j].retryCount = 0
    BY <2>1 DEF ClaimInvariant, Untried
  <2>6. adder'[j] = "added"
    BY <1>3 DEF PublishJob
  <2>7. Unpublished'
    BY <2>2, <2>6 DEF Unpublished, ClaimInvariant
  <2> QED BY <1>3, <2>1, <2>2, <2>4, <2>5, <2>7, UnheldRowsKeepClaims DEF PublishJob
<1> QED BY <1>1, <1>2, <1>3 DEF AddStep

LEMMA PurgerKeepsClaims ==
    ASSUME TypeOK, ClaimInvariant, Orderly, PurgeStep
    PROVE  ClaimInvariant'
<1>1. CASE PurgeParams \/ PurgeGenerics \/ AbandonPurge
  <2>1. UNCHANGED <<now, row, adder, fetch, held>>
    BY <1>1 DEF PurgeParams, PurgeGenerics, AbandonPurge
  <2>2. Unpublished'
    BY <2>1 DEF Unpublished, ClaimInvariant
  <2> QED BY <2>1, <2>2, ForgettingKeepsClaims DEF TypeOK
<1>2. CASE PurgeRows
  <2>0. purge \in PurgeType /\ purge # IdlePurge
    BY <1>2 DEF PurgeRows, TypeOK, IdlePurge
  <2>1. purge.state \in {"Processed", "Failed"}
    BY <2>0 DEF PurgeType, Orderly
  <2>2. \A j \in Jobs : row'[j] # row[j] => /\ row[j].status \in {"Processed", "Failed"}
                                            /\ row'[j] = AbsentRow
    BY <1>2, <2>1 DEF PurgeRows, Purgeable
  <2>3. AbsentRow.lockGuid = NoLock /\ AbsentRow.retryCount = 0
        /\ AbsentRow.status = "Absent"
    BY DEF AbsentRow
  <2>4. Unpublished'
    BY <1>2, <2>2, <2>3 DEF PurgeRows, Unpublished, ClaimInvariant
  <2> QED BY <1>2, <2>2, <2>3, <2>4, UnheldRowsKeepClaims DEF PurgeRows
<1> QED BY <1>1, <1>2 DEF PurgeStep

----------------------------------------------------------------------------
(* GetJobs and the clock *)

LEMMA BeginFetchKeepsClaims ==
    ASSUME TypeOK, ClaimInvariant, NEW n \in Nodes, BeginFetch(n)
    PROVE  ClaimInvariant'
<1> USE DEF ClaimInvariant
<1> PICK g \in LockGuids \ GuidsInUse :
        fetch' = [fetch EXCEPT ![n] = [step |-> "claim", guid |-> g, at |-> now]]
  BY DEF BeginFetch
<1>1. UNCHANGED <<now, row, adder, held>>
  BY DEF BeginFetch
<1>2. fetch'[n] = [step |-> "claim", guid |-> g, at |-> now]
      /\ \A m \in Nodes : m # n => fetch'[m] = fetch[m]
  BY DEF TypeOK
<1>3. /\ \A j \in Jobs : row[j].lockGuid # g
      /\ \A m \in Nodes : fetch[m].guid # g
      /\ \A m \in Nodes : \A e \in held[m] : e.guid # g
  BY DEF GuidsInUse
<1>4. Timely(now)'
  BY <1>1, <1>2, StoreAssumption DEF Timely, TypeOK
<1>5. GuidsDistinct'
  BY <1>1, <1>2, <1>3 DEF GuidsDistinct
<1>6. ClaimIsFresh'
  BY <1>1, <1>2, <1>3 DEF ClaimIsFresh
<1>7. ClaimIsKept'
  BY <1>1, <1>2 DEF ClaimIsKept, ClaimedAt
<1>8. Unpublished' /\ Untried' /\ HeldIsKept' /\ ExclusiveHolder' /\ RetryBudget'
  BY <1>1 DEF Unpublished, Untried, HeldIsKept, ExclusiveHolder, RetryBudget
<1> QED BY <1>4, <1>5, <1>6, <1>7, <1>8

\* No lease that anyone still needs has run out, so no job with a holder, and
\* none that another GetJobs has claimed, is eligible.
LEMMA EligibleIsFree ==
    ASSUME TypeOK, ClaimInvariant, NEW t \in 1..now, NEW j \in Jobs,
           Eligible(j, row[j], t)
    PROVE  /\ \A m \in Nodes : \A e \in held[m] : e.job # j
           /\ \A m \in Nodes : fetch[m].step = "select" => row[j].lockGuid # fetch[m].guid
<1> USE DEF ClaimInvariant
<1> now \in Nat /\ LeaseTimeout \in Nat /\ t \in Nat /\ t <= now
  BY StoreAssumption DEF TypeOK
<1>1. row[j].status \in {"New", "Retry"}
  BY DEF Eligible
<1>2. \A c \in 1..now : now <= c + LeaseTimeout => row[j].lockClaim # c
  BY DEF Eligible, LeaseFree, NoTime
<1>3. ASSUME NEW m \in Nodes, NEW e \in held[m], e.job = j PROVE FALSE
  <2>1. e.stage \in {"fetched", "running"} /\ e.at \in 1..now
    BY DEF TypeOK, EntryType
  <2>2. e.stage = "fetched" /\ row[j].lockClaim = e.at
    BY <1>1, <1>3, <2>1 DEF HeldIsKept
  <2>3. now <= e.at + LeaseTimeout
    BY <2>2 DEF Timely
  <2> QED BY <1>2, <2>1, <2>2, <2>3
<1>4. ASSUME NEW m \in Nodes, fetch[m].step = "select", row[j].lockGuid = fetch[m].guid
      PROVE  FALSE
  <2>1. row[j].lockClaim = fetch[m].at
    BY <1>4 DEF ClaimIsKept, ClaimedAt
  <2>2. now <= fetch[m].at + LeaseTimeout
    BY <1>4 DEF Timely
  <2> QED BY <1>2, <1>4, <2>1, <2>2, RunningFetch
<1> QED BY <1>3, <1>4

LEMMA ClaimWritesLock ==
    \A r \in RowType : \A g, t :
        LET c == ClaimedRow(r, g, t)
        IN  /\ c.lockGuid = g /\ c.lockClaim = t
            /\ c.status = r.status
            /\ c.retryCount = r.retryCount
            /\ c.lastAttempt = r.lastAttempt
BY DEF ClaimedRow, RowType

LEMMA ClaimJobsKeepsClaims ==
    ASSUME TypeOK, ClaimInvariant, NEW n \in Nodes, ClaimJobs(n)
    PROVE  ClaimInvariant'
<1> USE DEF ClaimInvariant
<1> DEFINE f == fetch[n]
<1>1. UNCHANGED <<now, adder, held>> /\ f.step = "claim"
  BY DEF ClaimJobs
<1>2. f.guid \in LockGuids /\ f.at \in 1..now
  BY <1>1, RunningFetch
<1>3. PICK S \in Batches(f.at) :
          row' = [j \in Jobs |-> IF j \in S THEN ClaimedRow(row[j], f.guid, f.at)
                                            ELSE row[j]]
  BY DEF ClaimJobs
<1>4. \A j \in S : j \in Jobs /\ Eligible(j, row[j], f.at)
  BY DEF Batches, EligibleJobs
<1>5. \A j \in Jobs : j \notin S => row'[j] = row[j]
  BY <1>3
<1>6. \A j \in S : row'[j] = ClaimedRow(row[j], f.guid, f.at) /\ row[j] \in RowType
  BY <1>3, <1>4 DEF TypeOK
<1>7. \A j \in S : /\ row'[j].lockGuid = f.guid /\ row'[j].lockClaim = f.at
                   /\ row'[j].status = row[j].status
                   /\ row'[j].retryCount = row[j].retryCount
                   /\ row'[j].lastAttempt = row[j].lastAttempt
  BY <1>6, ClaimWritesLock
<1> HIDE DEF f
<1>8. fetch'[n].step = "select" /\ fetch'[n].guid = f.guid /\ fetch'[n].at = f.at
      /\ \A m \in Nodes : m # n => fetch'[m] = fetch[m]
  BY DEF ClaimJobs, TypeOK, FetchType, IdleFetch, f
<1>9. Timely(now)' /\ GuidsDistinct'
  <2>1. Timely(now)'
    BY <1>1, <1>8 DEF Timely, f
  <2>2. GuidsDistinct'
    BY <1>1, <1>8 DEF GuidsDistinct, f
  <2> QED BY <2>1, <2>2
<1>10. Unpublished' /\ Untried' /\ RetryBudget' /\ ExclusiveHolder'
  BY <1>1, <1>4, <1>5, <1>7 DEF Unpublished, Untried, RetryBudget, ExclusiveHolder
<1>11. \A m \in Nodes : m # n => fetch[m].guid # f.guid
  BY <1>1 DEF GuidsDistinct, f
<1>12. ClaimIsFresh'
  BY <1>5, <1>7, <1>8, <1>11 DEF ClaimIsFresh
<1>13. ClaimIsKept'
  <2> SUFFICES ASSUME NEW m \in Nodes, fetch'[m].step = "select", NEW j \in Jobs,
                      row'[j].lockGuid = fetch'[m].guid
               PROVE  ClaimedAt(row'[j], j, fetch'[m].at)
    BY DEF ClaimIsKept
  <2>1. CASE m = n
    <3>1. j \in S
      BY <1>1, <1>5, <1>8, <2>1 DEF ClaimIsFresh, f
    <3> QED BY <1>4, <1>7, <1>8, <2>1, <3>1
            DEF Eligible, RetryDue, ClaimedAt
  <2>2. CASE m # n
    BY <1>5, <1>7, <1>8, <1>11, <2>2 DEF ClaimIsKept
  <2> QED BY <2>1, <2>2
<1>14. HeldIsKept'
  <2>1. \A m \in Nodes : \A e \in held[m] : row'[e.job] = row[e.job]
    BY <1>2, <1>4, <1>5, EligibleIsFree, HeldRow
  <2> QED BY <1>1, <2>1 DEF HeldIsKept
<1> QED BY <1>9, <1>10, <1>12, <1>13, <1>14

LEMMA SelectKeepsClaims ==
    ASSUME TypeOK, ClaimInvariant, NEW n \in Nodes, SelectClaimed(n)
    PROVE  ClaimInvariant'
<1> USE DEF ClaimInvariant
<1> DEFINE f == fetch[n]
           mine == {j \in Jobs : row[j].lockGuid = f.guid}
           got == {Fetched(j, f) : j \in mine}
<1>1. UNCHANGED <<now, row, adder>> /\ f.step = "select"
  BY DEF SelectClaimed
<1>2. held'[n] = held[n] \cup got /\ \A m \in Nodes : m # n => held'[m] = held[m]
  BY DEF SelectClaimed, TypeOK
<1>3. fetch'[n] = IdleFetch /\ \A m \in Nodes : m # n => fetch'[m] = fetch[m]
  BY DEF SelectClaimed, TypeOK
<1>4. \A e \in got : /\ e.job \in Jobs /\ row[e.job].lockGuid = f.guid
                     /\ e = Fetched(e.job, f)
                     /\ e.guid = f.guid /\ e.at = f.at /\ e.stage = "fetched"
                     /\ e.retries = row[e.job].retryCount
                     /\ ClaimedAt(row[e.job], e.job, f.at)
  BY <1>1 DEF Fetched, ClaimIsKept
<1>5. \A m \in Nodes : m # n => fetch[m].guid # f.guid
  BY <1>1 DEF GuidsDistinct
<1>6. \A m \in Nodes : \A e \in held[m] : e.guid # f.guid
  BY <1>1 DEF GuidsDistinct
<1> HIDE DEF got
<1>7. Timely(now)'
  BY <1>1, <1>2, <1>3, <1>4 DEF Timely, IdleFetch
<1>8. GuidsDistinct'
  <2> SUFFICES ASSUME NEW k \in Nodes, fetch'[k].step # "idle", NEW m \in Nodes
               PROVE  /\ k # m => fetch'[m].guid # fetch'[k].guid
                      /\ \A e \in held'[m] : e.guid # fetch'[k].guid
    BY DEF GuidsDistinct
  <2>1. k # n /\ fetch'[k] = fetch[k]
    BY <1>3 DEF IdleFetch
  <2>2. k # m => fetch'[m].guid # fetch'[k].guid
    BY <1>3, <2>1, RunningFetch DEF GuidsDistinct, IdleFetch
  <2>3. \A e \in held'[m] : e.guid # fetch'[k].guid
    BY <1>2, <1>4, <1>5, <2>1 DEF GuidsDistinct
  <2> QED BY <2>2, <2>3
<1>9. ClaimIsFresh' /\ ClaimIsKept'
  BY <1>1, <1>3 DEF ClaimIsFresh, ClaimIsKept, ClaimedAt, IdleFetch
<1>10. HeldIsKept'
  BY <1>1, <1>2, <1>4 DEF HeldIsKept, ClaimedAt
<1>11. ExclusiveHolder'
  <2>1. \A d \in got, e \in got : d.job = e.job => d = e
    BY <1>4
  <2>2. \A m \in Nodes : \A d \in held[m], e \in got : d.job # e.job
    BY <1>4, <1>6, HeldRow
  <2> QED BY <1>2, <2>1, <2>2 DEF ExclusiveHolder
<1>12. Unpublished' /\ Untried' /\ RetryBudget'
  BY <1>1 DEF Unpublished, Untried, RetryBudget
<1> QED BY <1>7, <1>8, <1>9, <1>10, <1>11, <1>12

LEMMA FetchKeepsClaims ==
    ASSUME TypeOK, ClaimInvariant, NEW n \in Nodes,
           BeginFetch(n) \/ ClaimJobs(n) \/ SelectClaimed(n) \/ LoseFetch(n) \/ Crash(n)
    PROVE  ClaimInvariant'
<1>1. CASE LoseFetch(n) \/ Crash(n)
  <2>1. UNCHANGED <<now, row, adder>>
    BY <1>1 DEF LoseFetch, Crash
  <2>2. Unpublished'
    BY <2>1 DEF Unpublished, ClaimInvariant
  <2>3. \A m \in Nodes : held'[m] \subseteq held[m] /\ fetch'[m] \in {fetch[m], IdleFetch}
    BY <1>1 DEF LoseFetch, Crash, TypeOK
  <2>4. held' \in [Nodes -> SUBSET EntryType] /\ fetch' \in [Nodes -> FetchType]
    BY <1>1 DEF LoseFetch, Crash, TypeOK, FetchType
  <2> QED BY <2>1, <2>2, <2>3, <2>4, ForgettingKeepsClaims
<1> QED BY <1>1, BeginFetchKeepsClaims, ClaimJobsKeepsClaims, SelectKeepsClaims

LEMMA TickKeepsClaims ==
    ASSUME TypeOK, ClaimInvariant, Orderly, Tick
    PROVE  ClaimInvariant'
<1> USE DEF ClaimInvariant
<1>1. Timely(now + 1) /\ now' = now + 1 /\ UNCHANGED <<row, adder, fetch, held>>
  BY DEF Tick, Orderly
<1>2. Timely(now)'
  BY <1>1 DEF Timely
<1> QED BY <1>1, <1>2 DEF Unpublished, Untried, GuidsDistinct, ClaimIsFresh,
           ClaimIsKept, ClaimedAt, HeldIsKept, ExclusiveHolder, RetryBudget

----------------------------------------------------------------------------
(* The writes of a node *)

\* A row written by its only holder, who then lets go of it or, with the
\* InProgress write, keeps it as running.
LEMMA HolderKeepsClaims ==
    ASSUME TypeOK, ClaimInvariant, NEW n \in Nodes, NEW e \in held[n], NEW r,
           UNCHANGED <<now, adder, fetch>>,
           \A j \in Jobs : j # e.job => row'[j] = row[j],
           row'[e.job] = r,
           r.lockGuid = e.guid,
           r.status \in {"InProgress", "Retry", "Processed", "Failed"},
           r.retryCount <= MaxRetries[e.job],
           \/ Release(n, e)
           \/ /\ Advance(n, e)
              /\ r.status = "InProgress"
              /\ r.retryCount = e.retries
    PROVE  ClaimInvariant'
<1> USE DEF ClaimInvariant
<1> DEFINE run == [e EXCEPT !.stage = "running"]
<1>1. /\ e.job \in Jobs /\ row[e.job].lockGuid = e.guid
      /\ adder[e.job] \notin {"start", "inserted", "params", "generics"}
      /\ \A m \in Nodes : \A d \in held[m] : d.job = e.job => n = m /\ d = e
  BY HeldRow
<1>2. run.job = e.job /\ run.guid = e.guid /\ run.retries = e.retries
      /\ run.stage = "running"
  BY DEF TypeOK, EntryType
<1> HIDE DEF run
<1>3. \A m \in Nodes : \A d \in held'[m] :
          \/ d \in held[m] /\ d.job # e.job
          \/ /\ m = n /\ d = run
             /\ r.status = "InProgress" /\ r.retryCount = e.retries
  <2>1. CASE Release(n, e)
    BY <1>1, <2>1 DEF Release, TypeOK
  <2>2. CASE Advance(n, e) /\ r.status = "InProgress" /\ r.retryCount = e.retries
    BY <1>1, <2>2 DEF Advance, TypeOK, run
  <2> QED BY <2>1, <2>2
<1>4. \A j \in Jobs : row'[j].lockGuid = row[j].lockGuid
  BY <1>1
<1>5. Timely(now)'
  BY <1>2, <1>3 DEF Timely
<1>6. Unpublished' /\ Untried' /\ RetryBudget'
  BY <1>1 DEF Unpublished, Untried, RetryBudget
<1>7. GuidsDistinct'
  BY <1>2, <1>3 DEF GuidsDistinct
<1>8. ClaimIsFresh'
  BY <1>4 DEF ClaimIsFresh
<1>9. ClaimIsKept'
  <2>1. \A m \in Nodes : fetch[m].step = "select" => fetch[m].guid # e.guid
    BY DEF GuidsDistinct
  <2> QED BY <1>1, <2>1 DEF ClaimIsKept
<1>10. HeldIsKept'
  <2> SUFFICES ASSUME NEW m \in Nodes, NEW d \in held'[m]
               PROVE  /\ row'[d.job].lockGuid = d.guid
                      /\ row'[d.job].retryCount = d.retries
                      /\ d.stage = "fetched" => /\ row'[d.job].status \in {"New", "Retry"}
                                                /\ row'[d.job].lockClaim = d.at
                      /\ d.stage = "running" => row'[d.job].status = "InProgress"
    BY DEF HeldIsKept
  <2>1. CASE d \in held[m] /\ d.job # e.job
    <3>1. d.job \in Jobs
      BY <2>1, HeldRow
    <3> QED BY <2>1, <3>1 DEF HeldIsKept
  <2>2. CASE d = run /\ r.status = "InProgress" /\ r.retryCount = e.retries
    BY <1>2, <2>2
  <2> QED BY <1>3, <2>1, <2>2
<1>11. ExclusiveHolder'
  BY <1>2, <1>3 DEF ExclusiveHolder
<1> QED BY <1>5, <1>6, <1>7, <1>8, <1>9, <1>10, <1>11

\* What the statements leave in the columns the protocol reads.
LEMMA WrittenColumns ==
    \A r \in RowType : \A t :
        /\ InProgressRow(r, t).status = "InProgress"
        /\ InProgressRow(r, t).lockGuid = r.lockGuid
        /\ InProgressRow(r, t).retryCount = r.retryCount
        /\ ProcessedRow(r).status = "Processed" /\ FailedRow(r).status = "Failed"
        /\ ProcessedRow(r).lockGuid = r.lockGuid /\ FailedRow(r).lockGuid = r.lockGuid
        /\ ProcessedRow(r).retryCount = r.retryCount
        /\ FailedRow(r).retryCount = r.retryCount
        /\ RetryRow(r, t).status = "Retry"
        /\ RetryRow(r, t).lockGuid = r.lockGuid
        /\ RetryRow(r, t).retryCount = r.retryCount + 1
BY DEF InProgressRow, ProcessedRow, FailedRow, RetryRow, RowType

LEMMA WriteKeepsClaims ==
    ASSUME TypeOK, ClaimInvariant, Orderly,
           NEW n \in Nodes, NEW e \in held[n], NodeWrite(n, e)
    PROVE  ClaimInvariant'
<1> DEFINE old == row[e.job]
<1>1. e \in EntryType /\ e.job \in Jobs /\ old \in RowType
  BY HeldTypes DEF EntryType
<1>2. old.lockGuid = e.guid /\ old.status # "Absent" /\ old.retryCount = e.retries
      /\ old.retryCount <= MaxRetries[e.job]
  BY <1>1, HeldRow DEF ClaimInvariant, HeldIsKept, RetryBudget
<1>3. \A r : Update(e.job, r) => /\ \A j \in Jobs : j # e.job => row'[j] = row[j]
                                 /\ row'[e.job] = r
  BY <1>1, <1>2 DEF Update, TypeOK
<1> HIDE DEF old
<1>4. CASE MarkJobInProgress(n, e)
  <2>1. Update(e.job, InProgressRow(old, now)) /\ Advance(n, e)
        /\ UNCHANGED <<now, adder, fetch>>
    BY <1>4 DEF MarkJobInProgress, old
  <2> QED BY <1>1, <1>2, <1>3, <2>1, WrittenColumns, HolderKeepsClaims
<1>5. CASE MarkTypeMissing(n, e) \/ MarkJobFailed(n, e)
  <2>1. Update(e.job, FailedRow(old)) /\ Release(n, e) /\ UNCHANGED <<now, adder, fetch>>
    BY <1>5 DEF MarkTypeMissing, MarkJobFailed, old
  <2> QED BY <1>1, <1>2, <1>3, <2>1, WrittenColumns, HolderKeepsClaims
<1>6. CASE MarkJobSuccess(n, e)
  <2>1. Update(e.job, ProcessedRow(old)) /\ Release(n, e) /\ UNCHANGED <<now, adder, fetch>>
    BY <1>6 DEF MarkJobSuccess, old
  <2> QED BY <1>1, <1>2, <1>3, <2>1, WrittenColumns, HolderKeepsClaims
<1>7. CASE MarkJobInRetryAndIncrement(n, e)
  <2>1. Update(e.job, RetryRow(old, now)) /\ Release(n, e) /\ UNCHANGED <<now, adder, fetch>>
    BY <1>7 DEF MarkJobInRetryAndIncrement, old
  <2>2. old.retryCount + 1 <= MaxRetries[e.job]
    <3>1. ~(MaxRetries[e.job] <= old.retryCount)
      BY <1>2, <1>7 DEF MarkJobInRetryAndIncrement, RetriesExhausted
    <3>2. MaxRetries[e.job] \in Nat /\ old.retryCount \in Nat
      BY <1>1, StoreAssumption DEF RowType
    <3> QED BY <3>1, <3>2
  <2> QED BY <1>1, <1>2, <1>3, <2>1, <2>2, WrittenColumns, HolderKeepsClaims
<1>8. CASE DropOutcome(n, e)
  <2>1. UNCHANGED <<now, row, adder, fetch>> /\ Release(n, e)
    BY <1>8 DEF DropOutcome
  <2>2. Unpublished'
    BY <2>1 DEF Unpublished, ClaimInvariant
  <2>3. held' \in [Nodes -> SUBSET EntryType] /\ \A m \in Nodes : held'[m] \subseteq held[m]
    BY <2>1 DEF Release, TypeOK
  <2> QED BY <2>1, <2>2, <2>3, ForgettingKeepsClaims DEF TypeOK
<1>9. ~DropInProgress(n, e)
  BY DEF DropInProgress, Orderly
<1> QED BY <1>4, <1>5, <1>6, <1>7, <1>8, <1>9 DEF NodeWrite, Outcome

----------------------------------------------------------------------------
(* Theorems *)

LEMMA ClaimsAreKept == Orderly => (Spec => []ClaimInvariant)
<1> SUFFICES ASSUME Orderly PROVE Spec => []ClaimInvariant
  OBVIOUS
<1>1. Init => ClaimInvariant
  <2> SUFFICES ASSUME Init PROVE ClaimInvariant
    OBVIOUS
  <2>1. \A j \in Jobs : row[j].status = "Absent" /\ row[j].retryCount = 0
    BY DEF Init, AbsentRow
  <2>2. \A n \in Nodes : fetch[n].step = "idle" /\ held[n] = {}
    BY DEF Init, IdleFetch
  <2> QED BY <2>1, <2>2, StoreAssumption
          DEF ClaimInvariant, Timely, Unpublished, Untried, GuidsDistinct, ClaimIsFresh,
              ClaimIsKept, HeldIsKept, ExclusiveHolder, RetryBudget
<1>2. TypeOK /\ ClaimInvariant /\ [Next]_vars => ClaimInvariant'
  <2> SUFFICES ASSUME TypeOK, ClaimInvariant, [Next]_vars PROVE ClaimInvariant'
    OBVIOUS
  <2>1. ASSUME NEW j \in Jobs, AddStep(j) \/ AbandonAdd(j) PROVE ClaimInvariant'
    BY <2>1, AdderKeepsClaims
  <2>2. ASSUME NEW n \in Nodes, BeginFetch(n) \/ ClaimJobs(n) \/ SelectClaimed(n)
                                \/ LoseFetch(n) \/ Crash(n)
        PROVE  ClaimInvariant'
    BY <2>2, FetchKeepsClaims
  <2>3. ASSUME NEW n \in Nodes, NEW e \in held[n], NodeWrite(n, e) PROVE ClaimInvariant'
    BY <2>3, WriteKeepsClaims
  <2>4. CASE PurgeStep  BY <2>4, PurgerKeepsClaims
  <2>5. CASE Tick  BY <2>5, TickKeepsClaims
  <2>6. CASE UNCHANGED vars
    <3>1. Unpublished'
      BY <2>6 DEF vars, ClaimInvariant, Unpublished
    <3> QED BY <2>6, <3>1, ForgettingKeepsClaims DEF vars, TypeOK
  <2> QED BY <2>1, <2>2, <2>3, <2>4, <2>5, <2>6 DEF Next, NodeWrite, PurgeStep
<1> QED BY <1>1, <1>2, TypeCorrect, PTL DEF Spec

\* GetJobs hands a job to one node at a time, although its claim and its
\* read-back are two statements outside any transaction.
THEOREM ClaimsAreExclusive == Orderly => (Spec => []ExclusiveHolder)
<1>1. ClaimInvariant => ExclusiveHolder
  BY DEF ClaimInvariant
<1> QED BY <1>1, ClaimsAreKept, PTL

\* Status, lock and retry count of a row are what its holder believes, so the
\* coordinator's decision between Retry and Failed is never taken on a stale
\* count.
THEOREM HeldAgrees == Orderly => (Spec => []HeldAgreesWithStore)
<1>1. TypeOK /\ ClaimInvariant => HeldAgreesWithStore
  <2> SUFFICES ASSUME TypeOK, ClaimInvariant PROVE HeldAgreesWithStore
    OBVIOUS
  <2>1. \A n \in Nodes : \A e \in held[n] : e.stage \in {"fetched", "running"}
    BY DEF TypeOK, EntryType
  <2> QED BY <2>1 DEF ClaimInvariant, HeldIsKept, HeldAgreesWithStore
<1> QED BY <1>1, ClaimsAreKept, TypeCorrect, PTL

\* MarkJobInRetryAndIncrement never takes a job past its MaxRetries.
THEOREM RetryBudgetKept == Orderly => (Spec => []RetryBudget)
<1>1. ClaimInvariant => RetryBudget
  BY DEF ClaimInvariant
<1> QED BY <1>1, ClaimsAreKept, PTL

LEMMA StepKeepsTerminal ==
    ASSUME TypeOK, ClaimInvariant, [Next]_vars,
           NEW j \in Jobs, row[j].status \in {"Processed", "Failed"}
    PROVE  row'[j] = row[j] \/ row'[j].status \in {row[j].status, "Absent"}
<1> USE DEF ClaimInvariant
<1>1. ASSUME NEW k \in Jobs, AddStep(k) \/ AbandonAdd(k) PROVE row'[j] = row[j]
  <2>1. CASE InsertJobRow(k) \/ PublishJob(k)
    <3>1. adder[k] \in {"start", "generics"}
      BY <2>1 DEF InsertJobRow, PublishJob
    <3>2. k # j
      BY <3>1 DEF Unpublished
    <3> QED BY <2>1, <3>2 DEF InsertJobRow, PublishJob, Update, TypeOK
  <2>2. CASE InsertParams(k) \/ InsertGenerics(k) \/ AbandonAdd(k)
    BY <2>2 DEF InsertParams, InsertGenerics, InsertChildren, AbandonAdd
  <2> QED BY <1>1, <2>1, <2>2 DEF AddStep
<1>2. ASSUME NEW n \in Nodes, BeginFetch(n) \/ SelectClaimed(n) \/ LoseFetch(n) \/ Crash(n)
      PROVE  row'[j] = row[j]
  BY <1>2 DEF BeginFetch, SelectClaimed, LoseFetch, Crash
<1>3. ASSUME NEW n \in Nodes, ClaimJobs(n) PROVE row'[j] = row[j]
  BY <1>3 DEF ClaimJobs, Batches, EligibleJobs, Eligible
<1>4. ASSUME NEW n \in Nodes, NEW e \in held[n], NodeWrite(n, e) PROVE row'[j] = row[j]
  <2>1. e.job # j
    BY HeldRow
  <2>2. \/ row' = row
        \/ \E r : Update(e.job, r)
    BY <1>4 DEF NodeWrite, Outcome, MarkJobInProgress, MarkTypeMissing, MarkJobSuccess,
                MarkJobFailed, MarkJobInRetryAndIncrement, DropInProgress, DropOutcome
  <2> QED BY <2>1, <2>2 DEF Update, TypeOK
<1>5. CASE PurgeStep
  <2>1. row' = row \/ row'[j] \in {row[j], AbsentRow}
    BY <1>5 DEF PurgeStep, PurgeParams, PurgeGenerics, PurgeRows, AbandonPurge
  <2> QED BY <2>1 DEF AbsentRow
<1>6. CASE Tick \/ UNCHANGED vars
  BY <1>6 DEF Tick, vars
<1> QED BY <1>1, <1>2, <1>3, <1>4, <1>5, <1>6 DEF Next, NodeWrite, PurgeStep

\* Processed and Failed are final until the purger deletes the row: although no
\* Mark* statement tests the status it overwrites, none ever meets a final one.
THEOREM TerminalStaysFinal == Orderly => (Spec => TerminalIsFinal)
<1> SUFFICES ASSUME Orderly PROVE Spec => TerminalIsFinal
  OBVIOUS
<1>1. TypeOK /\ ClaimInvariant /\ [Next]_vars =>
          [\A j \in Jobs : row[j].status \in {"Processed", "Failed"} =>
               row'[j].status \in {row[j].status, "Absent"}]_vars
  <2> SUFFICES ASSUME TypeOK, ClaimInvariant, [Next]_vars, NEW j \in Jobs,
                      row[j].status \in {"Processed", "Failed"}
               PROVE  row'[j].status \in {row[j].status, "Absent"}
    OBVIOUS
  <2> QED BY StepKeepsTerminal
<1> QED BY <1>1, TypeCorrect, ClaimsAreKept, PTL DEF Spec, TerminalIsFinal

\* Nothing but the SELECT of its own GetJobs hands a job to a node.
LEMMA OnlySelectPicksUp ==
    ASSUME TypeOK, [Next]_vars, NEW n \in Nodes, NEW e \in PickedUp(n)
    PROVE  SelectClaimed(n)
<1>0. e \in held'[n] /\ e \notin held[n] /\ e.stage = "fetched"
  BY DEF PickedUp
<1>1. ASSUME NEW m \in Nodes, NEW d \in held[m], NodeWrite(m, d) PROVE FALSE
  <2> DEFINE run == [d EXCEPT !.stage = "running"]
  <2>1. run.stage = "running"
    BY DEF TypeOK, EntryType
  <2> HIDE DEF run
  <2>2. held' \in {[held EXCEPT ![m] = @ \ {d}], [held EXCEPT ![m] = (@ \ {d}) \cup {run}]}
    BY <1>1 DEF NodeWrite, Outcome, MarkJobInProgress, MarkTypeMissing, MarkJobSuccess,
                MarkJobFailed, MarkJobInRetryAndIncrement, DropInProgress, DropOutcome,
                Release, Advance, run
  <2>3. held'[n] \subseteq held[n] \cup {run}
    BY <2>2 DEF TypeOK
  <2> QED BY <1>0, <2>1, <2>3
<1>2. \E m \in Nodes : SelectClaimed(m)
  <2>1. ASSUME NEW j \in Jobs, AddStep(j) \/ AbandonAdd(j) PROVE held' = held
    BY <2>1 DEF AddStep, InsertJobRow, InsertParams, InsertGenerics, InsertChildren,
                PublishJob, AbandonAdd
  <2>2. ASSUME NEW m \in Nodes, BeginFetch(m) \/ ClaimJobs(m) \/ LoseFetch(m)
        PROVE  held' = held
    BY <2>2 DEF BeginFetch, ClaimJobs, LoseFetch
  <2>3. ASSUME NEW m \in Nodes, Crash(m) PROVE held'[n] \subseteq held[n]
    BY <2>3 DEF Crash, TypeOK
  <2>4. PurgeStep \/ Tick \/ UNCHANGED vars => held' = held
    BY DEF PurgeStep, PurgeParams, PurgeGenerics, PurgeRows, AbandonPurge, Tick, vars
  <2> QED BY <1>0, <1>1, <2>1, <2>2, <2>3, <2>4 DEF Next, NodeWrite, PurgeStep
<1>3. PICK m \in Nodes : SelectClaimed(m)
  BY <1>2
<1>4. m = n
  BY <1>0, <1>3 DEF SelectClaimed, TypeOK
<1> QED BY <1>3, <1>4

\* The SELECT finds the job as it was claimed.
LEMMA PickedUpIsClaimed ==
    ASSUME TypeOK, ClaimInvariant, [Next]_vars, NEW n \in Nodes, NEW e \in PickedUp(n)
    PROVE  /\ e.job \in Jobs
           /\ e.retries = row[e.job].retryCount
           /\ fetch[n].at \in 1..now
           /\ ClaimedAt(row[e.job], e.job, fetch[n].at)
<1>1. SelectClaimed(n) /\ e \in held'[n] /\ e \notin held[n]
  BY OnlySelectPicksUp DEF PickedUp
<1>2. fetch[n].step = "select" /\ fetch[n].at \in 1..now
  BY <1>1, RunningFetch DEF SelectClaimed
<1>3. PICK j \in Jobs : row[j].lockGuid = fetch[n].guid /\ e = Fetched(j, fetch[n])
  BY <1>1 DEF SelectClaimed, TypeOK
<1>4. e.job = j /\ e.retries = row[j].retryCount
  BY <1>3 DEF Fetched
<1>5. ClaimedAt(row[j], j, fetch[n].at)
  BY <1>2, <1>3 DEF ClaimInvariant, ClaimIsKept
<1> QED BY <1>2, <1>4, <1>5

LEMMA StepHandsOutInTime ==
    ASSUME TypeOK, ClaimInvariant, [Next]_vars, NEW n \in Nodes, NEW e \in PickedUp(n)
    PROVE  /\ DoNotExecuteBefore[e.job] <= now
           /\ e.retries > 0 => row[e.job].lastAttempt + MinRetryWait <= now
<1> DEFINE j == e.job
<1>1. j \in Jobs /\ e.retries = row[j].retryCount /\ fetch[n].at \in 1..now
      /\ ClaimedAt(row[j], j, fetch[n].at)
  BY PickedUpIsClaimed
<1>2. e.retries > 0 => row[j].status = "Retry"
  BY <1>1 DEF ClaimedAt, ClaimInvariant, Untried
<1>3. /\ now \in Nat /\ MinRetryWait \in Nat /\ row[j].lastAttempt \in Nat
      /\ DoNotExecuteBefore[j] \in Nat
  BY <1>1, StoreAssumption DEF TypeOK, RowType, Time
<1> QED BY <1>1, <1>2, <1>3 DEF ClaimedAt

\* GetJobs never hands a job out before its execution time, nor a retry before
\* MinRetryWait has passed since the last attempt, as its SELECT reads the row.
THEOREM HandOutsAreInTime == Orderly => (Spec => NoEarlyHandOut)
<1> SUFFICES ASSUME Orderly PROVE Spec => NoEarlyHandOut
  OBVIOUS
<1>1. TypeOK /\ ClaimInvariant /\ [Next]_vars =>
          [\A n \in Nodes : \A e \in PickedUp(n) :
               /\ DoNotExecuteBefore[e.job] <= now
               /\ e.retries > 0 => row[e.job].lastAttempt + MinRetryWait <= now]_vars
  BY StepHandsOutInTime
<1> QED BY <1>1, TypeCorrect, ClaimsAreKept, PTL DEF Spec, NoEarlyHandOut

----------------------------------------------------------------------------
(* Child rows *)

\* The child tables follow the adder, and stay as it left them until the job
\* has ended: what the purger deletes first belongs to jobs nobody will fetch.
ChildrenAreThere ==
    \A j \in Jobs :
        /\ adder[j] \in {"start", "inserted"} => child[j] = {}
        /\ adder[j] = "params" => child[j] = Children[j] \cap {"params"}
        /\ adder[j] = "generics" => child[j] = Children[j]
        /\ row[j].status \in {"New", "Retry", "InProgress"} => child[j] = Children[j]

LEMMA AdderKeepsChildren ==
    ASSUME TypeOK, ClaimInvariant, ChildrenAreThere,
           NEW j \in Jobs, AddStep(j) \/ AbandonAdd(j)
    PROVE  ChildrenAreThere'
<1> USE DEF ClaimInvariant
<1> adder \in [Jobs -> {"start", "inserted", "params", "generics", "added", "abandoned"}]
    /\ row \in [Jobs -> RowType] /\ child \in [Jobs -> SUBSET ChildTables]
  BY DEF TypeOK
<1>1. CASE InsertJobRow(j)
  <2>1. \A k \in Jobs : k # j => row'[k] = row[k] /\ adder'[k] = adder[k]
    BY <1>1 DEF InsertJobRow
  <2>2. row'[j].status = "Inserting"
    BY <1>1 DEF InsertJobRow, InsertedRow, AbsentRow
  <2>3. adder[j] = "start" /\ adder'[j] = "inserted" /\ child' = child
    BY <1>1 DEF InsertJobRow
  <2> QED BY <2>1, <2>2, <2>3 DEF ChildrenAreThere
<1>2. CASE InsertParams(j) \/ InsertGenerics(j)
  <2>1. row' = row /\ row[j].status \in {"Absent", "Inserting"}
    BY <1>2 DEF InsertParams, InsertGenerics, InsertChildren, Unpublished
  <2>2. \A k \in Jobs : k # j => child'[k] = child[k] /\ adder'[k] = adder[k]
    BY <1>2 DEF InsertParams, InsertGenerics, InsertChildren
  <2>3. CASE InsertParams(j)
    <3>1. child[j] = {} /\ adder'[j] = "params"
          /\ child'[j] = child[j] \cup (Children[j] \cap {"params"})
      BY <2>3 DEF InsertParams, InsertChildren, ChildrenAreThere
    <3> QED BY <2>1, <2>2, <3>1 DEF ChildrenAreThere
  <2>4. CASE InsertGenerics(j)
    <3>1. child[j] = Children[j] \cap {"params"} /\ adder'[j] = "generics"
          /\ child'[j] = child[j] \cup (Children[j] \cap {"generics"})
      BY <2>4 DEF InsertGenerics, InsertChildren, ChildrenAreThere
    <3>2. child'[j] = Children[j]
      BY <3>1, StoreAssumption DEF ChildTables
    <3> QED BY <2>1, <2>2, <3>1, <3>2 DEF ChildrenAreThere
  <2> QED BY <1>2, <2>3, <2>4
<1>3. CASE PublishJob(j)
  <2>1. \A k \in Jobs : k # j => row'[k] = row[k] /\ adder'[k] = adder[k]
    BY <1>3 DEF PublishJob, Update
  <2>2. child[j] = Children[j] /\ child' = child /\ adder'[j] = "added"
    BY <1>3 DEF PublishJob, ChildrenAreThere
  <2> QED BY <2>1, <2>2 DEF ChildrenAreThere
<1>4. CASE AbandonAdd(j)
  BY <1>4 DEF AbandonAdd, ChildrenAreThere
<1> QED BY <1>1, <1>2, <1>3, <1>4 DEF AddStep

LEMMA PurgerKeepsChildren ==
    ASSUME TypeOK, ClaimInvariant, ChildrenAreThere, Orderly, PurgeStep
    PROVE  ChildrenAreThere'
<1> USE DEF ClaimInvariant
<1>0. purge \in PurgeType /\ child \in [Jobs -> SUBSET ChildTables]
  BY DEF TypeOK
<1>1. \A j \in Jobs : adder[j] \in {"start", "inserted", "params", "generics"} =>
          row[j].status \in {"Absent", "Inserting"}
  BY DEF Unpublished
<1>2. ASSUME NEW table, NEW state \in {"Processed", "Failed"}, NEW before,
             child' = WithoutChildren(table, state, before), UNCHANGED <<row, adder>>
      PROVE  ChildrenAreThere'
  <2>1. \A j \in Jobs : row[j].status \notin {"Processed", "Failed"} => child'[j] = child[j]
    BY <1>2 DEF WithoutChildren, Purgeable
  <2> QED BY <1>1, <1>2, <2>1 DEF ChildrenAreThere
<1>3. CASE PurgeParams
  <2>1. PICK state \in PurgeStates, before \in 1..(now + 1) :
            child' = WithoutChildren("params", state, before)
    BY <1>3 DEF PurgeParams
  <2> QED BY <1>2, <1>3, <2>1 DEF PurgeParams, Orderly
<1>4. CASE PurgeGenerics
  <2>1. purge.state \in {"Processed", "Failed"}
    BY <1>0, <1>4 DEF PurgeGenerics, PurgeType, IdlePurge, Orderly
  <2> QED BY <1>2, <1>4, <2>1 DEF PurgeGenerics
<1>5. CASE PurgeRows
  <2>1. \A j \in Jobs : row'[j] = row[j] \/ row'[j].status = "Absent"
    BY <1>5 DEF PurgeRows, AbsentRow
  <2> QED BY <1>5, <2>1 DEF PurgeRows, ChildrenAreThere
<1>6. CASE AbandonPurge
  BY <1>6 DEF AbandonPurge, ChildrenAreThere
<1> QED BY <1>3, <1>4, <1>5, <1>6 DEF PurgeStep

LEMMA NodeKeepsChildren ==
    ASSUME TypeOK, ClaimInvariant, ChildrenAreThere, UNCHANGED <<child, adder>>,
           \A j \in Jobs : row'[j].status \in {"New", "Retry", "InProgress"} =>
               row[j].status \in {"New", "Retry", "InProgress"}
    PROVE  ChildrenAreThere'
BY DEF ChildrenAreThere

LEMMA ChildrenAreKept == Orderly => (Spec => []ChildrenAreThere)
<1> SUFFICES ASSUME Orderly PROVE Spec => []ChildrenAreThere
  OBVIOUS
<1>1. Init => ChildrenAreThere
  BY DEF Init, AbsentRow, ChildrenAreThere
<1>2. TypeOK /\ ClaimInvariant /\ ChildrenAreThere /\ [Next]_vars => ChildrenAreThere'
  <2> SUFFICES ASSUME TypeOK, ClaimInvariant, ChildrenAreThere, [Next]_vars
               PROVE  ChildrenAreThere'
    OBVIOUS
  <2> row \in [Jobs -> RowType]
    BY DEF TypeOK
  <2>1. ASSUME NEW j \in Jobs, AddStep(j) \/ AbandonAdd(j) PROVE ChildrenAreThere'
    BY <2>1, AdderKeepsChildren
  <2>2. ASSUME NEW n \in Nodes, BeginFetch(n) \/ SelectClaimed(n) \/ LoseFetch(n) \/ Crash(n)
        PROVE  ChildrenAreThere'
    BY <2>2, NodeKeepsChildren DEF BeginFetch, SelectClaimed, LoseFetch, Crash
  <2>3. ASSUME NEW n \in Nodes, ClaimJobs(n) PROVE ChildrenAreThere'
    <3>1. \A j \in Jobs : row'[j] = row[j] \/ \E g, t : row'[j] = ClaimedRow(row[j], g, t)
      BY <2>3 DEF ClaimJobs
    <3>2. \A j \in Jobs : row'[j].status = row[j].status
      BY <3>1, ClaimWritesLock
    <3> QED BY <2>3, <3>2, NodeKeepsChildren DEF ClaimJobs
  <2>4. ASSUME NEW n \in Nodes, NEW e \in held[n], NodeWrite(n, e) PROVE ChildrenAreThere'
    <3>1. row[e.job].status \in {"New", "Retry", "InProgress"}
      BY HeldRow
    <3>2. row' = row \/ \E r : Update(e.job, r)
      BY <2>4 DEF NodeWrite, Outcome, MarkJobInProgress, MarkTypeMissing, MarkJobSuccess,
                  MarkJobFailed, MarkJobInRetryAndIncrement, DropInProgress, DropOutcome
    <3>3. \A j \in Jobs : j # e.job => row'[j] = row[j]
      BY <3>2 DEF Update
    <3>4. UNCHANGED <<child, adder>>
      BY <2>4 DEF NodeWrite, Outcome, MarkJobInProgress, MarkTypeMissing, MarkJobSuccess,
                  MarkJobFailed, MarkJobInRetryAndIncrement, DropInProgress, DropOutcome
    <3> QED BY <3>1, <3>3, <3>4, NodeKeepsChildren
  <2>5. CASE PurgeStep  BY <2>5, PurgerKeepsChildren
  <2>6. CASE Tick \/ UNCHANGED vars
    BY <2>6, NodeKeepsChildren DEF Tick, vars
  <2> QED BY <2>1, <2>2, <2>3, <2>4, <2>5, <2>6 DEF Next, NodeWrite, PurgeStep
<1> QED BY <1>1, <1>2, TypeCorrect, ClaimsAreKept, PTL DEF Spec

\* Provided that only ended jobs are purged, a job is handed out with all its
\* parameters and generic types: the adder publishes it after them, and no node
\* revives a job whose parts a purge has begun to delete.  PurgeQueue takes any
\* other state too, and each of them can strip a job on its way to a node.
THEOREM HandOutsAreComplete == Orderly => (Spec => FetchedComplete)
<1> SUFFICES ASSUME Orderly PROVE Spec => FetchedComplete
  OBVIOUS
<1>1. TypeOK /\ ClaimInvariant /\ ChildrenAreThere /\ [Next]_vars =>
          [\A n \in Nodes : \A e \in PickedUp(n) : child[e.job] = Children[e.job]]_vars
  <2> SUFFICES ASSUME TypeOK, ClaimInvariant, ChildrenAreThere, [Next]_vars,
                      NEW n \in Nodes, NEW e \in PickedUp(n)
               PROVE  child[e.job] = Children[e.job]
    OBVIOUS
  <2> QED BY PickedUpIsClaimed DEF ChildrenAreThere, ClaimedAt
<1> QED BY <1>1, TypeCorrect, ClaimsAreKept, ChildrenAreKept, PTL DEF Spec, FetchedComplete

----------------------------------------------------------------------------
(* Refinement: every step of the store is a step in the life of its jobs, or *)
(* none.                                                                     *)

\* A row is in the table from the adder's INSERT on, and is published once.
AdderIsFollowed ==
    \A j \in Jobs :
        /\ adder[j] = "start" => row[j].status = "Absent"
        /\ adder[j] \in {"inserted", "params", "generics", "abandoned"} =>
               row[j].status = "Inserting"
        /\ adder[j] = "added" => row[j].status # "Inserting"

\* HolderOf names the one node that holds a job.
HolderIsNamed ==
    \A j \in Jobs :
        /\ \A n \in Nodes : HeldBy(n, j) => HolderOf(j) = n
        /\ (\A n \in Nodes : ~HeldBy(n, j)) => HolderOf(j) = NoNode

LEMMA ExclusiveIsNamed == ExclusiveHolder => HolderIsNamed
<1> SUFFICES ASSUME ExclusiveHolder, NEW j \in Jobs
             PROVE  /\ \A n \in Nodes : HeldBy(n, j) => HolderOf(j) = n
                    /\ (\A n \in Nodes : ~HeldBy(n, j)) => HolderOf(j) = NoNode
  BY DEF HolderIsNamed
<1>1. \A n, m \in Nodes : HeldBy(n, j) /\ HeldBy(m, j) => n = m
  BY DEF ExclusiveHolder, HeldBy
<1>2. ASSUME NEW n \in Nodes, HeldBy(n, j) PROVE HolderOf(j) = n
  <2>1. HolderOf(j) = CHOOSE m \in Nodes : HeldBy(m, j)
    BY <1>2 DEF HolderOf
  <2>2. HeldBy(HolderOf(j), j) /\ HolderOf(j) \in Nodes
    BY <1>2, <2>1
  <2> QED BY <1>1, <1>2, <2>2
<1>3. (\A n \in Nodes : ~HeldBy(n, j)) => HolderOf(j) = NoNode
  BY DEF HolderOf
<1> QED BY <1>2, <1>3

\* StatusOf reads the status of the row, and that of the adder for a missing one.
StatusIsRead ==
    \A j \in Jobs :
        /\ row[j].status \in {"New", "Retry"} => StatusOf(j) = "Waiting"
        /\ row[j].status = "InProgress" => StatusOf(j) = "Running"
        /\ row[j].status = "Processed" => StatusOf(j) = "Processed"
        /\ row[j].status = "Failed" => StatusOf(j) = "Failed"
        /\ row[j].status = "Inserting" => StatusOf(j) = "NotAdded"
        /\ row[j].status = "Absent" /\ adder[j] = "added" => StatusOf(j) = "Purged"
        /\ row[j].status = "Absent" /\ adder[j] # "added" => StatusOf(j) = "NotAdded"

LEMMA StatusIsAlwaysRead == StatusIsRead
BY DEF StatusIsRead, StatusOf

\* Where only rows that map to the same status are exchanged, nothing is seen.
SameStatus(j) == StatusOf(j)' = StatusOf(j)
SameHolder(j) == HolderOf(j)' = HolderOf(j)
SameRetries(j) == row'[j].retryCount = row[j].retryCount

----------------------------------------------------------------------------
(* The abstract steps, from what happens to each job *)

LEMMA NoStep ==
    ASSUME \A j \in Jobs : SameStatus(j) /\ SameHolder(j) /\ SameRetries(j)
    PROVE  UNCHANGED Job!lifecycle
BY DEF Job!lifecycle, SameStatus, SameHolder, SameRetries

LEMMA AddIsAdd ==
    ASSUME NEW j \in Jobs, StatusOf(j) = "NotAdded", StatusOf(j)' = "Waiting",
           \A k \in Jobs : k # j => SameStatus(k),
           \A k \in Jobs : SameHolder(k) /\ SameRetries(k)
    PROVE  Job!Next
<1>1. Job!Add(j)
  BY DEF Job!Add, Job!Become, SameStatus, SameHolder, SameRetries
<1> QED BY <1>1 DEF Job!Next

LEMMA TakeIsTake ==
    ASSUME NEW n \in Nodes, NEW S \in SUBSET Jobs,
           \A j \in S : /\ StatusOf(j) = "Waiting" /\ HolderOf(j) = NoNode
                        /\ row[j].retryCount <= MaxRetries[j]
                        /\ HolderOf(j)' = n,
           \A j \in Jobs : SameStatus(j) /\ SameRetries(j),
           \A j \in Jobs \ S : SameHolder(j)
    PROVE  Job!Next
<1>1. Job!Take(n, S)
  BY DEF Job!Take, SameStatus, SameHolder, SameRetries
<1> QED BY <1>1 DEF Job!Next

LEMMA ForgetIsForget ==
    ASSUME NEW n \in Nodes, NEW S \in SUBSET Jobs,
           \A j \in S : HolderOf(j) = n /\ HolderOf(j)' = NoNode,
           \A j \in Jobs : SameStatus(j) /\ SameRetries(j),
           \A j \in Jobs \ S : SameHolder(j)
    PROVE  Job!Next
<1>1. Job!Forget(n, S)
  BY DEF Job!Forget, SameStatus, SameHolder, SameRetries
<1> QED BY <1>1 DEF Job!Next

LEMMA StartIsStart ==
    ASSUME NEW n \in Nodes, NEW j \in Jobs,
           StatusOf(j) = "Waiting", HolderOf(j) = n, StatusOf(j)' = "Running",
           \A k \in Jobs : k # j => SameStatus(k),
           \A k \in Jobs : SameHolder(k) /\ SameRetries(k)
    PROVE  Job!Next
<1>1. Job!Start(n, j)
  BY DEF Job!Start, Job!Become, SameStatus, SameHolder, SameRetries
<1> QED BY <1>1 DEF Job!Next

\* The four ways in which a holder lets go of a job by writing its row.
LEMMA WriteIsOutcome ==
    ASSUME NEW n \in Nodes, NEW j \in Jobs, HolderOf(j) = n, HolderOf(j)' = NoNode,
           \/ /\ StatusOf(j) = "Waiting" /\ StatusOf(j)' = "Failed" /\ SameRetries(j)
           \/ /\ StatusOf(j) = "Running" /\ StatusOf(j)' = "Processed" /\ SameRetries(j)
           \/ /\ StatusOf(j) = "Running" /\ StatusOf(j)' = "Failed" /\ SameRetries(j)
              /\ row[j].retryCount >= MaxRetries[j]
           \/ /\ StatusOf(j) = "Running" /\ StatusOf(j)' = "Waiting"
              /\ row[j].retryCount < MaxRetries[j]
              /\ row'[j].retryCount = row[j].retryCount + 1,
           \A k \in Jobs : k # j => SameStatus(k) /\ SameHolder(k) /\ SameRetries(k)
    PROVE  Job!Next
<1> USE DEF Job!Become, Job!LetGo, Job!Runs, SameStatus, SameHolder, SameRetries
<1>1. CASE StatusOf(j) = "Waiting" /\ StatusOf(j)' = "Failed" /\ SameRetries(j)
  <2>1. Job!Reject(n, j)  BY <1>1 DEF Job!Reject
  <2> QED BY <2>1 DEF Job!Next
<1>2. CASE StatusOf(j) = "Running" /\ StatusOf(j)' = "Processed" /\ SameRetries(j)
  <2>1. Job!Succeed(n, j)  BY <1>2 DEF Job!Succeed
  <2> QED BY <2>1 DEF Job!Next
<1>3. CASE /\ StatusOf(j) = "Running" /\ StatusOf(j)' = "Failed" /\ SameRetries(j)
           /\ row[j].retryCount >= MaxRetries[j]
  <2>1. Job!Fail(n, j)  BY <1>3 DEF Job!Fail
  <2> QED BY <2>1 DEF Job!Next
<1>4. CASE /\ StatusOf(j) = "Running" /\ StatusOf(j)' = "Waiting"
           /\ row[j].retryCount < MaxRetries[j]
           /\ row'[j].retryCount = row[j].retryCount + 1
  <2>1. Job!Retry(n, j)  BY <1>4 DEF Job!Retry
  <2> QED BY <2>1 DEF Job!Next
<1> QED BY <1>1, <1>2, <1>3, <1>4

LEMMA PurgeIsPurge ==
    ASSUME NEW S \in SUBSET Jobs,
           \A j \in S : /\ StatusOf(j) \in {"Processed", "Failed"} /\ HolderOf(j) = NoNode
                        /\ StatusOf(j)' = "Purged" /\ row'[j].retryCount = 0,
           \A j \in Jobs \ S : SameStatus(j) /\ SameRetries(j),
           \A j \in Jobs : SameHolder(j)
    PROVE  Job!Next
<1>1. Job!Purge(S)
  BY DEF Job!Purge, SameStatus, SameHolder, SameRetries
<1> QED BY <1>1 DEF Job!Next

----------------------------------------------------------------------------
(* Each statement is such a step, or none *)

Mapped == AdderIsFollowed /\ HolderIsNamed /\ StatusIsRead

SomeStep == Job!Next \/ UNCHANGED Job!lifecycle

LEMMA SameHeldSameHolder ==
    ASSUME held' = held
    PROVE  \A j \in Jobs : SameHolder(j)
BY DEF SameHolder, HolderOf, HeldBy

LEMMA SameRowSameStatus ==
    ASSUME StatusIsRead, StatusIsRead', TypeOK, NEW j \in Jobs,
           row'[j].status = row[j].status,
           row[j].status = "Absent" => (adder'[j] = "added" <=> adder[j] = "added")
    PROVE  SameStatus(j)
<1>1. row[j].status \in JobStates \cup {"Absent"}
  BY DEF TypeOK, RowType
<1>2. CASE row[j].status = "Absent"
  BY <1>2 DEF StatusIsRead, SameStatus
<1>3. CASE row[j].status \in JobStates
  BY <1>3 DEF StatusIsRead, SameStatus, JobStates
<1> QED BY <1>1, <1>2, <1>3

LEMMA AdderMapped ==
    ASSUME TypeOK, ClaimInvariant, Mapped, Mapped', NEW j \in Jobs,
           AddStep(j) \/ AbandonAdd(j)
    PROVE  SomeStep
<1>1. held' = held
  BY DEF AddStep, InsertJobRow, InsertParams, InsertGenerics, InsertChildren,
         PublishJob, AbandonAdd
<1>2. \A k \in Jobs : SameHolder(k)
  BY <1>1, SameHeldSameHolder
<1>3. \A k \in Jobs : k # j => row'[k] = row[k] /\ adder'[k] = adder[k]
  BY DEF AddStep, InsertJobRow, InsertParams, InsertGenerics, InsertChildren,
         PublishJob, AbandonAdd, Update, TypeOK
<1>4. \A k \in Jobs : k # j => SameStatus(k) /\ SameRetries(k)
  BY <1>3, SameRowSameStatus DEF Mapped, SameRetries
<1>5. CASE InsertJobRow(j)
  <2>1. row[j].status = "Absent" /\ adder[j] # "added" /\ row[j].retryCount = 0
    BY <1>5 DEF InsertJobRow, Mapped, AdderIsFollowed, ClaimInvariant, Untried
  <2>2. row'[j].status = "Inserting" /\ row'[j].retryCount = 0
    BY <1>5 DEF InsertJobRow, InsertedRow, AbsentRow, TypeOK
  <2>3. SameStatus(j) /\ SameRetries(j)
    BY <2>1, <2>2 DEF Mapped, StatusIsRead, SameStatus, SameRetries
  <2> QED BY <1>2, <1>4, <2>3, NoStep DEF SomeStep
<1>6. CASE InsertParams(j) \/ InsertGenerics(j) \/ AbandonAdd(j)
  <2>1. row' = row /\ adder[j] # "added" /\ adder'[j] # "added"
    BY <1>6 DEF InsertParams, InsertGenerics, InsertChildren, AbandonAdd, TypeOK
  <2>2. SameStatus(j) /\ SameRetries(j)
    BY <2>1, SameRowSameStatus DEF Mapped, SameRetries
  <2> QED BY <1>2, <1>4, <2>2, NoStep DEF SomeStep
<1>7. CASE PublishJob(j)
  <2>1. row[j].status = "Inserting"
    BY <1>7 DEF PublishJob, Mapped, AdderIsFollowed
  <2>2. row'[j].status = "New" /\ row'[j].retryCount = row[j].retryCount
    BY <1>7, <2>1 DEF PublishJob, Update, TypeOK, RowType
  <2>3. StatusOf(j) = "NotAdded" /\ StatusOf(j)' = "Waiting" /\ SameRetries(j)
    BY <2>1, <2>2 DEF Mapped, StatusIsRead, SameRetries
  <2> QED BY <1>2, <1>4, <2>3, AddIsAdd DEF SomeStep
<1> QED BY <1>5, <1>6, <1>7 DEF AddStep

LEMMA FetchMapped ==
    ASSUME TypeOK, ClaimInvariant, Mapped, Mapped', NEW n \in Nodes,
           BeginFetch(n) \/ ClaimJobs(n) \/ LoseFetch(n)
    PROVE  SomeStep
<1>1. held' = held /\ adder' = adder
  BY DEF BeginFetch, ClaimJobs, LoseFetch
<1>2. \A j \in Jobs : SameHolder(j)
  BY <1>1, SameHeldSameHolder
<1>3. \A j \in Jobs : row'[j].status = row[j].status
                      /\ row'[j].retryCount = row[j].retryCount
  BY ClaimWritesLock DEF BeginFetch, ClaimJobs, LoseFetch, TypeOK
<1>4. \A j \in Jobs : SameStatus(j) /\ SameRetries(j)
  BY <1>1, <1>3, SameRowSameStatus DEF Mapped, SameRetries
<1> QED BY <1>2, <1>4, NoStep DEF SomeStep

LEMMA SelectMapped ==
    ASSUME TypeOK, ClaimInvariant, Mapped, Mapped', NEW n \in Nodes, SelectClaimed(n)
    PROVE  SomeStep
<1> DEFINE mine == {j \in Jobs : row[j].lockGuid = fetch[n].guid}
<1>1. row' = row /\ adder' = adder /\ fetch[n].step = "select"
  BY DEF SelectClaimed
<1>2. held'[n] = held[n] \cup {Fetched(j, fetch[n]) : j \in mine}
      /\ \A m \in Nodes : m # n => held'[m] = held[m]
  BY DEF SelectClaimed, TypeOK
<1>3. \A j \in Jobs : SameStatus(j) /\ SameRetries(j)
  BY <1>1, SameRowSameStatus DEF Mapped, SameRetries
<1>4. \A j \in mine : /\ StatusOf(j) = "Waiting"
                      /\ row[j].retryCount <= MaxRetries[j]
  BY <1>1 DEF ClaimInvariant, ClaimIsKept, ClaimedAt, RetryBudget, Mapped, StatusIsRead
<1>5. ASSUME NEW j \in mine PROVE HolderOf(j) = NoNode
  <2>1. \A m \in Nodes : \A e \in held[m] : e.guid # fetch[n].guid
    BY <1>1 DEF ClaimInvariant, GuidsDistinct
  <2>2. \A m \in Nodes : \A e \in held[m] : e.job # j
    BY <2>1, HeldRow
  <2> QED BY <2>2 DEF HeldBy, Mapped, HolderIsNamed
<1>6. ASSUME NEW j \in mine PROVE HolderOf(j)' = n
  <2>1. Fetched(j, fetch[n]) \in held'[n] /\ Fetched(j, fetch[n]).job = j
    BY <1>2 DEF Fetched
  <2>2. HeldBy(n, j)'
    BY <2>1 DEF HeldBy
  <2> QED BY <2>2 DEF Mapped, HolderIsNamed
<1>7. ASSUME NEW j \in Jobs \ mine PROVE SameHolder(j)
  <2>1. \A m \in Nodes : HeldBy(m, j)' <=> HeldBy(m, j)
    <3>1. \A k \in mine : Fetched(k, fetch[n]).job # j
      BY DEF Fetched
    <3> QED BY <1>2, <3>1 DEF HeldBy
  <2> QED BY <2>1 DEF Mapped, HolderIsNamed, SameHolder
<1> HIDE DEF mine
<1>8. mine \in SUBSET Jobs
  BY DEF mine
<1> QED BY <1>3, <1>4, <1>5, <1>6, <1>7, <1>8, TakeIsTake DEF SomeStep

LEMMA CrashMapped ==
    ASSUME TypeOK, ClaimInvariant, Mapped, Mapped', NEW n \in Nodes, Crash(n)
    PROVE  SomeStep
<1> DEFINE lost == {j \in Jobs : HeldBy(n, j)}
<1>1. row' = row /\ adder' = adder
  BY DEF Crash
<1>2. held'[n] = {} /\ \A m \in Nodes : m # n => held'[m] = held[m]
  BY DEF Crash, TypeOK
<1>3. \A j \in Jobs : SameStatus(j) /\ SameRetries(j)
  BY <1>1, SameRowSameStatus DEF Mapped, SameRetries
<1>4. ASSUME NEW j \in lost PROVE HolderOf(j) = n /\ HolderOf(j)' = NoNode
  <2>1. HolderOf(j) = n
    BY DEF Mapped, HolderIsNamed
  <2>2. \A m \in Nodes : ~HeldBy(m, j)'
    BY <1>2, <2>1 DEF Mapped, HolderIsNamed, HeldBy
  <2> QED BY <2>1, <2>2 DEF Mapped, HolderIsNamed
<1>5. ASSUME NEW j \in Jobs \ lost PROVE SameHolder(j)
  <2>1. \A m \in Nodes : HeldBy(m, j)' <=> HeldBy(m, j)
    BY <1>2 DEF HeldBy
  <2> QED BY <2>1 DEF Mapped, HolderIsNamed, SameHolder
<1> HIDE DEF lost
<1>6. lost \in SUBSET Jobs
  BY DEF lost
<1> QED BY <1>3, <1>4, <1>5, <1>6, ForgetIsForget DEF SomeStep

\* A node that writes a row is the one that holds the job.
LEMMA WriteMapped ==
    ASSUME TypeOK, ClaimInvariant, Mapped, Mapped', Orderly,
           NEW n \in Nodes, NEW e \in held[n], NodeWrite(n, e)
    PROVE  SomeStep
<1> DEFINE j == e.job
           old == row[j]
           run == [e EXCEPT !.stage = "running"]
<1>1. e \in EntryType /\ j \in Jobs /\ old \in RowType
  BY HeldTypes DEF EntryType
<1>2. old.status # "Absent" /\ old.retryCount = e.retries
      /\ (e.stage = "fetched" => StatusOf(j) = "Waiting")
      /\ (e.stage = "running" => StatusOf(j) = "Running")
  BY <1>1, HeldRow DEF ClaimInvariant, HeldIsKept, Mapped, StatusIsRead
<1>3. HolderOf(j) = n
  BY <1>1 DEF HeldBy, Mapped, HolderIsNamed
<1>4. \A m \in Nodes : \A d \in held[m] : d.job = j => n = m /\ d = e
  BY HeldRow
<1>5. \A r : Update(j, r) => /\ \A k \in Jobs : k # j => row'[k] = row[k]
                             /\ row'[j] = r
  BY <1>1, <1>2 DEF Update, TypeOK
<1>6. run.job = j
  BY <1>1 DEF EntryType
<1>7. adder' = adder
  BY DEF NodeWrite, Outcome, MarkJobInProgress, MarkTypeMissing, MarkJobSuccess,
         MarkJobFailed, MarkJobInRetryAndIncrement, DropInProgress, DropOutcome
<1>8. ~DropInProgress(n, e)
  BY DEF DropInProgress, Orderly
<1>9. adder[j] = "added"
  BY <1>1, HeldRow DEF Mapped, AdderIsFollowed, TypeOK
<1> HIDE DEF run, old
<1>10. ASSUME Release(n, e)
       PROVE  HolderOf(j)' = NoNode /\ \A k \in Jobs : k # j => SameHolder(k)
  <2>1. held'[n] = held[n] \ {e} /\ \A m \in Nodes : m # n => held'[m] = held[m]
    BY <1>10 DEF Release, TypeOK
  <2>2. \A m \in Nodes : ~HeldBy(m, j)'
    BY <1>4, <2>1 DEF HeldBy
  <2>3. \A k \in Jobs, m \in Nodes : k # j => (HeldBy(m, k)' <=> HeldBy(m, k))
    BY <2>1 DEF HeldBy
  <2>4. HolderOf(j)' = NoNode
    BY <1>1, <2>2 DEF Mapped, HolderIsNamed
  <2>5. \A k \in Jobs : k # j => SameHolder(k)
    BY <2>3 DEF Mapped, HolderIsNamed, SameHolder
  <2> QED BY <2>4, <2>5
<1>11. ASSUME Advance(n, e) PROVE \A k \in Jobs : SameHolder(k)
  <2>1. held'[n] = (held[n] \ {e}) \cup {run} /\ \A m \in Nodes : m # n => held'[m] = held[m]
    BY <1>11 DEF Advance, TypeOK, run
  <2>2. \A k \in Jobs, m \in Nodes : HeldBy(m, k)' <=> HeldBy(m, k)
    BY <1>6, <2>1 DEF HeldBy
  <2> QED BY <2>2 DEF Mapped, HolderIsNamed, SameHolder
<1>12. ASSUME \A k \in Jobs : k # j => row'[k] = row[k]
       PROVE  \A k \in Jobs : k # j => SameStatus(k) /\ SameRetries(k)
  BY <1>7, <1>12, SameRowSameStatus DEF Mapped, SameRetries
<1> HIDE DEF j
<1>13. CASE MarkJobInProgress(n, e)
  <2>1. Update(j, InProgressRow(old, now)) /\ Advance(n, e) /\ e.stage = "fetched"
    BY <1>13 DEF MarkJobInProgress, old, j
  <2>2. row'[j] = InProgressRow(old, now) /\ \A k \in Jobs : k # j => row'[k] = row[k]
    BY <1>5, <2>1
  <2>3. row'[j].status = "InProgress" /\ row'[j].retryCount = row[j].retryCount
    BY <1>1, <2>2, WrittenColumns DEF old
  <2>4. StatusOf(j)' = "Running" /\ SameRetries(j)
    BY <1>1, <2>3 DEF Mapped, StatusIsRead, SameRetries
  <2> QED BY <1>1, <1>2, <1>3, <1>11, <1>12, <2>1, <2>2, <2>4, StartIsStart DEF SomeStep
<1>14. CASE MarkTypeMissing(n, e) \/ MarkJobFailed(n, e)
  <2>1. Update(j, FailedRow(old)) /\ Release(n, e)
    BY <1>14 DEF MarkTypeMissing, MarkJobFailed, old, j
  <2>2. row'[j] = FailedRow(old) /\ \A k \in Jobs : k # j => row'[k] = row[k]
    BY <1>5, <2>1
  <2>3. row'[j].status = "Failed" /\ row'[j].retryCount = row[j].retryCount
    BY <1>1, <2>2, WrittenColumns DEF old
  <2>4. StatusOf(j)' = "Failed" /\ SameRetries(j)
    BY <1>1, <2>3 DEF Mapped, StatusIsRead, SameRetries
  <2>5. \/ StatusOf(j) = "Waiting"
        \/ StatusOf(j) = "Running" /\ row[j].retryCount >= MaxRetries[j]
    <3>1. e.stage = "fetched" \/ (e.stage = "running" /\ MaxRetries[j] <= e.retries)
      BY <1>14 DEF MarkTypeMissing, MarkJobFailed, RetriesExhausted, j
    <3>2. MaxRetries[j] \in Nat /\ e.retries \in Nat
      BY <1>1, StoreAssumption DEF EntryType
    <3> QED BY <1>2, <3>1, <3>2 DEF old
  <2> QED BY <1>1, <1>3, <1>10, <1>12, <2>1, <2>2, <2>4, <2>5, WriteIsOutcome DEF SomeStep
<1>15. CASE MarkJobSuccess(n, e)
  <2>1. Update(j, ProcessedRow(old)) /\ Release(n, e) /\ e.stage = "running"
    BY <1>15 DEF MarkJobSuccess, old, j
  <2>2. row'[j] = ProcessedRow(old) /\ \A k \in Jobs : k # j => row'[k] = row[k]
    BY <1>5, <2>1
  <2>3. row'[j].status = "Processed" /\ row'[j].retryCount = row[j].retryCount
    BY <1>1, <2>2, WrittenColumns DEF old
  <2>4. StatusOf(j)' = "Processed" /\ SameRetries(j)
    BY <1>1, <2>3 DEF Mapped, StatusIsRead, SameRetries
  <2> QED BY <1>1, <1>2, <1>3, <1>10, <1>12, <2>1, <2>2, <2>4, WriteIsOutcome DEF SomeStep
<1>16. CASE MarkJobInRetryAndIncrement(n, e)
  <2>1. Update(j, RetryRow(old, now)) /\ Release(n, e) /\ e.stage = "running"
    BY <1>16 DEF MarkJobInRetryAndIncrement, old, j
  <2>2. row'[j] = RetryRow(old, now) /\ \A k \in Jobs : k # j => row'[k] = row[k]
    BY <1>5, <2>1
  <2>3. row'[j].status = "Retry" /\ row'[j].retryCount = row[j].retryCount + 1
    BY <1>1, <2>2, WrittenColumns DEF old
  <2>4. StatusOf(j)' = "Waiting"
    BY <1>1, <2>3 DEF Mapped, StatusIsRead
  <2>5. row[j].retryCount < MaxRetries[j]
    <3>1. ~(MaxRetries[j] <= row[j].retryCount)
      BY <1>2, <1>16 DEF MarkJobInRetryAndIncrement, RetriesExhausted, j, old
    <3>2. MaxRetries[j] \in Nat /\ row[j].retryCount \in Nat
      BY <1>1, StoreAssumption DEF RowType, old
    <3> QED BY <3>1, <3>2
  <2> QED BY <1>1, <1>2, <1>3, <1>10, <1>12, <2>1, <2>2, <2>3, <2>4, <2>5, WriteIsOutcome
          DEF SomeStep
<1>17. CASE DropOutcome(n, e)
  <2>1. row' = row /\ Release(n, e)
    BY <1>17 DEF DropOutcome
  <2>2. \A k \in Jobs : SameStatus(k) /\ SameRetries(k)
    BY <1>7, <2>1, SameRowSameStatus DEF Mapped, SameRetries
  <2>3. {j} \in SUBSET Jobs
    BY <1>1
  <2> QED BY <1>3, <1>10, <2>1, <2>2, <2>3, ForgetIsForget DEF SomeStep
<1> QED BY <1>8, <1>13, <1>14, <1>15, <1>16, <1>17 DEF NodeWrite, Outcome

LEMMA PurgerMapped ==
    ASSUME TypeOK, ClaimInvariant, Mapped, Mapped', Orderly, PurgeStep
    PROVE  SomeStep
<1>1. held' = held /\ adder' = adder
  BY DEF PurgeStep, PurgeParams, PurgeGenerics, PurgeRows, AbandonPurge
<1>2. \A j \in Jobs : SameHolder(j)
  BY <1>1, SameHeldSameHolder
<1>3. CASE PurgeParams \/ PurgeGenerics \/ AbandonPurge
  <2>1. row' = row
    BY <1>3 DEF PurgeParams, PurgeGenerics, AbandonPurge
  <2>2. \A j \in Jobs : SameStatus(j) /\ SameRetries(j)
    BY <1>1, <2>1, SameRowSameStatus DEF Mapped, SameRetries
  <2> QED BY <1>2, <2>2, NoStep DEF SomeStep
<1>4. CASE PurgeRows
  <2> DEFINE gone == {j \in Jobs : Purgeable(j, purge.state, purge.before)}
  <2>0. purge \in PurgeType /\ purge # IdlePurge
    BY <1>4 DEF PurgeRows, TypeOK, IdlePurge
  <2>1. purge.state \in {"Processed", "Failed"}
    BY <2>0 DEF PurgeType, Orderly
  <2>2. \A j \in gone : row'[j] = AbsentRow /\ row[j].status \in {"Processed", "Failed"}
    BY <1>4, <2>1 DEF PurgeRows, Purgeable
  <2>3. \A j \in Jobs \ gone : row'[j] = row[j]
    BY <1>4 DEF PurgeRows
  <2> HIDE DEF gone
  <2>4. ASSUME NEW j \in gone
        PROVE  /\ StatusOf(j) \in {"Processed", "Failed"} /\ HolderOf(j) = NoNode
               /\ StatusOf(j)' = "Purged" /\ row'[j].retryCount = 0
    <3>1. j \in Jobs
      BY DEF gone
    <3>2. adder[j] = "added"
      BY <2>2, <3>1 DEF Mapped, AdderIsFollowed, TypeOK
    <3>3. \A m \in Nodes : \A e \in held[m] : e.job # j
      BY <2>2, HeldRow
    <3>4. HolderOf(j) = NoNode
      BY <3>1, <3>3 DEF HeldBy, Mapped, HolderIsNamed
    <3>5. row'[j].status = "Absent" /\ row'[j].retryCount = 0
      BY <2>2 DEF AbsentRow
    <3> QED BY <1>1, <2>2, <3>1, <3>2, <3>4, <3>5 DEF Mapped, StatusIsRead
  <2>5. \A j \in Jobs \ gone : SameStatus(j) /\ SameRetries(j)
    BY <1>1, <2>3, SameRowSameStatus DEF Mapped, SameRetries
  <2>6. gone \in SUBSET Jobs
    BY DEF gone
  <2> QED BY <1>2, <2>4, <2>5, <2>6, PurgeIsPurge DEF SomeStep
<1> QED BY <1>3, <1>4 DEF PurgeStep

LEMMA StepMapped ==
    ASSUME TypeOK, ClaimInvariant, Mapped, Mapped', Orderly, [Next]_vars
    PROVE  [Job!Next]_(Job!lifecycle)
<1>1. ASSUME NEW j \in Jobs, AddStep(j) \/ AbandonAdd(j) PROVE SomeStep
  BY <1>1, AdderMapped
<1>2. ASSUME NEW n \in Nodes, BeginFetch(n) \/ ClaimJobs(n) \/ SelectClaimed(n)
                              \/ LoseFetch(n) \/ Crash(n)
      PROVE  SomeStep
  BY <1>2, FetchMapped, SelectMapped, CrashMapped
<1>3. ASSUME NEW n \in Nodes, NEW e \in held[n], NodeWrite(n, e) PROVE SomeStep
  BY <1>3, WriteMapped
<1>4. CASE PurgeStep  BY <1>4, PurgerMapped DEF SomeStep
<1>5. CASE Tick \/ UNCHANGED vars
  <2>1. UNCHANGED <<row, adder, held>>
    BY <1>5 DEF Tick, vars
  <2>2. \A j \in Jobs : SameStatus(j) /\ SameHolder(j) /\ SameRetries(j)
    BY <2>1, SameRowSameStatus, SameHeldSameHolder DEF Mapped, SameRetries
  <2> QED BY <2>2, NoStep DEF SomeStep
<1> QED BY <1>1, <1>2, <1>3, <1>4, <1>5 DEF Next, NodeWrite, PurgeStep, SomeStep

----------------------------------------------------------------------------
(* The adder is followed, and the theorem *)

LEMMA StepFollowsAdder ==
    ASSUME TypeOK, ClaimInvariant, AdderIsFollowed, Orderly, [Next]_vars
    PROVE  AdderIsFollowed'
<1> USE DEF AdderIsFollowed
<1>1. ASSUME NEW j \in Jobs, AddStep(j) \/ AbandonAdd(j) PROVE AdderIsFollowed'
  <2>1. \A k \in Jobs : k # j => row'[k] = row[k] /\ adder'[k] = adder[k]
    BY <1>1 DEF AddStep, InsertJobRow, InsertParams, InsertGenerics, InsertChildren,
                PublishJob, AbandonAdd, Update, TypeOK
  <2>2. CASE InsertJobRow(j)
    <3>1. row'[j].status = "Inserting" /\ adder'[j] = "inserted"
      BY <2>2 DEF InsertJobRow, InsertedRow, AbsentRow, TypeOK
    <3> QED BY <2>1, <3>1
  <2>3. CASE InsertParams(j) \/ InsertGenerics(j) \/ AbandonAdd(j)
    <3>1. row' = row /\ adder'[j] \in {"params", "generics", "abandoned"}
          /\ adder[j] \in {"inserted", "params", "generics"}
      BY <2>3 DEF InsertParams, InsertGenerics, InsertChildren, AbandonAdd, TypeOK
    <3> QED BY <2>1, <3>1
  <2>4. CASE PublishJob(j)
    <3>1. adder'[j] = "added" /\ row[j].status = "Inserting"
      BY <2>4 DEF PublishJob, TypeOK
    <3>2. row'[j].status = "New"
      BY <2>4, <3>1 DEF PublishJob, Update, TypeOK, RowType
    <3> QED BY <2>1, <3>1, <3>2
  <2> QED BY <1>1, <2>2, <2>3, <2>4 DEF AddStep
<1>2. ASSUME adder' = adder,
             \A j \in Jobs : row'[j].status # row[j].status =>
                 /\ row[j].status \notin {"Absent", "Inserting"}
                 /\ row'[j].status # "Inserting"
      PROVE  AdderIsFollowed'
  BY <1>2
<1>3. ASSUME NEW n \in Nodes, BeginFetch(n) \/ ClaimJobs(n) \/ SelectClaimed(n)
                              \/ LoseFetch(n) \/ Crash(n)
      PROVE  AdderIsFollowed'
  <2>1. adder' = adder /\ \A j \in Jobs : row'[j].status = row[j].status
    BY <1>3, ClaimWritesLock
       DEF BeginFetch, ClaimJobs, SelectClaimed, LoseFetch, Crash, TypeOK
  <2> QED BY <1>2, <2>1
<1>4. ASSUME NEW n \in Nodes, NEW e \in held[n], NodeWrite(n, e) PROVE AdderIsFollowed'
  <2>1. adder' = adder
    BY <1>4 DEF NodeWrite, Outcome, MarkJobInProgress, MarkTypeMissing, MarkJobSuccess,
                MarkJobFailed, MarkJobInRetryAndIncrement, DropInProgress, DropOutcome
  <2>2. e.job \in Jobs /\ row[e.job] \in RowType
        /\ row[e.job].status \in {"New", "Retry", "InProgress"}
    BY HeldRow, HeldTypes
  <2>3. \/ row' = row
        \/ \E r : Update(e.job, r) /\ r.status # "Inserting"
    BY <1>4, <2>2, WrittenColumns
       DEF NodeWrite, Outcome, MarkJobInProgress, MarkTypeMissing, MarkJobSuccess,
           MarkJobFailed, MarkJobInRetryAndIncrement, DropInProgress, DropOutcome
  <2>4. \A j \in Jobs : row'[j].status # row[j].status =>
            j = e.job /\ row'[j].status # "Inserting"
    BY <2>2, <2>3 DEF Update, TypeOK
  <2> QED BY <1>2, <2>1, <2>2, <2>4
<1>5. CASE PurgeStep
  <2>1. adder' = adder
    BY <1>5 DEF PurgeStep, PurgeParams, PurgeGenerics, PurgeRows, AbandonPurge
  <2>2. row' = row \/ PurgeRows
    BY <1>5 DEF PurgeStep, PurgeParams, PurgeGenerics, AbandonPurge
  <2>3. ASSUME PurgeRows, NEW j \in Jobs, row'[j].status # row[j].status
        PROVE  row[j].status \in {"Processed", "Failed"} /\ row'[j].status = "Absent"
    <3>1. purge \in PurgeType /\ purge # IdlePurge
      BY <2>3 DEF PurgeRows, TypeOK, IdlePurge
    <3>2. purge.state \in {"Processed", "Failed"}
      BY <3>1 DEF PurgeType, Orderly
    <3> QED BY <2>3, <3>2 DEF PurgeRows, Purgeable, AbsentRow
  <2> QED BY <1>2, <2>1, <2>2, <2>3
<1>6. CASE Tick \/ UNCHANGED vars
  BY <1>6 DEF Tick, vars
<1> QED BY <1>1, <1>3, <1>4, <1>5, <1>6 DEF Next, NodeWrite, PurgeStep

\* The SQL job store implements the life of a job: each statement of an adder,
\* a node or the purger, with crashes and lost answers between them, is one step
\* of it or none.
THEOREM StoreImplementsLifecycle == Orderly => (Spec => ImplementsLifecycle)
<1> SUFFICES ASSUME Orderly PROVE Spec => ImplementsLifecycle
  OBVIOUS
<1>1. Init => AdderIsFollowed /\ Job!Init
  <2> SUFFICES ASSUME Init PROVE AdderIsFollowed /\ Job!Init
    OBVIOUS
  <2>1. \A j \in Jobs : row[j] = AbsentRow /\ adder[j] = "start"
    BY DEF Init
  <2>2. \A j \in Jobs : row[j].status = "Absent" /\ row[j].retryCount = 0
    BY <2>1 DEF AbsentRow
  <2>3. \A j \in Jobs : StatusOf(j) = "NotAdded"
    BY <2>1, <2>2, StatusIsAlwaysRead DEF StatusIsRead
  <2>4. \A j \in Jobs : HolderOf(j) = NoNode
    BY DEF Init, HolderOf, HeldBy
  <2>5. Job!Init
    BY <2>2, <2>3, <2>4 DEF Job!Init
  <2> QED BY <2>1, <2>2, <2>5 DEF AdderIsFollowed
<1>2. TypeOK /\ ClaimInvariant /\ AdderIsFollowed /\ [Next]_vars => AdderIsFollowed'
  BY StepFollowsAdder
<1>3. TypeOK /\ ClaimInvariant /\ AdderIsFollowed => Mapped
  BY ExclusiveIsNamed, StatusIsAlwaysRead DEF Mapped, ClaimInvariant
<1>4. TypeOK /\ ClaimInvariant /\ Mapped /\ Mapped' /\ [Next]_vars
          => [Job!Next]_(Job!lifecycle)
  BY StepMapped
<1> QED BY <1>1, <1>2, <1>3, <1>4, TypeCorrect, ClaimsAreKept, PTL
        DEF Spec, ImplementsLifecycle, Job!Spec

=============================================================================
