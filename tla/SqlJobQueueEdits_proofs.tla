---------------------- MODULE SqlJobQueueEdits_proofs ----------------------
(* Theorems about edits of jobs that nodes may be about to run, for any      *)
(* jobs, nodes, faults and edits.  What they promise of a job holds until it *)
(* is disturbed, so every invariant below is one of a single job.            *)
EXTENDS SqlJobQueueEdits, SqlJobQueue_proofs

----------------------------------------------------------------------------
(* Types *)

CallType == [step : {"row", "params"}, todo : SUBSET EditedOrdinals, command : Commands]

EditTypes ==
    /\ TypeOK
    /\ edit \in {NoEdit} \cup CallType
    /\ edited \in [Jobs -> SUBSET EditedOrdinals]
    /\ promised \in [Jobs -> SUBSET EditedOrdinals]

\* A call's command, as far as the store's columns go.
LEMMA CommandTypes ==
    ASSUME NEW c \in Commands
    PROVE  /\ c.job \in Jobs /\ c.oldStatus \in OldStatuses
           /\ c.newStatus # NoStatus => c.newStatus \in JobStates
           /\ ParamPieces(c) \subseteq EditedOrdinals
BY EditAssumption DEF Commands, ParamPieces

LEMMA CallTypes ==
    ASSUME EditTypes, edit.step # "idle"
    PROVE  /\ edit \in CallType
           /\ edit.command \in Commands /\ edit.command.job \in Jobs
           /\ edit.todo \subseteq EditedOrdinals
           /\ ParamPieces(edit.command) \subseteq EditedOrdinals
<1>1. edit \in CallType
  BY DEF EditTypes, NoEdit
<1> QED BY <1>1, CommandTypes DEF CallType

\* The row statement of a call, when it finds its row.
RowWritten == edit.step = "row" /\ Matches(edit.command) /\ SetStatus(edit.command)

\* A step of an edit leaves the table alone, or executes its row statement.
LEMMA EditorWrites ==
    ASSUME EditTypes, EditStep
    PROVE  /\ UNCHANGED Store
           /\ row' = row \/ RowWritten
           /\ edit' \in {NoEdit} \cup CallType
           /\ edited' \in [Jobs -> SUBSET EditedOrdinals]
           /\ promised' \in [Jobs -> SUBSET EditedOrdinals]
<1> USE DEF EditTypes
<1>1. ASSUME NEW c \in Commands, BeginEdit(c)
      PROVE  /\ UNCHANGED Store /\ row' = row /\ edit' \in CallType
             /\ edited' \in [Jobs -> SUBSET EditedOrdinals]
             /\ promised' \in [Jobs -> SUBSET EditedOrdinals]
  BY <1>1, CommandTypes DEF BeginEdit, CallType
<1>2. ASSUME EditRow
      PROVE  /\ UNCHANGED <<Store, edited, promised>> /\ (row' = row \/ RowWritten)
             /\ edit' \in {NoEdit} \cup CallType
  <2>1. edit \in CallType
    BY <1>2, CallTypes DEF EditRow
  <2>2. [edit EXCEPT !.step = "params"] \in CallType
    BY <2>1 DEF CallType
  <2> QED BY <1>2, <2>1, <2>2 DEF EditRow, RowWritten
<1>3. ASSUME NEW o \in EditedOrdinals, EditParam(o)
      PROVE  /\ UNCHANGED Store /\ row' = row /\ edit' \in {NoEdit} \cup CallType
             /\ edited' \in [Jobs -> SUBSET EditedOrdinals]
             /\ promised' \in [Jobs -> SUBSET EditedOrdinals]
  <2>1. edit \in CallType /\ ParamPieces(edit.command) \subseteq EditedOrdinals
    BY <1>3, CallTypes DEF EditParam
  <2>2. [edit EXCEPT !.todo = @ \ {o}] \in CallType
    BY <2>1 DEF CallType
  <2>3. edited' \in [Jobs -> SUBSET EditedOrdinals]
    BY <1>3 DEF EditParam
  <2>4. promised' \in [Jobs -> SUBSET EditedOrdinals]
    BY <1>3, <2>1 DEF EditParam, ReturnTrue
  <2> QED BY <1>3, <2>2, <2>3, <2>4 DEF EditParam
<1> QED BY <1>1, <1>2, <1>3 DEF EditStep

\* The row statement changes the status of one row that is there, and no more.
LEMMA RowWrittenColumns ==
    ASSUME EditTypes, RowWritten
    PROVE  /\ row' \in [Jobs -> RowType]
           /\ row[edit.command.job].status # "Absent"
           /\ \A j \in Jobs :
                 /\ j # edit.command.job => row'[j] = row[j]
                 /\ row'[j].lockGuid = row[j].lockGuid
                 /\ row'[j].lockClaim = row[j].lockClaim
                 /\ row'[j].status = IF j = edit.command.job /\ edit.command.newStatus # NoStatus
                                       THEN edit.command.newStatus ELSE row[j].status
                 /\ row'[j].status = "Absent" <=> row[j].status = "Absent"
                 /\ row'[j].status # row[j].status =>
                       edit.command.oldStatus \in {NoStatus, row[j].status}
<1> DEFINE c == edit.command
<1> row \in [Jobs -> RowType] /\ c \in Commands
  BY CallTypes DEF EditTypes, TypeOK, RowWritten
<1>1. row[c.job].status # "Absent" /\ (c.oldStatus = NoStatus \/ row[c.job].status = c.oldStatus)
  BY DEF RowWritten, Matches
<1> HIDE DEF c
<1>2. CASE c.newStatus = NoStatus
  BY <1>1, <1>2 DEF RowWritten, SetStatus, c
<1>3. CASE c.newStatus # NoStatus
  <2> DEFINE r == [row[c.job] EXCEPT !.status = c.newStatus]
  <2>1. c.job \in Jobs /\ c.newStatus \in JobStates /\ c.newStatus # "Absent"
    BY <1>3, CommandTypes DEF JobStates
  <2>2. r \in RowType /\ r.status = c.newStatus /\ r.lockGuid = row[c.job].lockGuid
        /\ r.lockClaim = row[c.job].lockClaim
    BY <2>1 DEF RowType
  <2>3. row' = [row EXCEPT ![c.job] = r]
    BY <1>3 DEF RowWritten, SetStatus, c
  <2> HIDE DEF r
  <2> QED BY <1>1, <1>3, <2>1, <2>2, <2>3 DEF c
<1> QED BY <1>2, <1>3

LEMMA EditStepTypes == EditTypes /\ [EditNext]_<<vars, editor, disturbed>> => EditTypes'
<1> SUFFICES ASSUME EditTypes, [EditNext]_<<vars, editor, disturbed>> PROVE EditTypes'
  OBVIOUS
<1>1. CASE EditStep
  <2>1. row' \in [Jobs -> RowType]
    BY <1>1, EditorWrites, RowWrittenColumns DEF EditTypes, TypeOK
  <2> QED BY <1>1, <2>1, EditorWrites, SameClock
          DEF EditTypes, TypeOK, Store, PurgeType, CallType, Commands
<1>2. CASE StoreStep
  BY <1>2, StepTypes DEF StoreStep, EditTypes, editor, CallType, Commands
<1>3. CASE UNCHANGED <<vars, editor, disturbed>>
  BY <1>3, StepTypes DEF EditTypes, editor, CallType, Commands
<1> QED BY <1>1, <1>2, <1>3 DEF EditNext

LEMMA EditsKeepTypes == EditSpec => []EditTypes
<1>1. EditInit => EditTypes
  BY InitTypes DEF EditInit, EditTypes
<1> QED BY <1>1, EditStepTypes, PTL DEF EditSpec

----------------------------------------------------------------------------
(* What no fault and no edit can spoil: the GUIDs of the fetches *)

\* A row that is not there has no lock.
AbsentIsUnlocked ==
    \A j \in Jobs : row[j].status = "Absent" => row[j].lockGuid = NoLock

GuidsAreOwn == AbsentIsUnlocked /\ GuidsDistinct /\ ClaimIsFresh

\* Fetches that go on or are forgotten, and entries that come from held ones.
LEMMA ForgettingKeepsGuids ==
    ASSUME TypeOK, GuidsAreOwn,
           \A j \in Jobs : /\ row'[j].lockGuid \in {row[j].lockGuid, NoLock}
                           /\ row'[j].status = "Absent" => row'[j].lockGuid = NoLock,
           \A n \in Nodes : fetch'[n] \in {fetch[n], IdleFetch},
           \A n \in Nodes : \A e \in held'[n] : \E d \in held[n] : d.guid = e.guid
    PROVE  GuidsAreOwn'
<1> USE DEF GuidsAreOwn
<1>1. \A n \in Nodes : fetch'[n].step # "idle" => fetch'[n] = fetch[n]
  BY DEF IdleFetch
<1>2. \A n \in Nodes : fetch'[n].guid \in {fetch[n].guid, NoLock}
  BY DEF IdleFetch
<1>3. GuidsDistinct'
  <2> SUFFICES ASSUME NEW n \in Nodes, fetch'[n].step # "idle", NEW m \in Nodes
               PROVE  /\ n # m => fetch'[m].guid # fetch'[n].guid
                      /\ \A e \in held'[m] : e.guid # fetch'[n].guid
    BY DEF GuidsDistinct
  <2>1. fetch'[n] = fetch[n] /\ fetch[n].step # "idle"
    BY <1>1
  <2>2. /\ n # m => fetch[m].guid # fetch[n].guid
        /\ \A e \in held[m] : e.guid # fetch[n].guid
    BY <2>1 DEF GuidsDistinct
  <2> QED BY <2>1, <2>2, <1>2, RunningFetch
<1>4. ClaimIsFresh'
  BY <1>1, RunningFetch DEF ClaimIsFresh
<1>5. AbsentIsUnlocked'
  BY DEF AbsentIsUnlocked
<1> QED BY <1>3, <1>4, <1>5

LEMMA BeginFetchKeepsGuids ==
    ASSUME TypeOK, GuidsAreOwn, NEW n \in Nodes, BeginFetch(n)
    PROVE  GuidsAreOwn'
<1> USE DEF GuidsAreOwn
<1> PICK g \in LockGuids \ GuidsInUse :
        fetch' = [fetch EXCEPT ![n] = [step |-> "claim", guid |-> g, at |-> now]]
  BY DEF BeginFetch
<1>1. UNCHANGED <<row, held>>
  BY DEF BeginFetch
<1>2. fetch'[n] = [step |-> "claim", guid |-> g, at |-> now]
      /\ \A m \in Nodes : m # n => fetch'[m] = fetch[m]
  BY DEF TypeOK
<1>3. /\ \A j \in Jobs : row[j].lockGuid # g
      /\ \A m \in Nodes : fetch[m].guid # g
      /\ \A m \in Nodes : \A e \in held[m] : e.guid # g
  BY DEF GuidsInUse
<1> QED BY <1>1, <1>2, <1>3 DEF GuidsDistinct, ClaimIsFresh, AbsentIsUnlocked

\* What the claiming UPDATE of a fetch writes.
LEMMA ClaimWrites ==
    ASSUME TypeOK, NEW n \in Nodes, ClaimJobs(n)
    PROVE  /\ UNCHANGED <<now, child, adder, held>> /\ fetch[n].step = "claim"
           /\ fetch'[n].step = "select" /\ fetch'[n].guid = fetch[n].guid
           /\ fetch'[n].at = fetch[n].at
           /\ \A m \in Nodes : m # n => fetch'[m] = fetch[m]
           /\ \A j \in Jobs :
                 /\ row'[j].status = row[j].status
                 /\ \/ row'[j] = row[j]
                    \/ /\ Eligible(j, row[j], fetch[n].at)
                       /\ row'[j].lockGuid = fetch[n].guid
                       /\ row'[j].lockClaim = fetch[n].at
<1> DEFINE f == fetch[n]
<1>1. UNCHANGED <<now, child, adder, held>> /\ f.step = "claim"
  BY DEF ClaimJobs
<1>2. PICK S \in Batches(f.at) :
          row' = [j \in Jobs |-> IF j \in S THEN ClaimedRow(row[j], f.guid, f.at)
                                            ELSE row[j]]
  BY DEF ClaimJobs
<1>3. \A j \in S : j \in Jobs /\ Eligible(j, row[j], f.at)
  BY DEF Batches, EligibleJobs
<1>4. \A j \in Jobs : j \notin S => row'[j] = row[j]
  BY <1>2
<1>5. \A j \in S : row'[j] = ClaimedRow(row[j], f.guid, f.at) /\ row[j] \in RowType
  BY <1>2, <1>3 DEF TypeOK
<1>6. \A j \in S : /\ row'[j].lockGuid = f.guid /\ row'[j].lockClaim = f.at
                   /\ row'[j].status = row[j].status
  BY <1>5, ClaimWritesLock
<1> HIDE DEF f
<1>7. fetch'[n].step = "select" /\ fetch'[n].guid = f.guid /\ fetch'[n].at = f.at
      /\ \A m \in Nodes : m # n => fetch'[m] = fetch[m]
  BY DEF ClaimJobs, TypeOK, FetchType, IdleFetch, f
<1> QED BY <1>1, <1>3, <1>4, <1>6, <1>7 DEF f

LEMMA ClaimJobsKeepsGuids ==
    ASSUME TypeOK, GuidsAreOwn, NEW n \in Nodes, ClaimJobs(n)
    PROVE  GuidsAreOwn'
<1> USE DEF GuidsAreOwn
<1>1. GuidsDistinct'
  BY ClaimWrites DEF GuidsDistinct
<1>2. \A m \in Nodes : m # n => fetch[m].guid # fetch[n].guid
  BY ClaimWrites DEF GuidsDistinct
<1>3. ClaimIsFresh'
  BY <1>2, ClaimWrites DEF ClaimIsFresh
<1>4. AbsentIsUnlocked'
  BY ClaimWrites DEF AbsentIsUnlocked, Eligible
<1> QED BY <1>1, <1>3, <1>4

\* What the read-back of a fetch hands out.
LEMMA SelectReads ==
    ASSUME TypeOK, NEW n \in Nodes, SelectClaimed(n)
    PROVE  /\ UNCHANGED <<now, row, child, adder>>
           /\ fetch[n].step = "select" /\ fetch[n].guid # NoLock
           /\ fetch'[n] = IdleFetch /\ \A m \in Nodes : m # n => fetch'[m] = fetch[m]
           /\ \A m \in Nodes : m # n => held'[m] = held[m]
           /\ \A e \in held'[n] :
                 \/ e \in held[n]
                 \/ /\ e.job \in Jobs /\ row[e.job].lockGuid = fetch[n].guid
                    /\ e.guid = fetch[n].guid /\ e.at = fetch[n].at /\ e.stage = "fetched"
                    /\ e = Fetched(e.job, fetch[n])
<1> DEFINE f == fetch[n]
           got == {Fetched(j, f) : j \in {j \in Jobs : row[j].lockGuid = f.guid}}
<1>1. UNCHANGED <<now, row, child, adder>> /\ f.step = "select" /\ f.guid # NoLock
  BY RunningFetch DEF SelectClaimed
<1>2. held'[n] = held[n] \cup got /\ \A m \in Nodes : m # n => held'[m] = held[m]
  BY DEF SelectClaimed, TypeOK
<1>3. fetch'[n] = IdleFetch /\ \A m \in Nodes : m # n => fetch'[m] = fetch[m]
  BY DEF SelectClaimed, TypeOK
<1>4. \A e \in got : /\ e.job \in Jobs /\ row[e.job].lockGuid = f.guid
                     /\ e.guid = f.guid /\ e.at = f.at /\ e.stage = "fetched"
                     /\ e = Fetched(e.job, f)
  BY DEF Fetched
<1> HIDE DEF got
<1> QED BY <1>1, <1>2, <1>3, <1>4

LEMMA SelectKeepsGuids ==
    ASSUME TypeOK, GuidsAreOwn, NEW n \in Nodes, SelectClaimed(n)
    PROVE  GuidsAreOwn'
<1> USE DEF GuidsAreOwn
<1>1. \A m \in Nodes : m # n => fetch[m].guid # fetch[n].guid
  BY SelectReads DEF GuidsDistinct
<1>2. GuidsDistinct'
  <2> SUFFICES ASSUME NEW k \in Nodes, fetch'[k].step # "idle", NEW m \in Nodes
               PROVE  /\ k # m => fetch'[m].guid # fetch'[k].guid
                      /\ \A e \in held'[m] : e.guid # fetch'[k].guid
    BY DEF GuidsDistinct
  <2>1. k # n /\ fetch'[k] = fetch[k]
    BY SelectReads DEF IdleFetch
  <2>2. k # m => fetch'[m].guid # fetch'[k].guid
    BY <2>1, SelectReads, RunningFetch DEF GuidsDistinct, IdleFetch
  <2>3. \A e \in held'[m] : e.guid # fetch'[k].guid
    BY <1>1, <2>1, SelectReads DEF GuidsDistinct
  <2> QED BY <2>2, <2>3
<1>3. ClaimIsFresh' /\ AbsentIsUnlocked'
  BY SelectReads DEF ClaimIsFresh, AbsentIsUnlocked, IdleFetch
<1> QED BY <1>2, <1>3

\* What a node's write does to the row of its entry and to the entries.
LEMMA WriteWrites ==
    ASSUME TypeOK, NEW n \in Nodes, NEW e \in held[n], NodeWrite(n, e)
    PROVE  /\ UNCHANGED <<now, child, adder, fetch>>
           /\ e.job \in Jobs
           /\ \A j \in Jobs : /\ j # e.job => row'[j] = row[j]
                              /\ row'[j].lockGuid = row[j].lockGuid
                              /\ row'[j].status = "Absent" <=> row[j].status = "Absent"
           /\ \A m \in Nodes : \A d \in held'[m] :
                 \/ d \in held[m] /\ (m = n => d # e)
                 \/ /\ m = n /\ d.job = e.job /\ d.guid = e.guid /\ d.stage = "running"
                    /\ d = [e EXCEPT !.stage = "running"]
                    /\ \/ DropInProgress(n, e)
                       \/ row[e.job].status # "Absent" => row'[e.job].status = "InProgress"
<1> DEFINE old == row[e.job]
           run == [e EXCEPT !.stage = "running"]
<1>1. e.job \in Jobs /\ old \in RowType /\ e \in EntryType
  BY HeldTypes DEF EntryType
<1>2. /\ InProgressRow(old, now) \in RowType /\ RetryRow(old, now) \in RowType
      /\ ProcessedRow(old) \in RowType /\ FailedRow(old) \in RowType
  BY <1>1, RowsAreRows
<1>3. run.job = e.job /\ run.guid = e.guid /\ run.stage = "running"
  BY <1>1 DEF EntryType
<1>4. Release(n, e) => \A m \in Nodes : \A d \in held'[m] : d \in held[m] /\ (m = n => d # e)
  BY DEF Release, TypeOK
<1>5. Advance(n, e) => \A m \in Nodes : \A d \in held'[m] :
                           \/ d \in held[m] /\ (m = n => d # e)
                           \/ m = n /\ d = run
  <2>1. SUFFICES ASSUME Advance(n, e), NEW m \in Nodes, NEW d \in held'[m],
                        ~(m = n /\ d = run)
                 PROVE  d \in held[m] /\ (m = n => d # e)
    OBVIOUS
  <2>2. held'[m] = IF m = n THEN (held[n] \ {e}) \cup {run} ELSE held[m]
    BY <2>1 DEF Advance, TypeOK
  <2> HIDE DEF run
  <2> QED BY <2>1, <2>2
<1> HIDE DEF old, run
<1>6. ASSUME NEW r \in RowType, Update(e.job, r), r.lockGuid = old.lockGuid,
             r.status # "Absent"
      PROVE  /\ \A j \in Jobs : /\ j # e.job => row'[j] = row[j]
                                /\ row'[j].lockGuid = row[j].lockGuid
                                /\ row'[j].status = "Absent" <=> row[j].status = "Absent"
             /\ row[e.job].status # "Absent" => row'[e.job] = r
  BY <1>1, <1>6, UpdateChangesOne DEF old
<1>7. CASE MarkJobInProgress(n, e)
  <2>1. /\ Update(e.job, InProgressRow(old, now)) /\ Advance(n, e)
        /\ UNCHANGED <<now, child, adder, fetch>>
    BY <1>7 DEF MarkJobInProgress, old
  <2>2. /\ InProgressRow(old, now).lockGuid = old.lockGuid
        /\ InProgressRow(old, now).status = "InProgress"
    BY <1>1, WrittenColumns
  <2>3. /\ \A j \in Jobs : /\ j # e.job => row'[j] = row[j]
                           /\ row'[j].lockGuid = row[j].lockGuid
                           /\ row'[j].status = "Absent" <=> row[j].status = "Absent"
        /\ row[e.job].status # "Absent" => row'[e.job].status = "InProgress"
    BY <1>2, <1>6, <2>1, <2>2
  <2> QED BY <1>1, <1>3, <1>5, <2>1, <2>3 DEF run
<1>8. CASE MarkTypeMissing(n, e) \/ MarkJobFailed(n, e)
  <2>1. /\ Update(e.job, FailedRow(old)) /\ Release(n, e)
        /\ UNCHANGED <<now, child, adder, fetch>>
    BY <1>8 DEF MarkTypeMissing, MarkJobFailed, old
  <2> QED BY <1>1, <1>2, <1>4, <1>6, <2>1, WrittenColumns
<1>9. CASE MarkJobSuccess(n, e)
  <2>1. /\ Update(e.job, ProcessedRow(old)) /\ Release(n, e)
        /\ UNCHANGED <<now, child, adder, fetch>>
    BY <1>9 DEF MarkJobSuccess, old
  <2> QED BY <1>1, <1>2, <1>4, <1>6, <2>1, WrittenColumns
<1>10. CASE MarkJobInRetryAndIncrement(n, e)
  <2>1. /\ Update(e.job, RetryRow(old, now)) /\ Release(n, e)
        /\ UNCHANGED <<now, child, adder, fetch>>
    BY <1>10 DEF MarkJobInRetryAndIncrement, old
  <2> QED BY <1>1, <1>2, <1>4, <1>6, <2>1, WrittenColumns
<1>11. CASE DropInProgress(n, e)
  BY <1>1, <1>3, <1>5, <1>11 DEF DropInProgress, run
<1>12. CASE DropOutcome(n, e)
  BY <1>1, <1>4, <1>12 DEF DropOutcome
<1> QED BY <1>7, <1>8, <1>9, <1>10, <1>11, <1>12 DEF NodeWrite, Outcome

\* What the adder of a job and the purger write.
LEMMA AdderWrites ==
    ASSUME TypeOK, NEW j \in Jobs, AddStep(j) \/ AbandonAdd(j)
    PROVE  /\ UNCHANGED <<now, fetch, held>> /\ BeingAdded(j)
           /\ \A k \in Jobs : k # j => /\ row'[k] = row[k] /\ adder'[k] = adder[k]
                                       /\ child'[k] = child[k]
           /\ \/ /\ row'[j].lockGuid = row[j].lockGuid
                 /\ row'[j].lockClaim = row[j].lockClaim
                 /\ row'[j].status = "Absent" <=> row[j].status = "Absent"
                 /\ row'[j].status = row[j].status \/ adder'[j] = "added"
              \/ /\ adder[j] = "start" /\ row'[j].lockGuid = NoLock
                 /\ row'[j].status = "Inserting"
<1> row \in [Jobs -> RowType] /\ adder \in [Jobs -> {"start", "inserted", "params",
                                                    "generics", "added", "abandoned"}]
    /\ child \in [Jobs -> SUBSET ChildTables]
  BY DEF TypeOK
<1>1. CASE InsertJobRow(j)
  <2>1. row'[j] = InsertedRow(now)
    BY <1>1 DEF InsertJobRow
  <2>2. row'[j].status = "Inserting" /\ row'[j].lockGuid = NoLock
    BY <2>1 DEF InsertedRow, AbsentRow
  <2> QED BY <1>1, <2>2 DEF InsertJobRow, BeingAdded
<1>2. CASE InsertParams(j) \/ InsertGenerics(j)
  <2>1. UNCHANGED <<now, row, fetch, held>> /\ adder[j] \in {"inserted", "params"}
        /\ \A k \in Jobs : k # j => adder'[k] = adder[k] /\ child'[k] = child[k]
    BY <1>2 DEF InsertParams, InsertGenerics, InsertChildren
  <2> QED BY <2>1 DEF BeingAdded
<1>3. CASE PublishJob(j)
  <2> DEFINE r == [row[j] EXCEPT !.status = "New"]
  <2>1. r \in RowType /\ r.status = "New" /\ r.lockGuid = row[j].lockGuid
        /\ r.lockClaim = row[j].lockClaim
    BY DEF RowType, JobStates
  <2>2. Update(j, r) /\ adder'[j] = "added" /\ adder[j] = "generics"
        /\ UNCHANGED <<now, child, fetch, held>>
        /\ \A k \in Jobs : k # j => adder'[k] = adder[k]
    BY <1>3 DEF PublishJob
  <2> HIDE DEF r
  <2>3. /\ row'[j] = IF row[j].status = "Absent" THEN row[j] ELSE r
        /\ \A k \in Jobs : k # j => row'[k] = row[k]
    BY <2>1, <2>2 DEF Update
  <2> QED BY <2>1, <2>2, <2>3 DEF BeingAdded
<1>4. CASE AbandonAdd(j)
  BY <1>4 DEF AbandonAdd, BeingAdded
<1> QED BY <1>1, <1>2, <1>3, <1>4 DEF AddStep

LEMMA PurgerWrites ==
    ASSUME TypeOK, PurgeStep
    PROVE  /\ UNCHANGED <<now, adder, fetch, held>>
           /\ \A j \in Jobs :
                 /\ \/ row'[j] = row[j]
                    \/ /\ row'[j].lockGuid = NoLock /\ row'[j].status = "Absent"
                       /\ row[j].status \in PurgeStates
                 /\ child'[j] # child[j] => row[j].status \in PurgeStates
<1>1. CASE PurgeParams
  BY <1>1 DEF PurgeParams, WithoutChildren, Purgeable, TypeOK
<1>2. CASE PurgeGenerics \/ PurgeRows
  <2>1. purge.state \in PurgeStates
    BY <1>2 DEF PurgeGenerics, PurgeRows, TypeOK, PurgeType, IdlePurge
  <2> QED BY <1>2, <2>1 DEF PurgeGenerics, PurgeRows, WithoutChildren, Purgeable, AbsentRow,
                            TypeOK
<1>3. CASE AbandonPurge
  BY <1>3 DEF AbandonPurge
<1> QED BY <1>1, <1>2, <1>3 DEF PurgeStep


\* The GUIDs of fetches stay their own in every step, a disturbing one too.
LEMMA GuidsStayOwn == EditTypes /\ GuidsAreOwn /\ [EditNext]_<<vars, editor, disturbed>>
                          => GuidsAreOwn'
<1> SUFFICES ASSUME EditTypes, GuidsAreOwn, [EditNext]_<<vars, editor, disturbed>>
             PROVE  GuidsAreOwn'
  OBVIOUS
<1> TypeOK /\ AbsentIsUnlocked
  BY DEF EditTypes, GuidsAreOwn
<1>1. ASSUME UNCHANGED <<fetch, held>>,
             \A j \in Jobs : /\ row'[j].lockGuid \in {row[j].lockGuid, NoLock}
                             /\ row'[j].status = "Absent" => row'[j].lockGuid = NoLock
      PROVE  GuidsAreOwn'
  BY <1>1, ForgettingKeepsGuids
<1>2. ASSUME NEW j \in Jobs, AddStep(j) \/ AbandonAdd(j) PROVE GuidsAreOwn'
  BY <1>1, <1>2, AdderWrites DEF AbsentIsUnlocked
<1>3. ASSUME NEW n \in Nodes, LoseFetch(n) \/ Crash(n) PROVE GuidsAreOwn'
  <2>1. row' = row /\ \A m \in Nodes : /\ fetch'[m] \in {fetch[m], IdleFetch}
                                       /\ held'[m] \subseteq held[m]
    BY <1>3 DEF LoseFetch, Crash, TypeOK
  <2> QED BY <2>1, ForgettingKeepsGuids DEF AbsentIsUnlocked
<1>4. ASSUME NEW n \in Nodes, NEW e \in held[n], NodeWrite(n, e) PROVE GuidsAreOwn'
  <2>1. /\ \A m \in Nodes : fetch'[m] = fetch[m]
        /\ \A m \in Nodes : \A d \in held'[m] : d \in held[m] \/ (m = n /\ d.guid = e.guid)
        /\ \A j \in Jobs : row'[j].lockGuid = row[j].lockGuid
                           /\ (row'[j].status = "Absent" <=> row[j].status = "Absent")
    BY <1>4, WriteWrites
  <2>2. \A m \in Nodes : \A d \in held'[m] : \E k \in held[m] : k.guid = d.guid
    BY <2>1
  <2> QED BY <2>1, <2>2, ForgettingKeepsGuids DEF AbsentIsUnlocked
<1>5. CASE PurgeStep
  BY <1>1, <1>5, PurgerWrites DEF AbsentIsUnlocked
<1>6. CASE Tick \/ UNCHANGED vars
  BY <1>1, <1>6 DEF Tick, vars, AbsentIsUnlocked
<1>7. CASE EditStep
  BY <1>1, <1>7, EditorWrites, RowWrittenColumns DEF AbsentIsUnlocked, Store
<1> QED
  BY <1>2, <1>3, <1>4, <1>5, <1>6, <1>7, BeginFetchKeepsGuids, ClaimJobsKeepsGuids,
     SelectKeepsGuids
  DEF EditNext, StoreStep, Next, NodeWrite, PurgeStep

----------------------------------------------------------------------------
(* The lease of one job *)

NotYetPublished(j) ==
    BeingAdded(j) => /\ row[j].status \in {"Absent", "Inserting"}
                     /\ row[j].lockGuid = NoLock
                     /\ \A n \in Nodes : \A e \in held[n] : e.job # j

\* A claim that is not read back yet: its job is nobody's.
ClaimIsLeased(j) ==
    \A n \in Nodes : fetch[n].step = "select" /\ row[j].lockGuid = fetch[n].guid =>
        /\ row[j].lockClaim = fetch[n].at
        /\ \A m \in Nodes : \A e \in held[m] : e.job # j

\* A job that is held: until its row is purged, its lease is the holder's.
HeldIsLeased(j) ==
    \A n \in Nodes : \A e \in held[n] : e.job = j /\ row[j].status # "Absent" =>
        /\ row[j].lockGuid = e.guid
        /\ e.stage = "fetched" => row[j].lockClaim = e.at
        /\ e.stage = "running" => row[j].status = "InProgress"

HeldOnce(j) ==
    \A n, m \in Nodes : \A d \in held[n], e \in held[m] :
        d.job = j /\ e.job = j => n = m /\ d = e

Leased(j) == NotYetPublished(j) /\ ClaimIsLeased(j) /\ HeldIsLeased(j) /\ HeldOnce(j)

\* Steps after which no claim of the job is new and nobody new holds it.
LEMMA FewerHoldersKeepLeases ==
    ASSUME TypeOK, NEW j \in Jobs, Leased(j), row'[j] = row[j], adder'[j] = adder[j],
           \A n \in Nodes : fetch'[n].step = "select" => fetch'[n] = fetch[n],
           \A n \in Nodes : \A e \in held'[n] : e.job = j => e \in held[n]
    PROVE  Leased(j)'
<1>1. NotYetPublished(j)'
  BY DEF Leased, NotYetPublished, BeingAdded
<1>2. ClaimIsLeased(j)'
  BY DEF Leased, ClaimIsLeased
<1>3. HeldIsLeased(j)' /\ HeldOnce(j)'
  BY DEF Leased, HeldIsLeased, HeldOnce
<1> QED BY <1>1, <1>2, <1>3 DEF Leased

\* Statements of adders, purgers and editors: none of them touches a lease.
LEMMA OutsidersKeepLeases ==
    ASSUME TypeOK, NEW j \in Jobs, Leased(j), UNCHANGED <<fetch, held>>,
           BeingAdded(j)' => BeingAdded(j),
           \/ row'[j].lockGuid = NoLock /\ row'[j].status = "Absent"
           \/ row'[j].lockGuid = NoLock /\ row'[j].status = "Inserting" /\ BeingAdded(j)
           \/ /\ row'[j].lockGuid = row[j].lockGuid /\ row'[j].lockClaim = row[j].lockClaim
              /\ row'[j].status = "Absent" <=> row[j].status = "Absent"
              /\ row'[j].status # row[j].status => ~BeingAdded(j)' /\ ~HeldAs(j, "running")
    PROVE  Leased(j)'
<1>1. NotYetPublished(j)'
  BY DEF Leased, NotYetPublished
<1>2. ClaimIsLeased(j)'
  BY RunningFetch DEF Leased, ClaimIsLeased
<1>3. HeldIsLeased(j)'
  BY DEF Leased, HeldIsLeased, HeldAs, NotYetPublished
<1>4. HeldOnce(j)'
  BY DEF Leased, HeldOnce
<1> QED BY <1>1, <1>2, <1>3, <1>4 DEF Leased

\* A job that a fetch may claim is nobody's, unless its holder is late.
LEMMA EligibleIsNobodys ==
    ASSUME TypeOK, NEW j \in Jobs, Leased(j), ~IsLate(j),
           NEW t \in 1..now, Eligible(j, row[j], t)
    PROVE  /\ ~BeingAdded(j)
           /\ \A n \in Nodes : \A e \in held[n] : e.job # j
<1>1. row[j].status \in {"New", "Retry"} /\ LeaseFree(row[j], t)
  BY DEF Eligible
<1>2. ASSUME NEW n \in Nodes, NEW e \in held[n], e.job = j PROVE FALSE
  <2>1. e \in EntryType /\ e.at \in 1..now /\ e.stage \in {"fetched", "running"}
    BY DEF TypeOK, EntryType
  <2>2. e.stage = "fetched" /\ row[j].lockClaim = e.at
    BY <1>1, <1>2, <2>1 DEF Leased, HeldIsLeased
  <2>3. ~(e.at + LeaseTimeout < now)
    BY <1>2, <2>2 DEF IsLate
  <2> QED BY <1>1, <2>1, <2>2, <2>3, StoreAssumption DEF LeaseFree, NoTime, TypeOK
<1> QED BY <1>1, <1>2 DEF Leased, NotYetPublished

LEMMA ClaimJobsKeepsLeases ==
    ASSUME TypeOK, GuidsAreOwn, NEW j \in Jobs, Leased(j), ~IsLate(j),
           NEW n \in Nodes, ClaimJobs(n)
    PROVE  Leased(j)'
<1>1. /\ \A m \in Nodes : m # n => fetch[m].guid # fetch[n].guid
      /\ row[j].lockGuid # fetch[n].guid
  BY ClaimWrites DEF GuidsAreOwn, GuidsDistinct, ClaimIsFresh
<1>2. CASE row'[j] = row[j]
  <2>1. NotYetPublished(j)' /\ HeldIsLeased(j)' /\ HeldOnce(j)'
    BY <1>2, ClaimWrites DEF Leased, NotYetPublished, BeingAdded, HeldIsLeased, HeldOnce
  <2>2. ClaimIsLeased(j)'
    BY <1>1, <1>2, ClaimWrites DEF Leased, ClaimIsLeased
  <2> QED BY <2>1, <2>2 DEF Leased
<1>3. CASE row'[j] # row[j]
  <2>1. /\ Eligible(j, row[j], fetch[n].at) /\ row'[j].lockGuid = fetch[n].guid
        /\ row'[j].lockClaim = fetch[n].at
    BY <1>3, ClaimWrites
  <2>2. fetch[n].at \in 1..now
    BY ClaimWrites, RunningFetch
  <2>3. ~BeingAdded(j) /\ \A m \in Nodes : \A e \in held[m] : e.job # j
    BY <2>1, <2>2, EligibleIsNobodys
  <2>4. NotYetPublished(j)' /\ HeldIsLeased(j)' /\ HeldOnce(j)'
    BY <2>3, ClaimWrites DEF NotYetPublished, BeingAdded, HeldIsLeased, HeldOnce
  <2>5. ClaimIsLeased(j)'
    BY <1>1, <2>1, <2>3, ClaimWrites DEF ClaimIsLeased
  <2> QED BY <2>4, <2>5 DEF Leased
<1> QED BY <1>2, <1>3

LEMMA SelectKeepsLeases ==
    ASSUME TypeOK, GuidsAreOwn, NEW j \in Jobs, Leased(j), NEW n \in Nodes, SelectClaimed(n)
    PROVE  Leased(j)'
<1>1. \A m \in Nodes : m # n => fetch[m].guid # fetch[n].guid
  BY SelectReads DEF GuidsAreOwn, GuidsDistinct
<1>2. CASE row[j].lockGuid # fetch[n].guid
  <2>1. \A m \in Nodes : \A e \in held'[m] : e.job = j => e \in held[m]
    BY <1>2, SelectReads
  <2>2. \A m \in Nodes : fetch'[m].step = "select" => fetch'[m] = fetch[m]
    BY SelectReads DEF IdleFetch
  <2> QED BY <2>1, <2>2, SelectReads, FewerHoldersKeepLeases
<1>3. CASE row[j].lockGuid = fetch[n].guid
  <2>1. row[j].lockClaim = fetch[n].at /\ \A m \in Nodes : \A e \in held[m] : e.job # j
    BY <1>3, SelectReads DEF Leased, ClaimIsLeased
  <2>2. ~BeingAdded(j)
    BY <1>3, SelectReads DEF Leased, NotYetPublished
  <2>3. \A m \in Nodes : \A e \in held'[m] : e.job = j =>
            /\ m = n /\ e = Fetched(j, fetch[n])
            /\ e.guid = fetch[n].guid /\ e.at = fetch[n].at /\ e.stage = "fetched"
    BY <2>1, SelectReads
  <2>4. NotYetPublished(j)'
    BY <2>2, SelectReads DEF NotYetPublished, BeingAdded
  <2>5. ClaimIsLeased(j)'
    BY <1>1, <1>3, SelectReads DEF ClaimIsLeased, IdleFetch
  <2>6. HeldIsLeased(j)' /\ HeldOnce(j)'
    BY <1>3, <2>1, <2>3, SelectReads DEF HeldIsLeased, HeldOnce
  <2> QED BY <2>4, <2>5, <2>6 DEF Leased
<1> QED BY <1>2, <1>3

LEMMA WriteKeepsLeases ==
    ASSUME TypeOK, NEW j \in Jobs, Leased(j), ~LosesInProgress(j),
           NEW n \in Nodes, NEW e \in held[n], NodeWrite(n, e)
    PROVE  Leased(j)'
<1>1. CASE e.job # j
  <2>1. /\ row'[j] = row[j]
        /\ \A m \in Nodes : \A d \in held'[m] : d.job = j => d \in held[m]
    BY <1>1, WriteWrites
  <2> QED BY <2>1, WriteWrites, FewerHoldersKeepLeases
<1>2. CASE e.job = j
  <2> DEFINE run == [e EXCEPT !.stage = "running"]
  <2>1. ~BeingAdded(j) /\ \A m \in Nodes : \A d \in held[m] : d.job = j => m = n /\ d = e
    BY <1>2 DEF Leased, NotYetPublished, HeldOnce
  <2>2. \A m \in Nodes : fetch[m].step = "select" => row[j].lockGuid # fetch[m].guid
    BY <1>2 DEF Leased, ClaimIsLeased
  <2>3. ~DropInProgress(n, e)
    BY <1>2 DEF LosesInProgress
  <2>4. \A m \in Nodes : \A d \in held'[m] : d.job = j =>
            /\ m = n /\ d = run /\ d.guid = e.guid /\ d.stage = "running"
            /\ row[j].status # "Absent" => row'[j].status = "InProgress"
    BY <1>2, <2>1, <2>3, WriteWrites
  <2> HIDE DEF run
  <2>5. NotYetPublished(j)' /\ ClaimIsLeased(j)'
    BY <2>1, <2>2, WriteWrites DEF NotYetPublished, BeingAdded, ClaimIsLeased
  <2>6. row[j].status # "Absent" => row[j].lockGuid = e.guid
    BY <1>2 DEF Leased, HeldIsLeased
  <2>7. HeldIsLeased(j)' /\ HeldOnce(j)'
    BY <1>2, <2>4, <2>6, WriteWrites DEF HeldIsLeased, HeldOnce
  <2> QED BY <2>5, <2>7 DEF Leased
<1> QED BY <1>1, <1>2

\* An edit changes the status of a job only while nobody runs or adds it, unless
\* it takes the job away.
LEMMA EditKeepsLeases ==
    ASSUME EditTypes, NEW j \in Jobs, Leased(j), EditStep, ~TakesAway(j)
    PROVE  Leased(j)'
<1> TypeOK
  BY DEF EditTypes
<1>1. UNCHANGED <<fetch, held, adder>> /\ (row' = row \/ RowWritten)
  BY EditorWrites DEF Store
<1>2. CASE row' = row
  BY <1>1, <1>2, FewerHoldersKeepLeases
<1>3. CASE RowWritten
  <2>1. /\ row'[j].lockGuid = row[j].lockGuid /\ row'[j].lockClaim = row[j].lockClaim
        /\ row'[j].status = "Absent" <=> row[j].status = "Absent"
        /\ row'[j].status # row[j].status =>
              /\ edit.command.oldStatus \in {NoStatus, row[j].status}
              /\ row[j].status # "Absent"
    BY <1>3, RowWrittenColumns
  <2>2. ASSUME row'[j].status # row[j].status
        PROVE  ~BeingAdded(j) /\ ~HeldAs(j, "running")
    <3>1. edit.step = "row" /\ edit.command.oldStatus \in {NoStatus, row[j].status}
          /\ row[j].status # "Absent"
      BY <1>3, <2>1, <2>2 DEF RowWritten
    <3>2. CASE Unguarded(edit.command)
      BY <2>2, <3>1, <3>2 DEF TakesAway
    <3>3. CASE ~Unguarded(edit.command)
      <4>1. row[j].status \notin {"InProgress", "Inserting", "Absent"}
        BY <3>1, <3>3 DEF Unguarded
      <4> QED BY <4>1 DEF Leased, NotYetPublished, HeldIsLeased, HeldAs
    <3> QED BY <3>2, <3>3
  <2> QED BY <1>1, <2>1, <2>2, OutsidersKeepLeases DEF BeingAdded
<1> QED BY <1>1, <1>2, <1>3

\* The inductive invariant of the first theorem.  It says nothing of other jobs,
\* so a disturbed job spoils no lease but its own.
LeaseInvariant ==
    /\ GuidsAreOwn
    /\ \A j \in Jobs \ disturbed : Leased(j) /\ ~IsLate(j)

LEMMA StoreKeepsLeases ==
    ASSUME TypeOK, GuidsAreOwn, NEW j \in Jobs, Leased(j), ~IsLate(j),
           [Next]_vars, ~LosesInProgress(j)
    PROVE  Leased(j)'
<1>1. ASSUME NEW k \in Jobs, AddStep(k) \/ AbandonAdd(k) PROVE Leased(j)'
  <2>1. CASE k # j
    <3>1. row'[j] = row[j] /\ adder'[j] = adder[j] /\ UNCHANGED <<fetch, held>>
      BY <1>1, <2>1, AdderWrites
    <3> QED BY <3>1, FewerHoldersKeepLeases
  <2>2. CASE k = j
    <3>1. BeingAdded(j) /\ UNCHANGED <<fetch, held>>
      BY <1>1, <2>2, AdderWrites
    <3>2. ~HeldAs(j, "running")
      BY <3>1 DEF Leased, NotYetPublished, HeldAs
    <3> QED BY <1>1, <2>2, <3>1, <3>2, AdderWrites, OutsidersKeepLeases DEF BeingAdded
  <2> QED BY <2>1, <2>2
<1>2. ASSUME NEW n \in Nodes, BeginFetch(n) \/ LoseFetch(n) \/ Crash(n) PROVE Leased(j)'
  <2>1. UNCHANGED <<row, adder>> /\ \A m \in Nodes : held'[m] \subseteq held[m]
    BY <1>2 DEF BeginFetch, LoseFetch, Crash, TypeOK
  <2>2. \A m \in Nodes : fetch'[m].step = "select" => fetch'[m] = fetch[m]
    BY <1>2 DEF BeginFetch, LoseFetch, Crash, TypeOK, IdleFetch
  <2> QED BY <2>1, <2>2, FewerHoldersKeepLeases
<1>3. CASE PurgeStep
  <2>1. CASE row'[j] = row[j]
    BY <1>3, <2>1, PurgerWrites, FewerHoldersKeepLeases
  <2>2. CASE row'[j] # row[j]
    BY <1>3, <2>2, PurgerWrites, OutsidersKeepLeases DEF BeingAdded
  <2> QED BY <2>1, <2>2
<1>4. CASE Tick \/ UNCHANGED vars
  BY <1>4, FewerHoldersKeepLeases DEF Tick, vars
<1> QED
  BY <1>1, <1>2, <1>3, <1>4, ClaimJobsKeepsLeases, SelectKeepsLeases, WriteKeepsLeases
  DEF Next, NodeWrite, PurgeStep

LEMMA LeasesAreKept == EditSpec => []LeaseInvariant
<1>1. EditInit => LeaseInvariant
  <2> SUFFICES ASSUME EditInit PROVE LeaseInvariant
    OBVIOUS
  <2>1. GuidsAreOwn
    BY DEF EditInit, Init, GuidsAreOwn, AbsentIsUnlocked, GuidsDistinct, ClaimIsFresh,
           AbsentRow, IdleFetch
  <2>2. ASSUME NEW j \in Jobs PROVE Leased(j) /\ ~IsLate(j)
    BY DEF EditInit, Init, Leased, NotYetPublished, ClaimIsLeased, HeldIsLeased, HeldOnce,
           AbsentRow, IdleFetch, IsLate
  <2> QED BY <2>1, <2>2 DEF LeaseInvariant
<1>2. EditTypes /\ LeaseInvariant /\ [EditNext]_<<vars, editor, disturbed>> => LeaseInvariant'
  <2> SUFFICES ASSUME EditTypes, LeaseInvariant, [EditNext]_<<vars, editor, disturbed>>,
                      NEW j \in Jobs \ disturbed'
               PROVE  Leased(j)' /\ ~IsLate(j)'
    BY GuidsStayOwn DEF LeaseInvariant
  <2> TypeOK /\ GuidsAreOwn
    BY DEF EditTypes, LeaseInvariant
  <2>1. CASE UNCHANGED <<vars, editor, disturbed>>
    <3>1. Leased(j) /\ ~IsLate(j)
      BY <2>1 DEF LeaseInvariant
    <3>2. ~IsLate(j)'
      BY <2>1, <3>1 DEF IsLate, vars
    <3> QED BY <2>1, <3>1, <3>2, FewerHoldersKeepLeases DEF vars
  <2>2. CASE EditNext
    <3>1. j \notin disturbed /\ ~Disturbs(j)
      BY <2>2 DEF EditNext
    <3>2. /\ Leased(j) /\ ~IsLate(j) /\ ~IsLate(j)'
          /\ ~TakesAway(j) /\ ~LosesInProgress(j)
      BY <3>1 DEF LeaseInvariant, Disturbs
    <3> HIDE DEF Disturbs
    <3>3. CASE EditStep
      BY <3>2, <3>3, EditKeepsLeases
    <3>4. CASE StoreStep
      BY <3>2, <3>4, StoreKeepsLeases DEF StoreStep
    <3> QED BY <2>2, <3>2, <3>3, <3>4 DEF EditNext
  <2> QED BY <2>1, <2>2
<1> QED BY <1>1, <1>2, EditsKeepTypes, PTL DEF EditSpec

\* Nobody else holds a job whose own lease was kept, for any jobs, nodes, purges
\* and faults and any edits, those that require no status included.
THEOREM EditsLeaveClaimsExclusive == EditSpec => []EditsKeepExclusiveHolder
<1>1. EditTypes /\ LeaseInvariant => EditsKeepExclusiveHolder
  <2> SUFFICES ASSUME EditTypes, LeaseInvariant, NEW n \in Nodes, NEW m \in Nodes,
                      NEW d \in held[n], NEW e \in held[m], d.job = e.job,
                      d.job \notin disturbed
               PROVE  n = m /\ d = e
    BY DEF EditsKeepExclusiveHolder
  <2>1. d.job \in Jobs
    BY DEF EditTypes, TypeOK, EntryType
  <2> QED BY <2>1 DEF LeaseInvariant, Leased, HeldOnce
<1> QED BY <1>1, LeasesAreKept, EditsKeepTypes, PTL

----------------------------------------------------------------------------
(* Jobs that an edit has made New *)

\* What a call that returned true was to write is written, and what one that is
\* under way has behind it.
PromisesAreKept ==
    /\ \A j \in Jobs : promised[j] \subseteq edited[j]
    /\ edit.step # "idle" => promised[edit.command.job] = {}
    /\ edit.step = "row" => edit.todo = ParamPieces(edit.command)
    /\ edit.step = "params" =>
           ParamPieces(edit.command) \ edit.todo \subseteq edited[edit.command.job]

LEMMA PromisesStayKept ==
    EditTypes /\ PromisesAreKept /\ [EditNext]_<<vars, editor, disturbed>> => PromisesAreKept'
<1> SUFFICES ASSUME EditTypes, PromisesAreKept, [EditNext]_<<vars, editor, disturbed>>
             PROVE  PromisesAreKept'
  OBVIOUS
<1> edited \in [Jobs -> SUBSET EditedOrdinals] /\ promised \in [Jobs -> SUBSET EditedOrdinals]
  BY DEF EditTypes
<1>1. ASSUME NEW c \in Commands, BeginEdit(c) PROVE PromisesAreKept'
  <2>1. c.job \in Jobs
    BY CommandTypes
  <2>2. edit'.step = "row" /\ edit'.todo = ParamPieces(c) /\ edit'.command = c
    BY <1>1 DEF BeginEdit
  <2>3. /\ promised'[c.job] = {}
        /\ \A j \in Jobs : promised'[j] \subseteq edited'[j]
    BY <1>1, <2>1 DEF BeginEdit, PromisesAreKept
  <2> QED BY <2>2, <2>3 DEF PromisesAreKept
<1>2. CASE EditRow
  <2>1. edit \in CallType /\ UNCHANGED <<edited, promised>> /\ edit.step = "row"
    BY <1>2, CallTypes DEF EditRow
  <2>2. edit' = NoEdit \/ edit' = [edit EXCEPT !.step = "params"]
    BY <1>2 DEF EditRow
  <2>3. CASE edit' = NoEdit
    BY <2>1, <2>3 DEF PromisesAreKept, NoEdit
  <2>4. CASE edit' = [edit EXCEPT !.step = "params"]
    <3>1. edit'.step = "params" /\ edit'.todo = edit.todo /\ edit'.command = edit.command
      BY <2>1, <2>4 DEF CallType
    <3> QED BY <2>1, <3>1 DEF PromisesAreKept
  <2> QED BY <2>2, <2>3, <2>4
<1>3. ASSUME NEW o \in EditedOrdinals, EditParam(o) PROVE PromisesAreKept'
  <2> DEFINE c == edit.command
  <2>1. /\ edit \in CallType /\ c.job \in Jobs /\ edit.step = "params" /\ o \in edit.todo
        /\ promised[c.job] = {} /\ ParamPieces(c) \ edit.todo \subseteq edited[c.job]
    BY <1>3, CallTypes DEF EditParam, PromisesAreKept
  <2>2. CASE ~ParamExists(c.job, o)
    BY <1>3, <2>2 DEF EditParam, PromisesAreKept, NoEdit
  <2>3. CASE ParamExists(c.job, o) /\ edit.todo = {o}
    <3>1. /\ edit' = NoEdit
          /\ promised' = [promised EXCEPT ![c.job] = IF c.newStatus = "New"
                                                       THEN ParamPieces(c) ELSE {}]
          /\ edited' = [edited EXCEPT ![c.job] = @ \cup {o}]
      BY <1>3, <2>3 DEF EditParam, ReturnTrue
    <3> HIDE DEF c
    <3>2. \A j \in Jobs : promised'[j] \subseteq edited'[j]
      BY <2>1, <2>3, <3>1 DEF PromisesAreKept
    <3> QED BY <3>1, <3>2 DEF PromisesAreKept, NoEdit
  <2>4. CASE ParamExists(c.job, o) /\ edit.todo # {o}
    <3>1. /\ edit' = [edit EXCEPT !.todo = @ \ {o}] /\ promised' = promised
          /\ edited' = [edited EXCEPT ![c.job] = @ \cup {o}]
      BY <1>3, <2>4 DEF EditParam
    <3>2. edit'.step = "params" /\ edit'.todo = edit.todo \ {o} /\ edit'.command = c
      BY <2>1, <3>1 DEF CallType
    <3> HIDE DEF c
    <3>3. \A j \in Jobs : promised'[j] \subseteq edited'[j]
      BY <3>1 DEF PromisesAreKept
    <3>4. ParamPieces(c) \ edit'.todo \subseteq edited'[c.job]
      BY <2>1, <3>1, <3>2
    <3> QED BY <2>1, <3>1, <3>2, <3>3, <3>4 DEF PromisesAreKept
  <2> QED BY <2>2, <2>3, <2>4
<1>4. CASE UNCHANGED editor
  BY <1>4 DEF editor, PromisesAreKept
<1> QED BY <1>1, <1>2, <1>3, <1>4 DEF EditNext, EditStep, StoreStep

Ended == {"Processed", "Failed"}

\* An edit that makes the job New has written the row, or has returned true.
Watched(j) ==
    \/ promised[j] # {}
    \/ edit.step = "params" /\ edit.command.job = j /\ edit.command.newStatus = "New"

\* A job that has ended is nobody's and no fetch is about to read it back.
UnheldWhenEnded(j) ==
    row[j].status \in Ended =>
        \A n \in Nodes : /\ \A e \in held[n] : e.job # j
                         /\ fetch[n].step = "select" => fetch[n].guid # row[j].lockGuid

\* Parameters are only gone when the job will not be handed out again.
HasParamsOrEnded(j) ==
    "params" \in child[j] \/ row[j].status \in Ended \cup {"Absent"}

Requeued(j) ==
    Watched(j) => /\ ~BeingAdded(j)
                  /\ UnheldWhenEnded(j)
                  /\ promised[j] # {} => HasParamsOrEnded(j)

\* Steps that leave the row alone and hand the job to nobody.
LEMMA SameRowKeepsEnded ==
    ASSUME NEW j \in Jobs, row'[j] = row[j],
           UnheldWhenEnded(j), child'[j] = child[j],
           \A n \in Nodes : fetch'[n].step = "select" => fetch'[n] = fetch[n],
           \A n \in Nodes : \A e \in held'[n] : e.job = j => e \in held[n]
    PROVE  /\ UnheldWhenEnded(j)'
           /\ HasParamsOrEnded(j) => HasParamsOrEnded(j)'
BY DEF UnheldWhenEnded, HasParamsOrEnded

LEMMA WriteKeepsEnded ==
    ASSUME TypeOK, NEW j \in Jobs, Leased(j), UnheldWhenEnded(j),
           NEW n \in Nodes, NEW e \in held[n], NodeWrite(n, e)
    PROVE  /\ UnheldWhenEnded(j)'
           /\ HasParamsOrEnded(j) => HasParamsOrEnded(j)'
<1>1. CASE e.job # j
  <2>1. /\ row'[j] = row[j] /\ UNCHANGED <<child, fetch>>
        /\ \A m \in Nodes : \A d \in held'[m] : d.job = j => d \in held[m]
    BY <1>1, WriteWrites
  <2> QED BY <2>1, SameRowKeepsEnded
<1>2. CASE e.job = j
  <2>1. /\ row[j].status \notin Ended
        /\ \A m \in Nodes : \A d \in held[m] : d.job = j => m = n /\ d = e
        /\ \A m \in Nodes : fetch[m].step = "select" => fetch[m].guid # row[j].lockGuid
    BY <1>2 DEF UnheldWhenEnded, Leased, HeldOnce, ClaimIsLeased
  <2>2. UNCHANGED <<child, fetch>> /\ row'[j].lockGuid = row[j].lockGuid
        /\ (row'[j].status = "Absent" <=> row[j].status = "Absent")
    BY <1>2, WriteWrites
  <2>3. ASSUME row'[j].status \in Ended, NEW m \in Nodes, NEW d \in held'[m], d.job = j
        PROVE  FALSE
    <3>1. ~DropInProgress(n, e)
      BY <2>1, <2>3 DEF DropInProgress
    <3>2. row[j].status # "Absent"
      BY <2>2, <2>3 DEF Ended
    <3> QED BY <1>2, <2>1, <2>3, <3>1, <3>2, WriteWrites DEF Ended
  <2> QED BY <2>1, <2>2, <2>3 DEF UnheldWhenEnded, HasParamsOrEnded, Ended
<1> QED BY <1>1, <1>2

StaysRequeued(j) ==
    /\ ~BeingAdded(j)'
    /\ UnheldWhenEnded(j)'
    /\ HasParamsOrEnded(j) => HasParamsOrEnded(j)'

LEMMA StoreKeepsRequeued ==
    ASSUME TypeOK, GuidsAreOwn, NEW j \in Jobs, Leased(j), UnheldWhenEnded(j),
           ~BeingAdded(j), PurgeStates \subseteq Ended, [Next]_vars
    PROVE  StaysRequeued(j)
<1>1. ASSUME NEW k \in Jobs, AddStep(k) \/ AbandonAdd(k) PROVE StaysRequeued(j)
  <2>1. k # j
    BY <1>1, AdderWrites
  <2>2. /\ row'[j] = row[j] /\ adder'[j] = adder[j] /\ child'[j] = child[j]
        /\ UNCHANGED <<fetch, held>>
    BY <1>1, <2>1, AdderWrites
  <2> QED BY <2>2, SameRowKeepsEnded DEF StaysRequeued, BeingAdded
<1>2. ASSUME NEW n \in Nodes, BeginFetch(n) \/ LoseFetch(n) \/ Crash(n) PROVE StaysRequeued(j)
  <2>1. UNCHANGED <<row, child, adder>> /\ \A m \in Nodes : held'[m] \subseteq held[m]
    BY <1>2 DEF BeginFetch, LoseFetch, Crash, TypeOK
  <2>2. \A m \in Nodes : fetch'[m].step = "select" => fetch'[m] = fetch[m]
    BY <1>2 DEF BeginFetch, LoseFetch, Crash, TypeOK, IdleFetch
  <2> QED BY <2>1, <2>2, SameRowKeepsEnded DEF StaysRequeued, BeingAdded
<1>3. ASSUME NEW n \in Nodes, ClaimJobs(n) PROVE StaysRequeued(j)
  <2>1. UNCHANGED <<child, adder, held>> /\ row'[j].status = row[j].status
    BY <1>3, ClaimWrites
  <2>2. row[j].status \in Ended => row'[j] = row[j] /\ row[j].lockGuid # fetch'[n].guid
    BY <1>3, ClaimWrites DEF Eligible, Ended, GuidsAreOwn, ClaimIsFresh
  <2>3. UnheldWhenEnded(j)'
    BY <1>3, <2>1, <2>2, ClaimWrites DEF UnheldWhenEnded
  <2> QED BY <2>1, <2>3 DEF StaysRequeued, HasParamsOrEnded, BeingAdded
<1>4. ASSUME NEW n \in Nodes, SelectClaimed(n) PROVE StaysRequeued(j)
  <2>1. UNCHANGED <<row, child, adder>>
    BY <1>4, SelectReads
  <2>2. UnheldWhenEnded(j)'
    BY <1>4, SelectReads DEF UnheldWhenEnded, IdleFetch
  <2> QED BY <2>1, <2>2 DEF StaysRequeued, HasParamsOrEnded, BeingAdded
<1>5. ASSUME NEW n \in Nodes, NEW e \in held[n], NodeWrite(n, e) PROVE StaysRequeued(j)
  <2>1. adder' = adder
    BY <1>5, WriteWrites
  <2> QED BY <1>5, <2>1, WriteKeepsEnded DEF StaysRequeued, BeingAdded
<1>6. CASE PurgeStep
  <2>1. /\ UNCHANGED <<adder, fetch, held>>
        /\ row'[j] = row[j] \/ row'[j].status = "Absent"
        /\ child'[j] # child[j] => row[j].status \in Ended
    BY <1>6, PurgerWrites
  <2>2. UnheldWhenEnded(j)'
    BY <2>1 DEF UnheldWhenEnded, Ended
  <2>3. HasParamsOrEnded(j) => HasParamsOrEnded(j)'
    BY <2>1 DEF HasParamsOrEnded
  <2> QED BY <2>1, <2>2, <2>3 DEF StaysRequeued, BeingAdded
<1>7. CASE Tick \/ UNCHANGED vars
  BY <1>7, SameRowKeepsEnded DEF Tick, vars, StaysRequeued, BeingAdded
<1> QED
  BY <1>1, <1>2, <1>3, <1>4, <1>5, <1>6, <1>7 DEF Next, NodeWrite, PurgeStep

\* Statements of edits: the row's makes the job New, the last parameter's shows
\* that the parameters were there.
LEMMA EditKeepsRequeued ==
    ASSUME EditTypes, PromisesAreKept, NEW j \in Jobs, Leased(j), Requeued(j),
           EditStep, ~TakesAway(j)
    PROVE  Requeued(j)'
<1> promised \in [Jobs -> SUBSET EditedOrdinals]
  BY DEF EditTypes
<1> UNCHANGED <<child, adder, fetch, held>>
  BY EditorWrites DEF Store
<1> BeingAdded(j)' = BeingAdded(j)
  BY DEF BeingAdded
<1>1. ASSUME NEW c \in Commands, BeginEdit(c) PROVE Requeued(j)'
  <2>1. row' = row /\ Watched(j)' => Watched(j) /\ promised'[j] = promised[j]
    BY <1>1 DEF BeginEdit, Watched
  <2>2. row' = row
    BY <1>1 DEF BeginEdit
  <2> QED BY <2>1, <2>2 DEF Requeued, UnheldWhenEnded, HasParamsOrEnded
<1>2. CASE EditRow
  <2>1. edit \in CallType /\ edit.step = "row" /\ edit.command.job \in Jobs
        /\ promised[edit.command.job] = {} /\ promised' = promised
    BY <1>2, CallTypes DEF EditRow, PromisesAreKept
  <2>2. CASE edit.command.job # j
    <3>1. row'[j] = row[j]
      BY <2>1, <2>2, EditorWrites, RowWrittenColumns
    <3>2. Watched(j)' => promised[j] # {}
      <4>1. edit' = NoEdit \/ edit' = [edit EXCEPT !.step = "params"]
        BY <1>2 DEF EditRow
      <4>2. edit'.step = "idle" \/ edit'.command = edit.command
        BY <2>1, <4>1 DEF NoEdit, CallType
      <4> QED BY <2>1, <2>2, <4>2 DEF Watched
    <3> QED BY <2>1, <3>1, <3>2 DEF Requeued, UnheldWhenEnded, HasParamsOrEnded, Watched
  <2>3. CASE edit.command.job = j /\ Watched(j)'
    <3>1. promised'[j] = {} /\ edit'.step = "params" /\ edit'.command.newStatus = "New"
      BY <2>1, <2>3 DEF Watched
    <3>2. edit' = [edit EXCEPT !.step = "params"] /\ Matches(edit.command)
          /\ SetStatus(edit.command)
      BY <1>2, <3>1 DEF EditRow, NoEdit
    <3>3. RowWritten /\ edit.command.newStatus = "New"
      BY <2>1, <3>1, <3>2 DEF RowWritten, CallType
    <3>4. "New" # NoStatus
      BY EditAssumption DEF JobStates
    <3>5. row'[j].status = "New"
      BY <2>3, <3>3, <3>4, RowWrittenColumns
    <3>6. ~BeingAdded(j)
      <4>1. ASSUME BeingAdded(j) PROVE FALSE
        <5>1. row[j].status = "Inserting"
          BY <2>3, <3>3, <4>1, RowWrittenColumns DEF Leased, NotYetPublished
        <5>2. edit.command.oldStatus \in {NoStatus, "Inserting"}
          BY <2>3, <3>3, <3>5, <5>1, RowWrittenColumns
        <5> QED BY <2>1, <3>5, <4>1, <5>1, <5>2 DEF TakesAway, Unguarded
      <4> QED BY <4>1
    <3> QED BY <3>1, <3>5, <3>6 DEF Requeued, UnheldWhenEnded, Ended
  <2> QED BY <2>2, <2>3 DEF Requeued
<1>3. ASSUME NEW o \in EditedOrdinals, EditParam(o) PROVE Requeued(j)'
  <2> DEFINE c == edit.command
  <2>1. edit \in CallType /\ c.job \in Jobs /\ edit.step = "params" /\ row' = row
        /\ promised[c.job] = {}
    BY <1>3, CallTypes DEF EditParam, PromisesAreKept
  <2>2. edit' = NoEdit \/ edit' = [edit EXCEPT !.todo = @ \ {o}]
    BY <1>3 DEF EditParam
  <2>3. edit'.step = "idle" \/ edit'.command = c
    BY <2>1, <2>2 DEF NoEdit, CallType
  <2>4. \/ promised' = promised
        \/ /\ ParamExists(c.job, o)
           /\ promised' = [promised EXCEPT ![c.job] = IF c.newStatus = "New"
                                                        THEN ParamPieces(c) ELSE {}]
    BY <1>3 DEF EditParam, ReturnTrue
  <2> HIDE DEF c
  <2>5. Watched(j)' => Watched(j)
    BY <2>1, <2>3, <2>4 DEF Watched, c
  <2>6. promised'[j] # {} => promised'[j] = promised[j] \/ "params" \in child[j]
    BY <2>1, <2>4 DEF ParamExists
  <2> QED BY <2>1, <2>5, <2>6 DEF Requeued, UnheldWhenEnded, HasParamsOrEnded
<1> QED BY <1>1, <1>2, <1>3 DEF EditStep

RequeuedInvariant ==
    /\ LeaseInvariant
    /\ PromisesAreKept
    /\ \A j \in Jobs \ disturbed : Requeued(j)

LEMMA RequeuedStaysRequeued ==
    ASSUME PurgeStates \subseteq Ended
    PROVE  EditSpec => []RequeuedInvariant
<1>1. EditInit => PromisesAreKept /\ \A j \in Jobs : Requeued(j)
  BY DEF EditInit, PromisesAreKept, NoEdit, Requeued, Watched
<1>2. EditTypes /\ LeaseInvariant /\ LeaseInvariant' /\ RequeuedInvariant
      /\ [EditNext]_<<vars, editor, disturbed>> => RequeuedInvariant'
  <2> SUFFICES ASSUME EditTypes, LeaseInvariant', RequeuedInvariant,
                      [EditNext]_<<vars, editor, disturbed>>, NEW j \in Jobs \ disturbed'
               PROVE  Requeued(j)'
    BY PromisesStayKept DEF RequeuedInvariant
  <2> TypeOK /\ GuidsAreOwn /\ PromisesAreKept
    BY DEF EditTypes, LeaseInvariant, RequeuedInvariant
  <2>1. CASE UNCHANGED <<vars, editor, disturbed>>
    <3>1. Requeued(j)
      BY <2>1 DEF RequeuedInvariant
    <3> QED BY <2>1, <3>1 DEF vars, editor, Requeued, Watched, BeingAdded, UnheldWhenEnded,
                              HasParamsOrEnded
  <2>2. CASE EditNext
    <3>1. j \notin disturbed /\ ~Disturbs(j)
      BY <2>2 DEF EditNext
    <3>2. Leased(j) /\ Requeued(j) /\ ~TakesAway(j)
      BY <3>1 DEF RequeuedInvariant, LeaseInvariant, Disturbs
    <3>3. CASE EditStep
      BY <3>2, <3>3, EditKeepsRequeued
    <3>4. CASE StoreStep
      <4>1. Watched(j)' = Watched(j) /\ promised' = promised
        BY <3>4 DEF StoreStep, editor, Watched
      <4>2. Watched(j) => StaysRequeued(j)
        BY <3>2, <3>4, StoreKeepsRequeued DEF StoreStep, Requeued
      <4> QED BY <3>2, <4>1, <4>2 DEF Requeued, StaysRequeued
    <3> QED BY <2>2, <3>3, <3>4 DEF EditNext
  <2> QED BY <2>1, <2>2
<1>3. EditInit /\ LeaseInvariant => RequeuedInvariant
  BY <1>1 DEF RequeuedInvariant
<1> QED BY <1>2, <1>3, LeasesAreKept, EditsKeepTypes, PTL DEF EditSpec

\* Provided that only ended jobs are purged, a job that a call has made New with
\* new arguments is handed out with them, however the statements of the call, of
\* a purge, of the fetches and of the job's last holder fall between each other.
THEOREM RequeuedJobsAreWhole ==
    ASSUME PurgeStates \subseteq {"Processed", "Failed"}
    PROVE  EditSpec => RequeuedIsWhole
<1>1. EditTypes /\ RequeuedInvariant /\ [EditNext]_<<vars, editor, disturbed>> =>
          [\A n \in Nodes : \A e \in PickedUp(n) :
              promised[e.job] # {} /\ e.job \notin disturbed =>
                  promised[e.job] \subseteq edited[e.job] /\ "params" \in child[e.job]
          ]_<<vars, editor>>
  <2> SUFFICES ASSUME EditTypes, RequeuedInvariant, EditNext,
                      NEW n \in Nodes, NEW e \in PickedUp(n),
                      promised[e.job] # {}, e.job \notin disturbed
               PROVE  promised[e.job] \subseteq edited[e.job] /\ "params" \in child[e.job]
    BY DEF vars, editor
  <2> TypeOK
    BY DEF EditTypes
  <2>1. Next
    BY EditorWrites DEF EditNext, StoreStep, PickedUp, Store
  <2>2. SelectClaimed(n)
    BY <2>1, OnlySelectPicksUp
  <2>3. /\ e.job \in Jobs /\ row[e.job].lockGuid = fetch[n].guid
        /\ fetch[n].step = "select" /\ fetch[n].guid # NoLock
    BY <2>2, SelectReads DEF PickedUp
  <2>4. row[e.job].status # "Absent" /\ promised[e.job] \subseteq edited[e.job]
    BY <2>3 DEF RequeuedInvariant, LeaseInvariant, GuidsAreOwn, AbsentIsUnlocked,
                PromisesAreKept
  <2>5. UnheldWhenEnded(e.job) /\ HasParamsOrEnded(e.job)
    BY <2>3 DEF RequeuedInvariant, Requeued, Watched
  <2> QED BY <2>3, <2>4, <2>5 DEF UnheldWhenEnded, HasParamsOrEnded
<1>2. EditSpec => []RequeuedInvariant
  BY RequeuedStaysRequeued DEF Ended
<1> QED BY <1>1, <1>2, EditsKeepTypes, PTL DEF EditSpec, RequeuedIsWhole
=============================================================================
