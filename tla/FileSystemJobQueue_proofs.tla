---------------------- MODULE FileSystemJobQueue_proofs ----------------------
(* The file system job store makes each call atomic, for any jobs and nodes, *)
(* overlapping calls, processes that die in the middle of one, and calls      *)
(* that throw.                                                               *)
EXTENDS FileSystemJobQueue, TLAPS

----------------------------------------------------------------------------
(* The inductive invariant *)

\* What the process that has the file open has read, and is about to write.
AddUnderWay(j) ==
    /\ user.who = j /\ user.op = "AddJob" /\ user.entries = {}
    /\ adder[j].step = "writing"
    /\ user.jobs = [jobs EXCEPT ![j] = NewJob(adder[j].at)]

Taken(j) == \E e \in user.entries : e.job = j

GetUnderWay(n) ==
    /\ user.who = n /\ user.op = "GetJobs"
    /\ user.entries \subseteq EntryType
    /\ \A e \in user.entries : /\ e.stage = "fetched"
                               /\ e.retries = jobs[e.job].retryCount
                               /\ jobs[e.job].status \in {"New", "Retry"}
    /\ \A d, e \in user.entries : d.job = e.job => d = e
    /\ user.jobs = [j \in Jobs |-> IF Taken(j) THEN [jobs[j] EXCEPT !.status = "Queued"]
                                               ELSE jobs[j]]

MarkUnderWay(n) ==
    /\ user.who = n
    /\ \E e \in held[n], t \in 0..now :
           /\ user.op \in Orders(e)
           /\ user.entries = {e}
           /\ user.jobs = [jobs EXCEPT ![e.job] = Marked(@, user.op, t)]

CallIsRight ==
    \/ user = Nobody
    \/ \E j \in Jobs : AddUnderWay(j)
    \/ \E n \in Nodes : GetUnderWay(n) \/ MarkUnderWay(n)

\* The list that was last written.
ListIsRight ==
    \A j \in Jobs :
        /\ adder[j].step # "added" => jobs[j].status = "Absent"
        /\ jobs[j].status \in {"Absent", "New"} => jobs[j].retryCount = 0
        /\ jobs[j].retryCount <= MaxRetries[j]

\* A held entry is its job's row: a fetched one is of a Queued job that was not
\* begun, a running one of a job that was, whether or not that was written.
EntryIsRight(e) ==
    /\ jobs[e.job].retryCount = e.retries
    /\ e.stage = "fetched" => jobs[e.job].status = "Queued" /\ ~IsBegun(e.job)
    /\ e.stage = "running" => IsBegun(e.job)

HeldIsRight ==
    /\ \A n, m \in Nodes : \A d \in held[n], e \in held[m] :
           d.job = e.job => n = m /\ d = e
    /\ \A n \in Nodes : \A e \in held[n] : EntryIsRight(e)

\* Only the holder's next write changes the row of a job begun as Queued.
UnmarkedIsRight == \A j \in unmarked : jobs[j].status = "Queued"

\* Nobody holds a job, and no call is under way, before the first was written.
NothingBeforeTheFile ==
    text = "none" => user = Nobody /\ \A n \in Nodes : held[n] = {}

FileInvariant ==
    /\ TypeOK
    /\ CallIsRight
    /\ ListIsRight
    /\ HeldIsRight
    /\ UnmarkedIsRight
    /\ NothingBeforeTheFile

----------------------------------------------------------------------------
(* Types *)

LEMMA UserIsTyped ==
    ASSUME TypeOK, user # Nobody
    PROVE  /\ user.who \in Jobs \cup Nodes /\ user.who # NoNode
           /\ user.op \in Ops
           /\ user.entries \in SUBSET EntryType
           /\ user.jobs \in [Jobs -> JobType]
BY FileAssumption DEF TypeOK, UserType

LEMMA HeldIsTyped ==
    ASSUME TypeOK, NEW n \in Nodes, NEW e \in held[n]
    PROVE  /\ e \in EntryType
           /\ e.job \in Jobs /\ e.retries \in Nat /\ e.at \in 1..now
           /\ e.stage \in {"fetched", "running"}
           /\ jobs[e.job] \in JobType
BY DEF TypeOK, EntryType

LEMMA NewJobIsTyped ==
    ASSUME NEW t
    PROVE  /\ NewJob(t).status = "New" /\ NewJob(t).retryCount = 0
           /\ now \in Nat /\ t \in 0..now => NewJob(t) \in JobType
<1>1. NewJob(t).status = "New" /\ NewJob(t).retryCount = 0
  BY DEF NewJob, AbsentJob
<1>2. ASSUME now \in Nat, t \in 0..now PROVE NewJob(t) \in JobType
  <2>1. AbsentJob \in JobType
    BY <1>2 DEF AbsentJob, NoTime, JobType
  <2> QED BY <1>2, <2>1 DEF NewJob, JobType
<1> QED BY <1>1, <1>2

LEMMA MarkedIsTyped ==
    ASSUME now \in Nat, NEW r \in JobType, NEW t \in 0..now,
           NEW op \in {"InProgress", "Success", "Failed", "Retry"}
    PROVE  /\ Marked(r, op, t) \in JobType
           /\ op = "InProgress" => Marked(r, op, t).status = "In-Progress"
           /\ op = "Success" => Marked(r, op, t).status = "Processed"
           /\ op = "Failed" => Marked(r, op, t).status = "Failed"
           /\ op = "Retry" => /\ Marked(r, op, t).status = "Retry"
                              /\ Marked(r, op, t).retryCount = r.retryCount + 1
           /\ op # "Retry" => Marked(r, op, t).retryCount = r.retryCount
<1>1. CASE op = "InProgress"  BY <1>1 DEF Marked, JobType
<1>2. CASE op = "Success"  BY <1>2 DEF Marked, JobType
<1>3. CASE op = "Failed"  BY <1>3 DEF Marked, JobType
<1>4. CASE op = "Retry"
  <2>1. Marked(r, op, t) = [status |-> "Retry", retryCount |-> r.retryCount + 1,
                            lastAttempt |-> t, created |-> r.created]
    BY <1>4 DEF Marked, JobType
  <2>2. r.retryCount + 1 \in Nat /\ r.created \in 0..now
    BY DEF JobType
  <2> QED BY <1>4, <2>1, <2>2 DEF JobType
<1> QED BY <1>1, <1>2, <1>3, <1>4

LEMMA OrdersAreOps ==
    ASSUME NEW e
    PROVE  /\ Orders(e) \subseteq {"InProgress", "Success", "Failed", "Retry"}
           /\ "InProgress" \in Orders(e) => e.stage = "fetched" /\ e.job \notin Unresolvable
           /\ e.stage = "fetched" /\ e.job \notin Unresolvable => Orders(e) = {"InProgress"}
           /\ e.stage = "fetched" /\ e.job \in Unresolvable => Orders(e) = {"Failed"}
           /\ "Retry" \in Orders(e) =>
                  e.stage # "fetched" /\ ~(MaxRetries[e.job] <= e.retries)
           /\ "Failed" \in Orders(e) /\ e.stage # "fetched" => MaxRetries[e.job] <= e.retries
BY DEF Orders

\* A call under way is not disturbed by a step that leaves its caller, the file's
\* user and the list alone.
LEMMA StaysUnderWay ==
    ASSUME TypeOK, now' \in Nat, now <= now', UNCHANGED <<jobs, user>>, NEW n \in Nodes,
           held'[n] = held[n]
    PROVE  /\ GetUnderWay(n) => GetUnderWay(n)'
           /\ MarkUnderWay(n) => MarkUnderWay(n)'
<1>1. EntryType \subseteq EntryType' /\ 0..now \subseteq 0..now'
  BY DEF EntryType, TypeOK
<1>2. GetUnderWay(n) => GetUnderWay(n)'
  <2>1. \A j : Taken(j)' <=> Taken(j)
    BY DEF Taken
  <2> QED BY <1>1, <2>1 DEF GetUnderWay
<1>3. MarkUnderWay(n) => MarkUnderWay(n)'
  <2> SUFFICES ASSUME MarkUnderWay(n) PROVE MarkUnderWay(n)'
    OBVIOUS
  <2>1. PICK e \in held[n], t \in 0..now :
            /\ user.op \in Orders(e)
            /\ user.entries = {e}
            /\ user.jobs = [jobs EXCEPT ![e.job] = Marked(@, user.op, t)]
    BY DEF MarkUnderWay
  <2>2. e \in held'[n] /\ t \in 0..now'
    BY <1>1
  <2> QED BY <2>1, <2>2 DEF MarkUnderWay
<1> QED BY <1>2, <1>3

----------------------------------------------------------------------------
(* The adder *)

LEMMA CreateJobKeeps ==
    ASSUME FileInvariant, NEW j \in Jobs, CreateJob(j)
    PROVE  FileInvariant'
<1> USE DEF FileInvariant
<1>1. UNCHANGED <<now, text, jobs, user, held, unmarked>> /\ adder[j].step = "start"
  BY DEF CreateJob
<1>2. adder'[j] = [step |-> "created", at |-> now]
      /\ \A k \in Jobs : k # j => adder'[k] = adder[k]
  BY DEF CreateJob, TypeOK
<1>3. adder' \in [Jobs -> AdderType]
  BY DEF CreateJob, TypeOK, AdderType
<1>4. TypeOK'
  BY <1>1, <1>3 DEF TypeOK, UserType, JobType, EntryType, AdderType
<1>5. CallIsRight'
  <2>1. \A k \in Jobs : AddUnderWay(k) => k # j
    BY <1>1 DEF AddUnderWay
  <2>2. \A k \in Jobs : AddUnderWay(k) => AddUnderWay(k)'
    BY <1>1, <1>2, <2>1 DEF AddUnderWay
  <2>3. \A n \in Nodes : /\ GetUnderWay(n) => GetUnderWay(n)'
                         /\ MarkUnderWay(n) => MarkUnderWay(n)'
    BY <1>1, StaysUnderWay DEF TypeOK
  <2> QED BY <1>1, <2>2, <2>3 DEF CallIsRight
<1>6. ListIsRight'
  BY <1>1, <1>2 DEF ListIsRight
<1>7. HeldIsRight' /\ UnmarkedIsRight' /\ NothingBeforeTheFile'
  BY <1>1 DEF HeldIsRight, EntryIsRight, IsBegun, UnmarkedIsRight, NothingBeforeTheFile
<1> QED BY <1>4, <1>5, <1>6, <1>7

LEMMA AddThrowsKeeps ==
    ASSUME FileInvariant, NEW j \in Jobs, AddThrows(j) \/ WriteAddedThrows(j)
    PROVE  FileInvariant'
<1> USE DEF FileInvariant
<1>1. UNCHANGED <<now, jobs, held, unmarked>> /\ user' = Nobody
      /\ text' \in {text, "broken"} /\ (user = Nobody \/ text # "none")
      /\ adder' = [adder EXCEPT ![j].step = "threw"]
  <2>1. CASE AddThrows(j)
    BY <2>1 DEF AddThrows, FileIsFree, IOFails
  <2>2. CASE WriteAddedThrows(j)
    <3>1. user # Nobody
      BY <2>2, FileAssumption DEF WriteAddedThrows, WriteFails, Nobody
    <3> QED BY <2>2, <3>1 DEF WriteAddedThrows, WriteFails, NothingBeforeTheFile
  <2> QED BY <2>1, <2>2
<1>2. adder'[j].step = "threw" /\ \A k \in Jobs : k # j => adder'[k] = adder[k]
  BY <1>1 DEF TypeOK, AdderType
<1>3. adder' \in [Jobs -> AdderType]
  BY <1>1 DEF TypeOK, AdderType
<1>4. TypeOK'
  BY <1>1, <1>3 DEF TypeOK, UserType, JobType, EntryType, AdderType, Texts
<1>5. ListIsRight'
  <2>1. jobs[j].status = "Absent"
    <3>1. adder[j].step # "added"
      <4>1. CASE AddThrows(j)
        BY <4>1 DEF AddThrows
      <4>2. CASE WriteAddedThrows(j)
        <5>1. user.who = j /\ user # Nobody
          BY <4>2, FileAssumption DEF WriteAddedThrows, WriteFails, Nobody
        <5>2. AddUnderWay(j)
          BY <5>1, FileAssumption DEF CallIsRight, AddUnderWay, GetUnderWay, MarkUnderWay
        <5> QED BY <5>2 DEF AddUnderWay
      <4> QED BY <4>1, <4>2
    <3> QED BY <3>1 DEF ListIsRight
  <2> QED BY <1>1, <1>2, <2>1 DEF ListIsRight
<1>6. NothingBeforeTheFile'
  BY <1>1 DEF NothingBeforeTheFile
<1> QED BY <1>1, <1>4, <1>5, <1>6
        DEF CallIsRight, HeldIsRight, EntryIsRight, IsBegun, UnmarkedIsRight

LEMMA OpenToAddKeeps ==
    ASSUME FileInvariant, NEW j \in Jobs, OpenToAdd(j)
    PROVE  FileInvariant'
<1> USE DEF FileInvariant
<1> DEFINE new == [jobs EXCEPT ![j] = NewJob(adder[j].at)]
<1>1. /\ UNCHANGED <<now, jobs, held, unmarked>> /\ user = Nobody
      /\ text \in {"none", "list"} /\ adder[j].step = "created"
      /\ user' = [who |-> j, op |-> "AddJob", entries |-> {}, jobs |-> new]
  BY DEF OpenToAdd, Open, AdderReads, FileIsFree
<1>2. text' \in {"zeros", "list"}
  BY <1>1 DEF OpenToAdd, Open, AfterSetLength
<1>3. adder'[j].step = "writing" /\ adder'[j].at = adder[j].at
      /\ \A k \in Jobs : k # j => adder'[k] = adder[k]
  BY DEF OpenToAdd, TypeOK, AdderType
<1>4. adder' \in [Jobs -> AdderType] /\ adder[j].at \in 0..now
  BY DEF OpenToAdd, TypeOK, AdderType
<1>5. new \in [Jobs -> JobType]
  BY <1>4, NewJobIsTyped DEF TypeOK
<1> HIDE DEF new
<1>6. user' \in UserType
  BY <1>1, <1>5 DEF UserType, Ops
<1>7. TypeOK'
  BY <1>1, <1>2, <1>4, <1>6
     DEF TypeOK, UserType, JobType, EntryType, AdderType, Texts
<1>8. AddUnderWay(j)'
  BY <1>1, <1>3 DEF AddUnderWay, new
<1>9. ListIsRight'
  BY <1>1, <1>3 DEF ListIsRight
<1> QED BY <1>1, <1>2, <1>7, <1>8, <1>9
        DEF CallIsRight, HeldIsRight, EntryIsRight, IsBegun, UnmarkedIsRight,
            NothingBeforeTheFile

\* What WriteAdded writes: the list as it was, and the one job.
LEMMA AddedWrite ==
    ASSUME FileInvariant, NEW j \in Jobs, WriteAdded(j)
    PROVE  /\ user.jobs \in [Jobs -> JobType] /\ j \notin unmarked
           /\ jobs[j].status = "Absent" /\ jobs'[j].status = "New"
           /\ jobs[j].retryCount = 0 /\ jobs'[j].retryCount = jobs[j].retryCount
           /\ \A k \in Jobs : k # j => jobs'[k] = jobs[k]
<1> USE DEF FileInvariant
<1>1. user.who = j /\ user.op = "AddJob" /\ jobs' = user.jobs
  BY DEF WriteAdded, WriteAndClose
<1>2. user # Nobody
  BY <1>1 DEF Nobody
<1>3. AddUnderWay(j)
  <2>1. ~\E n \in Nodes : GetUnderWay(n) \/ MarkUnderWay(n)
    BY <1>1, FileAssumption DEF GetUnderWay, MarkUnderWay
  <2> QED BY <1>1, <1>2, <2>1 DEF CallIsRight, AddUnderWay
<1>4. adder[j].step = "writing" /\ jobs' = [jobs EXCEPT ![j] = NewJob(adder[j].at)]
  BY <1>1, <1>3 DEF AddUnderWay
<1>5. jobs[j].status = "Absent" /\ jobs[j].retryCount = 0
  BY <1>4 DEF ListIsRight
<1>6. jobs'[j].status = "New" /\ jobs'[j].retryCount = 0
      /\ \A k \in Jobs : k # j => jobs'[k] = jobs[k]
  BY <1>4, NewJobIsTyped DEF TypeOK
<1>7. j \notin unmarked
  BY <1>5 DEF UnmarkedIsRight
<1> QED BY <1>2, <1>5, <1>6, <1>7, UserIsTyped

LEMMA WriteAddedKeeps ==
    ASSUME FileInvariant, NEW j \in Jobs, WriteAdded(j)
    PROVE  FileInvariant'
<1> USE DEF FileInvariant
<1>1. UNCHANGED <<now, held, unmarked>> /\ text' = "list" /\ jobs' = user.jobs /\ user' = Nobody
  BY DEF WriteAdded, WriteAndClose
<1>2. adder'[j].step = "added" /\ \A k \in Jobs : k # j => adder'[k] = adder[k]
  BY DEF WriteAdded, TypeOK, AdderType
<1>3. adder' \in [Jobs -> AdderType]
  BY DEF WriteAdded, TypeOK, AdderType
<1>4. TypeOK'
  BY <1>1, <1>3, AddedWrite DEF TypeOK, UserType, JobType, EntryType, AdderType, Texts
<1>5. ListIsRight'
  BY <1>2, AddedWrite, FileAssumption DEF ListIsRight
<1>6. HeldIsRight'
  <2>1. \A n \in Nodes : \A e \in held[n] : e.job \in Jobs /\ e.job # j
    BY AddedWrite, HeldIsTyped DEF HeldIsRight, EntryIsRight, IsBegun
  <2> QED BY <1>1, <2>1, AddedWrite DEF HeldIsRight, EntryIsRight, IsBegun
<1>7. UnmarkedIsRight'
  BY <1>1, AddedWrite DEF UnmarkedIsRight, TypeOK
<1> QED BY <1>1, <1>4, <1>5, <1>6, <1>7 DEF CallIsRight, NothingBeforeTheFile

----------------------------------------------------------------------------
(* GetJobs and the Mark* writes *)

LEMMA OpenToGetJobsKeeps ==
    ASSUME FileInvariant, NEW n \in Nodes, OpenToGetJobs(n)
    PROVE  FileInvariant'
<1> USE DEF FileInvariant
<1>1. UNCHANGED <<now, jobs, held, adder, unmarked>> /\ user = Nobody /\ text = "list"
  BY DEF OpenToGetJobs, Open, ManagerReads, FileIsFree
<1>2. PICK S \in Batches :
          user' = [who |-> n, op |-> "GetJobs", entries |-> {Entry(j) : j \in S},
                   jobs |-> QueuedJobs(S)]
  BY DEF OpenToGetJobs, Open
<1>3. S \subseteq Jobs
      /\ \A j \in S : jobs[j].status \in {"New", "Retry"}
  BY DEF Batches, FetchableJobs, Fetchable
<1>4. text' \in {"list", "broken"}
  BY <1>1 DEF OpenToGetJobs, Open, AfterSetLength
<1> now \in Nat \ {0} /\ jobs \in [Jobs -> JobType]
  BY DEF TypeOK
<1> DEFINE got == {Entry(j) : j \in S}
<1>5. \A e \in got : /\ e \in EntryType /\ e.job \in S /\ e = Entry(e.job)
                     /\ e.stage = "fetched" /\ e.retries = jobs[e.job].retryCount
  <2>1. \A j \in S : jobs[j].retryCount \in Nat
    BY <1>3 DEF JobType
  <2> QED BY <1>3, <2>1 DEF Entry, EntryType
<1>6. \A j \in S : \E e \in got : e.job = j
  <2>1. \A j \in S : Entry(j) \in got /\ Entry(j).job = j
    BY DEF Entry
  <2> HIDE DEF got
  <2> QED BY <2>1
<1> HIDE DEF got
<1>7. QueuedJobs(S) \in [Jobs -> JobType]
  BY DEF QueuedJobs, JobType
<1>8. user' = [who |-> n, op |-> "GetJobs", entries |-> got, jobs |-> QueuedJobs(S)]
  BY <1>2 DEF got
<1>9. TypeOK'
  <2>1. user' \in UserType
    BY <1>5, <1>7, <1>8 DEF UserType, Ops
  <2> QED BY <1>1, <1>4, <2>1 DEF TypeOK, UserType, JobType, EntryType, AdderType, Texts
<1>10. GetUnderWay(n)'
  <2>1. \A j \in Jobs : Taken(j)' <=> j \in S
    BY <1>5, <1>6, <1>8 DEF Taken
  <2>2. user'.jobs = [j \in Jobs |-> IF Taken(j)' THEN [jobs[j] EXCEPT !.status = "Queued"]
                                                  ELSE jobs[j]]
    BY <1>8, <2>1 DEF QueuedJobs
  <2>3. EntryType' = EntryType
    BY <1>1 DEF EntryType
  <2>4. \A d, e \in got : d.job = e.job => d = e
    BY <1>5
  <2> QED BY <1>1, <1>3, <1>5, <1>8, <2>2, <2>3, <2>4 DEF GetUnderWay
<1>11. ListIsRight'
  BY <1>1 DEF ListIsRight
<1> QED BY <1>1, <1>4, <1>9, <1>10, <1>11
        DEF CallIsRight, HeldIsRight, EntryIsRight, IsBegun, UnmarkedIsRight,
            NothingBeforeTheFile

LEMMA OpenToMarkKeeps ==
    ASSUME FileInvariant, NEW n \in Nodes, NEW e \in held[n], OpenToMark(n, e)
    PROVE  FileInvariant'
<1> USE DEF FileInvariant
<1>1. UNCHANGED <<now, jobs, held, adder, unmarked>> /\ user = Nobody /\ text = "list"
  BY DEF OpenToMark, Open, ManagerReads, FileIsFree
<1>2. PICK op \in Orders(e), t \in e.at..now :
          user' = [who |-> n, op |-> op, entries |-> {e},
                   jobs |-> [jobs EXCEPT ![e.job] = Marked(@, op, t)]]
  BY DEF OpenToMark, Open
<1>3. text' \in {"list", "broken"}
  BY <1>1 DEF OpenToMark, Open, AfterSetLength
<1>4. now \in Nat \ {0} /\ jobs \in [Jobs -> JobType]
      /\ e \in EntryType /\ e.job \in Jobs
  BY HeldIsTyped DEF TypeOK
<1>5. t \in 0..now
  BY <1>4 DEF EntryType
<1>6. op \in {"InProgress", "Success", "Failed", "Retry"}
  BY OrdersAreOps
<1> DEFINE new == [jobs EXCEPT ![e.job] = Marked(@, op, t)]
<1>7. new \in [Jobs -> JobType]
  BY <1>4, <1>5, <1>6, MarkedIsTyped
<1>8. user' = [who |-> n, op |-> op, entries |-> {e}, jobs |-> new]
  BY <1>2
<1>9. TypeOK'
  <2>1. user' \in UserType
    <3> HIDE DEF new
    <3> QED BY <1>4, <1>6, <1>7, <1>8 DEF UserType, Ops
  <2> QED BY <1>1, <1>3, <2>1 DEF TypeOK, UserType, JobType, EntryType, AdderType, Texts
<1>10. MarkUnderWay(n)'
  BY <1>1, <1>5, <1>8 DEF MarkUnderWay
<1>11. ListIsRight'
  BY <1>1 DEF ListIsRight
<1> QED BY <1>1, <1>3, <1>9, <1>10, <1>11
        DEF CallIsRight, HeldIsRight, EntryIsRight, IsBegun, UnmarkedIsRight,
            NothingBeforeTheFile

\* The entry of a marked job, as the node goes on with it.
LEMMA GoingOn ==
    ASSUME TypeOK, NEW n \in Nodes, NEW e \in held[n], GoesOn(n, e)
    PROVE  /\ held' \in [Nodes -> SUBSET EntryType]
           /\ \A m \in Nodes : m # n => held'[m] = held[m]
           /\ \A d \in held'[n] :
                  \/ d \in held[n] /\ d # e
                  \/ /\ e.stage = "fetched" /\ e.job \notin Unresolvable
                     /\ d.job = e.job /\ d.retries = e.retries /\ d.stage = "running"
           /\ \A d \in held[n] : d # e => d \in held'[n]
<1> DEFINE run == [e EXCEPT !.stage = "running"]
<1>1. e \in EntryType
  BY HeldIsTyped
<1>2. run \in EntryType /\ run.job = e.job /\ run.retries = e.retries /\ run.stage = "running"
  BY <1>1 DEF EntryType
<1> HIDE DEF run
<1>3. CASE e.stage = "fetched" /\ e.job \notin Unresolvable
  <2>1. held' = [held EXCEPT ![n] = (@ \ {e}) \cup {run}]
    BY <1>3 DEF GoesOn, run
  <2> QED BY <1>2, <1>3, <2>1 DEF TypeOK
<1>4. CASE ~(e.stage = "fetched" /\ e.job \notin Unresolvable)
  <2>1. held' = [held EXCEPT ![n] = (@ \ {e}) \cup {}]
    BY <1>4 DEF GoesOn
  <2> QED BY <2>1 DEF TypeOK
<1> QED BY <1>3, <1>4

\* What WriteQueued writes: the jobs that were waiting when the file was opened.
LEMMA QueuedWrite ==
    ASSUME FileInvariant, NEW n \in Nodes, WriteQueued(n)
    PROVE  /\ user.entries \subseteq EntryType /\ user.jobs \in [Jobs -> JobType]
           /\ \A e \in user.entries : /\ e.stage = "fetched"
                                      /\ e.retries = jobs[e.job].retryCount
                                      /\ e.job \in Jobs /\ Taken(e.job)
           /\ \A d, e \in user.entries : d.job = e.job => d = e
           /\ \A j \in Jobs : /\ jobs'[j].retryCount = jobs[j].retryCount
                              /\ Taken(j) => /\ jobs[j].status \in {"New", "Retry"}
                                             /\ jobs'[j].status = "Queued"
                                             /\ j \notin unmarked
                              /\ ~Taken(j) => jobs'[j] = jobs[j]
           /\ \A m \in Nodes : \A e \in held[m] : ~Taken(e.job)
<1> USE DEF FileInvariant
<1>1. /\ user.who = n /\ user.op = "GetJobs" /\ jobs' = user.jobs
  BY DEF WriteQueued, WriteAndClose
<1>2. user # Nobody
  BY <1>1 DEF Nobody
<1>3. GetUnderWay(n)
  <2>1. ~\E j \in Jobs : AddUnderWay(j)
    BY <1>1 DEF AddUnderWay
  <2>2. ~\E m \in Nodes : MarkUnderWay(m)
    BY <1>1, OrdersAreOps DEF MarkUnderWay
  <2> QED BY <1>1, <1>2, <2>1, <2>2 DEF CallIsRight, GetUnderWay
<1>4. /\ user.entries \subseteq EntryType
      /\ \A e \in user.entries : /\ e.stage = "fetched"
                                 /\ e.retries = jobs[e.job].retryCount
                                 /\ jobs[e.job].status \in {"New", "Retry"}
      /\ \A d, e \in user.entries : d.job = e.job => d = e
  BY <1>3 DEF GetUnderWay
<1> jobs \in [Jobs -> JobType]
  BY DEF TypeOK
<1>5. \A j \in Jobs : Taken(j) => jobs[j].status \in {"New", "Retry"} /\ j \notin unmarked
  BY <1>4 DEF Taken, UnmarkedIsRight
<1>6. \A j \in Jobs : /\ jobs'[j].retryCount = jobs[j].retryCount
                      /\ Taken(j) => jobs'[j].status = "Queued"
                      /\ ~Taken(j) => jobs'[j] = jobs[j]
  BY <1>1, <1>3 DEF GetUnderWay, JobType
<1>7. \A m \in Nodes : \A e \in held[m] : ~Taken(e.job)
  <2> SUFFICES ASSUME NEW m \in Nodes, NEW e \in held[m] PROVE ~Taken(e.job)
    OBVIOUS
  <2>1. jobs[e.job].status \in {"Queued", "In-Progress"} /\ e.job \in Jobs
    BY HeldIsTyped DEF HeldIsRight, EntryIsRight, IsBegun
  <2> QED BY <1>5, <2>1
<1>8. \A e \in user.entries : e.job \in Jobs /\ Taken(e.job)
  BY <1>4 DEF EntryType, Taken
<1>9. user.jobs \in [Jobs -> JobType]
  BY <1>2, UserIsTyped
<1> QED BY <1>4, <1>5, <1>6, <1>7, <1>8, <1>9

LEMMA WriteQueuedKeeps ==
    ASSUME FileInvariant, NEW n \in Nodes, WriteQueued(n)
    PROVE  FileInvariant'
<1> USE DEF FileInvariant
<1>1. UNCHANGED <<now, adder, unmarked>> /\ text' = "list" /\ jobs' = user.jobs /\ user' = Nobody
  BY DEF WriteQueued, WriteAndClose
<1>2. held' = held \/ held' = [held EXCEPT ![n] = @ \cup user.entries]
  BY DEF WriteQueued
<1> held \in [Nodes -> SUBSET EntryType]
  BY DEF TypeOK
<1>3. \A m \in Nodes : \A e \in held'[m] : e \in held[m] \/ (m = n /\ e \in user.entries)
  BY <1>2
<1>4. TypeOK'
  <2>1. held' \in [Nodes -> SUBSET EntryType]
    BY <1>2, QueuedWrite
  <2> QED BY <1>1, <2>1, QueuedWrite
          DEF TypeOK, UserType, JobType, EntryType, AdderType, Texts
<1>5. ListIsRight'
  BY <1>1, QueuedWrite DEF ListIsRight
<1>6. \A m \in Nodes : \A e \in held[m] :
          e.job \in Jobs /\ EntryIsRight(e) /\ ~Taken(e.job)
  BY QueuedWrite, HeldIsTyped DEF HeldIsRight
<1>7. HeldIsRight'
  <2>1. \A k, m \in Nodes : \A d \in held'[k], e \in held'[m] :
            d.job = e.job => k = m /\ d = e
    BY <1>3, <1>6, QueuedWrite DEF HeldIsRight
  <2>2. \A m \in Nodes : \A e \in held'[m] : EntryIsRight(e)'
    <3> SUFFICES ASSUME NEW m \in Nodes, NEW e \in held'[m] PROVE EntryIsRight(e)'
      OBVIOUS
    <3>1. CASE e \in held[m]
      <4>1. e.job \in Jobs /\ EntryIsRight(e) /\ jobs'[e.job] = jobs[e.job]
        BY <1>6, <3>1, QueuedWrite
      <4> QED BY <1>1, <4>1 DEF EntryIsRight, IsBegun
    <3>2. CASE e \in user.entries
      <4>1. e.job \in Jobs /\ e.stage = "fetched" /\ e.retries = jobs[e.job].retryCount
            /\ jobs'[e.job].status = "Queued" /\ e.job \notin unmarked
            /\ jobs'[e.job].retryCount = jobs[e.job].retryCount
        BY <3>2, QueuedWrite
      <4> QED BY <1>1, <4>1 DEF EntryIsRight, IsBegun
    <3> QED BY <1>3, <3>1, <3>2
  <2> QED BY <2>1, <2>2 DEF HeldIsRight
<1>8. UnmarkedIsRight'
  <2>1. \A j \in unmarked : j \in Jobs /\ jobs[j].status = "Queued"
    BY DEF UnmarkedIsRight, TypeOK
  <2> QED BY <1>1, <2>1, QueuedWrite DEF UnmarkedIsRight
<1> QED BY <1>1, <1>4, <1>5, <1>7, <1>8 DEF CallIsRight, NothingBeforeTheFile

LEMMA WriteQueuedThrowsKeeps ==
    ASSUME FileInvariant, NEW n \in Nodes, WriteQueuedThrows(n)
    PROVE  FileInvariant'
<1> USE DEF FileInvariant
<1>1. UNCHANGED <<now, jobs, adder, held, unmarked>> /\ user' = Nobody /\ user # Nobody
      /\ text' \in {text, "broken"}
  BY DEF WriteQueuedThrows, WriteFails, Nobody
<1>2. TypeOK'
  BY <1>1 DEF TypeOK, UserType, JobType, EntryType, AdderType, Texts
<1>3. NothingBeforeTheFile'
  BY <1>1 DEF NothingBeforeTheFile
<1> QED BY <1>1, <1>2, <1>3
        DEF CallIsRight, ListIsRight, HeldIsRight, EntryIsRight, IsBegun, UnmarkedIsRight

\* What WriteMarked writes: the one job whose entry the node holds, and its copy
\* of the retry count is the list's.
LEMMA MarkedWrite ==
    ASSUME FileInvariant, NEW n \in Nodes, WriteMarked(n)
    PROVE  /\ user.jobs \in [Jobs -> JobType]
           /\ \E e \in held[n] :
                /\ GoesOn(n, e) /\ e.job \in Jobs /\ unmarked' = unmarked \ {e.job}
                /\ \A m \in Nodes : \A d \in held[m] : d.job = e.job => m = n /\ d = e
                /\ EntryIsRight(e)
                /\ \A j \in Jobs : j # e.job => jobs'[j] = jobs[j]
                /\ \/ /\ e.stage = "fetched" /\ e.job \notin Unresolvable
                      /\ jobs'[e.job].status = "In-Progress"
                      /\ jobs'[e.job].retryCount = e.retries
                   \/ /\ e.stage = "fetched" /\ e.job \in Unresolvable
                      /\ jobs'[e.job].status = "Failed"
                      /\ jobs'[e.job].retryCount = e.retries
                   \/ /\ e.stage = "running"
                      /\ jobs'[e.job].status = "Processed"
                      /\ jobs'[e.job].retryCount = e.retries
                   \/ /\ e.stage = "running" /\ MaxRetries[e.job] <= e.retries
                      /\ jobs'[e.job].status = "Failed"
                      /\ jobs'[e.job].retryCount = e.retries
                   \/ /\ e.stage = "running" /\ e.retries < MaxRetries[e.job]
                      /\ jobs'[e.job].status = "Retry"
                      /\ jobs'[e.job].retryCount = e.retries + 1
<1> USE DEF FileInvariant
<1>1. /\ user.who = n /\ user.op \in {"InProgress", "Success", "Failed", "Retry"}
      /\ jobs' = user.jobs
  BY DEF WriteMarked, WriteAndClose
<1>2. user # Nobody
  BY <1>1 DEF Nobody
<1>3. MarkUnderWay(n)
  BY <1>1, <1>2 DEF CallIsRight, AddUnderWay, GetUnderWay, MarkUnderWay
<1>4. PICK e \in held[n], t \in 0..now :
          /\ user.op \in Orders(e)
          /\ user.entries = {e}
          /\ user.jobs = [jobs EXCEPT ![e.job] = Marked(@, user.op, t)]
  BY <1>3 DEF MarkUnderWay
<1>5. GoesOn(n, e) /\ unmarked' = unmarked \ {e.job}
  BY <1>4 DEF WriteMarked
<1> jobs \in [Jobs -> JobType] /\ now \in Nat
  BY DEF TypeOK
<1>6. e.job \in Jobs /\ e.retries \in Nat /\ jobs[e.job] \in JobType
      /\ e.stage \in {"fetched", "running"}
  BY HeldIsTyped
<1>7. /\ EntryIsRight(e) /\ jobs[e.job].retryCount = e.retries
      /\ \A m \in Nodes : \A d \in held[m] : d.job = e.job => m = n /\ d = e
  BY <1>6 DEF HeldIsRight, EntryIsRight
<1>8. \A j \in Jobs : j # e.job => jobs'[j] = jobs[j]
  BY <1>1, <1>4
<1> DEFINE r == Marked(jobs[e.job], user.op, t)
<1>9. jobs'[e.job] = r
  BY <1>1, <1>4, <1>6
<1>10. /\ user.op = "InProgress" => r.status = "In-Progress"
       /\ user.op = "Success" => r.status = "Processed"
       /\ user.op = "Failed" => r.status = "Failed"
       /\ user.op = "Retry" => r.status = "Retry" /\ r.retryCount = e.retries + 1
       /\ user.op # "Retry" => r.retryCount = e.retries
  <2>1. /\ user.op = "InProgress" => r.status = "In-Progress"
        /\ user.op = "Success" => r.status = "Processed"
        /\ user.op = "Failed" => r.status = "Failed"
        /\ user.op = "Retry" => /\ r.status = "Retry"
                                /\ r.retryCount = jobs[e.job].retryCount + 1
        /\ user.op # "Retry" => r.retryCount = jobs[e.job].retryCount
    BY <1>1, <1>6, MarkedIsTyped
  <2> HIDE DEF r
  <2> QED BY <1>7, <2>1
<1> HIDE DEF r
<1>11. MaxRetries[e.job] \in Nat
  BY <1>6, FileAssumption
<1>12. \/ user.op = "InProgress" /\ e.stage = "fetched" /\ e.job \notin Unresolvable
       \/ user.op = "Failed" /\ e.stage = "fetched" /\ e.job \in Unresolvable
       \/ user.op = "Success" /\ e.stage = "running"
       \/ user.op = "Failed" /\ e.stage = "running" /\ MaxRetries[e.job] <= e.retries
       \/ user.op = "Retry" /\ e.stage = "running" /\ e.retries < MaxRetries[e.job]
  BY <1>4, <1>6, <1>11 DEF Orders
<1>13. \/ /\ e.stage = "fetched" /\ e.job \notin Unresolvable
          /\ jobs'[e.job].status = "In-Progress"
          /\ jobs'[e.job].retryCount = e.retries
       \/ /\ e.stage = "fetched" /\ e.job \in Unresolvable
          /\ jobs'[e.job].status = "Failed"
          /\ jobs'[e.job].retryCount = e.retries
       \/ /\ e.stage = "running"
          /\ jobs'[e.job].status = "Processed"
          /\ jobs'[e.job].retryCount = e.retries
       \/ /\ e.stage = "running" /\ MaxRetries[e.job] <= e.retries
          /\ jobs'[e.job].status = "Failed"
          /\ jobs'[e.job].retryCount = e.retries
       \/ /\ e.stage = "running" /\ e.retries < MaxRetries[e.job]
          /\ jobs'[e.job].status = "Retry"
          /\ jobs'[e.job].retryCount = e.retries + 1
  BY <1>9, <1>10, <1>12
<1>14. user.jobs \in [Jobs -> JobType]
  BY <1>2, UserIsTyped
<1> QED BY <1>5, <1>6, <1>7, <1>8, <1>13, <1>14

LEMMA WriteMarkedKeeps ==
    ASSUME FileInvariant, NEW n \in Nodes, WriteMarked(n)
    PROVE  FileInvariant'
<1> USE DEF FileInvariant
<1>1. UNCHANGED <<now, adder>> /\ text' = "list" /\ jobs' = user.jobs /\ user' = Nobody
  BY DEF WriteMarked, WriteAndClose
<1>2. PICK e \in held[n] :
          /\ GoesOn(n, e) /\ e.job \in Jobs /\ unmarked' = unmarked \ {e.job}
          /\ \A m \in Nodes : \A d \in held[m] : d.job = e.job => m = n /\ d = e
          /\ EntryIsRight(e)
          /\ \A j \in Jobs : j # e.job => jobs'[j] = jobs[j]
          /\ jobs'[e.job].status \in {"In-Progress", "Failed", "Processed", "Retry"}
          /\ \/ /\ e.stage = "fetched" /\ e.job \notin Unresolvable
                /\ jobs'[e.job].status = "In-Progress"
                /\ jobs'[e.job].retryCount = e.retries
             \/ /\ ~(e.stage = "fetched" /\ e.job \notin Unresolvable)
                /\ \/ jobs'[e.job].retryCount = e.retries
                   \/ /\ jobs'[e.job].retryCount = e.retries + 1
                      /\ e.retries < MaxRetries[e.job]
  BY MarkedWrite
<1> e.retries \in Nat /\ MaxRetries[e.job] \in Nat /\ e.stage \in {"fetched", "running"}
  BY <1>2, HeldIsTyped, FileAssumption
<1>3. TypeOK'
  BY <1>1, <1>2, MarkedWrite, GoingOn
     DEF TypeOK, UserType, JobType, EntryType, AdderType, Texts
<1>4. ListIsRight'
  <2>1. adder[e.job].step = "added"
    BY <1>2 DEF ListIsRight, EntryIsRight, IsBegun
  <2>2. jobs'[e.job].retryCount <= MaxRetries[e.job]
    BY <1>2 DEF ListIsRight, EntryIsRight
  <2> QED BY <1>1, <1>2, <2>1, <2>2 DEF ListIsRight
<1>5. \A m \in Nodes : \A d \in held'[m] :
           \/ d \in held[m] /\ d.job # e.job
           \/ /\ m = n /\ e.stage = "fetched" /\ e.job \notin Unresolvable
              /\ d.job = e.job /\ d.retries = e.retries /\ d.stage = "running"
  BY <1>2, GoingOn
<1>6. HeldIsRight'
  <2>1. \A k, m \in Nodes : \A c \in held'[k], d \in held'[m] :
            c.job = d.job => k = m /\ c = d
    <3>1. \A c, d \in held'[n] : c.job = e.job /\ d.job = e.job => c = d
      <4>1. \A d \in held'[n] : d.job = e.job => d = [e EXCEPT !.stage = "running"]
        BY <1>2 DEF GoesOn, TypeOK
      <4> QED BY <4>1
    <3> QED BY <1>5, <3>1 DEF HeldIsRight
  <2>2. \A m \in Nodes : \A d \in held'[m] : EntryIsRight(d)'
    <3> SUFFICES ASSUME NEW m \in Nodes, NEW d \in held'[m] PROVE EntryIsRight(d)'
      OBVIOUS
    <3>1. CASE d \in held[m] /\ d.job # e.job
      <4>1. d.job \in Jobs /\ jobs'[d.job] = jobs[d.job] /\ EntryIsRight(d)
        BY <1>2, <3>1, HeldIsTyped DEF HeldIsRight
      <4> QED BY <1>2, <3>1, <4>1 DEF EntryIsRight, IsBegun
    <3>2. CASE ~(d \in held[m] /\ d.job # e.job)
      BY <1>2, <1>5, <3>2 DEF EntryIsRight, IsBegun
    <3> QED BY <3>1, <3>2
  <2> QED BY <2>1, <2>2 DEF HeldIsRight
<1>7. UnmarkedIsRight'
  BY <1>2 DEF UnmarkedIsRight, TypeOK
<1> QED BY <1>1, <1>3, <1>4, <1>6, <1>7 DEF CallIsRight, NothingBeforeTheFile

\* A Mark* call that throws, at any point: the list is as it was last written, and
\* the node goes on as if the call had returned.
LEMMA UnwrittenMark ==
    ASSUME FileInvariant, NEW n \in Nodes,
           WriteMarkedThrows(n) \/ \E e \in held[n] : MarkThrows(n, e)
    PROVE  /\ UNCHANGED <<now, jobs, adder>> /\ user' = Nobody
           /\ text' \in {text, "broken"} /\ text # "none"
           /\ \E e \in held[n] : GoesOnUnwritten(n, e)
<1> USE DEF FileInvariant
<1>1. CASE \E e \in held[n] : MarkThrows(n, e)
  <2>1. text # "none"
    BY <1>1 DEF NothingBeforeTheFile
  <2> QED BY <1>1, <2>1 DEF MarkThrows, FileIsFree, IOFails
<1>2. CASE WriteMarkedThrows(n)
  <2>1. user.who = n /\ user.op \in {"InProgress", "Success", "Failed", "Retry"}
    BY <1>2 DEF WriteMarkedThrows, WriteFails
  <2>2. user # Nobody
    BY <2>1 DEF Nobody
  <2>3. MarkUnderWay(n)
    BY <2>1, <2>2 DEF CallIsRight, AddUnderWay, GetUnderWay, MarkUnderWay
  <2>4. PICK e \in held[n] : user.entries = {e}
    BY <2>3 DEF MarkUnderWay
  <2> QED BY <1>2, <2>2, <2>4 DEF WriteMarkedThrows, WriteFails, NothingBeforeTheFile
<1> QED BY <1>1, <1>2

LEMMA MarkThrowsKeeps ==
    ASSUME FileInvariant, NEW n \in Nodes,
           WriteMarkedThrows(n) \/ \E e \in held[n] : MarkThrows(n, e)
    PROVE  FileInvariant'
<1> USE DEF FileInvariant
<1>1. UNCHANGED <<now, jobs, adder>> /\ user' = Nobody /\ text' \in {text, "broken"}
      /\ text # "none"
  BY UnwrittenMark
<1>2. PICK e \in held[n] : GoesOnUnwritten(n, e)
  BY UnwrittenMark
<1>3. GoesOn(n, e) /\ e.job \in Jobs /\ EntryIsRight(e)
      /\ unmarked' = IF e.stage = "fetched" /\ e.job \notin Unresolvable
                       THEN unmarked \cup {e.job} ELSE unmarked
  BY <1>2, HeldIsTyped DEF GoesOnUnwritten, HeldIsRight
<1>4. TypeOK'
  <2>1. unmarked' \subseteq Jobs
    BY <1>3 DEF TypeOK
  <2>2. held' \in [Nodes -> SUBSET EntryType]
    BY <1>3, GoingOn
  <2> QED BY <1>1, <2>1, <2>2 DEF TypeOK, UserType, JobType, EntryType, AdderType, Texts
<1>5. \A m \in Nodes : \A d \in held[m] : d.job = e.job => m = n /\ d = e
  BY DEF HeldIsRight
<1>6. \A m \in Nodes : \A d \in held'[m] :
          \/ d \in held[m] /\ d.job # e.job
          \/ /\ m = n /\ e.stage = "fetched" /\ e.job \notin Unresolvable
             /\ d.job = e.job /\ d.retries = e.retries /\ d.stage = "running"
  BY <1>3, <1>5, GoingOn
<1>7. HeldIsRight'
  <2>1. \A c, d \in held'[n] : c.job = e.job /\ d.job = e.job => c = d
    <3>1. \A d \in held'[n] : d.job = e.job => d = [e EXCEPT !.stage = "running"]
      BY <1>3, <1>5 DEF GoesOn, TypeOK
    <3> QED BY <3>1
  <2>2. \A k, m \in Nodes : \A c \in held'[k], d \in held'[m] :
            c.job = d.job => k = m /\ c = d
    BY <1>6, <2>1 DEF HeldIsRight
  <2>3. ASSUME NEW m \in Nodes, NEW d \in held'[m] PROVE EntryIsRight(d)'
    <3>1. CASE d \in held[m] /\ d.job # e.job
      <4>1. EntryIsRight(d)
        BY <3>1 DEF HeldIsRight
      <4> QED BY <1>1, <1>3, <3>1, <4>1 DEF EntryIsRight, IsBegun
    <3>2. CASE ~(d \in held[m] /\ d.job # e.job)
      BY <1>1, <1>3, <1>6, <3>2 DEF EntryIsRight, IsBegun
    <3> QED BY <3>1, <3>2
  <2> QED BY <2>2, <2>3 DEF HeldIsRight
<1>8. UnmarkedIsRight'
  BY <1>1, <1>3 DEF UnmarkedIsRight, EntryIsRight
<1>9. ListIsRight' /\ NothingBeforeTheFile'
  BY <1>1 DEF ListIsRight, NothingBeforeTheFile
<1> QED BY <1>1, <1>4, <1>7, <1>8, <1>9 DEF CallIsRight

----------------------------------------------------------------------------
(* Crashes, and time *)

LEMMA CrashNodeKeeps ==
    ASSUME FileInvariant, NEW n \in Nodes, CrashNode(n)
    PROVE  FileInvariant'
<1> USE DEF FileInvariant
<1>1. UNCHANGED <<now, text, jobs, adder, unmarked>> /\ Closed(n)
  BY DEF CrashNode
<1>2. held'[n] = {} /\ \A m \in Nodes : m # n => held'[m] = held[m]
  BY DEF CrashNode, TypeOK
<1>3. held' \in [Nodes -> SUBSET EntryType]
  BY DEF CrashNode, TypeOK
<1>4. user' \in {user, Nobody}
  BY <1>1 DEF Closed
<1>5. TypeOK'
  BY <1>1, <1>3, <1>4 DEF TypeOK, UserType, JobType, EntryType, AdderType
<1>6. CallIsRight'
  <2>1. CASE user' = Nobody
    BY <2>1 DEF CallIsRight
  <2>2. CASE user' = user /\ user # Nobody
    <3>1. user.who # n
      BY <1>1, <2>2 DEF Closed
    <3>2. \A j \in Jobs : AddUnderWay(j) => AddUnderWay(j)'
      BY <1>1, <2>2 DEF AddUnderWay
    <3>3. ASSUME NEW m \in Nodes, GetUnderWay(m) \/ MarkUnderWay(m)
          PROVE  GetUnderWay(m)' \/ MarkUnderWay(m)'
      <4>1. m # n
        BY <3>1, <3>3 DEF GetUnderWay, MarkUnderWay
      <4>2. held'[m] = held[m] /\ now' \in Nat /\ now <= now'
        BY <1>1, <1>2, <4>1 DEF TypeOK
      <4> QED BY <1>1, <2>2, <3>3, <4>2, StaysUnderWay
    <3> QED BY <2>2, <3>2, <3>3 DEF CallIsRight
  <2> QED BY <1>4, <2>1, <2>2
<1>7. HeldIsRight'
  <2>1. \A m \in Nodes : held'[m] \subseteq held[m]
    BY <1>2
  <2> QED BY <1>1, <2>1 DEF HeldIsRight, EntryIsRight, IsBegun
<1>8. ListIsRight' /\ UnmarkedIsRight' /\ NothingBeforeTheFile'
  BY <1>1, <1>2, <1>4 DEF ListIsRight, UnmarkedIsRight, NothingBeforeTheFile
<1> QED BY <1>5, <1>6, <1>7, <1>8

LEMMA CrashAdderKeeps ==
    ASSUME FileInvariant, NEW j \in Jobs, CrashAdder(j)
    PROVE  FileInvariant'
<1> USE DEF FileInvariant
<1>1. UNCHANGED <<now, text, jobs, held, unmarked>> /\ Closed(j)
      /\ adder[j].step \in {"created", "writing"}
  BY DEF CrashAdder
<1>2. adder'[j].step = "abandoned" /\ \A k \in Jobs : k # j => adder'[k] = adder[k]
  BY DEF CrashAdder, TypeOK, AdderType
<1>3. adder' \in [Jobs -> AdderType]
  BY DEF CrashAdder, TypeOK, AdderType
<1>4. user' \in {user, Nobody}
  BY <1>1 DEF Closed
<1>5. TypeOK'
  BY <1>1, <1>3, <1>4 DEF TypeOK, UserType, JobType, EntryType, AdderType
<1>6. CallIsRight'
  <2>1. CASE user' = Nobody
    BY <2>1 DEF CallIsRight
  <2>2. CASE user' = user /\ user # Nobody
    <3>1. user.who # j
      BY <1>1, <2>2 DEF Closed
    <3>2. \A k \in Jobs : AddUnderWay(k) => AddUnderWay(k)'
      <4>1. \A k \in Jobs : AddUnderWay(k) => k # j
        BY <3>1 DEF AddUnderWay
      <4> QED BY <1>1, <1>2, <2>2, <4>1 DEF AddUnderWay
    <3>3. \A m \in Nodes : /\ GetUnderWay(m) => GetUnderWay(m)'
                           /\ MarkUnderWay(m) => MarkUnderWay(m)'
      BY <1>1, <2>2, StaysUnderWay DEF TypeOK
    <3> QED BY <2>2, <3>2, <3>3 DEF CallIsRight
  <2> QED BY <1>4, <2>1, <2>2
<1>7. HeldIsRight' /\ UnmarkedIsRight'
  BY <1>1 DEF HeldIsRight, EntryIsRight, IsBegun, UnmarkedIsRight
<1>8. ListIsRight'
  BY <1>1, <1>2 DEF ListIsRight
<1>9. NothingBeforeTheFile'
  BY <1>1, <1>4 DEF NothingBeforeTheFile
<1> QED BY <1>5, <1>6, <1>7, <1>8, <1>9

LEMMA TickKeeps ==
    ASSUME FileInvariant, Tick
    PROVE  FileInvariant'
<1> USE DEF FileInvariant
<1>1. UNCHANGED <<text, jobs, user, adder, held, unmarked>> /\ now' = now + 1
  BY DEF Tick
<1>2. now \in Nat \ {0} /\ now' \in Nat \ {0} /\ now <= now'
  BY <1>1 DEF TypeOK
<1>3. 0..now \subseteq 0..now' /\ 1..now \subseteq 1..now'
  BY <1>2
<1>4. /\ JobType \subseteq JobType' /\ EntryType \subseteq EntryType'
      /\ AdderType \subseteq AdderType'
  BY <1>3 DEF JobType, EntryType, AdderType
<1>5. UserType \subseteq UserType'
  BY <1>4 DEF UserType
<1>6. TypeOK'
  <2>1. jobs \in [Jobs -> JobType'] /\ adder \in [Jobs -> AdderType']
        /\ held \in [Nodes -> SUBSET (EntryType')] /\ user \in UserType'
    BY <1>4, <1>5 DEF TypeOK
  <2> QED BY <1>1, <1>2, <2>1 DEF TypeOK
<1>7. CallIsRight'
  <2>1. \A j \in Jobs : AddUnderWay(j) => AddUnderWay(j)'
    BY <1>1 DEF AddUnderWay
  <2>2. \A n \in Nodes : /\ GetUnderWay(n) => GetUnderWay(n)'
                         /\ MarkUnderWay(n) => MarkUnderWay(n)'
    BY <1>1, <1>2, StaysUnderWay
  <2> QED BY <1>1, <2>1, <2>2 DEF CallIsRight
<1>8. ListIsRight' /\ HeldIsRight' /\ UnmarkedIsRight' /\ NothingBeforeTheFile'
  BY <1>1 DEF ListIsRight, HeldIsRight, EntryIsRight, IsBegun, UnmarkedIsRight,
              NothingBeforeTheFile
<1> QED BY <1>6, <1>7, <1>8

----------------------------------------------------------------------------
(* Theorems *)

LEMMA StepKeeps ==
    ASSUME FileInvariant, [Next]_vars
    PROVE  FileInvariant'
<1>1. ASSUME NEW j \in Jobs, AddStep(j) \/ CrashAdder(j) PROVE FileInvariant'
  BY <1>1, CreateJobKeeps, OpenToAddKeeps, WriteAddedKeeps, AddThrowsKeeps, CrashAdderKeeps
     DEF AddStep
<1>2. ASSUME NEW n \in Nodes, FetchStep(n) \/ CrashNode(n) PROVE FileInvariant'
  BY <1>2, OpenToGetJobsKeeps, WriteQueuedKeeps, WriteQueuedThrowsKeeps, CrashNodeKeeps
     DEF FetchStep
<1>3. ASSUME NEW n \in Nodes, MarkStep(n) PROVE FileInvariant'
  BY <1>3, OpenToMarkKeeps, WriteMarkedKeeps, MarkThrowsKeeps DEF MarkStep
<1>4. CASE Tick  BY <1>4, TickKeeps
<1>5. CASE UNCHANGED vars
  <2>1. UNCHANGED <<now, text, jobs, user, adder, held, unmarked>>
    BY <1>5 DEF vars
  <2>2. TypeOK'
    BY <2>1 DEF FileInvariant, TypeOK, UserType, JobType, EntryType, AdderType
  <2>3. CallIsRight'
    <3>1. \A j \in Jobs : AddUnderWay(j) => AddUnderWay(j)'
      BY <2>1 DEF AddUnderWay
    <3>2. \A n \in Nodes : /\ GetUnderWay(n) => GetUnderWay(n)'
                           /\ MarkUnderWay(n) => MarkUnderWay(n)'
      BY <2>1, StaysUnderWay DEF FileInvariant, TypeOK
    <3> QED BY <2>1, <3>1, <3>2 DEF FileInvariant, CallIsRight
  <2> QED BY <2>1, <2>2, <2>3
          DEF FileInvariant, ListIsRight, HeldIsRight, EntryIsRight, IsBegun,
              UnmarkedIsRight, NothingBeforeTheFile
<1> QED BY <1>1, <1>2, <1>3, <1>4, <1>5 DEF Next

LEMMA Invariance == Spec => []FileInvariant
<1>1. Init => FileInvariant
  <2> SUFFICES ASSUME Init PROVE FileInvariant
    OBVIOUS
  <2>1. \A j \in Jobs : jobs[j] = AbsentJob
    BY DEF Init
  <2>2. AbsentJob \in JobType /\ AbsentJob.status = "Absent" /\ AbsentJob.retryCount = 0
    BY DEF Init, AbsentJob, JobType, NoTime
  <2>3. TypeOK
    <3>1. [step |-> "start", at |-> NoTime] \in AdderType
      BY DEF Init, AdderType, NoTime
    <3>2. jobs \in [Jobs -> JobType]
      BY <2>2 DEF Init
    <3> QED BY <3>1, <3>2 DEF Init, TypeOK, UserType, Texts
  <2>4. ListIsRight
    BY <2>1, <2>2, FileAssumption DEF ListIsRight
  <2>5. CallIsRight /\ HeldIsRight /\ UnmarkedIsRight /\ NothingBeforeTheFile
    BY DEF Init, CallIsRight, HeldIsRight, UnmarkedIsRight, NothingBeforeTheFile
  <2> QED BY <2>3, <2>4, <2>5 DEF FileInvariant
<1>2. FileInvariant /\ [Next]_vars => FileInvariant'
  BY StepKeeps
<1> QED BY <1>1, <1>2, PTL DEF Spec

\* Types of the file's list, its user and the nodes, for any jobs, nodes and faults.
THEOREM TypeCorrect == Spec => []TypeOK
<1>1. FileInvariant => TypeOK
  BY DEF FileInvariant
<1> QED BY <1>1, Invariance, PTL

\* A file that a crash or a failed write has left unreadable is noticed by every
\* later call, of any process: none sets out to write over it, and no AddJob returns
\* normally.
THEOREM DamageStaysNoticed == Spec => DamageIsNoticed
<1> DEFINE Noticed == /\ Damaged' /\ text' = text
                      /\ \A j \in Jobs : adder'[j].step = "added" => adder[j].step = "added"
<1>1. ASSUME FileInvariant, Damaged, [Next]_vars PROVE Noticed
  <2>1. user = Nobody /\ text \notin {"none", "list"}
    BY <1>1 DEF Damaged, FileIsFree
  <2>2. ASSUME UNCHANGED <<text, user, adder>> PROVE Noticed
    BY <1>1, <2>2 DEF Damaged, FileIsFree
  <2>3. ASSUME NEW j \in Jobs, AddStep(j) \/ CrashAdder(j) PROVE Noticed
    <3>1. ~OpenToAdd(j)
      BY <2>1 DEF OpenToAdd, AdderReads
    <3>2. ~WriteAdded(j) /\ ~WriteAddedThrows(j)
      BY <2>1, FileAssumption DEF WriteAdded, WriteAndClose, WriteAddedThrows, WriteFails, Nobody
    <3>3. UNCHANGED <<text, user>>
      BY <2>1, <2>3, <3>1, <3>2 DEF AddStep, CreateJob, AddThrows, CrashAdder, Closed
    <3>4. \A k \in Jobs : adder'[k].step = "added" => adder[k].step = "added"
      BY <1>1, <2>3, <3>1, <3>2
         DEF AddStep, CreateJob, AddThrows, CrashAdder, FileInvariant, TypeOK, AdderType
    <3> QED BY <1>1, <3>3, <3>4 DEF Damaged, FileIsFree
  <2>4. ASSUME NEW n \in Nodes, FetchStep(n) \/ MarkStep(n) \/ CrashNode(n)
        PROVE  Noticed
    <3>1. ~OpenToGetJobs(n) /\ \A e \in held[n] : ~OpenToMark(n, e)
      BY <2>1 DEF OpenToGetJobs, OpenToMark, ManagerReads
    <3>2. /\ ~WriteQueued(n) /\ ~WriteQueuedThrows(n)
          /\ ~WriteMarked(n) /\ ~WriteMarkedThrows(n)
      BY <2>1 DEF WriteQueued, WriteQueuedThrows, WriteMarked, WriteMarkedThrows,
                  WriteAndClose, WriteFails, Nobody
    <3>3. UNCHANGED <<text, user, adder>>
      BY <2>1, <2>4, <3>1, <3>2 DEF FetchStep, MarkStep, MarkThrows, CrashNode, Closed
    <3> QED BY <2>2, <3>3
  <2>5. CASE Tick \/ UNCHANGED vars
    BY <2>2, <2>5 DEF Tick, vars
  <2> QED BY <1>1, <2>3, <2>4, <2>5 DEF Next
<1>2. FileInvariant /\ [Next]_vars => [Damaged => Noticed]_vars
  BY <1>1
<1> QED BY <1>2, Invariance, PTL DEF Spec, DamageIsNoticed

\* A job that is Queued or In-Progress is changed by a call of the node that holds it
\* and by no other, and comes to no other node, though every call writes all jobs.
THEOREM OnlyHoldersMoveTakenJobs == Spec => OnlyHolderMoves
<1> DEFINE Moves(j) ==
        jobs[j].status \in {"Queued", "In-Progress"} =>
            /\ jobs'[j] # jobs[j] => \E n \in Nodes : user.who = n /\ HeldBy(n, j)
            /\ \A n \in Nodes : HeldBy(n, j)' => HeldBy(n, j)
<1>1. ASSUME FileInvariant, [Next]_vars, NEW j \in Jobs PROVE Moves(j)
  <2>1. ASSUME jobs' = jobs, \A n \in Nodes : HeldBy(n, j)' => HeldBy(n, j) PROVE Moves(j)
    BY <2>1
  <2>2. ASSUME NEW k \in Jobs, WriteAdded(k) PROVE Moves(j)
    <3>1. held' = held
      BY <2>2 DEF WriteAdded
    <3> QED BY <1>1, <2>2, <3>1, AddedWrite DEF HeldBy
  <2>3. ASSUME NEW n \in Nodes, WriteQueued(n) PROVE Moves(j)
    <3>1. \A m \in Nodes : \A e \in held'[m] : e \in held[m] \/ e \in user.entries
      BY <1>1, <2>3 DEF WriteQueued, FileInvariant, TypeOK
    <3>2. CASE Taken(j)
      BY <1>1, <2>3, <3>2, QueuedWrite
    <3>3. CASE ~Taken(j)
      <4>1. jobs'[j] = jobs[j]
        BY <1>1, <2>3, <3>3, QueuedWrite
      <4> QED BY <3>1, <3>3, <4>1 DEF HeldBy, Taken
    <3> QED BY <3>2, <3>3
  <2>4. ASSUME NEW n \in Nodes, WriteMarked(n) PROVE Moves(j)
    <3>1. user.who = n
      BY <2>4 DEF WriteMarked, WriteAndClose
    <3>2. PICK e \in held[n] : GoesOn(n, e) /\ \A k \in Jobs : k # e.job => jobs'[k] = jobs[k]
      BY <1>1, <2>4, MarkedWrite
    <3>3. \A m \in Nodes : HeldBy(m, j)' => HeldBy(m, j)
      BY <1>1, <3>2, GoingOn DEF HeldBy, FileInvariant
    <3> QED BY <3>1, <3>2, <3>3 DEF HeldBy
  <2>5. ASSUME NEW n \in Nodes, WriteMarkedThrows(n) \/ \E e \in held[n] : MarkThrows(n, e)
        PROVE  Moves(j)
    <3>1. PICK e \in held[n] : GoesOn(n, e)
      BY <1>1, <2>5, UnwrittenMark DEF GoesOnUnwritten
    <3>2. \A m \in Nodes : HeldBy(m, j)' => HeldBy(m, j)
      BY <1>1, <3>1, GoingOn DEF HeldBy, FileInvariant
    <3>3. jobs' = jobs
      BY <1>1, <2>5, UnwrittenMark
    <3> QED BY <2>1, <3>2, <3>3
  <2>6. ASSUME NEW n \in Nodes, CrashNode(n) PROVE Moves(j)
    BY <1>1, <2>1, <2>6 DEF CrashNode, HeldBy, FileInvariant, TypeOK
  <2>7. \/ jobs' = jobs /\ held' = held
        \/ \E k \in Jobs : WriteAdded(k)
        \/ \E n \in Nodes : WriteQueued(n) \/ WriteMarked(n) \/ CrashNode(n)
                            \/ WriteMarkedThrows(n) \/ \E e \in held[n] : MarkThrows(n, e)
    <3>1. ASSUME NEW k \in Jobs, AddStep(k) \/ CrashAdder(k), ~WriteAdded(k)
          PROVE  jobs' = jobs /\ held' = held
      BY <3>1 DEF AddStep, CreateJob, OpenToAdd, AddThrows, Open, WriteAddedThrows, WriteFails,
                  CrashAdder
    <3>2. ASSUME NEW n \in Nodes, FetchStep(n), ~WriteQueued(n)
          PROVE  jobs' = jobs /\ held' = held
      BY <3>2 DEF FetchStep, OpenToGetJobs, Open, WriteQueuedThrows, WriteFails
    <3>3. ASSUME NEW n \in Nodes, NEW e \in held[n], OpenToMark(n, e)
          PROVE  jobs' = jobs /\ held' = held
      BY <3>3 DEF OpenToMark, Open
    <3>4. ASSUME Tick \/ UNCHANGED vars PROVE jobs' = jobs /\ held' = held
      BY <3>4 DEF Tick, vars
    <3> QED BY <1>1, <3>1, <3>2, <3>3, <3>4 DEF Next, MarkStep
  <2>8. ASSUME jobs' = jobs /\ held' = held PROVE Moves(j)
    BY <2>1, <2>8 DEF HeldBy
  <2> HIDE DEF Moves
  <2> QED BY <2>2, <2>3, <2>4, <2>5, <2>6, <2>7, <2>8
<1>2. FileInvariant /\ [Next]_vars => [\A j \in Jobs : Moves(j)]_vars
  BY <1>1
<1> QED BY <1>2, Invariance, PTL DEF Spec, OnlyHolderMoves

----------------------------------------------------------------------------
(* The life of a job: what the abstract specification sees *)

\* HolderOf names the one node that holds a job.
HolderIsNamed ==
    \A j \in Jobs :
        /\ \A n \in Nodes : HeldBy(n, j) => HolderOf(j) = n
        /\ (\A n \in Nodes : ~HeldBy(n, j)) => HolderOf(j) = NoNode

LEMMA HeldOnceIsNamed == HeldIsRight => HolderIsNamed
<1> SUFFICES ASSUME HeldIsRight, NEW j \in Jobs
             PROVE  /\ \A n \in Nodes : HeldBy(n, j) => HolderOf(j) = n
                    /\ (\A n \in Nodes : ~HeldBy(n, j)) => HolderOf(j) = NoNode
  BY DEF HolderIsNamed
<1>1. \A n, m \in Nodes : HeldBy(n, j) /\ HeldBy(m, j) => n = m
  BY DEF HeldIsRight, HeldBy
<1>2. ASSUME NEW n \in Nodes, HeldBy(n, j) PROVE HolderOf(j) = n
  <2>1. HolderOf(j) = CHOOSE m \in Nodes : HeldBy(m, j)
    BY <1>2 DEF HolderOf
  <2>2. HeldBy(HolderOf(j), j) /\ HolderOf(j) \in Nodes
    BY <1>2, <2>1
  <2> QED BY <1>1, <1>2, <2>2
<1>3. (\A n \in Nodes : ~HeldBy(n, j)) => HolderOf(j) = NoNode
  BY DEF HolderOf
<1> QED BY <1>2, <1>3

\* StatusOf hides the difference between the three statuses of a job that waits, and
\* between the two of a job that was begun.
StatusIsRead ==
    \A j \in Jobs :
        /\ jobs[j].status = "Absent" => StatusOf(j) = "NotAdded"
        /\ jobs[j].status \in {"New", "Retry", "Queued"} /\ ~IsBegun(j) =>
               StatusOf(j) = "Waiting"
        /\ IsBegun(j) => StatusOf(j) = "Running"
        /\ jobs[j].status = "Processed" => StatusOf(j) = "Processed"
        /\ jobs[j].status = "Failed" => StatusOf(j) = "Failed"

LEMMA StatusIsAlwaysRead == StatusIsRead
BY DEF StatusIsRead, StatusOf, IsBegun

Mapped == HolderIsNamed /\ StatusIsRead

SameStatus(j) == StatusOf(j)' = StatusOf(j)
SameHolder(j) == HolderOf(j)' = HolderOf(j)
SameRetries(j) == jobs'[j].retryCount = jobs[j].retryCount

SomeStep == Job!Next \/ UNCHANGED Job!lifecycle

LEMMA NoStep ==
    ASSUME \A j \in Jobs : SameStatus(j) /\ SameHolder(j) /\ SameRetries(j)
    PROVE  SomeStep
BY DEF SomeStep, Job!lifecycle, SameStatus, SameHolder, SameRetries

LEMMA SameListSameStatus ==
    ASSUME jobs' = jobs, unmarked' = unmarked
    PROVE  \A j \in Jobs : SameStatus(j) /\ SameRetries(j)
BY DEF SameStatus, SameRetries, StatusOf, IsBegun

LEMMA SameRowSameStatus ==
    ASSUME NEW j \in Jobs, jobs'[j] = jobs[j], j \in unmarked' <=> j \in unmarked
    PROVE  SameStatus(j) /\ SameRetries(j)
BY DEF SameStatus, SameRetries, StatusOf, IsBegun

LEMMA SameHeldSameHolder ==
    ASSUME held' = held
    PROVE  \A j \in Jobs : SameHolder(j)
BY DEF SameHolder, HolderOf, HeldBy

\* A node dies, or fails to write an outcome: its jobs are nobody's.
LEMMA ForgetIsForget ==
    ASSUME NEW n \in Nodes, NEW S \in SUBSET Jobs,
           \A j \in S : HolderOf(j) = n /\ HolderOf(j)' = NoNode,
           \A j \in Jobs : SameStatus(j) /\ SameRetries(j),
           \A j \in Jobs \ S : SameHolder(j)
    PROVE  SomeStep
<1>1. Job!Forget(n, S)
  BY DEF Job!Forget, SameStatus, SameHolder, SameRetries
<1> QED BY <1>1 DEF Job!Next, SomeStep

\* What becomes of the holders when a node goes on with an entry, or drops it.
LEMMA GoingOnHolders ==
    ASSUME TypeOK, Mapped, Mapped', NEW n \in Nodes, NEW e \in held[n], GoesOn(n, e),
           \A m \in Nodes : \A d \in held[m] : d.job = e.job => m = n /\ d = e
    PROVE  /\ HolderOf(e.job) = n
           /\ \A k \in Jobs : k # e.job => SameHolder(k)
           /\ e.stage = "fetched" /\ e.job \notin Unresolvable => SameHolder(e.job)
           /\ ~(e.stage = "fetched" /\ e.job \notin Unresolvable) => HolderOf(e.job)' = NoNode
<1>1. e.job \in Jobs /\ HolderOf(e.job) = n
  BY HeldIsTyped DEF HeldBy, Mapped, HolderIsNamed
<1>2. ASSUME NEW k \in Jobs, k # e.job PROVE SameHolder(k)
  <2>1. \A m \in Nodes : HeldBy(m, k)' <=> HeldBy(m, k)
    BY <1>2, GoingOn DEF HeldBy
  <2> QED BY <2>1 DEF Mapped, HolderIsNamed, SameHolder
<1>3. ASSUME e.stage = "fetched" /\ e.job \notin Unresolvable PROVE SameHolder(e.job)
  <2> DEFINE run == [e EXCEPT !.stage = "running"]
  <2>1. run \in held'[n]
    BY <1>3 DEF GoesOn, TypeOK
  <2>2. run.job = e.job
    BY HeldIsTyped DEF EntryType
  <2>3. HeldBy(n, e.job)'
    BY <2>1, <2>2 DEF HeldBy
  <2> QED BY <1>1, <2>3 DEF Mapped, HolderIsNamed, SameHolder
<1>4. ASSUME ~(e.stage = "fetched" /\ e.job \notin Unresolvable)
      PROVE  HolderOf(e.job)' = NoNode
  <2>1. \A m \in Nodes : ~HeldBy(m, e.job)'
    BY <1>4, GoingOn DEF HeldBy
  <2> QED BY <1>1, <2>1 DEF Mapped, HolderIsNamed
<1> QED BY <1>1, <1>2, <1>3, <1>4

----------------------------------------------------------------------------
(* Each action is a step of it, or none *)

LEMMA AdderMapped ==
    ASSUME FileInvariant, NEW j \in Jobs, AddStep(j) \/ CrashAdder(j)
    PROVE  SomeStep
<1>1. CASE ~WriteAdded(j)
  <2>1. UNCHANGED <<jobs, held, unmarked>>
    BY <1>1 DEF AddStep, CreateJob, OpenToAdd, Open, AddThrows, WriteAddedThrows, WriteFails,
                CrashAdder
  <2> QED BY <2>1, NoStep, SameListSameStatus, SameHeldSameHolder
<1>2. CASE WriteAdded(j)
  <2>1. /\ jobs[j].status = "Absent" /\ jobs'[j].status = "New"
        /\ jobs'[j].retryCount = jobs[j].retryCount
        /\ \A k \in Jobs : k # j => jobs'[k] = jobs[k]
    BY <1>2, AddedWrite
  <2>2. UNCHANGED <<held, unmarked>>
    BY <1>2 DEF WriteAdded
  <2>3. \A k \in Jobs : SameHolder(k) /\ SameRetries(k)
    BY <2>1, <2>2, SameHeldSameHolder DEF SameRetries
  <2>4. \A k \in Jobs : k # j => SameStatus(k)
    BY <2>1, <2>2, SameRowSameStatus
  <2>5. StatusOf(j) = "NotAdded" /\ StatusOf(j)' = "Waiting"
    BY <1>2, <2>1, <2>2, AddedWrite DEF StatusOf, IsBegun
  <2>6. Job!Add(j)
    BY <2>3, <2>4, <2>5 DEF Job!Add, Job!Become, SameStatus, SameHolder, SameRetries
  <2> QED BY <2>6 DEF Job!Next, SomeStep
<1> QED BY <1>1, <1>2

LEMMA GetJobsMapped ==
    ASSUME FileInvariant, Mapped, Mapped', NEW n \in Nodes, WriteQueued(n)
    PROVE  SomeStep
<1> DEFINE S == {j \in Jobs : Taken(j)}
<1>1. \A j \in Jobs : SameStatus(j) /\ SameRetries(j)
  <2> unmarked' = unmarked
    BY DEF WriteQueued
  <2>1. ASSUME NEW j \in Jobs, Taken(j) PROVE SameStatus(j)
    BY <2>1, QueuedWrite DEF Mapped, StatusIsRead, SameStatus, IsBegun
  <2>2. ASSUME NEW j \in Jobs, ~Taken(j) PROVE SameStatus(j)
    BY <2>2, QueuedWrite, SameRowSameStatus
  <2> QED BY <2>1, <2>2, QueuedWrite DEF SameRetries
<1>2. CASE held' = held
  BY <1>1, <1>2, NoStep, SameHeldSameHolder
<1>3. CASE held' = [held EXCEPT ![n] = @ \cup user.entries]
  <2>1. held'[n] = held[n] \cup user.entries
        /\ \A m \in Nodes : m # n => held'[m] = held[m]
    BY <1>3 DEF FileInvariant, TypeOK
  <2>2. ASSUME NEW j \in S
        PROVE  /\ StatusOf(j) = "Waiting" /\ HolderOf(j) = NoNode
               /\ jobs[j].retryCount <= MaxRetries[j] /\ HolderOf(j)' = n
    <3>1. StatusOf(j) = "Waiting" /\ jobs[j].retryCount <= MaxRetries[j]
      BY QueuedWrite DEF Mapped, StatusIsRead, IsBegun, FileInvariant, ListIsRight
    <3>2. \A m \in Nodes : ~HeldBy(m, j)
      BY QueuedWrite DEF HeldBy
    <3>3. HeldBy(n, j)'
      BY <2>1 DEF HeldBy, Taken
    <3> QED BY <3>1, <3>2, <3>3 DEF Mapped, HolderIsNamed
  <2>3. ASSUME NEW j \in Jobs \ S PROVE SameHolder(j)
    <3>1. \A m \in Nodes : HeldBy(m, j)' <=> HeldBy(m, j)
      BY <2>1 DEF HeldBy, Taken
    <3> QED BY <3>1 DEF Mapped, HolderIsNamed, SameHolder
  <2> HIDE DEF S
  <2>4. S \in SUBSET Jobs
    BY DEF S
  <2>5. Job!Take(n, S)
    BY <1>1, <2>2, <2>3, <2>4 DEF Job!Take, SameStatus, SameHolder, SameRetries
  <2> QED BY <2>4, <2>5 DEF Job!Next, SomeStep
<1> QED BY <1>2, <1>3 DEF WriteQueued

LEMMA MarkMapped ==
    ASSUME FileInvariant, Mapped, Mapped', NEW n \in Nodes, WriteMarked(n)
    PROVE  SomeStep
<1>1. PICK e \in held[n] :
        /\ GoesOn(n, e) /\ e.job \in Jobs /\ unmarked' = unmarked \ {e.job}
        /\ \A m \in Nodes : \A d \in held[m] : d.job = e.job => m = n /\ d = e
        /\ EntryIsRight(e)
        /\ \A j \in Jobs : j # e.job => jobs'[j] = jobs[j]
        /\ \/ /\ e.stage = "fetched" /\ e.job \notin Unresolvable
              /\ jobs'[e.job].status = "In-Progress"
              /\ jobs'[e.job].retryCount = e.retries
           \/ /\ e.stage = "fetched" /\ e.job \in Unresolvable
              /\ jobs'[e.job].status = "Failed"
              /\ jobs'[e.job].retryCount = e.retries
           \/ /\ e.stage = "running"
              /\ jobs'[e.job].status = "Processed"
              /\ jobs'[e.job].retryCount = e.retries
           \/ /\ e.stage = "running" /\ MaxRetries[e.job] <= e.retries
              /\ jobs'[e.job].status = "Failed"
              /\ jobs'[e.job].retryCount = e.retries
           \/ /\ e.stage = "running" /\ e.retries < MaxRetries[e.job]
              /\ jobs'[e.job].status = "Retry"
              /\ jobs'[e.job].retryCount = e.retries + 1
  BY MarkedWrite
<1> DEFINE j == e.job
<1>2. j \in Jobs /\ e.retries \in Nat /\ MaxRetries[j] \in Nat
      /\ jobs[j].retryCount = e.retries
  BY <1>1, HeldIsTyped, FileAssumption DEF FileInvariant, EntryIsRight
<1>3. /\ HolderOf(j) = n
      /\ \A k \in Jobs : k # j => SameHolder(k)
      /\ e.stage = "fetched" /\ j \notin Unresolvable => SameHolder(j)
      /\ ~(e.stage = "fetched" /\ j \notin Unresolvable) => HolderOf(j)' = NoNode
  BY <1>1, GoingOnHolders DEF FileInvariant
<1>4. \A k \in Jobs : k # j => SameStatus(k) /\ SameRetries(k)
  BY <1>1, SameRowSameStatus
<1>5. /\ e.stage = "fetched" => StatusOf(j) = "Waiting"
      /\ e.stage = "running" => StatusOf(j) = "Running"
  BY <1>1 DEF Mapped, StatusIsRead, EntryIsRight
<1> USE DEF Job!Become, Job!LetGo, Job!Runs, SameStatus, SameHolder, SameRetries
<1>6. CASE /\ e.stage = "fetched" /\ e.job \notin Unresolvable
           /\ jobs'[e.job].status = "In-Progress"
           /\ jobs'[e.job].retryCount = e.retries
  <2>1. StatusOf(j)' = "Running"
    BY <1>2, <1>6 DEF Mapped, StatusIsRead, IsBegun
  <2> HIDE DEF j
  <2>2. j \notin Unresolvable /\ jobs'[j].retryCount = jobs[j].retryCount
    BY <1>2, <1>6 DEF j
  <2>3. Job!Start(n, j)
    BY <1>2, <1>3, <1>4, <1>5, <1>6, <2>1, <2>2 DEF Job!Start
  <2> QED BY <1>2, <2>3 DEF Job!Next, SomeStep
<1>7. CASE /\ e.stage = "fetched" /\ e.job \in Unresolvable
           /\ jobs'[e.job].status = "Failed"
           /\ jobs'[e.job].retryCount = e.retries
  <2>1. StatusOf(j)' = "Failed"
    BY <1>2, <1>7 DEF Mapped, StatusIsRead, IsBegun
  <2> HIDE DEF j
  <2>2. j \in Unresolvable /\ jobs'[j].retryCount = jobs[j].retryCount
    BY <1>2, <1>7 DEF j
  <2>3. Job!Reject(n, j)
    BY <1>2, <1>3, <1>4, <1>5, <1>7, <2>1, <2>2 DEF Job!Reject
  <2> QED BY <1>2, <2>3 DEF Job!Next, SomeStep
<1>8. CASE /\ e.stage = "running"
           /\ jobs'[e.job].status = "Processed"
           /\ jobs'[e.job].retryCount = e.retries
  <2>1. StatusOf(j)' = "Processed"
    BY <1>2, <1>8 DEF Mapped, StatusIsRead, IsBegun
  <2> HIDE DEF j
  <2>2. jobs'[j].retryCount = jobs[j].retryCount
    BY <1>2, <1>8 DEF j
  <2>3. Job!Succeed(n, j)
    BY <1>2, <1>3, <1>4, <1>5, <1>8, <2>1, <2>2 DEF Job!Succeed
  <2> QED BY <1>2, <2>3 DEF Job!Next, SomeStep
<1>9. CASE /\ e.stage = "running" /\ MaxRetries[e.job] <= e.retries
           /\ jobs'[e.job].status = "Failed"
           /\ jobs'[e.job].retryCount = e.retries
  <2>1. StatusOf(j)' = "Failed"
    BY <1>2, <1>9 DEF Mapped, StatusIsRead, IsBegun
  <2>2. jobs'[j].retryCount = jobs[j].retryCount /\ jobs[j].retryCount >= MaxRetries[j]
    BY <1>2, <1>9
  <2> HIDE DEF j
  <2>3. Job!Fail(n, j)
    BY <1>2, <1>3, <1>4, <1>5, <1>9, <2>1, <2>2 DEF Job!Fail
  <2> QED BY <1>2, <2>3 DEF Job!Next, SomeStep
<1>10. CASE /\ e.stage = "running" /\ e.retries < MaxRetries[e.job]
            /\ jobs'[e.job].status = "Retry"
            /\ jobs'[e.job].retryCount = e.retries + 1
  <2>1. StatusOf(j)' = "Waiting"
    BY <1>2, <1>10 DEF Mapped, StatusIsRead, IsBegun
  <2>2. jobs'[j].retryCount = jobs[j].retryCount + 1 /\ jobs[j].retryCount < MaxRetries[j]
    BY <1>2, <1>10
  <2> HIDE DEF j
  <2>3. Job!Retry(n, j)
    BY <1>2, <1>3, <1>4, <1>5, <1>10, <2>1, <2>2 DEF Job!Retry
  <2> QED BY <1>2, <2>3 DEF Job!Next, SomeStep
<1> QED BY <1>1, <1>6, <1>7, <1>8, <1>9, <1>10

\* A Mark* call that throws: a job that was to begin begins all the same, and one that
\* ended, or could not be run, is nobody's and keeps its row.
LEMMA MarkThrowsMapped ==
    ASSUME FileInvariant, Mapped, Mapped', NEW n \in Nodes,
           WriteMarkedThrows(n) \/ \E e \in held[n] : MarkThrows(n, e)
    PROVE  SomeStep
<1>1. PICK e \in held[n] : GoesOnUnwritten(n, e)
  BY UnwrittenMark
<1>2. jobs' = jobs /\ GoesOn(n, e) /\ e.job \in Jobs /\ EntryIsRight(e)
      /\ e.stage \in {"fetched", "running"}
      /\ unmarked' = IF e.stage = "fetched" /\ e.job \notin Unresolvable
                       THEN unmarked \cup {e.job} ELSE unmarked
  BY <1>1, UnwrittenMark, HeldIsTyped DEF GoesOnUnwritten, FileInvariant, HeldIsRight
<1>3. \A m \in Nodes : \A d \in held[m] : d.job = e.job => m = n /\ d = e
  BY DEF FileInvariant, HeldIsRight
<1>4. /\ HolderOf(e.job) = n
      /\ \A k \in Jobs : k # e.job => SameHolder(k)
      /\ e.stage = "fetched" /\ e.job \notin Unresolvable => SameHolder(e.job)
      /\ ~(e.stage = "fetched" /\ e.job \notin Unresolvable) => HolderOf(e.job)' = NoNode
  BY <1>2, <1>3, GoingOnHolders DEF FileInvariant
<1>5. CASE e.stage = "fetched" /\ e.job \notin Unresolvable
  <2>1. \A k \in Jobs : k # e.job => SameStatus(k) /\ SameRetries(k)
    BY <1>2, <1>5, SameRowSameStatus
  <2>2. StatusOf(e.job) = "Waiting" /\ StatusOf(e.job)' = "Running"
    BY <1>2, <1>5 DEF Mapped, StatusIsRead, EntryIsRight, IsBegun
  <2>3. Job!Start(n, e.job)
    BY <1>2, <1>4, <1>5, <2>1, <2>2
       DEF Job!Start, Job!Become, SameStatus, SameHolder, SameRetries
  <2> QED BY <1>2, <2>3 DEF Job!Next, SomeStep
<1>6. CASE ~(e.stage = "fetched" /\ e.job \notin Unresolvable)
  <2>1. {e.job} \in SUBSET Jobs /\ \A j \in Jobs : SameStatus(j) /\ SameRetries(j)
    BY <1>2, <1>6, SameListSameStatus
  <2> QED BY <1>4, <1>6, <2>1, ForgetIsForget
<1> QED BY <1>5, <1>6

LEMMA CrashNodeMapped ==
    ASSUME FileInvariant, Mapped, Mapped', NEW n \in Nodes, CrashNode(n)
    PROVE  SomeStep
<1> DEFINE lost == {j \in Jobs : HeldBy(n, j)}
<1>1. UNCHANGED <<jobs, unmarked>>
  BY DEF CrashNode
<1>2. held'[n] = {} /\ \A m \in Nodes : m # n => held'[m] = held[m]
  BY DEF CrashNode, FileInvariant, TypeOK
<1>3. ASSUME NEW j \in lost PROVE HolderOf(j) = n /\ HolderOf(j)' = NoNode
  <2>1. HolderOf(j) = n
    BY DEF Mapped, HolderIsNamed
  <2>2. \A m \in Nodes : ~HeldBy(m, j)'
    BY <1>2, <2>1 DEF Mapped, HolderIsNamed, HeldBy
  <2> QED BY <2>1, <2>2 DEF Mapped, HolderIsNamed
<1>4. ASSUME NEW j \in Jobs \ lost PROVE SameHolder(j)
  <2>1. \A m \in Nodes : HeldBy(m, j)' <=> HeldBy(m, j)
    BY <1>2 DEF HeldBy
  <2> QED BY <2>1 DEF Mapped, HolderIsNamed, SameHolder
<1> HIDE DEF lost
<1>5. lost \in SUBSET Jobs
  BY DEF lost
<1> QED BY <1>1, <1>3, <1>4, <1>5, ForgetIsForget, SameListSameStatus

LEMMA StepMapped ==
    ASSUME FileInvariant, Mapped, Mapped', [Next]_vars
    PROVE  [Job!Next]_(Job!lifecycle)
<1>1. ASSUME NEW j \in Jobs, AddStep(j) \/ CrashAdder(j) PROVE SomeStep
  BY <1>1, AdderMapped
<1>2. ASSUME UNCHANGED <<jobs, held, unmarked>> PROVE SomeStep
  BY <1>2, NoStep, SameListSameStatus, SameHeldSameHolder
<1>3. ASSUME NEW n \in Nodes, FetchStep(n) PROVE SomeStep
  <2>1. CASE WriteQueued(n)
    BY <2>1, GetJobsMapped
  <2>2. CASE OpenToGetJobs(n) \/ WriteQueuedThrows(n)
    BY <1>2, <2>2 DEF OpenToGetJobs, Open, WriteQueuedThrows, WriteFails
  <2> QED BY <1>3, <2>1, <2>2 DEF FetchStep
<1>4. ASSUME NEW n \in Nodes, MarkStep(n) PROVE SomeStep
  <2>1. CASE WriteMarked(n)
    BY <2>1, MarkMapped
  <2>2. CASE WriteMarkedThrows(n) \/ \E e \in held[n] : MarkThrows(n, e)
    BY <2>2, MarkThrowsMapped
  <2>3. CASE \E e \in held[n] : OpenToMark(n, e)
    BY <1>2, <2>3 DEF OpenToMark, Open
  <2> QED BY <1>4, <2>1, <2>2, <2>3 DEF MarkStep
<1>5. ASSUME NEW n \in Nodes, CrashNode(n) PROVE SomeStep
  BY <1>5, CrashNodeMapped
<1>6. ASSUME Tick \/ UNCHANGED vars PROVE SomeStep
  BY <1>2, <1>6 DEF Tick, vars
<1> QED BY <1>1, <1>3, <1>4, <1>5, <1>6 DEF Next, SomeStep

\* The file store implements the life of a job: calls that overlap, processes that die
\* in the middle of one, and calls that throw, on an intact file too, are steps of it
\* or none.
THEOREM FileStoreImplementsLifecycle == Spec => ImplementsLifecycle
<1>1. Init => Job!Init
  <2> SUFFICES ASSUME Init PROVE Job!Init
    OBVIOUS
  <2>1. \A j \in Jobs : jobs[j].status = "Absent" /\ jobs[j].retryCount = 0
    BY DEF Init, AbsentJob
  <2>2. \A j \in Jobs : StatusOf(j) = "NotAdded"
    BY <2>1 DEF StatusOf, IsBegun
  <2>3. \A j \in Jobs : HolderOf(j) = NoNode
    BY DEF Init, HolderOf, HeldBy
  <2> QED BY <2>1, <2>2, <2>3 DEF Job!Init
<1>2. FileInvariant => Mapped
  BY HeldOnceIsNamed, StatusIsAlwaysRead DEF Mapped, FileInvariant
<1>3. FileInvariant /\ Mapped /\ Mapped' /\ [Next]_vars => [Job!Next]_(Job!lifecycle)
  BY StepMapped
<1> QED BY <1>1, <1>2, <1>3, Invariance, PTL DEF Spec, ImplementsLifecycle, Job!Spec

=============================================================================
