------------------------- MODULE FileSystemJobQueue -------------------------
(***************************************************************************)
(* The file system job store: all jobs are one JSON list in one file.       *)
(* Every call opens the file for itself alone (FileShare.None, spinning     *)
(* while it is open elsewhere), reads the list, changes it in memory, sets  *)
(* the length of the file to that of the new text, and writes the text.     *)
(* A call is two actions: up to SetLength, and from Write to the closing.   *)
(* Between them the file holds neither list.                                *)
(*                                                                          *)
(* Nodes are queue processors as in SqlJobQueue: the layer actor makes one  *)
(* call at a time and marks a batch before it fetches the next.             *)
(***************************************************************************)
EXTENDS Naturals, FiniteSets

CONSTANTS
    Jobs,               \* the jobs that are ever added, one GUID each
    Nodes,              \* the queue processors that share the file
    NoNode,             \* nobody holds the job, or has the file open
    FetchSize,          \* GetJobs.FetchSize, the worker count of a node
    MaxRetries,         \* per job: RetryParameters.MaxRetries
    MinRetryWait,       \* RetryParameters.MinRetryWait
    Unresolvable,       \* jobs that come back with TypeExecutedOn = null
    Faults,             \* the faults that may happen, see FaultKinds
    MaxTime             \* bound: the clock stops here

\* "crash":     a process dies, also between SetLength and Write
\* "torn":      then the file may have been shortened, and cut the list
\* "lostFetch": the answer of GetJobs comes after the 30 s Ask
\* "ioError":   a call throws an IOException that is no sharing violation: access
\*              denied, a failing or full disk
FaultKinds == {"crash", "torn", "lostFetch", "ioError"}

ASSUME FileAssumption ==
    /\ NoNode \notin Nodes \cup Jobs
    /\ Nodes \cap Jobs = {}
    /\ FetchSize \in Nat \ {0}
    /\ MaxRetries \in [Jobs -> Nat]
    /\ MinRetryWait \in Nat
    /\ Unresolvable \subseteq Jobs
    /\ Faults \subseteq FaultKinds
    /\ MaxTime \in Nat

VARIABLES
    now,      \* DateTime.Now, the same on every host
    text,     \* what the file would be read as if its user died now
    jobs,     \* the list that was last written
    user,     \* who has the file open, and what the call will write
    adder,    \* how far the AddJob call of each job has come
    held,     \* the jobs a node has fetched and not yet written off
    unmarked  \* history: jobs that were begun although InProgress was not written

vars == <<now, text, jobs, user, adder, held, unmarked>>

----------------------------------------------------------------------------
(* The file *)

\* "none": missing or empty; "zeros": nothing but zero bytes, which are read as
\* a null list; "broken": a list cut short, which is not read at all.  Zero bytes
\* behind a list are skipped by the reader.
Texts == {"none", "list", "zeros", "broken"}

\* A null LastAttempt; the clock starts at 1.
NoTime == 0

AbsentJob == [status |-> "Absent", retryCount |-> 0, lastAttempt |-> NoTime,
              created |-> NoTime]

Nobody == [who |-> NoNode, op |-> "none", entries |-> {}, jobs |-> << >>]

\* FileShare.None: opening throws a sharing violation, and is tried again.
FileIsFree == user = Nobody

\* Mutant: an unreadable file is taken for an empty one.
AdderReadsAnything == TRUE

\* The adder starts a list in an empty file; the manager has none to filter.
AdderReads == text \in {"none", "list"}
ManagerReads == text = "list"

\* What SetLength leaves.  The text grows or stays as long unless a status
\* gets shorter or a date that was set before is set again (dates are written
\* without trailing zeros).
AfterSetLength(mayShrink) ==
    CASE text = "none" -> {"zeros"}
      [] text # "none" /\ mayShrink /\ "torn" \in Faults -> {text, "broken"}
      [] OTHER -> {text}

Open(who, op, entries, new, mayShrink) ==
    /\ FileIsFree
    /\ text' \in AfterSetLength(mayShrink)
    /\ user' = [who |-> who, op |-> op, entries |-> entries, jobs |-> new]
    /\ UNCHANGED <<now, jobs, held, unmarked>>

\* Write, and the end of the using block.
WriteAndClose(who, ops) ==
    /\ user.who = who
    /\ user.op \in ops
    /\ text' = "list"
    /\ jobs' = user.jobs
    /\ user' = Nobody
    /\ UNCHANGED now

\* Opening or reading throws, and the list is as it was.
IOFails == "ioError" \in Faults /\ FileIsFree

\* SetLength or Write throws; a part of the new text may be in the file.
WriteFails(who) ==
    /\ "ioError" \in Faults
    /\ user.who = who
    /\ text' \in {text, "broken"}
    /\ user' = Nobody
    /\ UNCHANGED <<now, jobs>>

----------------------------------------------------------------------------
(* AddJob *)

\* CreatedOn is read before the file is opened.
CreateJob(j) ==
    /\ adder[j].step = "start"
    /\ adder' = [adder EXCEPT ![j] = [step |-> "created", at |-> now]]
    /\ UNCHANGED <<now, text, jobs, user, held, unmarked>>

\* Mutant: CreatedOn lies in the future.
NewJobLater(t) == [AbsentJob EXCEPT !.status = "New", !.created = t + 1]

\* The execution time AddJob is given is not kept.
NewJob(t) == [AbsentJob EXCEPT !.status = "New", !.created = t]

OpenToAdd(j) ==
    /\ adder[j].step = "created"
    /\ AdderReads
    /\ Open(j, "AddJob", {}, [jobs EXCEPT ![j] = NewJob(adder[j].at)], FALSE)
    /\ adder' = [adder EXCEPT ![j].step = "writing"]

WriteAdded(j) ==
    /\ WriteAndClose(j, {"AddJob"})
    /\ adder' = [adder EXCEPT ![j].step = "added"]
    /\ UNCHANGED <<held, unmarked>>

\* The file, the serializer, or a null list.
AddThrows(j) ==
    /\ adder[j].step = "created"
    /\ (FileIsFree /\ ~AdderReads) \/ IOFails
    /\ adder' = [adder EXCEPT ![j].step = "threw"]
    /\ UNCHANGED <<now, text, jobs, user, held, unmarked>>

WriteAddedThrows(j) ==
    /\ WriteFails(j)
    /\ adder' = [adder EXCEPT ![j].step = "threw"]
    /\ UNCHANGED <<held, unmarked>>

----------------------------------------------------------------------------
(* GetJobs *)

\* Mutant: a job that was handed out counts as one to be tried again.
FetchableQueued(j) ==
    \/ jobs[j].status = "New"
    \/ /\ jobs[j].status \in {"Retry", "Queued"}
       /\ jobs[j].retryCount <= MaxRetries[j]
       /\ jobs[j].lastAttempt = NoTime \/ jobs[j].lastAttempt + MinRetryWait < now

Fetchable(j) ==
    \/ jobs[j].status = "New"
    \/ /\ jobs[j].status = "Retry"
       /\ jobs[j].retryCount <= MaxRetries[j]
       /\ jobs[j].lastAttempt = NoTime \/ jobs[j].lastAttempt + MinRetryWait < now

FetchableJobs == {j \in Jobs : Fetchable(j)}

\* OrderBy the earlier of CreatedOn and LastAttempt, which is CreatedOn.
Batches ==
    {S \in SUBSET FetchableJobs :
        /\ Cardinality(S) = IF Cardinality(FetchableJobs) < FetchSize
                              THEN Cardinality(FetchableJobs) ELSE FetchSize
        /\ \A j \in S, k \in FetchableJobs \ S : jobs[j].created <= jobs[k].created}

QueuedJobs(S) == [j \in Jobs |-> IF j \in S THEN [jobs[j] EXCEPT !.status = "Queued"]
                                            ELSE jobs[j]]

\* The copy of a job a node gets.
Entry(j) == [job |-> j, retries |-> jobs[j].retryCount, at |-> now, stage |-> "fetched"]

\* The layer actor makes one call at a time, and the InProgress writes of a
\* batch before anything else.
LayerFree(n) == user.who # n
BatchMarked(n) == LayerFree(n) /\ \A e \in held[n] : e.stage # "fetched"

\* When it throws here, the coordinator gets no jobs, and nothing has changed.
OpenToGetJobs(n) ==
    /\ BatchMarked(n)
    /\ ManagerReads
    /\ \E S \in Batches :
           Open(n, "GetJobs", {Entry(j) : j \in S}, QueuedJobs(S),
                \E j \in S : jobs[j].status = "Retry")
    /\ UNCHANGED adder

WriteQueued(n) ==
    /\ WriteAndClose(n, {"GetJobs"})
    /\ \/ held' = [held EXCEPT ![n] = @ \cup user.entries]
       \/ "lostFetch" \in Faults /\ UNCHANGED held
    /\ UNCHANGED <<adder, unmarked>>

WriteQueuedThrows(n) ==
    /\ user.op = "GetJobs"
    /\ WriteFails(n)
    /\ UNCHANGED <<adder, held, unmarked>>

----------------------------------------------------------------------------
(* The Mark* writes, in the order the coordinator sends them *)

\* Mutant: the retry count is left as it is.
MarkedUncounted(r, op, t) ==
    CASE op = "InProgress" -> [r EXCEPT !.status = "In-Progress"]
      [] op = "Success" -> [r EXCEPT !.status = "Processed"]
      [] op = "Failed" -> [r EXCEPT !.status = "Failed"]
      [] op = "Retry" -> [r EXCEPT !.status = "Retry", !.lastAttempt = t]

Marked(r, op, t) ==
    CASE op = "InProgress" -> [r EXCEPT !.status = "In-Progress"]
      [] op = "Success" -> [r EXCEPT !.status = "Processed"]
      [] op = "Failed" -> [r EXCEPT !.status = "Failed"]
      [] op = "Retry" -> [r EXCEPT !.status = "Retry", !.lastAttempt = t,
                                   !.retryCount = @ + 1]

\* What the coordinator makes of the job, by the copy it has.
Orders(e) ==
    IF e.stage = "fetched"
      THEN IF e.job \in Unresolvable THEN {"Failed"} ELSE {"InProgress"}
      ELSE {"Success"} \cup (IF MaxRetries[e.job] <= e.retries THEN {"Failed"}
                                                               ELSE {"Retry"})

\* The layer actor has come to the write: one of the batch, or an outcome.
MayMark(n, e) == IF e.stage = "fetched" THEN LayerFree(n) ELSE BatchMarked(n)

\* LastAttempt is the time at which the coordinator heard of the failure.
OpenToMark(n, e) ==
    /\ MayMark(n, e)
    /\ ManagerReads
    /\ \E op \in Orders(e), t \in e.at..now :
           Open(n, op, {e}, [jobs EXCEPT ![e.job] = Marked(@, op, t)],
                op = "Success" \/ (op \in {"InProgress", "Retry"} /\ e.retries > 0))
    /\ UNCHANGED adder

\* After the InProgress write the job runs; after the others it is done with.
GoesOn(n, e) ==
    held' = [held EXCEPT ![n] =
               (@ \ {e}) \cup IF e.stage = "fetched" /\ e.job \notin Unresolvable
                                THEN {[e EXCEPT !.stage = "running"]} ELSE {}]

WriteMarked(n) ==
    /\ WriteAndClose(n, {"InProgress", "Success", "Failed", "Retry"})
    /\ \A e \in user.entries : GoesOn(n, e)
    /\ unmarked' = unmarked \ {e.job : e \in user.entries}
    /\ UNCHANGED adder

\* The layer actor logs the exception and goes on with the next message.
GoesOnUnwritten(n, e) ==
    /\ GoesOn(n, e)
    /\ unmarked' = IF e.stage = "fetched" /\ e.job \notin Unresolvable
                     THEN unmarked \cup {e.job} ELSE unmarked

MarkThrows(n, e) ==
    /\ MayMark(n, e)
    /\ (FileIsFree /\ ~ManagerReads) \/ IOFails
    /\ GoesOnUnwritten(n, e)
    /\ UNCHANGED <<now, text, jobs, user, adder>>

WriteMarkedThrows(n) ==
    /\ user.op \in {"InProgress", "Success", "Failed", "Retry"}
    /\ WriteFails(n)
    /\ \A e \in user.entries : GoesOnUnwritten(n, e)
    /\ UNCHANGED adder

----------------------------------------------------------------------------
(* Crashes, and time *)

Closed(who) == user' = IF user.who = who THEN Nobody ELSE user

CrashNode(n) ==
    /\ "crash" \in Faults
    /\ held[n] # {} \/ user.who = n
    /\ Closed(n)
    /\ held' = [held EXCEPT ![n] = {}]
    /\ UNCHANGED <<now, text, jobs, adder, unmarked>>

CrashAdder(j) ==
    /\ "crash" \in Faults
    /\ adder[j].step \in {"created", "writing"}
    /\ Closed(j)
    /\ adder' = [adder EXCEPT ![j].step = "abandoned"]
    /\ UNCHANGED <<now, text, jobs, held, unmarked>>

Tick ==
    /\ now < MaxTime
    /\ now' = now + 1
    /\ UNCHANGED <<text, jobs, user, adder, held, unmarked>>

----------------------------------------------------------------------------

Init ==
    /\ now = 1
    /\ text = "none"
    /\ jobs = [j \in Jobs |-> AbsentJob]
    /\ user = Nobody
    /\ adder = [j \in Jobs |-> [step |-> "start", at |-> NoTime]]
    /\ held = [n \in Nodes |-> {}]
    /\ unmarked = {}

AddStep(j) == CreateJob(j) \/ OpenToAdd(j) \/ WriteAdded(j) \/ AddThrows(j)
              \/ WriteAddedThrows(j)

FetchStep(n) == OpenToGetJobs(n) \/ WriteQueued(n) \/ WriteQueuedThrows(n)

MarkStep(n) == \/ \E e \in held[n] : OpenToMark(n, e) \/ MarkThrows(n, e)
               \/ WriteMarked(n) \/ WriteMarkedThrows(n)

Next ==
    \/ \E j \in Jobs : AddStep(j) \/ CrashAdder(j)
    \/ \E n \in Nodes : FetchStep(n) \/ MarkStep(n) \/ CrashNode(n)
    \/ Tick

Spec == Init /\ [][Next]_vars

----------------------------------------------------------------------------
(* Properties *)

JobType == [status : {"Absent", "New", "Queued", "In-Progress", "Retry",
                      "Processed", "Failed"},
            retryCount : Nat, lastAttempt : 0..now, created : 0..now]

EntryType == [job : Jobs, retries : Nat, at : 1..now, stage : {"fetched", "running"}]

Ops == {"AddJob", "GetJobs", "InProgress", "Success", "Failed", "Retry"}

UserType == {Nobody} \cup [who : Jobs \cup Nodes, op : Ops,
                           entries : SUBSET EntryType, jobs : [Jobs -> JobType]]

AdderType == [step : {"start", "created", "writing", "added", "threw", "abandoned"},
              at : 0..now]

\* Types; no time is later than the clock.
TypeOK ==
    /\ now \in Nat \ {0}
    /\ text \in Texts
    /\ jobs \in [Jobs -> JobType]
    /\ user \in UserType
    /\ adder \in [Jobs -> AdderType]
    /\ held \in [Nodes -> SUBSET EntryType]
    /\ unmarked \subseteq Jobs

\* A job runs from when its node begins it, whether or not that was written.
IsBegun(j) == \/ jobs[j].status = "In-Progress"
              \/ jobs[j].status = "Queued" /\ j \in unmarked

StatusOf(j) ==
    CASE IsBegun(j) -> "Running"
      [] jobs[j].status = "Absent" -> "NotAdded"
      [] jobs[j].status \in {"New", "Retry", "Queued"} /\ ~IsBegun(j) -> "Waiting"
      [] OTHER -> jobs[j].status

HeldBy(n, j) == \E e \in held[n] : e.job = j

HolderOf(j) == IF \E n \in Nodes : HeldBy(n, j)
                 THEN CHOOSE n \in Nodes : HeldBy(n, j)
                 ELSE NoNode

Job == INSTANCE JobLifecycle WITH
           status <- [j \in Jobs |-> StatusOf(j)],
           holder <- [j \in Jobs |-> HolderOf(j)],
           retries <- [j \in Jobs |-> jobs[j].retryCount]

\* Rewriting the whole file makes each call atomic, for calls that overlap, die half
\* way or throw: no update is lost, no job is held by two nodes, tried beyond its
\* budget, or revived.  Not even a job whose InProgress write threw, and which runs
\* as Queued: a Queued job has no lease to run out.  (A list that was cut short counts
\* as what it was: nobody can read it any more.)
ImplementsLifecycle == Job!Spec

\* A job that is Queued or In-Progress is changed by a call of the node that holds it
\* and by no other, though every call rewrites it, and comes to no other node.  The
\* other side of this: one whose fetch was lost, or whose node died, is never offered
\* again, as GetJobs' Queued has no lease.
OnlyHolderMoves ==
    [][\A j \in Jobs : jobs[j].status \in {"Queued", "In-Progress"} =>
           /\ jobs'[j] # jobs[j] => \E n \in Nodes : user.who = n /\ HeldBy(n, j)
           /\ \A n \in Nodes : HeldBy(n, j)' => HeldBy(n, j)]_vars

Damaged == FileIsFree /\ text \in {"zeros", "broken"}

\* A file that a crash or a failed write has left unreadable is noticed by every
\* later call: none takes it for an empty queue and sets out to write over what it still holds,
\* and no AddJob returns as if its job had been stored.
DamageIsNoticed ==
    [][Damaged => /\ Damaged' /\ text' = text
                  /\ \A j \in Jobs : adder'[j].step = "added" => adder[j].step = "added"]_vars

=============================================================================
