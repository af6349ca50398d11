# OddJob: TLA+ models, checks and proofs

OddJob is a library for job queues: an application *adds* jobs (a method call, frozen as data)
to a store, and any number of *queue-processing nodes* fetch them, run them, and write back what
became of them; operators look at jobs and edit them on a web page. The models here cover both job
stores as several processes use them at once, the Akka.NET engine from the sweep that fetches jobs
to the orderly shutdown of a process, its priority mailbox, and the search page. An abstract
specification says what the life of a job is, and both stores and the engine are shown to
implement it.

## 1. The system

| Component | State it keeps | Operations | Talks to |
|---|---|---|---|
| SQL job store, `BaseSqlJobQueueManager` | queue table: status, lock GUID, lock time, last attempt, retry count, dates | `GetJobs`, `MarkJobInProgress/Success/Failed`, `MarkJobInRetryAndIncrement`, `UpdateJob*`, searches | called by layer actors of many processes, and by the job manager UI |
| SQL adder, `BaseSqlJobQueueAdder` | the same table and two child tables (parameters, generic types) | `AddJob`, `AddJobs` | called by any application process |
| SQL purger, `BaseSqlJobQueuePurger` | the same three tables | `PurgeQueue` | called by an administrator |
| File system store | one JSON file, rewritten by every operation | `AddJob`, `GetJobs`, `Mark*` | as the SQL store |
| Queue coordinator, `JobQueueCoordinator` | pending count, shutdown flag and count, saturation counters | sweeps, `JobSuceeded`, `JobFailed`, `ShutDownQueues`, `QueueShutDown` | asks and tells the layer actor; tells the worker pool |
| Layer actor, `JobQueueLayerActor` | none but its mailbox | one store call per message; a failed one is logged and dropped | store |
| Worker, `JobWorkerActor` | the job it runs | `ExecuteJobRequest`, `ShutDownQueues` | answers the coordinator |
| Mailbox, `ShutdownPriorityMailbox` | an array heap of messages with two priorities | enqueue, dequeue | in front of the coordinator |
| Shell, `JobExecutorShell` | dictionaries of coordinators and of cancel tokens; timers; actor names | `StartJobQueue`, `ShutDownQueue`, `Dispose` | coordinators, scheduler |
| Search page, `Client.cs` on WebSharper's reactive runtime | results view, list of jobs, its rows, entered values | search, enter, update | web server, by remote calls |
| Thread pool engine | a concurrent queue, a pending count, a timer | pulse, executor loop, shutdown | any store |
| Job creation, serialization, execution | none | expression trees to data and back; reflection | |
| Samples, Linq2Db helpers, SQLite / SQL Server providers | none that matters here | | store |

What is hard about it:

* **Several processes, no transaction.** The SQL store opens none. `GetJobs` is an UPDATE that
  claims rows and a SELECT that reads them back; `AddJob` is four statements; `PurgeQueue` is
  three; an edit is one UPDATE and one more for each parameter. None of the `Mark*` statements
  tests the status or the lock of the row it overwrites. That a job is run by one node at a time
  rests on the claim, on a lease of 180 s, and on the order of messages.
* **One file.** The file store has a lock (`FileShare.None`), but it first sets the length of the
  file and then writes it, and a process may die in between.
* **Asynchronous writes.** The coordinator sends a job to a worker *before* it sends the InProgress
  write, and never learns whether a write was made. The layer actor drops writes that throw, of
  either store; the lease of a claim runs out by time alone, whatever the job is doing.
* **Blocking asks.** The coordinator blocks on `GetJobs` for at most 30 s (its answer may come to
  nobody) and on the final flush without a limit. The shell blocks on 10 s for the configuration
  and on a time-out of the caller's for the shutdown, and throws when they run out.
* **Mailbox order.** Layer actor and workers are FIFO. The coordinator's mailbox puts
  `ShutDownQueues` first and keeps *no* order among the other messages.
* **Names outlive entries.** A coordinator keeps its actor name until it has stopped, which is
  after, and independent of, its leaving the shell's dictionary.
* **Two awaits per search, one sink per page.** A newer search may begin, and end, between the
  awaits; and nothing is shown before every view of the page is ready.
* **Time.** Leases, retry waits and execution times are compared with `DateTime.Now` read at
  different moments of one call.

`PROJECT.json` lists every hazard at the line where it bites, with the properties that would catch
it or the reason there is none.

What makes the parts correct: a store hands a job to one node at a time, complete and not early,
and never revives a finished one; the SQL store, whose claims are leases, loses no job for good to a
lost fetch (the file store does); the coordinator
keeps the number of jobs in the node bounded and knows it exactly, keeps the writes of a job in
order, stops its workers without cutting off a job, and always answers a shutdown; the shell
controls every timer that runs and never terminates a queue that is still at work; the page, once
at rest, shows the last search and sends what was entered.

## 2. Modules

| Module | What it models |
|---|---|
| `JobLifecycle` | abstract: what stores and nodes promise of each job |
| `SqlJobQueue` | SQL adder, `GetJobs` and `Mark*`, purger; one action per SQL statement, many nodes, a clock |
| `SqlJobQueueLifecycle` | the mapping of `SqlJobQueue` to `JobLifecycle` |
| `SqlJobQueueEdits` | `SqlJobQueue` and an operator who edits jobs |
| `FileSystemJobQueue` | the file store and its mapping to `JobLifecycle` |
| `JobQueueCoordinator` | one queue of one node: coordinator, layer actor, workers, shell; one action per message handled |
| `CoordinatorLifecycle` | the mapping of `JobQueueCoordinator` to `JobLifecycle` |
| `PriorityBag` | abstract: a mailbox of two priorities without order among equals |
| `ShutdownPriorityMailbox` | operators: the array heap that Akka's mailbox is |
| `SaturatedQueue` | a coordinator with more work than workers, behind that heap |
| `JobExecutorShell` | the shell: dictionaries, timers, actor names, Asks that time out, Dispose |
| `JobSearch` | the search page: overlapping searches, the list, rows and updates |
| `MC*` | small instances for TLC |
| `*_proofs` (eight) | theorems |

### `JobLifecycle`

A job is NotAdded, Waiting, Running, Processed, Failed or Purged, has a holder or none, and a count
of retries. `Take` gives a node jobs that wait, that nobody holds and that may still be tried;
`Start`, `Reject`, `Succeed`, `Fail` and `Retry` are the holder's, and demand the status that the
code's statements do *not* test; `Forget` is a crash or a lost outcome; `Purge` takes ended jobs.
There are no statements, leases, files or mailboxes in it: that these add up to this is what the
refinements say. A queue may hold jobs from before, so that a node may be seen without an adder.

### `SqlJobQueue`

`row` is the queue table with the columns `GetJobs` decides on, `child` says which child tables
hold rows of a job, `now` is the clock. `adder[j]`, `fetch[n]` and `purge` are the program counters
and local variables of `AddJob`, `GetJobs` and `PurgeQueue`; `held[n]` is the set of jobs that node
`n` has fetched and not yet written off, each with the GUID, the time and the retry count of the
copy it got. `succeeded` is a history variable.

* `GetJobs` is `BeginFetch` (take GUID and time), `ClaimJobs` (the UPDATE) and `SelectClaimed` (the
  SELECT). The claim's WHERE clause is `Eligible`, its ORDER BY and TOP are `IsOldestBatch`, with
  ties broken either way. The layer actor always orders by `MostRecentDate`.
* The `Mark*` writes are actions of the same names. `Update` writes the row whatever its status, as
  the code does. Their order is that of the layer actor's FIFO mailbox: nothing of a node is
  written during its `GetJobs` (`LayerFree`), and the InProgress writes of a batch come before the
  node's next fetch or outcome (`BatchMarked`), because the coordinator sends them before it
  handles another message. `JobQueueCoordinator` has these mailboxes in full.
* Faults are a constant set: a crash of node, adder or purger between two statements, a fetch whose
  answer is lost (an exception, or the 30 s Ask), a dropped InProgress write, a dropped outcome
  write, and a node that takes longer than the lease to write InProgress (`late`).
* `RetriesExhausted` is the coordinator's decision, on the fetched retry count, not the stored one.

`SqlJobQueueLifecycle` maps a row to a status (a row before its publishing UPDATE is no job yet)
and `held` to the holder.

`SqlJobQueueEdits` adds `UpdateJobMetadataAndParameters`: `BeginEdit`, `EditRow` and `EditParam`
are its statements. The only guard is the row's status, and none is required by the edits that the
UI sends (`OldStatuses` has `NoStatus`). Edits are followed in *pieces* (the row, and each parameter
by its ordinal); of what they write only a status matters to the nodes. A parameter's UPDATE that
finds no row ends the call with false, and what came before it stays: the code opens no transaction,
and nothing in the repository calls it inside one. A parameter with nothing to set has no statement.
One call of the operator's runs at a time; pieces of two calls may mix, which
BaseSqlJobQueueManager.cs:167-170 concedes. Histories: `edited` (the parameters the job's last call
has written), `promised` (what a call that made the job New and returned true was to write), and
`disturbed`, the jobs that were taken from under the lease that protects them: a status was set by
an edit that requires none, or InProgress or Inserting, while the job ran or was being added
(`TakesAway`), or its InProgress write was dropped or later than its lease.

Assumed of what is not in the repository: each SQL statement is atomic (SQLite does this; on SQL
Server it depends on isolation level and plan, since the UPDATE of `GetJobs` reads the table in a
sub-query), GUIDs in use are distinct, and all hosts have one clock that never goes back.
Abstracted: queue names (one queue), parameter data, and the type resolver, which answers null for
the jobs in `Unresolvable`. One tick stands for any length of time.

### `FileSystemJobQueue`

A call is two actions, `Open` (read the list, decide, `SetLength`) and `WriteAndClose`; `user` is
who has the file open and what the call is going to write. `text` is what a reader would find if
the user died now: a list, zero bytes (`SetLength` on an empty file), or a list cut short. Two
readings of it matter: the adder takes an empty file for an empty list (`AdderReads`), the manager
throws (`ManagerReads`). A status that becomes shorter shortens the file; longer text leaves zero
bytes behind the old list, which the reader skips. `Fetchable`, `Batches` and `Marked` are the
decisions of `GetJobs` and the `Mark*` calls. A fetched job is `Queued`, and nothing fetches a
Queued job again: there is no lease. A call may throw before it has changed the file (`IOFails`: any
`IOException` but a sharing violation is rethrown) or out of `SetLength` or `Write`, which leaves what a
crash there would (`WriteFails`). The caller of `AddJob` and the coordinator that asked for jobs are
told; a `Mark*` call that throws is logged by the layer actor and forgotten, so that a job may run
while its entry still says Queued: `unmarked` remembers which, for the mapping. The code retries an
open on the HResult of a Windows sharing violation; the model assumes that host. A crash is of the
process, not of the machine.

### `JobQueueCoordinator`

`step` says whether the coordinator is between two messages, blocked in one of its two Asks, or in
the loop over a fetched batch; `PendingItems`, `ShuttingDown` and `ShutdownCount` are the fields of
the class. `inbox` is its mailbox as counts and sets by kind of message, since any of the best
priority may be next; `layerBox` and `workerBox` are sequences. The store appears as the rows the
layer actor writes; which eligible jobs a fetch returns is left open, as `SqlJobQueue` has the
details. A lease may run out at any moment, also that of a job that waits or runs (`LeaseExpires` has
no guard but the lease). Dropped writes are two faults, `dropInProgress` and `dropOutcome`. With the
first a running job can be fetched again; batches, mailboxes, workers and results therefore hold
*copies*, a job with the retry count that it was fetched with, and a job may be there twice.

Each branch of `JobQueueCoordinator.Receive` is an action: `Sweep`, `SweepSaturated`,
`IgnoreSweep`, `AskTimesOut`, `Dispatch` (one round of the loop; other actors run meanwhile),
`ReceiveResult`, `ReceiveShutDownQueues`, `ReceiveQueueShutDown`, `ReceivePoisonPill`; likewise the
branches of layer actor and worker. Left out: the `On*` hooks, which are empty by default and whose
exceptions are caught, and the saturation counters that only feed them.

`CoordinatorLifecycle` maps the store's rows to statuses, and says that a job is in the node's hands
from the moment `GetJobs` answers with it until its outcome is *written*: in the batch, with a
worker, in a result on its way, or in a write that waits in the layer actor's mailbox.

### `ShutdownPriorityMailbox`, `PriorityBag`, `SaturatedQueue`

`JobQueueCoordinator` takes its mailbox to be a bag. Akka 1.3.9's `UnboundedPriorityMailbox` is an
array heap: a new message rises while strictly better than its parent, and taking the root moves
the *last* message there, which sinks. With `[QueueShutDown, JobSuceeded, QueueShutDown]` both
`QueueShutDown` messages are received before the `JobSuceeded` sent ahead of one of them. The heap
is not in the repository; its operators are marked external. `SaturatedQueue` puts the coordinator
of a busy queue behind it, with jobs counted rather than named, and shows that the heap implements
the bag, hence that every order of the heap is one of the coordinator's model. What a heap may do
and a fair bag may not, delay a message for ever, is checked there.

### `JobExecutorShell`

`coordinatorPool` and `cancelPulsePool` are the dictionaries, `pulsing` the timers that go on,
`actor[q]` the life of whoever bears the queue's actor name, `call` the call under way. One thread
calls the shell, since the dictionaries are not made for more; the actors run meanwhile.
`StartJobQueue`, `ShutDownQueue` and `Dispose` begin a call; `...Completes`, `...TimesOut` and
`Throws` end it. A coordinator is seen as far as the shell can tell. `StartNameTaken` is a start
that finds the actor name taken: after a call that threw, and also right after a shutdown that
returned, which has sent a PoisonPill and waits for nothing.

### `JobSearch`

Searches are numbered. `Trigger` is a click: it makes the results view's snapshot obsolete;
`BeginSearch` is the sink's loop asking for a new one; `MethodsArrive` and `JobsArrive` are the
continuations of `CreateSearchResults` after its two awaits; `ReturnResults` marks the snapshot
done, if nothing has made it obsolete meanwhile. `Row` is `MapSeqCachedBy`: the row of a key found
again is used again, with the item it captured. The page has one sink, over all its views at once
(`Map2Unit`), and the queue names that it asks for when it is loaded are one of them: `Sync` puts
results into the document only when the names are there too (`NamesArrive`), and when that call fails
(`NamesFail`) nothing is ever shown. The definitions for the reactive runtime are translated from the
WebSharper code that ships in the repository, of what these views use.

## 3. What TLC checks

| Run | Instance | Shows | Distinct states |
|---|---|---|---|
| `SqlStore` | 2 nodes, 2 jobs (a retry; a missing type and an execution time), 3 GUIDs, fetches of 2, lease 1, wait 1, purge of Failed, crash / lostFetch / dropOutcome, time to 3 | one holder per job, whose view is the row; retry budget; finished jobs stay so; nothing early; nothing handed out without its child rows; the life of a job | 804,763 |
| `SqlSettles` | 1 node, 2 jobs, 3 GUIDs, lostFetch, time to 4, fairness | every added job ends Processed or Failed | 176,328 |
| `SqlDroppedWrite` | 1 node, 1 job, 4 GUIDs, dropInProgress, time to 6 | **violated**: a succeeded job is picked up again | |
| `SqlEdits` | 2 nodes, 1 job (a retry, a parameter), 3 GUIDs, lease 0, 2 edits requiring nothing or Failed and setting nothing, New or Failed, purge of Failed, crash, time to 2 | which edits give a job to a second node; a job made New is handed out with the edit's arguments | 2,033,904 |
| `FileStore` | 2 nodes, 3 jobs (a retry, a missing type), fetches of 2, crash / lostFetch / torn / ioError, time to 2 | the life of a job; only its holder changes a job that was handed out; damage is noticed by every later call | 205,392 |
| `CoordinatorShutdown` | 2 workers, 3 jobs (a retry, a missing type), lostFetch / giveUp, leases run out at any time | pending count exact, no job there twice, store current when drained, writes in order, quiet after the answer; the life of a job | 613,612 |
| `CoordinatorShutdownLive` | 1 worker, 2 jobs that may each be there twice, aggressive sweep, 2 asks, lostFetch / dropInProgress / dropOutcome, fairness | at most 3\*1-1 pending, the count exact; shutdown is answered | 288,837 |
| `CoordinatorLostCompletion` | 2 workers, 2 jobs, no fault | **violated**: a completed job stays InProgress | |
| `Saturation` | 2 workers, both sweep modes, 3 unread sweeps, fairness | the heap is the bag; plain saturation ends; shutdown is answered even under aggressive sweeps | 44,374 |
| `SaturationAggressive` | 1 worker, aggressive, 2 unread sweeps, fairness | **violated**: the saturation ends | |
| `Shell` | 2 queues, both Asks may time out | timers controlled, no dead actor in the dictionary, no queue cut off by Dispose, nothing stranded but by a call that threw | 1,121 |
| `JobSearch` | 2 jobs, 3 searches, 1 update at a time, failures (the queue names' too) and overtaking answers, fairness | a page at rest is current; updates carry what was entered; no click is lost | 918,875 |

Bounds. `MaxTime` ends the clock. In `SqlStore`, with a lease of 1 and a wait of 1, three ticks let
a lease run out and the other node fetch the job; in `SqlSettles` four let a job be lost, fetched
again, fail and be tried once more. Two nodes are the fewest that compete, and every property about
competition is about two nodes and one job. Three GUIDs cover the two fetches under way and a
leftover in a row. One retry against none covers both sides of each comparison of retry counts, and
the boundary at zero. In `FileStore` three jobs and fetches of two leave one behind for the other
node; two ticks let a retry's wait be over. (No property depends on the order of its batch.) In
`SqlEdits` the lease is over with the next tick, so that two ticks are enough for a second node to
claim what a node has lost, and for a third claim after that; two edits are the fewest of which one
can find what another left.
`MaxSweeps` and `MaxAsks` bound unread sweeps and asks; two unread asks are the case of an Ask that
timed out with another behind it. Three unread sweeps in `Saturation` make the heap three levels
deep, with the other messages. In `CoordinatorShutdownLive` two jobs can be three copies and more, as
a dropped InProgress write lets a running job be fetched again; the bound of two copies is not met
for want of jobs, and its mutant passes it. Three searches let one be overtaken on either await,
and still be followed by one that succeeds. Deadlock is not checked: when all jobs are finished
and the clock has stopped, the queue is shut down, or the last search was made, nothing is left to
do.

Fairness. In `SqlJobQueue`: pulses repeat for ever, so fetches begin and their statements are
executed; a started AddJob goes on; the clock ticks; InProgress writes are made; and the outcome of
a running job is *strongly* fair, since it waits in a FIFO mailbox behind GetJobs calls each of
which holds it up once. Nothing is assumed about crashes, faults and purges. `EveryJobSettles` has
no crash and no dropped write: the code has no recovery for a row left InProgress (Readme.MD:141
says so), and the run does not pretend otherwise. `LoseFetch` stops while a lease can still run out
before the clock's bound. In `JobQueueCoordinator`: actors are scheduled fairly, jobs end, and each
kind of message is received in the end. The last is fairness of the mailbox, which the heap does
not give; `SaturatedQueue` assumes only that the coordinator goes on reading, and leaves which
message comes next to the heap. There `ShutdownCompletes` holds again, `ShutDownQueues` being the
one message the heap never delays, while results may be delayed for ever (`SaturationAggressive`).
Pulses come seconds apart: a new one is sent with one unread only while the coordinator is blocked
in an Ask. `LayerStep` is fair as a whole: a message at the head of the layer actor's mailbox is
handled, whether its store call succeeds or throws. Nothing is assumed of leases. Nothing in
`JobExecutorShell` is about progress, and its specification has no fairness. In `JobSearch` the
browser's event loop runs what is queued, and a remote call is answered or fails.

### Where code and documentation disagree

* `SqlDroppedWrite`: Readme.MD:130 says of a succeeded job that "The Queue processor will not pick
  up this job again". The layer actor (JobQueueLayerActor.cs:63) drops a `MarkJobInProgress` that
  throws; the job runs; its lease runs out; it is fetched and run a second time; the first run
  succeeds and is reported, the second fails, and its Retry overwrites Processed.
* `CoordinatorLostCompletion`: JobExecutorShell.cs:142 leaves it open whether a completed job is
  marked only "After Timeout has passed". In an orderly shutdown within the timeout a `JobSuceeded`
  that the heap lets a `QueueShutDown` overtake is written after the flush, or never, as the
  PoisonPill throws the layer actor's mailbox away.
* `SaturationAggressive`: JobExecutorShell.cs:71 has a saturated queue swept again "until the
  saturation condition has ended". The sweep that JobQueueCoordinator.cs:194 makes the coordinator
  send itself has the priority of a job's result, and two sweeps in the heap can keep ahead of a
  `JobSuceeded` for ever: all jobs have ended and the queue stays saturated.
* Without a run of its own: JobExecutorShell.cs:64 says "To reconfigure a queue, first shut it down,
  then call Start again". `ShutDownQueue` returns when it has sent the PoisonPill (line 162), not when
  the actor is gone, and a `StartJobQueue` that comes at once throws InvalidActorNameException out of
  `ActorOf` (line 84): in `JobExecutorShell` `StartNameTaken(q)` is enabled while `actor[q]` is
  "poisoned". Tried again later the call succeeds, unless a call for the queue has thrown before.

What TLC refutes besides, of instances the runs leave out for this reason: `NoJobTwice`,
`DrainedStoreIsCurrent`, `OutcomeFollowsInProgress` and `ImplementsLifecycle` of the coordinator
with `dropInProgress` (the lease of a running job runs out, and it is fetched again);
`FetchedComplete` of the SQL store with purges of New, Retry, InProgress or Inserting rows, which
`PurgeQueue` does not exclude (BaseSqlJobQueuePurger.cs:24): a purge then takes the child rows of a
job between its claim and its read-back. And with an edit that requires no status, which is what the
UI sends, a running job becomes New and runs a second time beside the first; `EditsKeepExclusiveHolder`
says that this and its like are the only edits that do so.

Slips that need no model, met on the way: the file store drops the execution time that AddJob is
given (Readme.MD:43 speaks of it for every queue); the lens of the "created after" date on the
search page sets the "created before" date
(GlutenFree.OddJob.Manager.Presentation.WS/Client.cs:260); the condition for updating a method name
tests another field (the same directory's Remoting.cs:222); the thread pool engine never assigns the
objects its loops use (GlutenFree.OddJob.Execution.ThreadPool/Class1.cs:24).

## 4. What is proved

The theorems hold for every value of the constants that satisfies the modules' `ASSUME`s, and,
where nothing else is said, for every set of faults.

* `SqlJobQueue_proofs`: `TypeCorrect`, by which no date in the table is in the future, and
  `ClaimsAreExclusive`, `HeldAgrees`, `RetryBudgetKept`, `TerminalStaysFinal`, `HandOutsAreInTime`
  and `HandOutsAreComplete`. But for the first they are theorems of `Orderly` instances: no
  InProgress write is dropped, none comes later than its lease, and only Processed and Failed jobs
  are purged. All three are needed: `SqlDroppedWrite` shows what happens without the first two, and
  without the third `HandOutsAreComplete` is false (see above). The
  inductive invariant `ClaimInvariant` follows a claim through the three steps of GetJobs: its GUID is
  nobody else's (`GuidsDistinct`), no row bears it before the UPDATE (`ClaimIsFresh`), the rows that
  bear it after the UPDATE stay as claimed until the SELECT (`ClaimIsKept`), and then until the
  holder writes them (`HeldIsKept`). What keeps others off is that the lease of such a row has not
  run out (`EligibleIsFree`, from `Timely`), and that adder and purger write only rows whose status
  no holder's row has (`Unpublished`). `HandOutsAreComplete` adds `ChildrenAreThere`: a row that can
  be claimed has all its child rows, as the adder publishes it last, and as the purger, which
  deletes children first, only takes rows that are neither claimable nor claimed.
  `StoreImplementsLifecycle`, of the mapping in `SqlJobQueueLifecycle` and for the same instances,
  needs besides `ClaimInvariant` that a row is what its adder's progress says (`AdderIsFollowed`),
  and that the holder the mapping names is the one node that holds the job (`HolderIsNamed`).
* `SqlJobQueueEdits_proofs`: `EditsLeaveClaimsExclusive`, for any edits, purges and faults. An edit
  may change the status of a claimed row under its holder, so `ClaimInvariant` does not survive, and
  the proof rests on leases alone, job by job. `LeaseInvariant` says that GUIDs are their claims' own
  (`GuidsAreOwn`), and of each job outside `disturbed` (`Leased`) that nobody has it before its adder
  has published it (`NotYetPublished`), that the row an UPDATE claimed keeps the claim's time until
  the SELECT and is nobody's till then (`ClaimIsLeased`), and that the row of a job in hand has the
  holder's GUID, and its lease until the job runs, and is InProgress from then on (`HeldIsLeased`). An
  edit writes no lock, so only one that sets the status of a job which runs, or is being added, does
  harm, and that is what `TakesAway` says.
  `RequeuedJobsAreWhole`, where only ended jobs are purged: what a call that returned true was to
  write is written (`PromisesAreKept`), and from the moment the call has made the row New the
  purger's first DELETE passes the job by; if the DELETE came first, an ended job that was edited
  after it either still has its parameters or has its call return false (`HasParamsOrEnded`), and an
  ended job is in nobody's hands (`UnheldWhenEnded`).
* `FileSystemJobQueue_proofs`: `TypeCorrect`, `DamageStaysNoticed`, `OnlyHoldersMoveTakenJobs` and
  `FileStoreImplementsLifecycle`, with every fault. `FileInvariant` says of the list that a job some
  node holds is Queued or In-Progress with the retry count of the node's copy and that nobody else
  holds it (`HeldIsRight`, unless the file is damaged: nodes run on without noticing), that one which
  runs is In-Progress, or Queued because its InProgress write threw (`UnmarkedIsRight`), and of the
  call under way that it is about to write that list with its own change and no other
  (`CallIsRight`).
* `JobQueueCoordinator_proofs`: `TypeCorrect`, and `BackpressureHolds`, the Readme's bound of
  `3*WorkerCount-1`. The bound is not inductive: `PendingBound` says how many jobs may be pending at
  each `step`, as a sweep leaves at most `2*WorkerCount-1` and the batch at most `WorkerCount` more,
  each dispatched job moving from the batch to the count.
  `QuietWhenAnswered`: the coordinator counts `QueueShutDown`
  messages and does not look who sent them, so `ShutdownInvariant` has to say that a shutdown is let
  in once and with no fetched job still to be sent out (`AskedOnce`, `NothingToSend`), that the
  stop is the last message of each worker's FIFO mailbox and that a worker whose mailbox is empty
  then runs nothing (`DuringShutdown`), and that the count and the `QueueShutDown` messages on their
  way are as many as such workers (`CountIsRight`); then a full count means all (`AllGone`).
  `PendingCountsCopies`: `PendingItems` is the number of copies in the workers' mailboxes, in
  execution, and in unread results. It is counted by place and not by job, so that it holds whatever
  fails, and of a job that is there twice: each action moves one copy from one place to the next
  (`CopySentIsCounted`, `CopyTakenIsCounted`).
* `CoordinatorLifecycle_proofs`: `JobsAreOnce`, as long as no InProgress write is dropped. The lease
  of a job in hand may run out at any time, so it is not the lease that keeps it from being fetched
  again: `HandsInvariant` says that a job in hand is InProgress in the store, or has still to be sent
  out by the loop that the coordinator does not leave for another fetch, or has its InProgress write
  in the layer actor's mailbox *ahead of the next GetJobs* (`Guarded`). With it go that a job is in
  at most one of the places where it may be, and that its InProgress write is ahead of its outcome.
  `WritesInvariant` adds what the row of a job says once the writes before it are made, and from it
  follow `OutcomesFollow` and `NodeImplementsLifecycle`, where a dropped outcome is a node that
  forgets the job, and `DrainedIsCurrent`, for which no outcome may be dropped either, as its job
  stays InProgress with nobody. TLC refutes all four with `dropInProgress`, and with `dropOutcome`
  alone only the last, so that no theorem assumes more of the faults than it needs.
* `SaturatedQueue_proofs`: `MailboxIsABag`, the refinement of `PriorityBag` by the array heap, and
  `TypeCorrect`, for any number of workers and a mailbox of any length. `SiftUp` and `SiftDown` call
  themselves only as the last thing they do; that such a definition defines a function is proved
  here (`TailRecursion`: the least relation that a turn leads back along has one value for an
  argument whose loop ends, and the same values before and after a turn), and what the loops do
  follows by a least counterexample, in place of induction. A turn swaps two messages
  (`SwapKeepsMessages`) and leaves everything in order but the message that rises or sinks, what is
  below it being no better than what is above (`RisesAt`, `SinksAt`). So sends and receipts keep
  `HeapOrder` and change the number of one kind of message by one (`Enqueued`, `Dequeued`), and the
  first message of a heap in order is of the best priority (`FirstIsBest`). `TypeCorrect` says that
  `PendingItems` is the number of jobs at work and of results that wait; `SaturatedTypes` adds that
  the workers that have stopped are those counted and those whose `QueueShutDown` waits.
* `JobExecutorShell_proofs`: `TypeCorrect`, `PulsesStayControlled`, `PooledStaysAlive`,
  `TerminationIsDrained` and `StrandingThrows`, for any number of queues. `ShellInvariant` adds where
  a waiting call stands (`CallInvariant`), that every coordinator that may run jobs is in the
  dictionaries or has a call that threw (`Tracked`), and that Dispose has on its list whatever is
  left (`DisposeReachesAll`).
* `JobSearch_proofs`: `TypeCorrect`, `RestingPageIsCurrent` and `UpdatesCarryEntries`, for any number
  of searches, jobs and entries. That a page at rest is current is about its last search, but the
  list, its rows and the methods are set by whichever continuation runs; `PageInvariant` says
  that until an answer overtakes another the calls under way are in the order of their searches
  (`CallsInOrder`), that methods, list and what came back were set in that order too
  (`ListIsNewest`), and that the rows are those of the list they were made from (`RowsFollow`). An
  update needs no order: `ItemInvariant` says that nothing of a search is on the page before the list
  is that search's (`AwaitedIsFresh`), so that an item in the list holds what its own row was given,
  or nothing (`ItemsFollow`); a row used again keeps an older item, which the list no longer has.

Only model-checked: everything under fairness (`EveryJobSettles`, both `ShutdownCompletes`,
`PlainSaturationEnds`, `ClickIsAnswered`), which the prover does not reach (nor ENABLED).

## 5. What is not modelled, and why

* *Thread pool engine*: it cannot run. The constructors of filler and executor (Class1.cs:24-32 and
  238-244) never assign the queue and the coordinator, or the state handler, that their
  loops use; a model would be of a program that throws at once.
* *The browser runtime* (the WebSharper scripts beside the page): generated and library code, some
  twenty thousand lines of collections, templating, routing and remoting. What the search page's
  views do in it (snapshots, `MapAsync`, the sink's loop, cached rows) is modelled; the rest keeps
  nothing of OddJob's. Measured in lines of these scripts the models cover very little.
* *Job creation and execution, Linq2Db helpers*: expression trees and reflection, without state. A
  job is opaque to the models; running it succeeds or throws.
* *Serialization formats, HTML, search forms, table scripts, SQLite and SQL Server providers*: data
  and wording, or connection factories. Of serialization the type resolver's answer is modelled.
* *`UpdateJobMetadataFull`*: one UPDATE of every column of a row; it has no caller that runs
  against nodes. `UpdateJobMetadataValues` is an edit without parameters. `AddJobs` repeats
  `AddJob`.
* *Command aggregator sample*: a sample application.
* *Isolation below a statement, clocks that disagree, time that goes back, loss of power*: assumed
  away, as said in section 2; the hazards name the lines that depend on it.
* *Several threads in one shell*: its dictionaries are not concurrent, and no caller in the
  repository does this.
