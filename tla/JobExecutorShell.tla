-------------------------- MODULE JobExecutorShell --------------------------
(***************************************************************************)
(* The shell that starts and stops the queues of a process.  Its two        *)
(* dictionaries, the timers of the scheduler and the coordinator actors go  *)
(* their own ways: an actor exists before it is in coordinatorPool, and     *)
(* keeps its name after it has left it, until it has really stopped.  One   *)
(* thread calls the shell; the actors run meanwhile.  A coordinator is seen *)
(* only as far as the shell can tell; JobQueueCoordinator has the rest.     *)
(***************************************************************************)
EXTENDS FiniteSets

CONSTANTS
    Queues,
    NoQueue,
    Faults       \* the faults that may happen, see FaultKinds

\* "configureTimeout": the Ask of SetJobQueueConfiguration takes 10 s
\* "shutdownTimeout":  the Ask of ShutDownQueues takes longer than it may
FaultKinds == {"configureTimeout", "shutdownTimeout"}

ASSUME ShellAssumption ==
    /\ NoQueue \notin Queues
    /\ Faults \subseteq FaultKinds

VARIABLES
    coordinatorPool,   \* the queues that have a coordinator in the dictionary
    cancelPulsePool,   \* the queues that have a cancel token in the dictionary
    pulsing,           \* the queues whose timer goes on
    actor,             \* the coordinator that bears each queue's name
    call,              \* the call of the shell that is under way
    last,              \* history: what the last call for each queue came to
    terminated         \* Dispose got as far as Terminate

pools == <<coordinatorPool, cancelPulsePool, pulsing>>
vars == <<pools, actor, call, last, terminated>>

\* "free" names can be taken; a "created" actor is not yet configured; a
\* "draining" one has ShutDownQueues, a "drained" one has answered it; a
\* "poisoned" one has a PoisonPill to come to.
ActorStates == {"free", "created", "running", "draining", "drained", "poisoned"}

\* rest: the keys Dispose has still to shut down, after this one.
Idle == [op |-> "none", queue |-> NoQueue, disposing |-> FALSE, rest |-> {}]

Calling(op) == call.op = op

Returns(outcome) ==
    /\ call' = [Idle EXCEPT !.disposing = call.disposing, !.rest = call.rest]
    /\ last' = [last EXCEPT ![call.queue] = outcome]

\* Mutant: the call is only half abandoned.
ThrowsHalfway(outcome) ==
    /\ call' = [call EXCEPT !.queue = NoQueue]
    /\ last' = [last EXCEPT ![call.queue] = outcome]

\* The exception goes through Dispose as well, which gives up.
Throws(outcome) ==
    /\ call' = Idle
    /\ last' = [last EXCEPT ![call.queue] = outcome]

----------------------------------------------------------------------------
(* StartJobQueue *)

NotDisposing == call = Idle /\ ~terminated

StartAgain(q) ==
    /\ NotDisposing
    /\ q \in coordinatorPool
    /\ last' = [last EXCEPT ![q] = "started"]
    /\ UNCHANGED <<pools, actor, call, terminated>>

\* ActorOf throws InvalidActorNameException: after a call that threw, and also
\* right after a ShutDownQueue that returned, which does not wait for the name to
\* come free, though the doc says to "first shut it down, then call Start again".
StartNameTaken(q) ==
    /\ NotDisposing
    /\ q \notin coordinatorPool
    /\ actor[q] # "free"
    /\ last' = [last EXCEPT ![q] = "startThrew"]
    /\ UNCHANGED <<pools, actor, call, terminated>>

\* ActorOf, and the Ask that the shell then waits for.
StartJobQueue(q) ==
    /\ NotDisposing
    /\ q \notin coordinatorPool
    /\ actor[q] = "free"
    /\ actor' = [actor EXCEPT ![q] = "created"]
    /\ call' = [Idle EXCEPT !.op = "start", !.queue = q]
    /\ UNCHANGED <<pools, last, terminated>>

\* Configured: into the pool, and the timer is started.
StartCompletes ==
    /\ Calling("start")
    /\ actor[call.queue] = "running"
    /\ coordinatorPool' = coordinatorPool \cup {call.queue}
    /\ cancelPulsePool' = cancelPulsePool \cup {call.queue}
    /\ pulsing' = pulsing \cup {call.queue}
    /\ Returns("started")
    /\ UNCHANGED <<actor, terminated>>

\* .Result throws; the actor stays, and is in no dictionary.
StartTimesOut ==
    /\ "configureTimeout" \in Faults
    /\ Calling("start")
    /\ Throws("startThrew")
    /\ UNCHANGED <<pools, actor, terminated>>

----------------------------------------------------------------------------
(* ShutDownQueue *)

\* Mutant: the timer is left alone.
CancelNothing(q) == UNCHANGED pulsing

CancelPulses(q) ==
    pulsing' = IF q \in cancelPulsePool THEN pulsing \ {q} ELSE pulsing

\* Cancels the timer and asks the coordinator.
Ask(q, next) ==
    /\ q \in coordinatorPool
    /\ CancelPulses(q)
    /\ actor' = [actor EXCEPT ![q] = "draining"]
    /\ call' = next
    /\ UNCHANGED <<coordinatorPool, cancelPulsePool, last, terminated>>

ShutDownQueue(q) ==
    /\ NotDisposing
    /\ Ask(q, [Idle EXCEPT !.op = "shutDown", !.queue = q])

\* The Tell behind the Ask looks the queue up unguarded.
ShutDownUnknown(q) ==
    /\ NotDisposing
    /\ q \notin coordinatorPool
    /\ CancelPulses(q)
    /\ cancelPulsePool' = cancelPulsePool \ {q}
    /\ last' = [last EXCEPT ![q] = "shutDownThrew"]
    /\ UNCHANGED <<coordinatorPool, actor, call, terminated>>

\* Mutant: the coordinator stays in the dictionary.
ForgetTimer(q) ==
    /\ cancelPulsePool' = cancelPulsePool \ {q}
    /\ UNCHANGED <<coordinatorPool, pulsing>>

\* The finally block.
Forget(q) ==
    /\ cancelPulsePool' = cancelPulsePool \ {q}
    /\ coordinatorPool' = coordinatorPool \ {q}
    /\ UNCHANGED pulsing

\* Mutant: no PoisonPill is sent.
PoisonNothing(q) == UNCHANGED actor

Poison(q) == actor' = [actor EXCEPT ![q] = "poisoned"]

\* The answer is there: PoisonPill, and return without waiting for its effect.
ShutDownCompletes ==
    /\ Calling("shutDown")
    /\ actor[call.queue] = "drained"
    /\ Poison(call.queue)
    /\ Forget(call.queue)
    /\ Returns("shutDown")
    /\ UNCHANGED terminated

\* .Result throws: no PoisonPill.
ShutDownTimesOut ==
    /\ "shutdownTimeout" \in Faults
    /\ Calling("shutDown")
    /\ Forget(call.queue)
    /\ Throws("shutDownThrew")
    /\ UNCHANGED <<actor, terminated>>

----------------------------------------------------------------------------
(* Dispose *)

Dispose ==
    /\ NotDisposing
    /\ call' = [Idle EXCEPT !.disposing = TRUE, !.rest = cancelPulsePool]
    /\ UNCHANGED <<pools, actor, last, terminated>>

DisposeNext(q) ==
    /\ Calling("none")
    /\ q \in call.rest
    /\ Ask(q, [op |-> "shutDown", queue |-> q, disposing |-> TRUE,
               rest |-> call.rest \ {q}])

\* Mutant: Dispose terminates the actor system before all queues are shut down.
NothingLeft == TRUE

AllShutDown == call.rest = {}

\* Terminate begins; RunSynchronously then throws, for Terminate's task is not
\* one that can be run.
Terminate ==
    /\ Calling("none")
    /\ call.disposing
    /\ AllShutDown
    /\ terminated' = TRUE
    /\ call' = Idle
    /\ UNCHANGED <<pools, actor, last>>

----------------------------------------------------------------------------
(* What the coordinators do meanwhile *)

Becomes(q, from, to) ==
    /\ ~terminated
    /\ actor[q] = from
    /\ actor' = [actor EXCEPT ![q] = to]
    /\ UNCHANGED <<pools, call, last, terminated>>

Configure(q) == Becomes(q, "created", "running")
Drain(q) == Becomes(q, "draining", "drained")
Stop(q) == Becomes(q, "poisoned", "free")

----------------------------------------------------------------------------

Init ==
    /\ coordinatorPool = {}
    /\ cancelPulsePool = {}
    /\ pulsing = {}
    /\ actor = [q \in Queues |-> "free"]
    /\ call = Idle
    /\ last = [q \in Queues |-> "none"]
    /\ terminated = FALSE

CallCompletes == StartCompletes \/ ShutDownCompletes \/ Terminate
                 \/ \E q \in Queues : DisposeNext(q)

Next ==
    \/ \E q \in Queues : \/ StartAgain(q) \/ StartNameTaken(q) \/ StartJobQueue(q)
                         \/ ShutDownQueue(q) \/ ShutDownUnknown(q)
                         \/ Configure(q) \/ Drain(q) \/ Stop(q)
    \/ CallCompletes \/ StartTimesOut \/ ShutDownTimesOut \/ Dispose

Spec == Init /\ [][Next]_vars

----------------------------------------------------------------------------
(* Properties *)

Outcomes == {"none", "started", "startThrew", "shutDown", "shutDownThrew"}

CallType == [op : {"none", "start", "shutDown"}, queue : Queues \cup {NoQueue},
             disposing : BOOLEAN, rest : SUBSET Queues]

\* Types; a call that waits for an actor is about a queue.
TypeOK ==
    /\ coordinatorPool \subseteq Queues
    /\ cancelPulsePool \subseteq Queues
    /\ pulsing \subseteq Queues
    /\ actor \in [Queues -> ActorStates]
    /\ call \in CallType
    /\ call.op # "none" => call.queue \in Queues
    /\ last \in [Queues -> Outcomes]
    /\ terminated \in BOOLEAN

\* Every timer that goes on belongs to a queue that runs and that the shell can
\* still shut down, whichever call timed out or threw half way: no forgotten
\* queue goes on fetching jobs.
PulsesAreControlled ==
    \A q \in pulsing : q \in coordinatorPool /\ q \in cancelPulsePool
                       /\ actor[q] = "running"

\* The dictionaries never hold a coordinator that has been told to stop, so no
\* Ask of the shell goes to a dead actor and times out for that.
PooledIsAlive ==
    \A q \in coordinatorPool : actor[q] \in {"running", "draining", "drained"}

\* Dispose kills the actor system only when no queue runs jobs any more, save
\* those whose last call threw: it gives up rather than cut off a queue that is
\* still draining.
TerminatesDrained ==
    terminated => \A q \in Queues :
        actor[q] \in {"created", "running", "draining"} =>
            last[q] \in {"startThrew", "shutDownThrew"}

\* A coordinator that bears a queue's name, has not been told to stop, and that
\* the shell cannot reach.
Stranded(q) ==
    /\ actor[q] \notin {"free", "poisoned"}
    /\ q \notin coordinatorPool
    /\ ~(Calling("start") /\ call.queue = q)

\* Calls that return normally, of StartJobQueue, ShutDownQueue and Dispose in any
\* order, strand no coordinator: one that runs or holds its name for good with no
\* dictionary to find it in is always one whose queue's last call has thrown.
StrandedOnlyByThrow ==
    \A q \in Queues : Stranded(q) => last[q] \in {"startThrew", "shutDownThrew"}

=============================================================================
