----------------------- MODULE JobExecutorShell_proofs -----------------------
(***************************************************************************)
(* What the executor shell promises of its dictionaries, timers and actors, *)
(* for any number of queues and whichever calls time out.  One invariant,   *)
(* ShellInvariant, is inductive and has the five safety properties as       *)
(* consequences: it adds where the call that is under way stands.           *)
(***************************************************************************)
EXTENDS JobExecutorShell, TLAPS

Threw == {"startThrew", "shutDownThrew"}

Active == {"created", "running", "draining"}

\* A call that waits is for a queue in the state it waits in.
CallInvariant ==
    /\ Calling("start") => /\ call.queue \notin coordinatorPool
                           /\ ~call.disposing
    /\ Calling("shutDown") => /\ call.queue \in coordinatorPool
                              /\ actor[call.queue] \in {"draining", "drained"}
    /\ terminated => call = Idle
    /\ ~call.disposing => call.rest = {}

\* Every coordinator that has not been told to stop is in the dictionaries, or is
\* being started, or a call for it has thrown: StrandedOnlyByThrow, turned round.
Tracked ==
    \A q \in Queues : actor[q] \in Active \cup {"drained"} /\ last[q] \notin Threw =>
        q \in coordinatorPool \/ (Calling("start") /\ q = call.queue)

\* Dispose has every queue that is left on its list.
DisposeReachesAll ==
    call.disposing => \A q \in coordinatorPool :
        q \in call.rest \/ (Calling("shutDown") /\ q = call.queue)

ShellInvariant ==
    /\ TypeOK
    /\ coordinatorPool = cancelPulsePool
    /\ CallInvariant
    /\ PulsesAreControlled
    /\ PooledIsAlive
    /\ Tracked
    /\ DisposeReachesAll
    /\ TerminatesDrained

LEMMA IdleCall ==
    /\ Idle \in CallType
    /\ Idle.op = "none" /\ Idle.queue = NoQueue
    /\ Idle.disposing = FALSE /\ Idle.rest = {}
BY DEF Idle, CallType

LEMMA InitHolds == Init => ShellInvariant
<1> SUFFICES ASSUME Init PROVE ShellInvariant
    OBVIOUS
<1> USE IdleCall DEF Init
<1>1. TypeOK
    BY DEF TypeOK, ActorStates, Outcomes
<1>2. CallInvariant
    BY DEF CallInvariant, Calling
<1>3. PulsesAreControlled /\ PooledIsAlive
    BY DEF PulsesAreControlled, PooledIsAlive
<1>4. Tracked /\ DisposeReachesAll /\ TerminatesDrained
    BY DEF Tracked, DisposeReachesAll, TerminatesDrained, Active
<1> QED
    BY <1>1, <1>2, <1>3, <1>4 DEF ShellInvariant

----------------------------------------------------------------------------
(* One lemma per kind of step *)

LEMMA StartHolds ==
    ASSUME ShellInvariant, NEW q \in Queues,
           StartAgain(q) \/ StartNameTaken(q) \/ StartJobQueue(q)
    PROVE  ShellInvariant'
<1> USE IdleCall DEF ShellInvariant
<1>1. CASE StartAgain(q)
    BY <1>1 DEF StartAgain, pools, TypeOK, CallInvariant, PulsesAreControlled, PooledIsAlive,
                Tracked, DisposeReachesAll, TerminatesDrained, Calling, Outcomes, Threw, NotDisposing
<1>2. CASE StartNameTaken(q)
    BY <1>2 DEF StartNameTaken, pools, TypeOK, CallInvariant, PulsesAreControlled, PooledIsAlive,
                Tracked, DisposeReachesAll, TerminatesDrained, Calling, Outcomes, Threw, NotDisposing
<1>3. CASE StartJobQueue(q)
  <2> DEFINE next == [Idle EXCEPT !.op = "start", !.queue = q]
  <2>1. /\ call' = next /\ next \in CallType
        /\ next.op = "start" /\ next.queue = q /\ ~next.disposing /\ next.rest = {}
    BY <1>3 DEF StartJobQueue, CallType, Idle
  <2> HIDE DEF next
  <2>2. TypeOK'
    BY <1>3, <2>1 DEF StartJobQueue, pools, TypeOK, ActorStates
  <2>3. CallInvariant' /\ Tracked' /\ DisposeReachesAll' /\ TerminatesDrained'
    BY <1>3, <2>1 DEF StartJobQueue, NotDisposing, pools, CallInvariant, Tracked, DisposeReachesAll,
                      TerminatesDrained, Calling, TypeOK
  <2>4. PulsesAreControlled' /\ PooledIsAlive'
    BY <1>3 DEF StartJobQueue, pools, PulsesAreControlled, PooledIsAlive, TypeOK
  <2> QED
    BY <1>3, <2>2, <2>3, <2>4 DEF StartJobQueue, pools
<1> QED
    BY <1>1, <1>2, <1>3

\* A call's return and its exception both leave a call that waits for nobody.
LEMMA CallEnds ==
    ASSUME TypeOK, Calling("start") \/ Calling("shutDown"),
           NEW outcome \in Outcomes, Returns(outcome) \/ Throws(outcome)
    PROVE  /\ call' \in CallType /\ call'.op = "none"
           /\ \/ call'.disposing = call.disposing /\ call'.rest = call.rest
              \/ call'.disposing = FALSE /\ call'.rest = {}
           /\ last' \in [Queues -> Outcomes]
           /\ last'[call.queue] = outcome
           /\ \A q \in Queues : q # call.queue => last'[q] = last[q]
<1>1. call.queue \in Queues /\ call \in CallType /\ last \in [Queues -> Outcomes]
    BY DEF TypeOK, Calling
<1>2. CASE Returns(outcome)
    BY <1>1, <1>2 DEF Returns, Idle, CallType
<1>3. CASE Throws(outcome)
    BY <1>1, <1>3, IdleCall DEF Throws
<1> QED
    BY <1>2, <1>3

LEMMA StartEnds ==
    ASSUME ShellInvariant, StartCompletes \/ StartTimesOut
    PROVE  ShellInvariant'
<1>1. /\ Calling("start") /\ call.queue \in Queues
      /\ ~call.disposing /\ call.rest = {} /\ ~terminated /\ TypeOK
    BY IdleCall DEF ShellInvariant, CallInvariant, StartCompletes, StartTimesOut, Calling, TypeOK
<1>2. CASE StartCompletes
  <2>1. /\ call'.op = "none" /\ call' \in CallType
        /\ ~call'.disposing /\ call'.rest = {}
        /\ last' \in [Queues -> Outcomes]
        /\ \A q \in Queues : q # call.queue => last'[q] = last[q]
    BY <1>1, <1>2, CallEnds DEF StartCompletes, Outcomes
  <2>2. TypeOK'
    BY <1>1, <1>2, <2>1 DEF StartCompletes, TypeOK, Calling
  <2>3. CallInvariant' /\ Tracked' /\ DisposeReachesAll' /\ TerminatesDrained'
    BY <1>1, <1>2, <2>1 DEF ShellInvariant, StartCompletes, CallInvariant, Tracked,
                            DisposeReachesAll, TerminatesDrained, Calling
  <2>4. PulsesAreControlled' /\ PooledIsAlive' /\ (coordinatorPool = cancelPulsePool)'
    BY <1>1, <1>2 DEF ShellInvariant, StartCompletes, PulsesAreControlled, PooledIsAlive
  <2> QED
    BY <2>2, <2>3, <2>4 DEF ShellInvariant
<1>3. CASE StartTimesOut
  <2>1. /\ call'.op = "none" /\ call' \in CallType
        /\ ~call'.disposing /\ call'.rest = {}
        /\ last' \in [Queues -> Outcomes] /\ last'[call.queue] = "startThrew"
        /\ \A q \in Queues : q # call.queue => last'[q] = last[q]
    BY <1>1, <1>3, CallEnds DEF StartTimesOut, Outcomes
  <2>2. TypeOK'
    BY <1>1, <1>3, <2>1 DEF StartTimesOut, pools, TypeOK, Calling
  <2>3. CallInvariant' /\ Tracked' /\ DisposeReachesAll' /\ TerminatesDrained'
    BY <1>1, <1>3, <2>1 DEF ShellInvariant, StartTimesOut, pools, CallInvariant, Tracked,
                            DisposeReachesAll, TerminatesDrained, Calling, Threw
  <2>4. PulsesAreControlled' /\ PooledIsAlive' /\ (coordinatorPool = cancelPulsePool)'
    BY <1>1, <1>3 DEF ShellInvariant, StartTimesOut, pools, PulsesAreControlled, PooledIsAlive
  <2> QED
    BY <2>2, <2>3, <2>4 DEF ShellInvariant
<1> QED
    BY <1>2, <1>3

\* The Ask of a shutdown, by itself or from Dispose.
LEMMA AskHolds ==
    ASSUME ShellInvariant, ~terminated, NEW q \in Queues, Calling("none"),
           NEW next \in CallType, next.op = "shutDown", next.queue = q,
           IF next.disposing THEN call.disposing /\ next.rest = call.rest \ {q}
                             ELSE next.rest = {},
           Ask(q, next)
    PROVE  ShellInvariant'
<1>1. q \in coordinatorPool /\ pulsing' = pulsing \ {q}
    BY DEF ShellInvariant, Ask, CancelPulses, PulsesAreControlled
<1>2. TypeOK'
    BY <1>1 DEF ShellInvariant, Ask, TypeOK, ActorStates
<1>3. CallInvariant'
    BY <1>1 DEF ShellInvariant, Ask, CallInvariant, Calling, TypeOK
<1>4. PulsesAreControlled' /\ PooledIsAlive' /\ (coordinatorPool = cancelPulsePool)'
    BY <1>1 DEF ShellInvariant, Ask, PulsesAreControlled, PooledIsAlive, TypeOK
<1>5. Tracked'
    BY <1>1 DEF ShellInvariant, Ask, Tracked, Calling, TypeOK
<1>6. DisposeReachesAll' /\ TerminatesDrained'
    BY <1>1 DEF ShellInvariant, Ask, DisposeReachesAll, TerminatesDrained, Calling, TypeOK
<1> QED
    BY <1>2, <1>3, <1>4, <1>5, <1>6 DEF ShellInvariant

LEMMA ShutDownBegins ==
    ASSUME ShellInvariant, NEW q \in Queues, ShutDownQueue(q) \/ ShutDownUnknown(q) \/ DisposeNext(q)
    PROVE  ShellInvariant'
<1>1. CASE ShutDownQueue(q)
  <2> DEFINE next == [Idle EXCEPT !.op = "shutDown", !.queue = q]
  <2>1. /\ next \in CallType /\ next.op = "shutDown" /\ next.queue = q
        /\ ~next.disposing /\ next.rest = {}
    BY DEF CallType, Idle
  <2>2. ~terminated /\ Calling("none") /\ Ask(q, next)
    BY <1>1, IdleCall DEF ShutDownQueue, NotDisposing, Calling
  <2> HIDE DEF next
  <2> QED
    BY <2>1, <2>2, AskHolds
<1>2. CASE ShutDownUnknown(q)
    BY <1>2, IdleCall DEF ShellInvariant, ShutDownUnknown, NotDisposing, CancelPulses, TypeOK, CallInvariant,
                PulsesAreControlled, PooledIsAlive, Tracked, DisposeReachesAll,
                TerminatesDrained, Calling, Outcomes, Threw
<1>3. CASE DisposeNext(q)
  <2> DEFINE next == [op |-> "shutDown", queue |-> q, disposing |-> TRUE, rest |-> call.rest \ {q}]
  <2>1. q \in call.rest /\ Calling("none") /\ Ask(q, next) /\ call \in CallType
    BY <1>3 DEF DisposeNext, ShellInvariant, TypeOK
  <2>2. /\ next \in CallType /\ next.op = "shutDown" /\ next.queue = q
        /\ next.disposing /\ next.rest = call.rest \ {q}
    BY <2>1 DEF CallType
  <2>3. ~terminated
    BY <2>1, IdleCall DEF ShellInvariant, CallInvariant
  <2>4. call.disposing
    BY <2>1 DEF ShellInvariant, CallInvariant
  <2> HIDE DEF next
  <2> QED
    BY <2>1, <2>2, <2>3, <2>4, AskHolds
<1> QED
    BY <1>1, <1>2, <1>3

LEMMA ShutDownEnds ==
    ASSUME ShellInvariant, ShutDownCompletes \/ ShutDownTimesOut
    PROVE  ShellInvariant'
<1>1. /\ Calling("shutDown") /\ call.queue \in Queues /\ call.queue \in coordinatorPool
      /\ ~terminated /\ TypeOK /\ call.queue \notin pulsing
    BY IdleCall DEF ShellInvariant, CallInvariant, PulsesAreControlled, ShutDownCompletes,
                    ShutDownTimesOut, Calling, TypeOK
<1>2. /\ pulsing' = pulsing
      /\ coordinatorPool' = coordinatorPool \ {call.queue}
      /\ cancelPulsePool' = cancelPulsePool \ {call.queue}
      /\ terminated' = terminated
    BY DEF ShutDownCompletes, ShutDownTimesOut, Forget
<1>3. /\ call'.op = "none" /\ call' \in CallType
      /\ \/ call'.disposing = call.disposing /\ call'.rest = call.rest
         \/ call'.disposing = FALSE /\ call'.rest = {}
      /\ last' \in [Queues -> Outcomes]
      /\ \A q \in Queues : q # call.queue => last'[q] = last[q]
    BY <1>1, CallEnds DEF ShutDownCompletes, ShutDownTimesOut, Outcomes
<1>4. /\ actor' \in [Queues -> ActorStates]
      /\ \A q \in Queues : q # call.queue => actor'[q] = actor[q]
    BY <1>1 DEF ShutDownCompletes, ShutDownTimesOut, Poison, TypeOK, ActorStates
<1>5. actor'[call.queue] = "poisoned" \/ last'[call.queue] \in Threw
  <2>1. CASE ShutDownCompletes
    BY <1>1, <2>1 DEF ShutDownCompletes, Poison, TypeOK
  <2>2. CASE ShutDownTimesOut
    BY <1>1, <2>2, CallEnds DEF ShutDownTimesOut, Outcomes, Threw
  <2> QED
    BY <2>1, <2>2
<1>6. TypeOK'
    BY <1>1, <1>2, <1>3, <1>4 DEF TypeOK
<1>7. CallInvariant'
    BY <1>1, <1>2, <1>3 DEF ShellInvariant, CallInvariant, Calling
<1>8. PulsesAreControlled' /\ PooledIsAlive' /\ (coordinatorPool = cancelPulsePool)'
    BY <1>1, <1>2, <1>4 DEF ShellInvariant, PulsesAreControlled, PooledIsAlive, TypeOK
<1>9. Tracked'
    BY <1>1, <1>2, <1>3, <1>4, <1>5 DEF ShellInvariant, Tracked, Calling, Active, TypeOK
<1>10. DisposeReachesAll' /\ TerminatesDrained'
    BY <1>1, <1>2, <1>3 DEF ShellInvariant, DisposeReachesAll, TerminatesDrained, Calling, TypeOK
<1> QED
    BY <1>6, <1>7, <1>8, <1>9, <1>10 DEF ShellInvariant

\* Where the dictionaries, and the actors in them, are tracked when Terminate
\* comes, none is left that may run jobs.
LEMMA DisposeHolds ==
    ASSUME ShellInvariant, Dispose \/ Terminate
    PROVE  ShellInvariant'
<1>1. CASE Dispose
  <2>1. /\ call'.op = "none" /\ call'.disposing /\ call'.rest = cancelPulsePool
        /\ call' \in CallType /\ ~terminated /\ call = Idle
    BY <1>1 DEF Dispose, NotDisposing, Idle, CallType, ShellInvariant, TypeOK
  <2>2. TypeOK' /\ CallInvariant'
    BY <1>1, <2>1 DEF ShellInvariant, Dispose, pools, TypeOK, CallInvariant, Calling
  <2>3. /\ PulsesAreControlled' /\ PooledIsAlive'
        /\ Tracked' /\ DisposeReachesAll' /\ TerminatesDrained'
    BY <1>1, <2>1, IdleCall DEF ShellInvariant, Dispose, pools, PulsesAreControlled, PooledIsAlive,
       Tracked, DisposeReachesAll, TerminatesDrained, Calling
  <2> QED
    BY <1>1, <2>2, <2>3 DEF ShellInvariant, Dispose, pools
<1>2. CASE Terminate
  <2>1. coordinatorPool = {}
    BY <1>2 DEF Terminate, AllShutDown, ShellInvariant, DisposeReachesAll, Calling, TypeOK
  <2>2. \A q \in Queues : actor[q] \in Active \cup {"drained"} => last[q] \in Threw
    BY <1>2, <2>1 DEF Terminate, ShellInvariant, Tracked, Calling
  <2>3. TypeOK' /\ CallInvariant'
    BY <1>2, IdleCall DEF ShellInvariant, Terminate, pools, TypeOK, CallInvariant, Calling
  <2>4. PulsesAreControlled' /\ PooledIsAlive' /\ DisposeReachesAll'
    BY <1>2, <2>1, IdleCall DEF ShellInvariant, Terminate, pools, PulsesAreControlled, PooledIsAlive,
       DisposeReachesAll
  <2>5. Tracked' /\ TerminatesDrained'
    BY <1>2, <2>2 DEF Terminate, pools, Tracked, TerminatesDrained, Active, Threw
  <2> QED
    BY <1>2, <2>3, <2>4, <2>5 DEF ShellInvariant, Terminate, pools
<1> QED
    BY <1>1, <1>2

LEMMA ActorHolds ==
    ASSUME ShellInvariant, NEW q \in Queues, Configure(q) \/ Drain(q) \/ Stop(q)
    PROVE  ShellInvariant'
<1>1. /\ UNCHANGED <<coordinatorPool, cancelPulsePool, pulsing, call, last, terminated>>
      /\ ~terminated /\ actor[q] # "running"
      /\ actor[q] = "poisoned" \/ actor[q] \in Active
      /\ actor' \in [Queues -> ActorStates]
      /\ \A k \in Queues : k # q => actor'[k] = actor[k]
    BY DEF Configure, Drain, Stop, Becomes, pools, ShellInvariant, TypeOK, ActorStates, Active
<1>2. \/ actor'[q] \in {"running", "drained"} /\ actor[q] \in {"created", "draining"}
      \/ actor'[q] = "free" /\ actor[q] = "poisoned"
    BY DEF Configure, Drain, Stop, Becomes, ShellInvariant, TypeOK
<1>3. actor'[q] = "running" => actor[q] = "created"
    BY DEF Configure, Drain, Stop, Becomes, ShellInvariant, TypeOK
<1>4. TypeOK'
    BY <1>1 DEF ShellInvariant, TypeOK
<1>5. CallInvariant'
    BY <1>1, <1>2, <1>3 DEF ShellInvariant, CallInvariant, Calling, TypeOK
<1>6. PulsesAreControlled' /\ PooledIsAlive'
    BY <1>1, <1>2 DEF ShellInvariant, PulsesAreControlled, PooledIsAlive, TypeOK
<1>7. Tracked'
    BY <1>1, <1>2 DEF ShellInvariant, Tracked, Calling, Active
<1>8. DisposeReachesAll' /\ TerminatesDrained'
    BY <1>1 DEF ShellInvariant, DisposeReachesAll, TerminatesDrained, Calling
<1> QED
    BY <1>1, <1>4, <1>5, <1>6, <1>7, <1>8 DEF ShellInvariant

----------------------------------------------------------------------------

\* The step lemma: no operation of the shell and no actor breaks the invariant.
LEMMA StepHolds == ShellInvariant /\ [Next]_vars => ShellInvariant'
<1> SUFFICES ASSUME ShellInvariant, [Next]_vars
             PROVE  ShellInvariant'
    OBVIOUS
<1>1. ASSUME NEW q \in Queues, StartAgain(q) \/ StartNameTaken(q) \/ StartJobQueue(q)
      PROVE  ShellInvariant'
    BY <1>1, StartHolds
<1>2. ASSUME NEW q \in Queues, ShutDownQueue(q) \/ ShutDownUnknown(q) \/ DisposeNext(q)
      PROVE  ShellInvariant'
    BY <1>2, ShutDownBegins
<1>3. ASSUME NEW q \in Queues, Configure(q) \/ Drain(q) \/ Stop(q)
      PROVE  ShellInvariant'
    BY <1>3, ActorHolds
<1>4. CASE StartCompletes \/ StartTimesOut
    BY <1>4, StartEnds
<1>5. CASE ShutDownCompletes \/ ShutDownTimesOut
    BY <1>5, ShutDownEnds
<1>6. CASE Dispose \/ Terminate
    BY <1>6, DisposeHolds
<1>7. CASE UNCHANGED vars
    BY <1>7 DEF vars, pools, ShellInvariant, TypeOK, CallInvariant, PulsesAreControlled,
                PooledIsAlive, Tracked, DisposeReachesAll, TerminatesDrained, Calling
<1> QED
    BY <1>1, <1>2, <1>3, <1>4, <1>5, <1>6, <1>7 DEF Next, CallCompletes

\* The invariant holds in every reachable state.
THEOREM Invariance == Spec => []ShellInvariant
<1> QED
    BY InitHolds, StepHolds, PTL DEF Spec

\* The types of dictionaries, timers, actors and calls; a call that waits is for
\* one of the queues.
THEOREM TypeCorrect == Spec => []TypeOK
<1>1. ShellInvariant => TypeOK
    BY DEF ShellInvariant
<1> QED
    BY <1>1, Invariance, PTL

\* No timer goes on for a queue the shell has forgotten: StartJobQueue,
\* ShutDownQueue and Dispose, with any of their time-outs.
THEOREM PulsesStayControlled == Spec => []PulsesAreControlled
<1>1. ShellInvariant => PulsesAreControlled
    BY DEF ShellInvariant
<1> QED
    BY <1>1, Invariance, PTL

\* coordinatorPool never holds a coordinator that was sent a PoisonPill.
THEOREM PooledStaysAlive == Spec => []PooledIsAlive
<1>1. ShellInvariant => PooledIsAlive
    BY DEF ShellInvariant
<1> QED
    BY <1>1, Invariance, PTL

\* Dispose terminates the actor system only when every queue has drained, save
\* those for which a call has thrown.
THEOREM TerminationIsDrained == Spec => []TerminatesDrained
<1>1. ShellInvariant => TerminatesDrained
    BY DEF ShellInvariant
<1> QED
    BY <1>1, Invariance, PTL

\* Whatever calls return normally, no coordinator is up that the shell cannot
\* reach: only a call for its queue that threw leaves one behind.
THEOREM StrandingThrows == Spec => []StrandedOnlyByThrow
<1>1. ShellInvariant => StrandedOnlyByThrow
    BY DEF ShellInvariant, Tracked, StrandedOnlyByThrow, Stranded, TypeOK, ActorStates, Active,
           Threw
<1> QED
    BY <1>1, Invariance, PTL

=============================================================================
