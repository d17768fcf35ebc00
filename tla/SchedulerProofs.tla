-------------------------- MODULE SchedulerProofs --------------------------
(***************************************************************************)
(* Proofs about the main loop for any collectors, any intervals and any    *)
(* number of slow collectors that is not above the semaphore's capacity,   *)
(* and about the process around it.                                        *)
(***************************************************************************)
EXTENDS Lifecycle, FiniteSetTheorems, TLAPS

Active == {c \in Slow : running[c] = 1}

\* A collector that is not busy has no goroutine and none is being started;
\* the semaphore holds one element for each goroutine that has not left it.
LoopInv ==
  /\ TypeOK
  /\ OneRunPerCollector
  /\ pc = "acquire" => want \in Slow /\ slowBusy[want]
  /\ \A c \in Slow : ~slowBusy[c] => running[c] = 0
  /\ sem = Cardinality(Active) + releasing

LEMMA IntervalType == \A c \in Collector : IntervalOf(c) \in Nat
  BY SchedulerAssumption DEF IntervalOf

\* At most one element of sem per slow collector that runs.
LEMMA ActiveFinite ==
  IsFiniteSet(Active) /\ Cardinality(Active) \in Nat
<1>1. Active \subseteq Slow
  BY DEF Active
<1> QED BY <1>1, SchedulerAssumption, FS_Subset, FS_CardinalityType

LEMMA LoopInit == Init => LoopInv
<1> SUFFICES ASSUME Init PROVE LoopInv
  OBVIOUS
<1>1. Active = {}
  BY DEF Init, Active
<1>2. Cardinality(Active) = 0
  BY <1>1, FS_EmptySet
<1>3. want \in Collector
  BY SchedulerAssumption DEF Init
<1>4. TypeOK
  <2>1. /\ elapsed \in [Collector -> Nat]
        /\ \A c \in Collector : elapsed[c] <= IntervalOf(c)
    BY IntervalType DEF Init
  <2>2. sem \in 0..SemCap
    BY SchedulerAssumption DEF Init
  <2> QED BY <1>3, <2>1, <2>2 DEF Init, TypeOK
<1>5. OneRunPerCollector
  BY DEF Init, OneRunPerCollector
<1> QED BY <1>2, <1>4, <1>5 DEF Init, LoopInv

\* The time a collector has waited stays within its interval.
LEMMA TickTypes ==
  ASSUME LoopInv, NEW d \in 0..MaxGap, Tick(d)
  PROVE  /\ elapsed' \in [Collector -> Nat]
         /\ \A c \in Collector : elapsed'[c] <= IntervalOf(c)
<1>1. elapsed' = [c \in Collector |-> Min({elapsed[c] + d, IntervalOf(c)})]
  BY DEF Tick
<1>2. ASSUME NEW c \in Collector
      PROVE  Min({elapsed[c] + d, IntervalOf(c)}) \in Nat
             /\ Min({elapsed[c] + d, IntervalOf(c)}) <= IntervalOf(c)
  <2>1. elapsed[c] + d \in Nat /\ IntervalOf(c) \in Nat
    BY IntervalType, SchedulerAssumption DEF LoopInv, TypeOK
  <2> DEFINE S == {elapsed[c] + d, IntervalOf(c)}
  <2>2. \E x \in S : \A y \in S : x <= y
    BY <2>1
  <2>3. Min(S) \in S /\ \A y \in S : Min(S) <= y
    BY <2>2 DEF Min
  <2> QED BY <2>1, <2>3
<1> QED BY <1>1, <1>2

LEMMA LoopStep == LoopInv /\ [Next]_vars => LoopInv'
<1> SUFFICES ASSUME LoopInv, [Next]_vars PROVE LoopInv'
  OBVIOUS
<1> USE SchedulerAssumption, IntervalType
<1>1. TypeOK /\ OneRunPerCollector
  BY DEF LoopInv
<1>2. IsFiniteSet(Active) /\ Cardinality(Active) \in Nat
  BY ActiveFinite
<1>3. ASSUME NEW d \in 0..MaxGap, Tick(d) PROVE LoopInv'
  <2>1. TypeOK'
    BY <1>1, <1>3, TickTypes DEF Tick, TypeOK
  <2>2. UNCHANGED <<slowBusy, sem, want, running, releasing>> /\ pc' = "pass"
    BY <1>3 DEF Tick
  <2> QED BY <2>1, <2>2 DEF LoopInv, OneRunPerCollector, Active
<1>4. CASE Stop \/ EndPass \/ Signal \/ Exited \/ UNCHANGED vars
  <2>1. UNCHANGED <<elapsed, slowBusy, sem, todo, want, running, releasing, ran>>
    BY <1>4 DEF Stop, EndPass, Signal, Exited, vars
  <2>2. (pc' = pc \/ pc' \in {"stopped", "select"}) /\ signal' \in BOOLEAN
    BY <1>1, <1>4 DEF Stop, EndPass, Signal, Exited, vars, TypeOK
  <2>3. TypeOK'
    BY <1>1, <2>1, <2>2 DEF TypeOK
  <2> QED BY <2>1, <2>2, <2>3 DEF LoopInv, OneRunPerCollector, Active
<1>5. ASSUME NEW c \in Collector, Skip(c) \/ RunFast(c) PROVE LoopInv'
  <2>1. /\ UNCHANGED <<slowBusy, sem, pc, want, running, releasing, signal>>
        /\ pc = "pass"
    BY <1>5 DEF Skip, RunFast
  <2>2. TypeOK'
    BY <1>1, <1>5 DEF Skip, RunFast, TypeOK
  <2> QED BY <2>1, <2>2 DEF LoopInv, OneRunPerCollector, Active
<1>6. ASSUME NEW c \in Collector, StartSlow(c) PROVE LoopInv'
  <2>1. /\ c \in Slow /\ ~slowBusy[c]
        /\ slowBusy' = [slowBusy EXCEPT ![c] = TRUE]
        /\ want' = c /\ pc' = "acquire"
        /\ UNCHANGED <<sem, running, releasing>>
    BY <1>6 DEF StartSlow, Busy
  <2>2. TypeOK'
    BY <1>1, <1>6 DEF StartSlow, TypeOK
  <2>3. OneRunPerCollector'
    BY <1>1, <2>1 DEF LoopInv, OneRunPerCollector
  <2>4. want' \in Slow /\ slowBusy'[want']
    BY <1>1, <2>1 DEF TypeOK
  <2>5. \A x \in Slow : ~slowBusy'[x] => running'[x] = 0
    BY <1>1, <2>1 DEF LoopInv, TypeOK
  <2> QED BY <2>1, <2>2, <2>3, <2>4, <2>5 DEF LoopInv, Active
<1>7. CASE Acquire
  <2>1. /\ pc = "acquire" /\ sem < SemCap /\ sem' = sem + 1
        /\ running' = [running EXCEPT ![want] = @ + 1]
        /\ pc' = "pass"
        /\ UNCHANGED <<slowBusy, want, releasing>>
    BY <1>7 DEF Acquire
  <2>2. want \in Slow /\ slowBusy[want] /\ running[want] = 0
    BY <2>1 DEF LoopInv, OneRunPerCollector
  <2>3. running'[want] = 1 /\ \A x \in Slow \ {want} : running'[x] = running[x]
    BY <1>1, <2>1, <2>2 DEF TypeOK
  <2>4. TypeOK'
    BY <1>1, <1>7, <2>2 DEF Acquire, TypeOK
  <2>5. OneRunPerCollector'
    BY <1>1, <2>1, <2>3 DEF OneRunPerCollector
  <2>6. \A x \in Slow : ~slowBusy'[x] => running'[x] = 0
    BY <2>1, <2>2, <2>3 DEF LoopInv
  <2>7. Active' = Active \cup {want} /\ want \notin Active
    BY <2>2, <2>3 DEF Active
  <2>8. Cardinality(Active') = Cardinality(Active) + 1
    BY <1>2, <2>7, FS_AddElement
  <2>9. sem' = Cardinality(Active') + releasing'
    BY <1>1, <1>2, <2>1, <2>8 DEF LoopInv, TypeOK
  <2> QED BY <2>1, <2>4, <2>5, <2>6, <2>9 DEF LoopInv
<1>8. ASSUME NEW c \in Slow, Finish(c) PROVE LoopInv'
  <2>1. /\ running[c] > 0
        /\ running' = [running EXCEPT ![c] = @ - 1]
        /\ slowBusy' = [slowBusy EXCEPT ![c] = FALSE]
        /\ releasing' = releasing + 1
        /\ UNCHANGED <<sem, pc, want>>
    BY <1>8 DEF Finish
  <2>2. running[c] = 1 /\ ~(pc = "acquire" /\ want = c)
    BY <1>1, <2>1 DEF OneRunPerCollector, TypeOK
  <2>3. running'[c] = 0 /\ \A x \in Slow \ {c} : running'[x] = running[x]
    BY <1>1, <2>1, <2>2 DEF TypeOK
  <2>4. TypeOK'
    BY <1>1, <1>8, <2>2 DEF Finish, TypeOK
  <2>5. OneRunPerCollector'
    BY <1>1, <2>1, <2>3 DEF OneRunPerCollector
  <2>6. /\ pc' = "acquire" => want' \in Slow /\ slowBusy'[want']
        /\ \A x \in Slow : ~slowBusy'[x] => running'[x] = 0
    BY <1>1, <2>1, <2>2, <2>3 DEF LoopInv, TypeOK
  <2>7. Active' = Active \ {c} /\ c \in Active
    BY <2>2, <2>3 DEF Active
  <2>8. Cardinality(Active') = Cardinality(Active) - 1
    BY <1>2, <2>7, FS_RemoveElement
  <2>9. sem' = Cardinality(Active') + releasing'
    BY <1>1, <1>2, <2>1, <2>8 DEF LoopInv, TypeOK
  <2> QED BY <2>4, <2>5, <2>6, <2>9 DEF LoopInv
<1>9. CASE Release
  <2>1. /\ releasing > 0 /\ releasing' = releasing - 1 /\ sem' = sem - 1
        /\ UNCHANGED <<slowBusy, pc, want, running>>
    BY <1>9 DEF Release
  <2>2. sem' = Cardinality(Active) + releasing' /\ releasing' \in Nat
    BY <1>1, <1>2, <2>1 DEF LoopInv, TypeOK
  <2>3. sem' \in 0..SemCap
    BY <1>1, <1>2, <2>1, <2>2 DEF TypeOK
  <2>4. TypeOK'
    BY <1>1, <1>9, <2>2, <2>3 DEF Release, TypeOK
  <2> QED BY <2>1, <2>2, <2>4 DEF LoopInv, OneRunPerCollector, Active
<1> QED BY <1>3, <1>4, <1>5, <1>6, <1>7, <1>8, <1>9 DEF Next, Loop, Goroutines

\* Every reachable state of the loop is type-correct; in particular the
\* semaphore is never received from when it is empty.
THEOREM LoopTypeCorrect == Spec => []TypeOK
<1>1. LoopInv => TypeOK
  BY DEF LoopInv
<1> QED BY <1>1, LoopInit, LoopStep, PTL DEF Spec

\* No slow collector runs twice at the same time.
THEOREM OneRunAtATime == Spec => []OneRunPerCollector
<1>1. LoopInv => OneRunPerCollector
  BY DEF LoopInv
<1> QED BY <1>1, LoopInit, LoopStep, PTL DEF Spec

\* With no more slow collectors than the semaphore has room for, the loop
\* waits at the semaphore only for a goroutine that has already finished.
THEOREM LoopNeverWaits == Spec => []LoopNeverWaitsForARun
<1>1. LoopInv => LoopNeverWaitsForARun
  <2> SUFFICES ASSUME LoopInv, pc = "acquire", sem = SemCap
               PROVE  releasing > 0
    BY DEF LoopNeverWaitsForARun
  <2>1. want \in Slow /\ running[want] = 0
    BY DEF LoopInv, OneRunPerCollector
  <2>2. Active \subseteq Slow \ {want}
    BY <2>1 DEF Active
  <2>3. /\ IsFiniteSet(Slow \ {want})
        /\ Cardinality(Slow \ {want}) = Cardinality(Slow) - 1
    BY <2>1, SchedulerAssumption, FS_RemoveElement
  <2>4. Cardinality(Active) <= Cardinality(Slow) - 1
    BY <2>2, <2>3, FS_Subset
  <2>5. /\ Cardinality(Active) \in Nat /\ Cardinality(Slow) \in Nat
        /\ SemCap \in Nat /\ Cardinality(Slow) <= SemCap
    BY ActiveFinite, SchedulerAssumption, FS_CardinalityType
  <2> QED BY <2>4, <2>5 DEF LoopInv, TypeOK
<1> QED BY <1>1, LoopInit, LoopStep, PTL DEF Spec

\* A fast collector the pass has gone by is not due any more.
PassInv == pc \in {"pass", "acquire"} => \A c \in Collector \ (Slow \cup todo) : ~Due(c)

\* PassRunsAllDue: for any intervals and however long the ticks are apart, when
\* a pass over the map ends no fast collector is due: a tick that comes late,
\* or waits for the semaphore, leaves none out.
THEOREM PassRunsAllDue == Spec => [][EndPass => \A c \in Collector \ Slow : ~Due(c)]_vars
<1>1. Init => LoopInv /\ PassInv
  BY LoopInit DEF Init, PassInv
<1>2. LoopInv /\ PassInv /\ [Next]_vars => PassInv'
  <2> SUFFICES ASSUME TypeOK, PassInv, [Next]_vars PROVE PassInv'
    BY DEF LoopInv
  <2> USE SchedulerAssumption, IntervalType
  <2>1. ASSUME NEW d \in 0..MaxGap, Tick(d) PROVE PassInv'
    BY <2>1 DEF Tick, PassInv
  <2>2. ASSUME NEW c \in Collector, Skip(c) PROVE PassInv'
    BY <2>2 DEF Skip, Busy, PassInv, Due, Scheduled, IntervalOf
  <2>3. ASSUME NEW c \in Collector, RunFast(c) \/ StartSlow(c) PROVE PassInv'
    <3>1. /\ pc = "pass" /\ todo' = todo \ {c}
          /\ elapsed' = [elapsed EXCEPT ![c] = 0]
      BY <2>3 DEF RunFast, StartSlow
    <3>2. ~Due(c)'
      BY <3>1 DEF Due, Scheduled, TypeOK
    <3>3. \A x \in Collector \ {c} : Due(x)' <=> Due(x)
      BY <3>1 DEF Due, Scheduled, TypeOK
    <3> QED BY <3>1, <3>2, <3>3 DEF PassInv
  <2>4. CASE Acquire \/ Stop \/ EndPass \/ Goroutines \/ Signal \/ Exited \/ UNCHANGED vars
    <3>1. /\ UNCHANGED <<elapsed, todo>>
          /\ pc' \in {"pass", "acquire"} => pc \in {"pass", "acquire"}
      BY <2>4 DEF Acquire, Stop, EndPass, Goroutines, Release, Finish, Signal, Exited, vars
    <3> QED BY <3>1 DEF PassInv, Due
  <2> QED BY <2>1, <2>2, <2>3, <2>4 DEF Next, Loop
<1>3. PassInv => (EndPass => \A c \in Collector \ Slow : ~Due(c))
  BY DEF PassInv, EndPass
<1>4. LoopInv /\ [Next]_vars => LoopInv'
  BY LoopStep
<1> DEFINE Passed == EndPass => \A c \in Collector \ Slow : ~Due(c)
<1>5. PassInv => [Passed]_vars
  BY <1>3
<1> HIDE DEF Passed
<1>6. Spec => [][Passed]_vars
  BY <1>1, <1>2, <1>4, <1>5, PTL DEF Spec
<1> QED BY <1>6 DEF Passed

\* A collector whose own name has no interval is never due: what net_io's
\* interval, stored as "network", makes of net_io.
ScheduledInv == ran \subseteq Scheduled /\ (pc = "acquire" => want \in Scheduled)

\* OnlyScheduledRun: for any collectors and intervals, no collector starts whose
\* name the lookup of its interval does not find.
THEOREM OnlyScheduledRun == Spec => [](ran \subseteq Scheduled)
<1>1. Init => ScheduledInv
  BY DEF Init, ScheduledInv
<1>2. ScheduledInv /\ [Next]_vars => ScheduledInv'
  <2> SUFFICES ASSUME ScheduledInv, [Next]_vars PROVE ScheduledInv'
    OBVIOUS
  <2>1. CASE Loop
    <3>1. ASSUME NEW c \in Collector, RunFast(c) \/ StartSlow(c) PROVE ScheduledInv'
      BY <3>1 DEF RunFast, StartSlow, Due, ScheduledInv
    <3>2. CASE Acquire
      BY <3>2 DEF Acquire, ScheduledInv
    <3>3. ASSUME NEW c \in Collector, Skip(c) PROVE ScheduledInv'
      BY <3>3 DEF Skip, ScheduledInv
    <3>4. CASE Stop \/ EndPass \/ \E d \in 0..MaxGap : Tick(d)
      BY <3>4 DEF Stop, EndPass, Tick, ScheduledInv
    <3> QED BY <2>1, <3>1, <3>2, <3>3, <3>4 DEF Loop
  <2>2. CASE Goroutines \/ Signal \/ Exited \/ UNCHANGED vars
    BY <2>2 DEF Goroutines, Release, Finish, Signal, Exited, vars, ScheduledInv
  <2> QED BY <2>1, <2>2 DEF Next
<1>3. ScheduledInv => ran \subseteq Scheduled
  BY DEF ScheduledInv
<1> QED BY <1>1, <1>2, <1>3, PTL DEF Spec

\* NetIONeverRuns: as long as no interval is stored under the name net_io, the
\* collector net_io never runs, however long the process does.
THEOREM NetIONeverRuns ==
  ASSUME "net_io" \notin DOMAIN Intervals
  PROVE  Spec => []("net_io" \notin ran)
<1>1. "net_io" \notin Scheduled
  BY DEF Scheduled, IntervalOf
<1>2. ran \subseteq Scheduled => "net_io" \notin ran
  BY <1>1
<1> QED BY <1>2, OnlyScheduledRun, PTL

-----------------------------------------------------------------------------
(* The process around runLoop implements runLoop as Scheduler has it, and its  *)
(* end cuts no COPY or query, for any collectors and requests.                 *)

\* A step of the process is one of Scheduler or leaves its variables alone.
LEMMA LStepIsStep == LNext => [Next]_vars
<1> SUFFICES ASSUME LNext PROVE [Next]_vars
  OBVIOUS
<1>1. CASE LLoop
  BY <1>1 DEF LLoop, Next, Loop
<1>2. CASE LRelease \/ LSignal \/ LExited
  BY <1>2 DEF LRelease, LSignal, LExited, Next, Goroutines
<1>3. CASE Closing
  BY <1>3 DEF Closing, Return, CloseStorePool, CloseStoreSpool, ProcessEnds, Next, Loop
<1>4. CASE Shutdown \/ ListenFails
  BY <1>4 DEF Shutdown, ShutdownStarts, ClosePool, ListenFails, Serving
<1>5. ASSUME NEW c \in Slow, Run(c) PROVE [Next]_vars
  BY <1>5 DEF Run, NothingToWrite, Connect, CopyEnds, AtRun, RunEnds, Next, Goroutines
<1>6. ASSUME NEW r \in Request, Arrive(r) \/ Handle(r) PROVE [Next]_vars
  BY <1>6 DEF Arrive, Handle, Query, QueryEnds, Requesting
<1> QED BY <1>1, <1>2, <1>3, <1>4, <1>5, <1>6 DEF LNext

\* LifecycleIsScheduler: what is proved of Scheduler holds of the process.
THEOREM LifecycleIsScheduler == LSpec => Spec
<1>1. LInit => Init
  BY DEF LInit
<1>2. [LNext]_lifeVars => [Next]_vars
  BY LStepIsStep DEF lifeVars
<1> QED BY <1>1, <1>2, PTL DEF LSpec, Spec

-----------------------------------------------------------------------------

\* A closed pool has given all its connections back, and the process ends
\* when both pools are closed.
ClosedInv ==
  /\ closing \in {"spool", "exit"} => copying = {}
  /\ serve \in {"off", "closed"} => \A r \in Request : req[r] # "conn"
  /\ pc = "stopped" => closing = "exit" /\ serve \in {"off", "closed"}
  /\ req \in [Request -> {"none", "waiting", "conn"}]

LEMMA LoopStaysOpen ==
  ASSUME ClosedInv, LLoop PROVE ClosedInv'
<1>1. pc' # "stopped"
  BY DEF LLoop, Tick, Skip, RunFast, StartSlow, EndPass, Acquire, ClosedInv
<1> QED BY <1>1 DEF LLoop, ClosedInv, dashboard

LEMMA ClosedInvHolds == LSpec => []ClosedInv
<1>1. LInit => ClosedInv
  BY DEF LInit, Init, ClosedInv
<1>2. ClosedInv /\ [LNext]_lifeVars => ClosedInv'
  <2> SUFFICES ASSUME ClosedInv, [LNext]_lifeVars PROVE ClosedInv'
    OBVIOUS
  <2>1. CASE UNCHANGED lifeVars
    BY <2>1 DEF ClosedInv, lifeVars, vars, store, dashboard
  <2>2. CASE LRelease \/ LSignal \/ LExited
    BY <2>2 DEF LRelease, LSignal, LExited, Release, Signal, Exited, ClosedInv, vars, store, dashboard
  <2>3. CASE Closing
    BY <2>3 DEF Closing, Return, CloseStorePool, CloseStoreSpool, ProcessEnds, Stop,
                ClosedInv, vars, store, dashboard
  <2>4. CASE Shutdown \/ ListenFails
    BY <2>4 DEF Shutdown, ShutdownStarts, ClosePool, ListenFails, Serving, Alive,
                ClosedInv, vars, store
  <2>5. ASSUME NEW c \in Slow, Run(c) PROVE ClosedInv'
    <3>1. CASE RunEnds(c)
      BY <3>1 DEF RunEnds, Finish, ClosedInv, store, dashboard
    <3>2. CASE NothingToWrite(c) \/ Connect(c) \/ CopyEnds(c)
      BY <3>2 DEF NothingToWrite, Connect, CopyEnds, AtRun, ClosedInv, vars, dashboard
    <3> QED BY <2>5, <3>1, <3>2 DEF Run
  <2>6. ASSUME NEW r \in Request, Arrive(r) \/ Handle(r) PROVE ClosedInv'
    BY <2>6 DEF Arrive, Handle, Query, QueryEnds, Requesting, Alive, ClosedInv, vars, store
  <2> QED BY <2>1, <2>2, <2>3, <2>4, <2>5, <2>6, LoopStaysOpen DEF LNext
<1> QED BY <1>1, <1>2, PTL DEF LSpec

\* StopCutsNothing: whatever runs and requests are in flight when the signal
\* comes, the process ends only after their connections are given back.
THEOREM StopCutsNothing == LSpec => []StopCutsNoQuery
<1>1. ClosedInv => StopCutsNoQuery
  BY DEF ClosedInv, StopCutsNoQuery
<1> QED BY <1>1, ClosedInvHolds, PTL
=============================================================================
