----------------------------- MODULE Scheduler -----------------------------
(***************************************************************************)
(* runLoop of go/cmd/monitor/main.go: the one-second loop that starts the  *)
(* collectors when they are due, the slow ones in goroutines behind        *)
(* slowBusy and a semaphore, until a signal ends it.                       *)
(*                                                                         *)
(* Time is what the loop sees of it: elapsed[c] is now.Sub(lastRun[c]) at  *)
(* the tick being handled, in seconds, and is not counted beyond the       *)
(* interval of c, above which nothing depends on it.  ReplayPending and    *)
(* what a collector does are left to WritePath.                            *)
(***************************************************************************)
EXTENDS Naturals, FiniteSets, FiniteSetsExt

CONSTANTS
  Collector,  \* the keys of collectorFuncs
  Slow,       \* those that run in a goroutine (services and processes)
  Intervals,  \* cfg.Intervals: name -> seconds
  SemCap,     \* the capacity of sem (2)
  MaxGap      \* bound: seconds between two ticks the loop handles

ASSUME SchedulerAssumption ==
  /\ Slow \subseteq Collector
  /\ Collector # {}
  /\ IsFiniteSet(Slow)
  /\ Intervals \in [DOMAIN Intervals -> Nat \ {0}]
  /\ "system" \in DOMAIN Intervals
  /\ SemCap \in Nat \ {0}
  /\ Cardinality(Slow) <= SemCap
  /\ MaxGap \in Nat \ {0}

VARIABLES
  elapsed,    \* seconds since lastRun[c], up to the interval of c
  slowBusy,   \* slowBusy[c]
  sem,        \* elements in the channel sem
  pc,         \* the loop: "select" | "pass" | "acquire" | "stopped"
  todo,       \* collectors the pass over the map has not reached
  want,       \* while pc is "acquire": the collector a goroutine is for
  running,    \* goroutines inside runCollector, per slow collector
  releasing,  \* goroutines between clearing slowBusy and receiving from sem
  signal,     \* whether done is closed
  ran         \* history: collectors started since the loop began

vars == <<elapsed, slowBusy, sem, pc, todo, want, running, releasing, signal, ran>>

-----------------------------------------------------------------------------
\* The lookup of a collector's interval by its own name; 0 is "not found",
\* and only net_addr has a fallback.
IntervalOf(c) ==
  IF c \in DOMAIN Intervals THEN Intervals[c]
  ELSE IF c = "net_addr" THEN Intervals["system"] ELSE 0

Scheduled == {c \in Collector : IntervalOf(c) # 0}

Due(c) == c \in Scheduled /\ elapsed[c] >= IntervalOf(c)

\* lastRun starts as the zero time: everything is due at the first tick.
Init ==
  /\ elapsed = [c \in Collector |-> IntervalOf(c)]
  /\ slowBusy = [c \in Slow |-> FALSE]
  /\ sem = 0
  /\ pc = "select"
  /\ todo = {}
  /\ want = CHOOSE c \in Collector : TRUE
  /\ running = [c \in Slow |-> 0]
  /\ releasing = 0
  /\ signal = FALSE
  /\ ran = {}

\* case <-ticker.C, d seconds after the last handled tick (less than one when
\* a tick waited in the channel during a long pass).
Tick(d) ==
  /\ pc = "select"
  /\ elapsed' = [c \in Collector |-> Min({elapsed[c] + d, IntervalOf(c)})]
  /\ todo' = Collector
  /\ pc' = "pass"
  /\ UNCHANGED <<slowBusy, sem, want, running, releasing, signal, ran>>

\* case <-done: runLoop returns and the process exits.
Stop ==
  /\ pc = "select"
  /\ signal
  /\ pc' = "stopped"
  /\ UNCHANGED <<elapsed, slowBusy, sem, todo, want, running, releasing, signal, ran>>

\* Mutant of Busy: slowBusy is not looked at.
BusyIgnored(c) == c \notin Collector

Busy(c) == c \in Slow /\ slowBusy[c]

\* The pass reaches c and continues: no interval, not due, or still running.
Skip(c) ==
  /\ pc = "pass"
  /\ c \in todo
  /\ ~Due(c) \/ Busy(c)
  /\ todo' = todo \ {c}
  /\ UNCHANGED <<elapsed, slowBusy, sem, pc, want, running, releasing, signal, ran>>

\* A fast collector runs inside the loop.
RunFast(c) ==
  /\ pc = "pass"
  /\ c \in todo \ Slow
  /\ Due(c)
  /\ elapsed' = [elapsed EXCEPT ![c] = 0]
  /\ todo' = todo \ {c}
  /\ ran' = ran \cup {c}
  /\ UNCHANGED <<slowBusy, sem, pc, want, running, releasing, signal>>

\* A slow collector is marked busy before the loop waits for the semaphore.
StartSlow(c) ==
  /\ pc = "pass"
  /\ c \in todo \cap Slow
  /\ Due(c)
  /\ ~Busy(c)
  /\ slowBusy' = [slowBusy EXCEPT ![c] = TRUE]
  /\ elapsed' = [elapsed EXCEPT ![c] = 0]
  /\ todo' = todo \ {c}
  /\ want' = c
  /\ pc' = "acquire"
  /\ UNCHANGED <<sem, running, releasing, signal, ran>>

\* Mutants of Acquire: the send does not block; slowBusy is cleared as soon as
\* the goroutine is started.
AcquireNoWait ==
  /\ pc = "acquire"
  /\ sem' = sem + 1
  /\ running' = [running EXCEPT ![want] = @ + 1]
  /\ ran' = ran \cup {want}
  /\ pc' = "pass"
  /\ UNCHANGED <<elapsed, slowBusy, todo, want, releasing, signal>>
AcquireClearsBusy ==
  /\ pc = "acquire"
  /\ sem < SemCap
  /\ sem' = sem + 1
  /\ running' = [running EXCEPT ![want] = @ + 1]
  /\ slowBusy' = [slowBusy EXCEPT ![want] = FALSE]
  /\ ran' = ran \cup {want}
  /\ pc' = "pass"
  /\ UNCHANGED <<elapsed, todo, want, releasing, signal>>

\* sem <- struct{}{}; go ...
Acquire ==
  /\ pc = "acquire"
  /\ sem < SemCap
  /\ sem' = sem + 1
  /\ running' = [running EXCEPT ![want] = @ + 1]
  /\ ran' = ran \cup {want}
  /\ pc' = "pass"
  /\ UNCHANGED <<elapsed, slowBusy, todo, want, releasing, signal>>

EndPass ==
  /\ pc = "pass"
  /\ todo = {}
  /\ pc' = "select"
  /\ UNCHANGED <<elapsed, slowBusy, sem, todo, want, running, releasing, signal, ran>>

\* Mutant of Finish: slowBusy is not cleared.
FinishStaysBusy(c) ==
  /\ running[c] > 0
  /\ pc # "stopped"
  /\ running' = [running EXCEPT ![c] = @ - 1]
  /\ releasing' = releasing + 1
  /\ UNCHANGED <<elapsed, slowBusy, sem, pc, todo, want, signal, ran>>

\* runCollector of a goroutine returns: the deferred function clears slowBusy,
Finish(c) ==
  /\ running[c] > 0
  /\ pc # "stopped"
  /\ running' = [running EXCEPT ![c] = @ - 1]
  /\ slowBusy' = [slowBusy EXCEPT ![c] = FALSE]
  /\ releasing' = releasing + 1
  /\ UNCHANGED <<elapsed, sem, pc, todo, want, signal, ran>>

\* Mutant of Release: the semaphore is not received from.
ReleaseLeaks ==
  /\ releasing > 0
  /\ pc # "stopped"
  /\ releasing' = releasing - 1
  /\ UNCHANGED <<elapsed, slowBusy, sem, pc, todo, want, running, signal, ran>>

\* and then receives from sem.
Release ==
  /\ releasing > 0
  /\ pc # "stopped"
  /\ releasing' = releasing - 1
  /\ sem' = sem - 1
  /\ UNCHANGED <<elapsed, slowBusy, pc, todo, want, running, signal, ran>>

\* SIGINT or SIGTERM closes done.
Signal ==
  /\ ~signal
  /\ signal' = TRUE
  /\ UNCHANGED <<elapsed, slowBusy, sem, pc, todo, want, running, releasing, ran>>

\* The process is gone.
Exited ==
  /\ pc = "stopped"
  /\ UNCHANGED vars

Loop ==
  \/ \E d \in 0..MaxGap : Tick(d)
  \/ Stop
  \/ \E c \in Collector : Skip(c) \/ RunFast(c) \/ StartSlow(c)
  \/ Acquire
  \/ EndPass

Goroutines == Release \/ \E c \in Slow : Finish(c)

Next == Loop \/ Goroutines \/ Signal \/ Exited

Spec == Init /\ [][Next]_vars

\* The loop and each goroutine keep running, a collector returns, time
\* passes, and select chooses among its ready cases at random, so a closed
\* done is taken in the end.
Fairness ==
  /\ WF_vars(Loop)
  /\ WF_vars(Release)
  /\ \A c \in Slow : WF_vars(Finish(c))
  /\ SF_vars(\E d \in 1..MaxGap : Tick(d))
  /\ SF_vars(Stop)

FairSpec == Spec /\ Fairness

-----------------------------------------------------------------------------
(* Properties.                                                             *)

TypeOK ==
  /\ elapsed \in [Collector -> Nat]
  /\ \A c \in Collector : elapsed[c] <= IntervalOf(c)
  /\ slowBusy \in [Slow -> BOOLEAN]
  /\ sem \in 0..SemCap
  /\ pc \in {"select", "pass", "acquire", "stopped"}
  /\ todo \subseteq Collector
  /\ want \in Collector
  /\ running \in [Slow -> Nat]
  /\ releasing \in Nat
  /\ signal \in BOOLEAN
  /\ ran \subseteq Collector

\* A slow collector never runs twice at the same time, although its busy flag
\* is set by the loop and cleared by the goroutine.
OneRunPerCollector ==
  \A c \in Slow : /\ running[c] <= 1
                  /\ pc = "acquire" /\ want = c => running[c] = 0

\* The loop may find the semaphore full although only two collectors use it:
\* slowBusy is cleared before sem is released.  But then a goroutine is about
\* to release it: the loop, and with it every fast collector, never waits for
\* a slow collector to finish.
LoopNeverWaitsForARun == pc = "acquire" /\ sem = SemCap => releasing > 0

\* A collector that has an interval is started again and again, whatever the
\* slow ones do, until the process is told to stop.
DueCollectorStarts ==
  \A c \in Scheduled : Due(c) ~> (elapsed[c] < IntervalOf(c) \/ signal)

\* After a signal the loop returns, also when it is in the middle of a pass.
SignalStopsLoop == signal ~> pc = "stopped"

\* README lists an interval for every collector's table (net_io: every 10 s):
\* each collector runs, unless the process is told to stop first.
EveryCollectorRuns == <>(ran = Collector \/ signal)
=============================================================================
