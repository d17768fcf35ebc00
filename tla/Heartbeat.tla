----------------------------- MODULE Heartbeat -----------------------------
(***************************************************************************)
(* What monitor.v_last_heartbeat shows (sql/schema.sql), and so the page's *)
(* table of the collectors' health, while the heartbeat rows take the way  *)
(* of every batch (WritePath): straight to PostgreSQL, or through the      *)
(* spool and a later Replay.                                               *)
(*                                                                         *)
(* Here a batch is the one heartbeat row of one run of a collector.  The   *)
(* row has no ts of its own: the column's DEFAULT now() gives it the time  *)
(* of the COPY that stores it, and the view takes the largest ts, which is *)
(* the row stored last.                                                    *)
(***************************************************************************)
EXTENDS WritePath

CONSTANTS
  Collector,    \* the collectors that run
  Slow,         \* those that run in a goroutine of their own
  CollectorOf   \* CollectorOf[b]: the collector whose run b reports

ASSUME HeartbeatAssumption ==
  /\ CollectorOf \in [Batch -> Collector]
  /\ Slow \subseteq Collector
  /\ Invalid = {}
  /\ Unencodable = {}

VARIABLES
  ended,  \* history: how many runs have ended
  run,    \* history: the place of b in the order the runs ended in; 0: not yet
  shown   \* what the view shows for a collector

hvars == <<vars, ended, run, shown>>

-----------------------------------------------------------------------------
HInit ==
  /\ Init
  /\ ended = 0
  /\ run = [b \in Batch |-> 0]
  /\ shown = [c \in Collector |-> NoBatch]

\* Mutant of NotRunning: a slow collector is started again although it runs.
OverlapAllowed(c) == c \in Collector

\* No run of c is under way: what slowBusy ensures (Scheduler).
NotRunning(c) == \A t \in Thread : cur[t] # NoBatch => CollectorOf[cur[t]] # c

\* runCollector's last call, in the loop or in the goroutine of a slow collector.
InsertHeartbeat(t, b) ==
  /\ t # Main <=> CollectorOf[b] \in Slow
  /\ NotRunning(CollectorOf[b])
  /\ StartInsert(t, b)
  /\ ended' = ended + 1
  /\ run' = [run EXCEPT ![b] = ended + 1]
  /\ UNCHANGED shown

\* COPY gives b's row the time of the COPY, the largest so far.
Stamp(b) ==
  /\ shown' = [shown EXCEPT ![CollectorOf[b]] = b]
  /\ UNCHANGED <<ended, run>>

HInsert(t) ==
  \/ (CopyStored(t) \/ CopyAnswerLost(t)) /\ Stamp(cur[t])
  \/ (CopyFails(t) \/ Enqueue(t) \/ EnqueueFails(t)) /\ UNCHANGED <<ended, run, shown>>

HReplay ==
  \/ \E i \in DOMAIN snap :
       \/ (ReplayWrite(i) \/ ReplayAnswerLost(i)) /\ Stamp(snap[i])
       \/ (ReplayWriteFails(i) \/ ReplayDelete(i)) /\ UNCHANGED <<ended, run, shown>>
  \/ (ReplayRead \/ ReplayDeleteFails \/ ReplayCommit) /\ UNCHANGED <<ended, run, shown>>

HNext ==
  \/ \E t \in Thread : HInsert(t) \/ \E b \in Batch : InsertHeartbeat(t, b)
  \/ HReplay
  \/ (Restart \/ PgDown \/ PgUp) /\ UNCHANGED <<ended, run, shown>>

HSpec == HInit /\ [][HNext]_hvars

\* As WritePath's: goroutines and the loop go on.
HFairSpec == HSpec /\ (\A t \in Thread : WF_hvars(HInsert(t))) /\ WF_hvars(HReplay)

-----------------------------------------------------------------------------
(* Properties.                                                             *)

\* The history variables, and one row per collector in the view: its own.
HTypeOK ==
  /\ ended \in Nat
  /\ run \in [Batch -> 0..ended]
  /\ shown \in [Collector -> Batch \cup {NoBatch}]
  /\ \A c \in Collector : shown[c] # NoBatch => CollectorOf[shown[c]] = c

RunsOf(c) == {b \in Batch : CollectorOf[b] = c /\ run[b] > 0}

IsLast(b) == run[b] > 0 /\ \A a \in RunsOf(CollectorOf[b]) : run[a] <= run[b]

\* Without an older heartbeat of its collector going through the spool, the
\* row of a collector's last run is the one shown as soon as PostgreSQL has it,
\* in whatever order the goroutines' inserts, lost answers and restarts come.
LastRunShownIfNoneBuffered ==
  \A b \in Batch :
    /\ IsLast(b)
    /\ copies[b] > 0
    /\ \A a \in RunsOf(CollectorOf[b]) \ {b} : report[a] # "buffered"
    => shown[CollectorOf[b]] = b

\* Replay writes in the order the batches were buffered, so that a Replay that
\* commits leaves no collector at an older run than the newest it replayed.
ReplayEndsAtNewest ==
  [][ReplayCommit => \A i \in DOMAIN snap :
       run[shown[CollectorOf[snap[i]]]] >= run[snap[i]]]_hvars

\* "View útil: último status por host": when nothing is on its way to
\* PostgreSQL, the view shows the last run of each collector whose row
\* PostgreSQL has.
LastStatusShown ==
  (batches = EmptyTable /\ \A t \in Thread : pc[t] = "idle") =>
    \A b \in Batch : IsLast(b) /\ copies[b] > 0 => shown[CollectorOf[b]] = b
=============================================================================
