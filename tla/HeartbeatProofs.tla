-------------------------- MODULE HeartbeatProofs --------------------------
(***************************************************************************)
(* Proofs about Heartbeat: the heartbeat rows are batches like any other,  *)
(* and the view is right about a collector none of whose older rows was    *)
(* buffered.                                                               *)
(***************************************************************************)
EXTENDS Heartbeat, WritePathProofs

-----------------------------------------------------------------------------
\* Every step of Heartbeat is a step of WritePath.
LEMMA StepIsWritePathStep == [HNext]_hvars => [Next]_vars
<1> SUFFICES ASSUME [HNext]_hvars PROVE [Next]_vars
  OBVIOUS
<1>1. CASE UNCHANGED hvars
  BY <1>1 DEF hvars
<1>2. ASSUME NEW t \in Thread, HInsert(t) PROVE Next
  BY <1>2 DEF HInsert, Next, Insert
<1>3. ASSUME NEW t \in Thread, NEW b \in Batch, InsertHeartbeat(t, b) PROVE Next
  BY <1>3 DEF InsertHeartbeat, Next, Collect
<1>4. CASE HReplay
  BY <1>4 DEF HReplay, Next, Replay
<1>5. CASE Restart \/ PgDown \/ PgUp
  BY <1>5 DEF Next
<1> QED BY <1>1, <1>2, <1>3, <1>4, <1>5 DEF HNext

\* What is true of every batch is true of heartbeats: in particular, none that
\* was reported stored or buffered is lost, and the spool is a queue of them.
THEOREM HeartbeatsAreBatches == HSpec => Spec /\ []NoSilentLoss /\ ImplementsBatchQueue
<1>1. HInit => Init
  BY DEF HInit
<1>2. HSpec => Spec
  BY <1>1, StepIsWritePathStep, PTL DEF HSpec, Spec
<1> QED BY <1>2, NothingIsLost, SpoolIsAQueue, PTL

-----------------------------------------------------------------------------
(* The inductive invariant.  Only the last run of a collector is being     *)
(* inserted; what Replay writes was buffered; a run has a place of its own *)
(* in the order.                                                           *)

RunsInOrder ==
  /\ \A b \in Batch : /\ copies[b] > 0 \/ report[b] # "none" => run[b] > 0
                      /\ run[b] > 0 => b \notin Fresh
  /\ \A a, b \in Batch : run[a] = run[b] /\ run[a] > 0 => a = b

OnlyLastInFlight ==
  \A t \in Thread : cur[t] # NoBatch => IsLast(cur[t]) /\ report[cur[t]] = "none"

SnapshotWasBuffered == \A i \in DOMAIN snap : report[snap[i]] = "buffered"

HInv ==
  /\ IInv
  /\ HTypeOK
  /\ RunsInOrder
  /\ OnlyLastInFlight
  /\ SnapshotWasBuffered
  /\ LastRunShownIfNoneBuffered

LEMMA HInvInit == HInit => HInv
<1> SUFFICES ASSUME HInit PROVE HInv
  OBVIOUS
<1>1. IInv
  BY InvInit DEF HInit
<1>2. HTypeOK
  BY HeartbeatAssumption DEF HInit, HTypeOK
<1>3. RunsInOrder
  BY DEF HInit, Init, RunsInOrder
<1>4. OnlyLastInFlight
  BY DEF HInit, Init, OnlyLastInFlight
<1>5. SnapshotWasBuffered
  BY DEF HInit, Init, EmptyTable, SnapshotWasBuffered
<1>6. LastRunShownIfNoneBuffered
  BY DEF HInit, LastRunShownIfNoneBuffered, IsLast
<1> QED BY <1>1, <1>2, <1>3, <1>4, <1>5, <1>6 DEF HInv

\* The parts of HInv that are Heartbeat's own.
HOwn ==
  /\ HTypeOK
  /\ RunsInOrder
  /\ OnlyLastInFlight
  /\ SnapshotWasBuffered
  /\ LastRunShownIfNoneBuffered

\* A run ends: it is the last of its collector, and PostgreSQL has none of it.
LEMMA HInvInsertHeartbeat ==
  ASSUME HInv, TypeOK', NEW t \in Thread, NEW b \in Batch, InsertHeartbeat(t, b)
  PROVE  HOwn'
<1> USE HeartbeatAssumption, BatchAssumption
<1>0. TypeOK /\ HTypeOK
  BY DEF HInv, IInv, TInv
<1>1. /\ b \in Fresh
      /\ cur' = [cur EXCEPT ![t] = b]
      /\ UNCHANGED <<copies, report, snap, shown>>
      /\ ended' = ended + 1
      /\ run' = [run EXCEPT ![b] = ended + 1]
  BY DEF InsertHeartbeat, StartInsert
<1>2. run[b] = 0 /\ copies[b] = 0 /\ report[b] = "none"
  BY <1>0, <1>1 DEF HInv, RunsInOrder, Fresh, TypeOK, HTypeOK
<1>3. \A a \in Batch : run[a] \in Nat /\ run[a] <= ended /\ ended \in Nat
  BY <1>0 DEF HTypeOK
<1>4. /\ run'[b] = ended + 1
      /\ \A a \in Batch \ {b} : run'[a] = run[a]
      /\ cur'[t] = b
      /\ \A u \in Thread \ {t} : cur'[u] = cur[u]
  BY <1>0, <1>1 DEF TypeOK, HTypeOK
<1>5. HTypeOK'
  BY <1>0, <1>1, <1>3 DEF HTypeOK
<1>6. RunsInOrder'
  <2>1. \A a \in Batch : a \in Fresh' => a \in Fresh /\ a # b
    <3> SUFFICES ASSUME NEW a \in Batch, a \in Fresh' PROVE a \in Fresh /\ a # b
      OBVIOUS
    <3>1. report[a] = "none" /\ \A u \in Thread : cur'[u] # a
      BY <1>1 DEF Fresh
    <3>2. a # b
      BY <3>1, <1>4
    <3>3. cur[t] = NoBatch
      BY <1>0 DEF InsertHeartbeat, StartInsert, TypeOK
    <3>4. \A u \in Thread : cur[u] # a
      BY <3>1, <3>3, <1>4
    <3> QED BY <3>1, <3>2, <3>4 DEF Fresh
  <2> QED BY <2>1, <1>1, <1>2, <1>3, <1>4 DEF HInv, RunsInOrder
<1>7. OnlyLastInFlight'
  <2> SUFFICES ASSUME NEW u \in Thread, cur'[u] # NoBatch
               PROVE  IsLast(cur[u])' /\ report[cur'[u]] = "none"
    BY <1>1 DEF OnlyLastInFlight
  <2>1. CASE u = t
    BY <2>1, <1>2, <1>3, <1>4 DEF IsLast, RunsOf
  <2>2. CASE u # t
    <3>1. cur'[u] = cur[u] /\ cur[u] \in Batch
      BY <2>2, <1>4, <1>0 DEF TypeOK
    <3>2. CollectorOf[cur[u]] # CollectorOf[b]
      BY <3>1 DEF InsertHeartbeat, NotRunning
    <3>3. IsLast(cur[u]) /\ report[cur[u]] = "none"
      BY <3>1 DEF HInv, OnlyLastInFlight
    <3> QED BY <3>1, <3>2, <3>3, <1>3, <1>4 DEF IsLast, RunsOf
  <2> QED BY <2>1, <2>2
<1>8. SnapshotWasBuffered'
  BY <1>1 DEF HInv, SnapshotWasBuffered
<1>9. LastRunShownIfNoneBuffered'
  <2> SUFFICES ASSUME NEW d \in Batch, IsLast(d)', copies[d] > 0,
                      \A a \in RunsOf(CollectorOf[d])' \ {d} : report[a] # "buffered"
               PROVE  shown[CollectorOf[d]] = d
    BY <1>1 DEF LastRunShownIfNoneBuffered
  <2>1. d # b
    BY <1>2
  <2>2. CollectorOf[d] # CollectorOf[b]
    <3>1. b \in RunsOf(CollectorOf[b])'
      BY <1>3, <1>4 DEF RunsOf
    <3> QED BY <3>1, <2>1, <1>3, <1>4 DEF IsLast
  <2>3. RunsOf(CollectorOf[d])' = RunsOf(CollectorOf[d])
    BY <2>2, <1>4 DEF RunsOf
  <2>4. IsLast(d)
    <3>1. run'[d] = run[d] /\ b \notin RunsOf(CollectorOf[d])
      BY <2>1, <2>2, <1>4 DEF RunsOf
    <3>2. \A a \in RunsOf(CollectorOf[d]) : run'[a] = run[a]
      BY <3>1, <1>4 DEF RunsOf
    <3> QED BY <3>1, <3>2, <2>3 DEF IsLast
  <2> QED BY <2>3, <2>4 DEF HInv, LastRunShownIfNoneBuffered
<1> QED BY <1>5, <1>6, <1>7, <1>8, <1>9 DEF HOwn

\* What every other step does: it stores a row, or leaves PostgreSQL alone; a
\* goroutine keeps its row or reports it; Replay reads what was buffered.
RowsFollow ==
  /\ UNCHANGED <<ended, run>>
  /\ \/ UNCHANGED <<shown, copies>>
     \/ \E b \in Batch : /\ Stamp(b)
                         /\ copies' = Copied(b)
                         /\ run[b] > 0
                         /\ IsLast(b) \/ report[b] = "buffered"
  /\ \A t \in Thread : cur'[t] # NoBatch => cur'[t] = cur[t]
  /\ \A b \in Batch : report'[b] # report[b] =>
       /\ report'[b] # "none"
       /\ \E t \in Thread : cur[t] = b
       /\ \A t \in Thread : cur'[t] # b
  /\ \A t \in Thread : cur[t] # NoBatch => cur'[t] = cur[t] \/ report'[cur[t]] # "none"
  /\ \A i \in DOMAIN snap' : report[snap'[i]] = "buffered"

LEMMA HInvRowsFollow ==
  ASSUME HInv, TypeOK', RowsFollow
  PROVE  HOwn'
<1> USE HeartbeatAssumption, BatchAssumption
<1>0. TypeOK /\ HTypeOK /\ RunsInOrder /\ OnlyLastInFlight
  BY DEF HInv, IInv, TInv
<1>1. /\ run' = run /\ ended' = ended
      /\ \A b : RunsOf(b)' = RunsOf(b)
      /\ \A b : IsLast(b)' <=> IsLast(b)
  BY DEF RowsFollow, RunsOf, IsLast
<1>2. \A b \in Batch : report'[b] # report[b] => report[b] = "none"
  BY <1>0 DEF RowsFollow, OnlyLastInFlight
<1>3. HTypeOK'
  BY <1>0, <1>1 DEF RowsFollow, HTypeOK, Stamp
<1>4. RunsInOrder'
  <2>1. ASSUME NEW b \in Batch, copies'[b] > 0 \/ report'[b] # "none" PROVE run[b] > 0
    <3>1. CASE report'[b] # "none"
      BY <3>1, <1>0 DEF RowsFollow, RunsInOrder, OnlyLastInFlight, IsLast
    <3>2. CASE copies'[b] > 0 /\ ~(copies[b] > 0)
      BY <3>2, <1>0 DEF RowsFollow, Copied, TypeOK
    <3> QED BY <2>1, <3>1, <3>2, <1>0 DEF RunsInOrder
  <2>2. ASSUME NEW b \in Batch, run[b] > 0 PROVE b \notin Fresh'
    <3>1. b \notin Fresh
      BY <2>2, <1>0 DEF RunsInOrder
    <3>2. CASE report[b] # "none"
      BY <3>2, <1>2 DEF Fresh
    <3>3. CASE \E t \in Thread : cur[t] = b
      BY <3>3 DEF RowsFollow, Fresh
    <3> QED BY <3>1, <3>2, <3>3 DEF Fresh
  <2> QED BY <2>1, <2>2, <1>0, <1>1 DEF RunsInOrder
<1>5. OnlyLastInFlight'
  <2> SUFFICES ASSUME NEW t \in Thread, cur'[t] # NoBatch
               PROVE  IsLast(cur'[t]) /\ report'[cur'[t]] = "none"
    BY <1>1 DEF OnlyLastInFlight, IsLast, RunsOf
  <2>1. cur'[t] = cur[t] /\ cur[t] \in Batch
    BY <1>0 DEF RowsFollow, TypeOK
  <2> QED BY <2>1, <1>0 DEF RowsFollow, OnlyLastInFlight
<1>6. SnapshotWasBuffered'
  <2> SUFFICES ASSUME NEW i \in DOMAIN snap' PROVE report'[snap'[i]] = "buffered"
    BY DEF SnapshotWasBuffered
  <2>1. snap'[i] \in Batch /\ report[snap'[i]] = "buffered"
    BY DEF TypeOK, RowsFollow
  <2> QED BY <2>1, <1>2
<1>7. LastRunShownIfNoneBuffered'
  <2> SUFFICES ASSUME NEW d \in Batch, IsLast(d), copies'[d] > 0,
                      \A a \in RunsOf(CollectorOf[d]) \ {d} : report'[a] # "buffered"
               PROVE  shown'[CollectorOf[d]] = d
    BY <1>1 DEF LastRunShownIfNoneBuffered
  <2>1. \A a \in RunsOf(CollectorOf[d]) \ {d} : report[a] # "buffered"
    BY <1>2 DEF RunsOf
  <2>2. copies[d] > 0 => shown[CollectorOf[d]] = d
    BY <2>1 DEF HInv, LastRunShownIfNoneBuffered
  <2>3. CASE UNCHANGED <<shown, copies>>
    BY <2>2, <2>3
  <2>4. ASSUME NEW b \in Batch, Stamp(b), copies' = Copied(b), run[b] > 0,
               IsLast(b) \/ report[b] = "buffered"
        PROVE  shown'[CollectorOf[d]] = d
    <3>1. shown' = [shown EXCEPT ![CollectorOf[b]] = b]
      BY <2>4 DEF Stamp
    <3>2. CASE b = d
      BY <3>1, <3>2, <1>0 DEF HTypeOK
    <3>3. CASE b # d /\ CollectorOf[b] = CollectorOf[d]
      <4>1. b \in RunsOf(CollectorOf[d]) \ {d} /\ d \in RunsOf(CollectorOf[d])
        BY <2>4, <3>3 DEF RunsOf, IsLast
      <4>2. IsLast(b)
        BY <4>1, <2>1, <2>4
      <4>3. run[b] <= run[d] /\ run[d] <= run[b] /\ run[b] \in Nat /\ run[d] \in Nat
        BY <4>1, <4>2, <3>3, <1>0 DEF IsLast, HTypeOK
      <4>4. run[b] = run[d]
        BY <4>3
      <4> QED BY <4>4, <3>3, <2>4, <1>0 DEF RunsInOrder
    <3>4. CASE CollectorOf[b] # CollectorOf[d]
      <4>1. copies'[d] = copies[d]
        BY <2>4, <3>4, <1>0 DEF Copied, TypeOK
      <4> QED BY <4>1, <3>1, <3>4, <2>2, <1>0 DEF HTypeOK
    <3> QED BY <3>2, <3>3, <3>4
  <2> QED BY <2>3, <2>4 DEF RowsFollow
<1> QED BY <1>3, <1>4, <1>5, <1>6, <1>7 DEF HOwn

LEMMA InsertFollows ==
  ASSUME HInv, NEW t \in Thread, HInsert(t)
  PROVE  RowsFollow
<1>0. TypeOK /\ OnlyLastInFlight /\ SnapshotWasBuffered
  BY DEF HInv, IInv, TInv
<1>1. \A u \in Thread \ {t} : cur[u] = cur[t] => cur[t] = NoBatch
  BY DEF HInv, IInv, ReplayInv
<1>2. cur[t] \in Batch /\ IsLast(cur[t]) /\ run[cur[t]] > 0
  <2>1. cur[t] # NoBatch
    BY <1>0 DEF HInsert, CopyStored, CopyAnswerLost, CopyFails, Enqueue,
                EnqueueFails, TypeOK
  <2> QED BY <2>1, <1>0 DEF TypeOK, OnlyLastInFlight, IsLast
<1>3. ASSUME NEW s, s # "none", Return(t, s), UNCHANGED snap
      PROVE  /\ \A u \in Thread : cur'[u] # NoBatch => cur'[u] = cur[u]
             /\ \A b \in Batch : report'[b] # report[b] =>
                  /\ report'[b] # "none"
                  /\ \E u \in Thread : cur[u] = b
                  /\ \A u \in Thread : cur'[u] # b
             /\ \A u \in Thread : cur[u] # NoBatch =>
                  cur'[u] = cur[u] \/ report'[cur[u]] # "none"
             /\ \A i \in DOMAIN snap' : report[snap'[i]] = "buffered"
  <2>1. /\ cur' = [cur EXCEPT ![t] = NoBatch]
        /\ report' = [report EXCEPT ![cur[t]] = s]
    BY <1>3 DEF Return
  <2>2. /\ cur'[t] = NoBatch
        /\ report'[cur[t]] = s
        /\ \A u \in Thread \ {t} : cur'[u] = cur[u]
        /\ \A b \in Batch \ {cur[t]} : report'[b] = report[b]
    BY <2>1, <1>0, <1>2 DEF TypeOK
  <2>3. NoBatch \notin Batch
    BY BatchAssumption
  <2> QED BY <2>2, <2>3, <1>0, <1>1, <1>2, <1>3 DEF SnapshotWasBuffered
<1>4. CASE (CopyStored(t) \/ CopyAnswerLost(t)) /\ Stamp(cur[t])
  <2>1. copies' = Copied(cur[t]) /\ UNCHANGED <<ended, run, snap>>
    BY <1>4 DEF CopyStored, CopyAnswerLost, Stamp
  <2>2. CASE CopyStored(t)
    BY <2>1, <2>2, <1>2, <1>3, <1>4 DEF CopyStored, RowsFollow
  <2>3. CASE CopyAnswerLost(t)
    BY <2>1, <2>3, <1>0, <1>2, <1>4 DEF CopyAnswerLost, RowsFollow, SnapshotWasBuffered
  <2> QED BY <1>4, <2>2, <2>3
<1>5. CASE CopyFails(t) /\ UNCHANGED <<ended, run, shown>>
  BY <1>5, <1>0 DEF CopyFails, RowsFollow, SnapshotWasBuffered
<1>6. CASE (Enqueue(t) \/ EnqueueFails(t)) /\ UNCHANGED <<ended, run, shown>>
  BY <1>6, <1>3 DEF Enqueue, EnqueueFails, RowsFollow
<1> QED BY <1>4, <1>5, <1>6 DEF HInsert

LEMMA ReplayFollows ==
  ASSUME HInv, HReplay
  PROVE  RowsFollow
<1>0. TypeOK /\ RunsInOrder /\ SnapshotWasBuffered
  BY DEF HInv, IInv, TInv
<1>1. ASSUME NEW i \in DOMAIN snap, ReplayWrite(i) \/ ReplayAnswerLost(i), Stamp(snap[i])
      PROVE  RowsFollow
  <2>1. snap[i] \in Batch /\ report[snap[i]] = "buffered" /\ run[snap[i]] > 0
    BY <1>0 DEF TypeOK, SnapshotWasBuffered, RunsInOrder
  <2>2. copies' = Copied(snap[i]) /\ UNCHANGED <<cur, report>>
    BY <1>1, HeartbeatAssumption DEF ReplayWrite, ReplayAnswerLost
  <2>3. snap' = snap \/ DOMAIN snap' = {}
    BY <1>1 DEF ReplayWrite, ReplayAnswerLost, Rollback, EmptyTable
  <2>4. UNCHANGED <<ended, run>>
    BY <1>1 DEF Stamp
  <2> QED BY <1>1, <2>1, <2>2, <2>3, <2>4, <1>0 DEF RowsFollow, SnapshotWasBuffered
<1>2. ASSUME UNCHANGED <<ended, run, shown>>,
             \/ \E i \in DOMAIN snap : ReplayWriteFails(i) \/ ReplayDelete(i)
             \/ ReplayRead \/ ReplayDeleteFails \/ ReplayCommit
      PROVE  RowsFollow
  <2>1. UNCHANGED <<cur, report, copies>>
    BY <1>2 DEF ReplayWriteFails, ReplayDelete, ReplayRead, ReplayDeleteFails, ReplayCommit
  <2>2. \A i \in DOMAIN snap' : report[snap'[i]] = "buffered"
    <3>1. CASE ReplayRead
      <4>1. \A i \in DOMAIN snap' : i \in DOMAIN batches /\ snap'[i] = batches[i]
        BY <3>1, <1>0, ReadEffect
      <4> QED BY <4>1 DEF HInv, IInv, ReplayInv
    <3>2. CASE ~ReplayRead
      <4>1. snap' = snap \/ DOMAIN snap' = {}
        BY <1>2, <3>2 DEF ReplayWriteFails, ReplayDelete, ReplayDeleteFails, ReplayCommit,
                  Rollback, EmptyTable
      <4> QED BY <4>1, <1>0 DEF SnapshotWasBuffered
    <3> QED BY <3>1, <3>2
  <2> QED BY <1>2, <2>1, <2>2 DEF RowsFollow
<1> QED BY <1>1, <1>2 DEF HReplay

LEMMA EnvironmentFollows ==
  ASSUME HInv, UNCHANGED <<ended, run, shown>>, Restart \/ PgDown \/ PgUp \/ UNCHANGED vars
  PROVE  RowsFollow
<1>0. TypeOK /\ SnapshotWasBuffered
  BY DEF HInv, IInv, TInv
<1>1. CASE Restart
  <2>1. /\ \A t \in Thread : cur'[t] = NoBatch
        /\ \A b \in Batch : report'[b] = IF \E t \in Thread : cur[t] = b
                                         THEN "lost" ELSE report[b]
        /\ DOMAIN snap' = {}
        /\ UNCHANGED copies
    BY <1>1 DEF Restart, EmptyTable
  <2>2. \A t \in Thread : cur[t] # NoBatch => report'[cur[t]] # "none"
    BY <2>1, <1>0 DEF TypeOK
  <2> QED BY <2>1, <2>2, BatchAssumption DEF RowsFollow
<1>2. CASE PgDown \/ PgUp \/ UNCHANGED vars
  BY <1>2, <1>0 DEF PgDown, PgUp, vars, RowsFollow, SnapshotWasBuffered
<1> QED BY <1>1, <1>2

LEMMA HInvStep == HInv /\ [HNext]_hvars => HInv'
<1> SUFFICES ASSUME HInv, [HNext]_hvars PROVE HInv'
  OBVIOUS
<1>1. IInv' /\ TypeOK'
  BY StepIsWritePathStep, InvStep DEF HInv, IInv, TInv
<1>2. ASSUME NEW t \in Thread, NEW b \in Batch, InsertHeartbeat(t, b) PROVE HOwn'
  BY <1>1, <1>2, HInvInsertHeartbeat
<1>3. ASSUME RowsFollow PROVE HOwn'
  BY <1>1, <1>3, HInvRowsFollow
<1>4. ASSUME NEW t \in Thread, HInsert(t) PROVE RowsFollow
  BY <1>4, InsertFollows
<1>5. ASSUME HReplay PROVE HOwn'
  BY <1>3, <1>5, ReplayFollows
<1>6. ASSUME \/ UNCHANGED hvars
             \/ (Restart \/ PgDown \/ PgUp) /\ UNCHANGED <<ended, run, shown>>
      PROVE  HOwn'
  BY <1>3, <1>6, EnvironmentFollows DEF hvars
<1>7. HOwn'
  BY <1>2, <1>3, <1>4, <1>5, <1>6 DEF HNext
<1> QED BY <1>1, <1>7 DEF HInv, HOwn

\* The last run of a collector none of whose older rows was buffered is the one
\* the view shows as soon as PostgreSQL has it.
THEOREM LastRunIsShown == HSpec => []LastRunShownIfNoneBuffered
<1>1. HInv => LastRunShownIfNoneBuffered
  BY DEF HInv
<1> QED BY <1>1, HInvInit, HInvStep, PTL DEF HSpec

-----------------------------------------------------------------------------
(* A Replay ends at the newest run it replayed.  The ids of the spool are  *)
(* in the order of a collector's runs, since only the last run is ever     *)
(* enqueued; Replay takes them in the order of their ids; and a goroutine  *)
(* that stores a row meanwhile stores the last run.                        *)

\* The view shows run b of its collector or a later one.
Ahead(b) == /\ shown[CollectorOf[b]] # NoBatch
            /\ run[b] <= run[shown[CollectorOf[b]]]

\* Ids of table t follow the order of a collector's runs.
IdsFollowRuns(t) ==
  \A i, j \in DOMAIN t :
    i < j /\ CollectorOf[t[i]] = CollectorOf[t[j]] => run[t[i]] < run[t[j]]

ReplayProgress ==
  /\ \A i \in done, j \in Pending : i < j
  /\ \A i \in done : Ahead(snap[i])
  /\ pc[Main] = "delete" => \A i \in Pending : IsNext(i) => Ahead(snap[i])

OrderInv == HInv /\ IdsFollowRuns(batches) /\ IdsFollowRuns(snap) /\ ReplayProgress

\* What OrderInv adds to HInv.
OrderOwn == IdsFollowRuns(batches) /\ IdsFollowRuns(snap) /\ ReplayProgress

LEMMA OrderFacts ==
  ASSUME HInv
  PROVE  /\ TypeOK /\ HTypeOK
         /\ \A b \in Batch : run[b] \in Nat /\ run[b] <= ended /\ ended \in Nat
         /\ \A i \in DOMAIN batches : batches[i] \in Batch /\ report[batches[i]] = "buffered"
         /\ \A i \in DOMAIN snap : snap[i] \in Batch /\ report[snap[i]] = "buffered"
         /\ \A b \in Batch : report[b] = "buffered" => run[b] > 0
         /\ \A c \in Collector : shown[c] # NoBatch => shown[c] \in Batch
  BY DEF HInv, IInv, TInv, ReplayInv, SnapshotWasBuffered, RunsInOrder, TypeOK, HTypeOK

\* A Replay that begins or gives up has nothing to answer for.
LEMMA NothingReplayed ==
  ASSUME OrderInv, UNCHANGED run, done' = {}, DOMAIN snap' = {},
         DOMAIN batches' \subseteq DOMAIN batches,
         \A i \in DOMAIN batches' : batches'[i] = batches[i]
  PROVE  OrderOwn'
  BY DEF OrderInv, OrderOwn, IdsFollowRuns, ReplayProgress, Pending

LEMMA OrderInsertHeartbeat ==
  ASSUME OrderInv, NEW t \in Thread, NEW b \in Batch, InsertHeartbeat(t, b)
  PROVE  OrderOwn'
<1> USE HeartbeatAssumption
<1>0. HInv
  BY DEF OrderInv
<1>1. /\ report[b] = "none" /\ UNCHANGED <<batches, snap, done, shown>>
      /\ run' = [run EXCEPT ![b] = ended + 1]
      /\ pc' = [pc EXCEPT ![t] = "copy"]
  BY DEF InsertHeartbeat, StartInsert, Fresh
<1>2. /\ \A i \in DOMAIN batches : run'[batches[i]] = run[batches[i]]
      /\ \A i \in DOMAIN snap : run'[snap[i]] = run[snap[i]]
  BY <1>0, <1>1, OrderFacts DEF HTypeOK
<1>3. ASSUME NEW i \in DOMAIN snap, Ahead(snap[i]) PROVE Ahead(snap[i])'
  <2>1. shown[CollectorOf[snap[i]]] \in Batch
    BY <1>0, <1>3, OrderFacts DEF Ahead
  <2>2. run[shown[CollectorOf[snap[i]]]] <= run'[shown[CollectorOf[snap[i]]]]
    BY <1>0, <1>1, <2>1, OrderFacts DEF HTypeOK
  <2>3. run'[shown[CollectorOf[snap[i]]]] \in Nat
    BY <1>0, <1>1, <2>1, OrderFacts DEF HTypeOK
  <2>4. run[snap[i]] \in Nat /\ run[shown[CollectorOf[snap[i]]]] \in Nat
    BY <1>0, <2>1, OrderFacts
  <2> QED BY <1>1, <1>2, <1>3, <2>2, <2>3, <2>4 DEF Ahead
<1>4. done \subseteq DOMAIN snap /\ (pc'[Main] = "delete" => pc[Main] = "delete")
  BY <1>0, <1>1, OrderFacts DEF TypeOK
<1>5. ReplayProgress'
  BY <1>1, <1>3, <1>4 DEF OrderInv, ReplayProgress, Pending, IsNext
<1> QED BY <1>1, <1>2, <1>5 DEF OrderInv, OrderOwn, IdsFollowRuns

\* A goroutine stores the last run of a collector.
LEMMA OrderCopy ==
  ASSUME OrderInv, NEW t \in Thread, CopyStored(t) \/ CopyAnswerLost(t), Stamp(cur[t])
  PROVE  OrderOwn'
<1> USE HeartbeatAssumption, BatchAssumption
<1>0. HInv
  BY DEF OrderInv
<1>1. /\ UNCHANGED <<batches, snap, done, run>>
      /\ shown' = [shown EXCEPT ![CollectorOf[cur[t]]] = cur[t]]
  BY DEF CopyStored, CopyAnswerLost, Stamp
<1>2. pc'[Main] = "delete" => pc[Main] = "delete"
  BY <1>0, OrderFacts, ProcessAssumption DEF CopyStored, CopyAnswerLost, Return, TypeOK
<1>3. cur[t] \in Batch /\ IsLast(cur[t])
  <2>1. cur[t] # NoBatch
    BY <1>0, OrderFacts DEF CopyStored, CopyAnswerLost, TypeOK
  <2> QED BY <1>0, <2>1, OrderFacts DEF HInv, OnlyLastInFlight, TypeOK
<1>4. ASSUME NEW i \in DOMAIN snap, Ahead(snap[i]) PROVE Ahead(snap[i])'
  <2>1. snap[i] \in Batch /\ run[snap[i]] > 0
    BY <1>0, OrderFacts
  <2>2. CASE CollectorOf[snap[i]] = CollectorOf[cur[t]]
    <3>1. shown'[CollectorOf[snap[i]]] = cur[t]
      BY <1>0, <1>1, <1>3, <2>2, OrderFacts DEF HTypeOK
    <3>2. run[snap[i]] <= run[cur[t]]
      BY <1>3, <2>1, <2>2 DEF IsLast, RunsOf
    <3> QED BY <1>1, <1>3, <3>1, <3>2 DEF Ahead
  <2>3. CASE CollectorOf[snap[i]] # CollectorOf[cur[t]]
    <3>1. shown'[CollectorOf[snap[i]]] = shown[CollectorOf[snap[i]]]
      BY <1>0, <1>1, <2>1, <2>3, OrderFacts DEF HTypeOK
    <3> QED BY <1>1, <1>4, <3>1 DEF Ahead
  <2> QED BY <2>2, <2>3
<1>5. done \subseteq DOMAIN snap
  BY <1>0, OrderFacts DEF TypeOK
<1>6. ReplayProgress'
  BY <1>1, <1>2, <1>4, <1>5 DEF OrderInv, ReplayProgress, Pending, IsNext
<1> QED BY <1>1, <1>6 DEF OrderInv, OrderOwn, IdsFollowRuns

\* The row that enters the spool is of the last run of its collector.
LEMMA OrderEnqueue ==
  ASSUME OrderInv, NEW t \in Thread, Enqueue(t), UNCHANGED <<ended, run, shown>>
  PROVE  OrderOwn'
<1> USE HeartbeatAssumption, BatchAssumption
<1>0. HInv /\ TypeOK /\ SpooledOnce /\ Bounded(DOMAIN batches)
  BY DEF OrderInv, HInv, IInv, TInv
<1>1. PICK n \in DOMAIN batches' \ DOMAIN batches :
        /\ n \in Nat \ {0}
        /\ \A i \in DOMAIN batches : i < n
        /\ DOMAIN batches' \subseteq DOMAIN batches \cup {n}
        /\ batches'[n] = cur[t]
        /\ \A i \in DOMAIN batches' \ {n} : batches'[i] = batches[i]
  BY <1>0, EnqueueEffect
<1>2. cur[t] \in Batch /\ IsLast(cur[t]) /\ cur[t] \notin Spooled
  <2>1. cur[t] \in Batch
    BY <1>0, EnqueueEffect
  <2> QED BY <1>0, <2>1 DEF HInv, OnlyLastInFlight, SpooledOnce
<1>3. ASSUME NEW i \in DOMAIN batches, CollectorOf[batches[i]] = CollectorOf[cur[t]]
      PROVE  run[batches[i]] < run[cur[t]]
  <2>1. batches[i] \in Batch /\ run[batches[i]] > 0 /\ batches[i] # cur[t]
    BY <1>0, <1>2, OrderFacts DEF Spooled
  <2>2. run[batches[i]] <= run[cur[t]]
    BY <1>2, <1>3, <2>1 DEF IsLast, RunsOf
  <2>3. run[batches[i]] # run[cur[t]]
    BY <1>0, <1>2, <2>1 DEF HInv, RunsInOrder
  <2>4. run[batches[i]] \in Nat /\ run[cur[t]] \in Nat
    BY <1>0, <1>2, <2>1, OrderFacts
  <2> QED BY <2>2, <2>3, <2>4
<1>4. IdsFollowRuns(batches)'
  <2> SUFFICES ASSUME NEW i \in DOMAIN batches', NEW j \in DOMAIN batches', i < j,
                      CollectorOf[batches'[i]] = CollectorOf[batches'[j]]
               PROVE  run[batches'[i]] < run[batches'[j]]
    BY DEF IdsFollowRuns
  <2>1. i # n
    BY <1>0, <1>1 DEF TypeOK
  <2>2. i \in DOMAIN batches /\ batches'[i] = batches[i]
    BY <1>1, <2>1
  <2>3. CASE j = n
    BY <1>1, <1>3, <2>2, <2>3
  <2>4. CASE j # n
    BY <1>1, <2>2, <2>4 DEF OrderInv, IdsFollowRuns
  <2> QED BY <2>3, <2>4
<1>5. UNCHANGED <<snap, done>> /\ (pc'[Main] = "delete" => pc[Main] = "delete")
  BY <1>0 DEF Enqueue, Return, TypeOK
<1> QED BY <1>4, <1>5 DEF OrderInv, OrderOwn, IdsFollowRuns, ReplayProgress, Pending, IsNext, Ahead

\* Replay stores the row it is at, which comes after those it has deleted.
LEMMA OrderReplayWrite ==
  ASSUME OrderInv, NEW i \in DOMAIN snap, ReplayWrite(i), Stamp(snap[i])
  PROVE  OrderOwn'
<1> USE HeartbeatAssumption, BatchAssumption
<1>0. HInv
  BY DEF OrderInv
<1>1. /\ UNCHANGED <<batches, snap, done, run>>
      /\ shown' = [shown EXCEPT ![CollectorOf[snap[i]]] = snap[i]]
      /\ i \in Pending /\ \A j \in Pending : i <= j
  BY DEF ReplayWrite, Stamp, IsNext
<1>2. snap[i] \in Batch /\ done \subseteq DOMAIN snap /\ DOMAIN snap \subseteq Nat
  BY <1>0, OrderFacts DEF TypeOK
<1>3. shown'[CollectorOf[snap[i]]] = snap[i] /\ run[snap[i]] \in Nat
  BY <1>0, <1>1, <1>2, OrderFacts DEF HTypeOK
<1>4. Ahead(snap[i])'
  BY <1>1, <1>2, <1>3 DEF Ahead
<1>5. ASSUME NEW j \in done PROVE Ahead(snap[j])'
  <2>1. j < i /\ Ahead(snap[j]) /\ snap[j] \in Batch
    BY <1>0, <1>1, <1>2, OrderFacts DEF OrderInv, ReplayProgress
  <2>2. CASE CollectorOf[snap[j]] = CollectorOf[snap[i]]
    <3>1. run[snap[j]] < run[snap[i]]
      BY <1>2, <2>1, <2>2 DEF OrderInv, IdsFollowRuns
    <3>2. run[snap[j]] \in Nat
      BY <1>0, <2>1, OrderFacts
    <3> QED BY <1>1, <1>2, <1>3, <2>2, <3>1, <3>2 DEF Ahead
  <2>3. CASE CollectorOf[snap[j]] # CollectorOf[snap[i]]
    <3>1. shown'[CollectorOf[snap[j]]] = shown[CollectorOf[snap[j]]]
      BY <1>0, <1>1, <2>1, <2>3, OrderFacts DEF HTypeOK
    <3> QED BY <1>1, <2>1, <3>1 DEF Ahead
  <2> QED BY <2>2, <2>3
<1>6. \A j \in Pending : IsNext(j) => j = i
  BY <1>1, <1>2 DEF IsNext, Pending
<1>7. ReplayProgress'
  BY <1>1, <1>4, <1>5, <1>6 DEF OrderInv, ReplayProgress, Pending, IsNext
<1> QED BY <1>1, <1>7 DEF OrderInv, OrderOwn, IdsFollowRuns

LEMMA OrderReplay ==
  ASSUME OrderInv, HReplay
  PROVE  OrderOwn'
<1>0. HInv /\ TypeOK
  BY DEF OrderInv, HInv, IInv, TInv
<1>1. ASSUME NEW i \in DOMAIN snap, ReplayWrite(i), Stamp(snap[i]) PROVE OrderOwn'
  BY <1>1, OrderReplayWrite
<1>2. ASSUME UNCHANGED <<batches, run>>, Rollback PROVE OrderOwn'
  BY <1>2, NothingReplayed DEF Rollback, EmptyTable
<1>3. ASSUME NEW i \in DOMAIN snap, ReplayDelete(i), UNCHANGED <<run, shown>> PROVE OrderOwn'
  <2>1. /\ UNCHANGED <<batches, snap>> /\ done' = done \cup {i} /\ pc'[Main] = "write"
        /\ pc[Main] = "delete" /\ IsNext(i) /\ i \in Nat
    BY <1>0, <1>3, ProcessAssumption DEF ReplayDelete, TypeOK
  <2>2. \A j \in Pending' : j \in Pending /\ j \in Nat /\ j # i /\ i <= j
    BY <1>0, <2>1 DEF Pending, IsNext, TypeOK
  <2>3. Ahead(snap[i]) /\ Ahead(snap[i])'
    BY <1>3, <2>1 DEF OrderInv, ReplayProgress, Ahead, IsNext
  <2>4. \A j \in done : Ahead(snap[j])'
    BY <1>3, <2>1 DEF OrderInv, ReplayProgress, Ahead
  <2>5. \A j \in done', k \in Pending' : j < k
    BY <2>1, <2>2 DEF OrderInv, ReplayProgress
  <2>6. ReplayProgress'
    BY <2>1, <2>3, <2>4, <2>5 DEF ReplayProgress
  <2> QED BY <1>3, <2>1, <2>6 DEF OrderInv, OrderOwn, IdsFollowRuns
<1>4. ASSUME ReplayRead, UNCHANGED run PROVE OrderOwn'
  <2>1. /\ DOMAIN snap' \subseteq DOMAIN batches
        /\ \A i \in DOMAIN snap' : snap'[i] = batches[i]
    BY <1>0, <1>4, ReadEffect
  <2>2. batches' = batches /\ done' = {} /\ pc'[Main] = "write"
    BY <1>0, <1>4, ProcessAssumption DEF ReplayRead, TypeOK
  <2> QED BY <1>4, <2>1, <2>2 DEF OrderInv, OrderOwn, IdsFollowRuns, ReplayProgress
<1>5. ASSUME ReplayCommit, UNCHANGED run PROVE OrderOwn'
  <2>1. done' = {} /\ DOMAIN snap' = {}
    BY <1>5 DEF ReplayCommit, EmptyTable
  <2> QED BY <1>0, <1>5, <2>1, CommitEffect, NothingReplayed
<1>6. ASSUME NEW i \in DOMAIN snap, ReplayAnswerLost(i), Stamp(snap[i]) PROVE OrderOwn'
  BY <1>2, <1>6 DEF ReplayAnswerLost, Stamp
<1>7. ASSUME NEW i \in DOMAIN snap, ReplayWriteFails(i), UNCHANGED run PROVE OrderOwn'
  BY <1>2, <1>7 DEF ReplayWriteFails
<1>8. ASSUME ReplayDeleteFails, UNCHANGED run PROVE OrderOwn'
  BY <1>2, <1>8 DEF ReplayDeleteFails
<1> QED BY <1>1, <1>3, <1>4, <1>5, <1>6, <1>7, <1>8 DEF HReplay

LEMMA OrderStep == OrderInv /\ [HNext]_hvars => OrderInv'
<1> SUFFICES ASSUME OrderInv, [HNext]_hvars PROVE OrderInv'
  OBVIOUS
<1>1. HInv' /\ HInv /\ TypeOK
  BY HInvStep DEF OrderInv, HInv, IInv, TInv
<1>2. SUFFICES OrderOwn'
  BY <1>1 DEF OrderInv, OrderOwn
<1>3. ASSUME NEW t \in Thread, NEW b \in Batch, InsertHeartbeat(t, b) PROVE OrderOwn'
  BY <1>3, OrderInsertHeartbeat
<1>4. ASSUME NEW t \in Thread, HInsert(t) PROVE OrderOwn'
  <2>1. ASSUME CopyFails(t) \/ EnqueueFails(t), UNCHANGED <<ended, run, shown>> PROVE OrderOwn'
    <3>1. UNCHANGED <<batches, snap, done>> /\ (pc'[Main] = "delete" => pc[Main] = "delete")
      BY <1>1, <2>1, ProcessAssumption DEF CopyFails, EnqueueFails, Return, TypeOK
    <3> QED BY <2>1, <3>1 DEF OrderInv, OrderOwn, IdsFollowRuns, ReplayProgress, Pending, IsNext, Ahead
  <2> QED BY <1>4, <2>1, OrderCopy, OrderEnqueue DEF HInsert
<1>5. CASE HReplay
  BY <1>5, OrderReplay
<1>6. CASE Restart /\ UNCHANGED <<ended, run, shown>>
  <2>1. batches' = batches /\ done' = {} /\ DOMAIN snap' = {}
    BY <1>6 DEF Restart, EmptyTable
  <2> QED BY <1>6, <2>1, NothingReplayed
<1>7. CASE ((PgDown \/ PgUp) /\ UNCHANGED <<ended, run, shown>>) \/ UNCHANGED hvars
  <2>1. UNCHANGED <<batches, snap, done, pc, run, shown>>
    BY <1>7 DEF PgDown, PgUp, hvars, vars
  <2> QED BY <2>1 DEF OrderInv, OrderOwn, IdsFollowRuns, ReplayProgress, Pending, IsNext, Ahead
<1> QED BY <1>3, <1>4, <1>5, <1>6, <1>7 DEF HNext

\* A Replay that commits leaves the view of no collector at a run older than
\* the newest it replayed, whatever the goroutines store meanwhile.
THEOREM ReplayEndsAtNewestRun == HSpec => ReplayEndsAtNewest
<1> DEFINE AtNewest ==
      ReplayCommit => \A i \in DOMAIN snap :
        run[shown[CollectorOf[snap[i]]]] >= run[snap[i]]
<1>1. HInit => OrderInv
  <2> SUFFICES ASSUME HInit PROVE OrderInv
    OBVIOUS
  <2>1. DOMAIN batches = {} /\ DOMAIN snap = {} /\ done = {}
    BY DEF HInit, Init, EmptyTable
  <2> QED BY HInvInit, <2>1 DEF OrderInv, IdsFollowRuns, ReplayProgress, Pending
<1>2. OrderInv => AtNewest
  <2> SUFFICES ASSUME OrderInv, ReplayCommit, NEW i \in DOMAIN snap
               PROVE  run[shown[CollectorOf[snap[i]]]] >= run[snap[i]]
    OBVIOUS
  <2>1. done = DOMAIN snap
    BY OrderFacts DEF OrderInv, ReplayCommit, Pending, TypeOK
  <2>2. Ahead(snap[i])
    BY <2>1 DEF OrderInv, ReplayProgress
  <2>3. /\ snap[i] \in Batch /\ CollectorOf[snap[i]] \in Collector
        /\ shown[CollectorOf[snap[i]]] \in Batch
    BY <2>2, OrderFacts, HeartbeatAssumption DEF OrderInv, Ahead
  <2>4. run[snap[i]] \in Nat /\ run[shown[CollectorOf[snap[i]]]] \in Nat
    BY <2>3, OrderFacts DEF OrderInv
  <2> QED BY <2>2, <2>4 DEF Ahead
<1>3. OrderInv /\ [HNext]_hvars => OrderInv' /\ [AtNewest]_hvars
  BY <1>2, OrderStep
<1> QED BY <1>1, <1>3, PTL DEF HSpec, ReplayEndsAtNewest
=============================================================================
