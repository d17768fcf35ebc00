----------------------------- MODULE WritePath -----------------------------
(***************************************************************************)
(* The write path of the collector process: Store.InsertBatch and          *)
(* Store.ReplayPending (go/internal/db/db.go) over the SQLite spool        *)
(* (go/internal/spool/spool.go), as the goroutines of the main loop        *)
(* (go/cmd/monitor/main.go) run them against a PostgreSQL that comes and   *)
(* goes.                                                                   *)
(*                                                                         *)
(* A batch is one call of InsertBatch: the rows a collector returned, or   *)
(* one heartbeat row.  Its rows and columns are abstracted to an identity, *)
(* the size of its JSON, and what can be wrong with it (Invalid, Poison,   *)
(* Unencodable, Unreplayable: JSON changes its cells, and what matters of  *)
(* that is whether PostgreSQL still takes them).  One SQLite transaction   *)
(* is one step where it holds the write lock from its first statement to   *)
(* its COMMIT (Enqueue); Replay's, which writes to PostgreSQL between its  *)
(* statements, is one step per statement.                                  *)
(***************************************************************************)
EXTENDS Naturals, FiniteSets, FiniteSetsExt

CONSTANTS
  Batch,        \* the batches collected, each by one call of InsertBatch
  NoBatch,      \* what a goroutine holds between two batches
  Thread,       \* the goroutines that call InsertBatch
  Main,         \* the one that runs runLoop, and so ReplayPending
  Size,         \* Size[b]: bytes of rows_json of b
  Caps,         \* the values BUFFER_MAX_BYTES takes, one per process start
  Limit,        \* batches per Replay (10 in ReplayPending)
  Invalid,      \* batches whose table or column name validate() refuses
  Poison,       \* batches PostgreSQL refuses with an SQL error from InsertBatch
  Unencodable,  \* batches json.Marshal refuses (a NaN or Inf cell)
  Unreplayable, \* batches it refuses from Replay, whose cells went through JSON:
                \* decodeJSON gives the string of a time.Time, not the time
  MaxFaults     \* bound: lost answers, failing SQLite statements and restarts

ASSUME BatchAssumption ==
  /\ NoBatch \notin Batch
  /\ Size \in [Batch -> Nat \ {0}]
  /\ Invalid \subseteq Batch
  /\ Poison \subseteq Batch
  /\ Unencodable \subseteq Batch
  /\ Unreplayable \subseteq Batch

ASSUME ProcessAssumption ==
  /\ Main \in Thread
  /\ Caps \subseteq Nat
  /\ Caps # {}
  /\ Limit \in Nat \ {0}
  /\ MaxFaults \in Nat

VARIABLES
  pg,       \* "up" | "down": whether PostgreSQL answers
  batches,  \* the committed spool table: row id -> batch
  cap,      \* Spool.maxBytes of the running process
  pc,       \* where each goroutine stands
  cur,      \* the batch it is inserting
  snap,     \* Replay's entries: row id -> batch, as the SELECT read them
  done,     \* ids Replay's open transaction has deleted; empty: no lock held
  copies,   \* how often the rows of a batch are in PostgreSQL (2: twice or more)
  report,   \* the Status InsertBatch returned for a batch
  evicted,  \* history: batches Enqueue dropped to make room
  excess,   \* history: whether the last eviction stopped short, or the limit
            \* was lowered after it
  faults    \* history: lost answers, SQLite errors and restarts so far

vars == <<pg, batches, cap, pc, cur, snap, done, copies, report, evicted, excess, faults>>

-----------------------------------------------------------------------------
(* The spool table.                                                        *)

EmptyTable == [i \in {} |-> NoBatch]

\* Mutants of NextId: the number of rows; the first gap.
NextIdByCount(ids) == Cardinality(ids)
NextIdFirstGap(ids) == Min((1..Cardinality(ids) + 1) \ ids)

\* id INTEGER PRIMARY KEY without AUTOINCREMENT: one above the largest id
\* present, so an emptied table counts from 1 again.
NextId(ids) == IF ids = {} THEN 1 ELSE Max(ids) + 1

\* SUM(size_bytes) over the rows `ids` of table t, as the number of bytes
\* <<id, k>> they hold.
Bytes(t, ids) == Cardinality(UNION {{i} \X (1..Size[t[i]]) : i \in ids})

From(ids, i) == {j \in ids : i <= j}

\* Mutants of Survivors: one DELETE instead of a loop; a loop that goes on while
\* the total is at the cap, until the table is empty if need be.
SurvivorsOneDelete(t, limit) ==
  IF Bytes(t, DOMAIN t) <= limit THEN DOMAIN t ELSE DOMAIN t \ {Min(DOMAIN t)}
SurvivorsStrict(t, limit) ==
  {j \in DOMAIN t : \E i \in DOMAIN t : i <= j /\ Bytes(t, From(DOMAIN t, i)) < limit}

\* Enqueue's loop: delete the smallest id while the total is above the cap,
\* so it stops at the first id from which the rest fits, or at an empty table.
Survivors(t, limit) ==
  {j \in DOMAIN t : \E i \in DOMAIN t : i <= j /\ Bytes(t, From(DOMAIN t, i)) <= limit}

\* What is left of table t after deletes of the smallest id.
Tails(t) == {From(DOMAIN t, i) : i \in DOMAIN t}

WithRow(t, b) == [i \in DOMAIN t \cup {NextId(DOMAIN t)} |->
                    IF i \in DOMAIN t THEN t[i] ELSE b]

\* SELECT ... ORDER BY id LIMIT ?
Oldest(ids) == {i \in ids : Cardinality({j \in ids : j < i}) < Limit}

Spooled == {batches[i] : i \in DOMAIN batches}

-----------------------------------------------------------------------------
Init ==
  /\ pg \in {"up", "down"}
  /\ batches = EmptyTable
  /\ cap \in Caps
  /\ pc = [t \in Thread |-> "idle"]
  /\ cur = [t \in Thread |-> NoBatch]
  /\ snap = EmptyTable
  /\ done = {}
  /\ copies = [b \in Batch |-> 0]
  /\ report = [b \in Batch |-> "none"]
  /\ evicted = {}
  /\ excess = FALSE
  /\ faults = 0

Fresh == {b \in Batch : report[b] = "none" /\ \A t \in Thread : cur[t] # b}

\* One more copy of b's rows in PostgreSQL; counting stops at 2.
Copied(b) == [copies EXCEPT ![b] = IF @ = 0 THEN 1 ELSE 2]

\* Mutant of Return: the goroutine goes back to insert the batch again.
ReturnAndRetry(t, s) ==
  /\ report' = [report EXCEPT ![cur[t]] = s]
  /\ cur' = cur
  /\ pc' = [pc EXCEPT ![t] = "copy"]

\* InsertBatch of thread t returns s.
Return(t, s) ==
  /\ report' = [report EXCEPT ![cur[t]] = s]
  /\ cur' = [cur EXCEPT ![t] = NoBatch]
  /\ pc' = [pc EXCEPT ![t] = "idle"]

\* Replay's transaction holds SQLite's write lock from its first DELETE on.
Locked == done # {}

-----------------------------------------------------------------------------
(* InsertBatch.                                                            *)

\* validate fails: the batch is discarded as "spool_overflow".
RejectInvalid(t, b) ==
  /\ pc[t] = "idle"
  /\ b \in Fresh \cap Invalid
  /\ report' = [report EXCEPT ![b] = "spool_overflow"]
  /\ UNCHANGED <<pg, batches, cap, pc, cur, snap, done, copies, evicted, excess, faults>>

StartInsert(t, b) ==
  /\ pc[t] = "idle"
  /\ b \in Fresh \ Invalid
  /\ pc' = [pc EXCEPT ![t] = "copy"]
  /\ cur' = [cur EXCEPT ![t] = b]
  /\ UNCHANGED <<pg, batches, cap, snap, done, copies, report, evicted, excess, faults>>

\* COPY commits and answers.
CopyStored(t) ==
  /\ pc[t] = "copy"
  /\ pg = "up"
  /\ cur[t] \notin Poison
  /\ copies' = Copied(cur[t])
  /\ Return(t, "stored")
  /\ UNCHANGED <<pg, batches, cap, snap, done, evicted, excess, faults>>

\* A connection error or an SQL error: both lead to the spool.
CopyFails(t) ==
  /\ pc[t] = "copy"
  /\ pg = "down" \/ cur[t] \in Poison
  /\ pc' = [pc EXCEPT ![t] = "enqueue"]
  /\ UNCHANGED <<pg, batches, cap, cur, snap, done, copies, report, evicted, excess, faults>>

\* COPY commits, but the connection drops before the answer: a connection
\* error to the caller.
CopyAnswerLost(t) ==
  /\ pc[t] = "copy"
  /\ pg = "up"
  /\ cur[t] \notin Poison
  /\ faults < MaxFaults
  /\ copies' = Copied(cur[t])
  /\ pc' = [pc EXCEPT ![t] = "enqueue"]
  /\ faults' = faults + 1
  /\ UNCHANGED <<pg, batches, cap, cur, snap, done, report, evicted, excess>>

\* Enqueue's transaction: INSERT, then drop the oldest rows until the rest
\* fits, COMMIT.  A SELECT or DELETE of the loop that fails ends it, and a SUM
\* that fails leaves total at 0, which ends it too: more rows are kept than
\* fit, and the COMMIT and the success follow all the same.
Enqueue(t) ==
  /\ pc[t] = "enqueue"
  /\ cur[t] \notin Unencodable
  /\ Size[cur[t]] <= cap
  /\ ~Locked
  /\ LET full == WithRow(batches, cur[t])
         fit == Survivors(full, cap)
     IN \E kept \in {fit} \cup {T \in Tails(full) : fit \subseteq T} :
          /\ batches' = Restrict(full, kept)
          /\ evicted' = evicted \cup {full[i] : i \in DOMAIN full \ kept}
          /\ excess' = (kept # fit)
          /\ kept # fit => faults < MaxFaults
          /\ faults' = IF kept = fit THEN faults ELSE faults + 1
  /\ Return(t, "buffered")
  /\ UNCHANGED <<pg, cap, snap, done, copies>>

\* Enqueue returns an error: JSON, size above the cap, SQLITE_BUSY because
\* another transaction is writing, or another error of SQLite (a full disk).
\* InsertBatch discards the batch.
EnqueueFails(t) ==
  /\ pc[t] = "enqueue"
  /\ \/ /\ \/ cur[t] \in Unencodable
           \/ Size[cur[t]] > cap
           \/ Locked
           \/ \E u \in Thread \ {t} : pc[u] = "enqueue"
        /\ UNCHANGED faults
     \/ faults < MaxFaults /\ faults' = faults + 1
  /\ Return(t, "spool_overflow")
  /\ UNCHANGED <<pg, batches, cap, snap, done, copies, evicted, excess>>

-----------------------------------------------------------------------------
(* Replay, called by the main loop on every tick.                          *)

Pending == DOMAIN snap \ done

\* Mutant of IsNext: ORDER BY id DESC.
IsNextYoungest(i) == i \in Pending /\ \A j \in Pending : j <= i

\* The entry the loop of Replay is at.
IsNext(i) == i \in Pending /\ \A j \in Pending : i <= j

\* The query, outside the transaction.
ReplayRead ==
  /\ pc[Main] = "idle"
  /\ DOMAIN batches # {}
  /\ snap' = Restrict(batches, Oldest(DOMAIN batches))
  /\ done' = {}
  /\ pc' = [pc EXCEPT ![Main] = "write"]
  /\ UNCHANGED <<pg, batches, cap, cur, copies, report, evicted, excess, faults>>

\* Mutant of ReplayWrite: the writer's error is not looked at.
ReplayWriteUnchecked(i) ==
  /\ pc[Main] = "write"
  /\ IsNext(i)
  /\ copies' = IF pg = "up" /\ snap[i] \notin Unreplayable
               THEN Copied(snap[i]) ELSE copies
  /\ pc' = [pc EXCEPT ![Main] = "delete"]
  /\ UNCHANGED <<pg, batches, cap, cur, snap, done, report, evicted, excess, faults>>

\* writer succeeds with what JSON gives back of the batch; a batch validate
\* refuses counts as written.
ReplayWrite(i) ==
  /\ pc[Main] = "write"
  /\ IsNext(i)
  /\ snap[i] \notin Invalid => pg = "up" /\ snap[i] \notin Unreplayable
  /\ copies' = IF snap[i] \in Invalid THEN copies ELSE Copied(snap[i])
  /\ pc' = [pc EXCEPT ![Main] = "delete"]
  /\ UNCHANGED <<pg, batches, cap, cur, snap, done, report, evicted, excess, faults>>

\* Replay returns an error; the deferred Rollback undoes its deletes.
Rollback ==
  /\ snap' = EmptyTable
  /\ done' = {}
  /\ pc' = [pc EXCEPT ![Main] = "idle"]

\* writer fails.
ReplayWriteFails(i) ==
  /\ pc[Main] = "write"
  /\ IsNext(i)
  /\ snap[i] \notin Invalid
  /\ pg = "down" \/ snap[i] \in Unreplayable
  /\ Rollback
  /\ UNCHANGED <<pg, batches, cap, cur, copies, report, evicted, excess, faults>>

\* writer's COPY commits but its answer is lost.
ReplayAnswerLost(i) ==
  /\ pc[Main] = "write"
  /\ IsNext(i)
  /\ pg = "up"
  /\ snap[i] \notin Unreplayable \cup Invalid
  /\ faults < MaxFaults
  /\ copies' = Copied(snap[i])
  /\ faults' = faults + 1
  /\ Rollback
  /\ UNCHANGED <<pg, batches, cap, cur, report, evicted, excess>>

\* DELETE FROM batches WHERE id = ?, visible to others only after COMMIT.
ReplayDelete(i) ==
  /\ pc[Main] = "delete"
  /\ IsNext(i)
  /\ done' = done \cup {i}
  /\ pc' = [pc EXCEPT ![Main] = "write"]
  /\ UNCHANGED <<pg, batches, cap, cur, snap, copies, report, evicted, excess, faults>>

\* A DELETE or the COMMIT fails: with SQLITE_BUSY at the first DELETE, which
\* takes the write lock, or with another error of SQLite.
ReplayDeleteFails ==
  /\ \/ /\ pc[Main] = "delete"
        /\ ~Locked
        /\ \E u \in Thread : pc[u] = "enqueue"
        /\ UNCHANGED faults
     \/ /\ pc[Main] = "delete" \/ (pc[Main] = "write" /\ Pending = {})
        /\ faults < MaxFaults
        /\ faults' = faults + 1
  /\ Rollback
  /\ UNCHANGED <<pg, batches, cap, cur, copies, report, evicted, excess>>

\* Mutant of ReplayCommit: the Commit is missing, the deferred Rollback runs.
ReplayCommitForgotten ==
  /\ pc[Main] = "write"
  /\ Pending = {}
  /\ Rollback
  /\ UNCHANGED <<pg, batches, cap, cur, copies, report, evicted, excess, faults>>

ReplayCommit ==
  /\ pc[Main] = "write"
  /\ Pending = {}
  /\ batches' = Restrict(batches, DOMAIN batches \ done)
  /\ snap' = EmptyTable
  /\ done' = {}
  /\ pc' = [pc EXCEPT ![Main] = "idle"]
  /\ UNCHANGED <<pg, cap, cur, copies, report, evicted, excess, faults>>

-----------------------------------------------------------------------------
(* The environment.                                                        *)

\* The process ends at any point, by a crash or by the shutdown of runLoop
\* that does not wait for the goroutines, and starts again: what was in
\* memory is gone, the committed table is not.  New reads the cap afresh and
\* touches no row.
Restart ==
  /\ faults < MaxFaults
  /\ pc' = [t \in Thread |-> "idle"]
  /\ cur' = [t \in Thread |-> NoBatch]
  /\ report' = [b \in Batch |-> IF \E t \in Thread : cur[t] = b
                                THEN "lost" ELSE report[b]]
  /\ snap' = EmptyTable
  /\ done' = {}
  /\ cap' \in Caps
  /\ excess' = (excess \/ cap' < cap)
  /\ faults' = faults + 1
  /\ UNCHANGED <<pg, batches, copies, evicted>>

PgDown ==
  /\ pg = "up"
  /\ pg' = "down"
  /\ UNCHANGED <<batches, cap, pc, cur, snap, done, copies, report, evicted, excess, faults>>

PgUp ==
  /\ pg = "down"
  /\ pg' = "up"
  /\ UNCHANGED <<batches, cap, pc, cur, snap, done, copies, report, evicted, excess, faults>>

-----------------------------------------------------------------------------
Insert(t) ==
  \/ CopyStored(t)
  \/ CopyFails(t)
  \/ CopyAnswerLost(t)
  \/ Enqueue(t)
  \/ EnqueueFails(t)

Replay ==
  \/ ReplayRead
  \/ \E i \in DOMAIN snap : \/ ReplayWrite(i)
                            \/ ReplayWriteFails(i)
                            \/ ReplayAnswerLost(i)
                            \/ ReplayDelete(i)
  \/ ReplayDeleteFails
  \/ ReplayCommit

Collect(t) == \E b \in Batch : RejectInvalid(t, b) \/ StartInsert(t, b)

Next ==
  \/ \E t \in Thread : Collect(t) \/ Insert(t)
  \/ Replay
  \/ Restart
  \/ PgDown
  \/ PgUp

Spec == Init /\ [][Next]_vars

\* The runtime schedules every goroutine, and the ticker keeps calling
\* ReplayPending.  Nothing makes a collector return rows or PostgreSQL
\* answer.
Fairness ==
  /\ \A t \in Thread : WF_vars(Insert(t))
  /\ WF_vars(Replay)

FairSpec == Spec /\ Fairness

-----------------------------------------------------------------------------
(* Properties.                                                             *)

\* The values of the variables; row ids are positive and a held batch goes
\* with a pc inside InsertBatch.
TypeOK ==
  /\ pg \in {"up", "down"}
  /\ DOMAIN batches \subseteq Nat \ {0}
  /\ batches \in [DOMAIN batches -> Batch]
  /\ cap \in Caps
  /\ pc \in [Thread -> {"idle", "copy", "enqueue", "write", "delete"}]
  /\ cur \in [Thread -> Batch \cup {NoBatch}]
  /\ \A t \in Thread : cur[t] # NoBatch <=> pc[t] \in {"copy", "enqueue"}
  /\ \A t \in Thread \ {Main} : pc[t] \notin {"write", "delete"}
  /\ DOMAIN snap \subseteq Nat \ {0}
  /\ snap \in [DOMAIN snap -> Batch]
  /\ done \subseteq DOMAIN snap
  /\ copies \in [Batch -> 0..2]
  /\ report \in [Batch -> {"none", "stored", "buffered", "spool_overflow", "lost"}]
  /\ evicted \subseteq Batch
  /\ excess \in BOOLEAN
  /\ faults \in 0..MaxFaults

\* What InsertBatch told its caller is true for good: a batch reported "stored"
\* is in PostgreSQL, once, and a batch reported "buffered" is in the spool until
\* it is in PostgreSQL or the size limit dropped it.  No order of Enqueue,
\* Replay, SQLITE_BUSY, rollback and restart loses it otherwise, and none but a
\* buffered batch is in PostgreSQL twice.
NoSilentLoss ==
  \A b \in Batch :
    /\ report[b] = "stored" => copies[b] = 1
    /\ report[b] = "buffered" => b \in Spooled \cup evicted \/ copies[b] > 0
    /\ copies[b] > 1 => report[b] = "buffered"

\* Replay deletes by id what it read before its transaction began.  A row id
\* of the snapshot that is still (or again) in the table names the batch the
\* snapshot holds, although Enqueue drops rows meanwhile and ids are reused.
SnapshotIdsNotReused ==
  \A i \in DOMAIN snap \cap DOMAIN batches : batches[i] = snap[i]

\* A batch is in the spool at most once, and never while a goroutine still
\* holds it: a batch Enqueue accepted is not offered again.
SpooledOnce ==
  /\ \A i, j \in DOMAIN batches : batches[i] = batches[j] => i = j
  /\ \A t \in Thread : cur[t] \notin Spooled

\* Why no batch is lost.  Replay deletes only what it wrote; what it wrote and
\* what it deletes agree because no id of its snapshot lies above the table
\* (Enqueue never evicts the row it inserts, so ids only grow meanwhile); and
\* two goroutines never hold one batch.
ReplayInv ==
  /\ \A i \in done : copies[snap[i]] > 0
  /\ pc[Main] = "delete" => \A i \in Pending : IsNext(i) => copies[snap[i]] > 0
  /\ \A i \in DOMAIN snap : snap[i] \notin Invalid /\ \E j \in DOMAIN batches : i <= j
  /\ \A i \in DOMAIN batches : /\ batches[i] \notin Invalid
                               /\ report[batches[i]] = "buffered"
  /\ \A t \in Thread : cur[t] \notin Invalid
  /\ \A t, u \in Thread : cur[t] = cur[u] /\ cur[t] # NoBatch => t = u

\* The spool is above the limit of the running process only between an eviction
\* that stopped at an SQLite error, or a restart with a smaller limit, and the
\* next Enqueue whose eviction runs to its end: nothing else, no Replay that is
\* rolled back and no other writer, lets it grow.  (Then it is, although New is
\* said to be "enforcing maxBytes total", spool.go:22.)
SpoolWithinCap == ~excess => Bytes(batches, DOMAIN batches) <= cap

\* Whatever limit the process was started with, and however far above it the
\* spool was, by a smaller limit or an eviction that stopped short, an Enqueue
\* that succeeds with every statement leaves no more bytes than that.
EnqueueRestoresLimit ==
  [][DOMAIN batches' \ DOMAIN batches # {} /\ faults' = faults =>
       Bytes(batches', DOMAIN batches') <= cap]_vars

\* Enqueue drops no row that could have stayed: each dropped row, with the
\* rows younger than it and the new one, is above the limit.
EvictionMinimal ==
  [][\A i \in DOMAIN batches \ DOMAIN batches' :
       evicted' # evicted =>
         Bytes(batches, From(DOMAIN batches, i))
           + Bytes(batches', DOMAIN batches' \ DOMAIN batches) > cap]_vars

\* README: if the database goes down the data stays in the spool and is sent
\* again.  Once PostgreSQL stays up, every buffered batch it would accept
\* leaves the spool: it was written, or dropped at the size limit.
BufferedIsResent ==
  <>[](pg = "up") =>
    \A b \in Batch \ Unreplayable : b \in Spooled ~> b \notin Spooled
=============================================================================
