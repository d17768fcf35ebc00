------------------------------ MODULE Counters ------------------------------
(* The dashboard's answers from counters and latest rows (QDiskIO, QNet,       *)
(* QNetLatest), while collectors write samples of growing counters:        *)
(* batches arrive at once, late by way of the spool, twice or not at all, and  *)
(* a reboot sets the counters back.  A query is one SELECT: an operator on the *)
(* rows of its table.  What WritePath does to a batch is the choice of "to".   *)
EXTENDS Samples, Sequences

CONSTANTS Host, Dev,
          Counter,   \* the columns: "bytes", "ops" and "ms" stand for all of them
          Interval,  \* seconds between two collections, cfg.Intervals
          Work,      \* activities: counter units per second, per device
          MaxPasses  \* bound

\* One host, as the installation has: the queries do not tell hosts apart.
ASSUME CountersAssumption ==
  /\ {"bytes", "ops", "ms"} \subseteq Counter
  /\ \E h \in Host : Host = {h}
  /\ IsFiniteSet(Dev)
  /\ Interval \in Nat \ {0} /\ Work \subseteq [Dev -> [Counter -> Nat]]
  /\ MaxPasses \in Nat

VARIABLES last,     \* time of the last pass of each host
          real,     \* the counters of the operating system
          done,     \* history: activity of each device since the start, all hosts together
          peak,     \* history: highest activity per second
          rebooted, \* history: whether a counter was set back
          table,    \* the rows; id is their order of arrival
          spool     \* batches still to be replayed
counterVars == <<now, last, real, done, peak, rebooted, table, spool, passes>>

-----------------------------------------------------------------------------
(* QDiskIO and QNet: differences of consecutive rows of a device.              *)

Before(q, r) == q.ts < r.ts \/ (q.ts = r.ts /\ q.id < r.id)

\* Mutant of Lag: the previous row is the one that arrived before.
LagByArrival(rows, r) ==
  {q \in rows : /\ q.dev = r.dev /\ q.id < r.id
                /\ \A p \in rows : p.dev = r.dev /\ p.id < r.id => p.id <= q.id}

\* lag(...) OVER (PARTITION BY device ORDER BY ts): {} for a partition's first row.
Lag(rows, r) ==
  {q \in rows : /\ q.dev = r.dev /\ Before(q, r)
                /\ \A p \in rows : p.dev = r.dev /\ Before(p, r) => ~Before(q, p)}

\* Mutant of Delta: the time is the configured interval.
DeltaPerInterval(q, r) ==
  [row |-> r, dt |-> Interval, d |-> [c \in Counter |-> r.n[c] - q.n[c]]]

Delta(q, r) == [row |-> r, dt |-> r.ts - q.ts, d |-> [c \in Counter |-> r.n[c] - q.n[c]]]

\* Mutant of Valid: intervals between two rows of one instant are kept.
ValidWithoutTime(rows) ==
  {x \in UNION {{Delta(q, r) : q \in Lag(rows, r)} : r \in rows} :
     /\ x.dt <= 3 * Interval
     /\ \A c \in Counter : x.d[c] >= 0}

\* Mutant of Valid: an interval must be longer than a collection's own.
ValidIfLong(rows) ==
  {x \in UNION {{Delta(q, r) : q \in Lag(rows, r)} : r \in rows} :
     /\ x.dt > Interval /\ x.dt <= 3 * Interval
     /\ \A c \in Counter : x.d[c] >= 0}

\* Time passed, no more than three collections of it, and no counter reduced.
Valid(rows) ==
  {x \in UNION {{Delta(q, r) : q \in Lag(rows, r)} : r \in rows} :
     /\ x.dt > 0 /\ x.dt <= 3 * Interval
     /\ \A c \in Counter : x.d[c] >= 0}

Total(X, c) == SumFunction([x \in X |-> x.d[c]])
Seconds(X) == SumFunction([x \in X |-> x.dt])
\* n / nullif(d, 0): the set of values, {} for NULL.
Ratio(n, d) == IF d = 0 THEN {} ELSE {n \div d}

\* The answer: a row per bucket and device; cumulative starts with the window.
QDeltas(rows) ==
  LET valid == Valid(Recent(rows))
      of(b, v) == {x \in valid : x.row.dev = v /\ Bucket(x.row.ts) = b}
      upTo(b, v) == {x \in valid : x.row.dev = v /\ Bucket(x.row.ts) <= b}
      answer(b, v) ==
        [bucket |-> b, dev |-> v, samples |-> Cardinality(of(b, v)),
         delta |-> Total(of(b, v), "bytes"), cumulative |-> Total(upTo(b, v), "bytes"),
         seconds |-> Seconds(of(b, v)),
         rate |-> Ratio(Total(of(b, v), "bytes"), Seconds(of(b, v))),
         latency |-> Ratio(Total(of(b, v), "ms"), Total(of(b, v), "ops"))]
  IN {answer(Bucket(x.row.ts), x.row.dev) : x \in valid}

\* Mutant of Latest: the row that arrived last, whatever its time.
LatestArrived(rows) == {r \in rows : \A q \in rows : q.dev = r.dev => q.id <= r.id}

\* DISTINCT ON (iface) ... ORDER BY iface, ts DESC; so are the other latest queries.
Latest(rows) == {r \in rows : \A q \in rows : q.dev = r.dev => q.ts <= r.ts}

-----------------------------------------------------------------------------

CountersInit ==
  /\ now = 0 /\ last = [h \in Host |-> 0] /\ rebooted = FALSE
  /\ real = [h \in Host |-> [v \in Dev |-> [c \in Counter |-> 0]]]
  /\ done = [v \in Dev |-> [c \in Counter |-> 0]]
  /\ peak = [v \in Dev |-> [c \in Counter |-> 0]]
  /\ table = {} /\ spool = <<>> /\ passes = 0

\* The rows of a batch arrive together.
Arrived(batch) == {[host |-> b.host, dev |-> b.dev, ts |-> b.ts, n |-> b.n,
                    id |-> Cardinality(table)] : b \in batch}

\* A pass of host h after step seconds of activity w, perhaps with a reboot a
\* second ago: its batch is stored, buffered, both (a commit whose answer was
\* lost) or neither (evicted, or refused for good).
Pass(h, step, w, reboot, to) ==
  LET t == now + step
      grown == [v \in Dev |-> [c \in Counter |-> w[v][c] * (t - last[h])]]
      n == [v \in Dev |-> [c \in Counter |->
              IF reboot THEN w[v][c] ELSE real[h][v][c] + grown[v][c]]]
      batch == {[host |-> h, dev |-> v, ts |-> t, n |-> n[v]] : v \in Dev}
  IN /\ passes < MaxPasses /\ passes' = passes + 1
     /\ now' = t /\ last' = [last EXCEPT ![h] = t]
     /\ real' = [real EXCEPT ![h] = n]
     /\ done' = [v \in Dev |-> [c \in Counter |-> done[v][c] + grown[v][c]]]
     /\ peak' = [v \in Dev |-> [c \in Counter |-> Max({peak[v][c], w[v][c]})]]
     /\ rebooted' = (rebooted \/ reboot)
     /\ table' = IF "table" \in to THEN table \cup Arrived(batch) ELSE table
     /\ spool' = IF "spool" \in to THEN Append(spool, batch) ELSE spool

Replay == /\ spool # <<>>
          /\ table' = table \cup Arrived(Head(spool))
          /\ spool' = Tail(spool)
          /\ UNCHANGED <<now, last, real, done, peak, rebooted, passes>>

CountersNext ==
  \/ \E h \in Host, step \in Steps, w \in Work, reboot \in BOOLEAN, to \in SUBSET {"table", "spool"} :
       Pass(h, step, w, reboot, to)
  \/ Replay

-----------------------------------------------------------------------------

\* TotalsWithinActivity: over resets, gaps, late rows and rows written twice,
\* the total shown for a device never exceeds what the device has done
\* ("Total lido e escrito desde o início da janela", app.js:23).
TotalsWithinActivity ==
  \A a \in QDeltas(table) : a.cumulative <= done[a.dev]["bytes"]

\* RatesWithinPeak: no bucket shows a rate the device never reached: a reset
\* or a late row makes no spike.
RatesWithinPeak ==
  \A a \in QDeltas(table) : a.delta <= peak[a.dev]["bytes"] * a.seconds

\* DuplicatesInvisible: rows a batch written twice leaves change no answer.
DuplicatesInvisible ==
  LET once == {r \in table : \A q \in table :
                 q.host = r.host /\ q.dev = r.dev /\ q.ts = r.ts => r.id <= q.id}
  IN QDeltas(table) = QDeltas(once)

\* ReplayNeverLowersTotals: as long as no counter was set back, a row that
\* arrives late only completes a total (or joins a gap), never lowers it.
ShownTotal(v, rows) == Total({x \in Valid(Recent(rows)) : x.row.dev = v}, "bytes")
ReplayNeverLowersTotals ==
  [][~rebooted /\ spool' # spool /\ now' = now =>
       \A v \in Dev : ShownTotal(v, table') >= ShownTotal(v, table)]_counterVars

\* TotalsAreComplete: while no counter was set back and no two neighbouring rows
\* of the window are more than three collections apart, the total shown for a
\* device is no less than what it did between any two of those rows: rows that
\* came late, twice or not at all leave nothing out.
TotalsAreComplete ==
  ~rebooted => \A v \in Dev :
    LET rows == {r \in Recent(table) : r.dev = v}
    IN (\A r \in rows : \A q \in Lag(rows, r) : r.ts - q.ts <= 3 * Interval) =>
         \A q, r \in rows : r.n["bytes"] - q.n["bytes"] <= ShownTotal(v, table)

\* LatestNeverGoesBack: a row that arrives late never replaces a newer one as
\* the latest of its device.
LatestNeverGoesBack ==
  [][\A r \in Latest(table), q \in Latest(table)' : q.dev = r.dev => q.ts >= r.ts]_counterVars
=============================================================================
