------------------------------- MODULE Power --------------------------------
(* QPower: the rows of the sensors and gpu collectors, read by two queries     *)
(* between which more rows may arrive, become a series of points, which        *)
(* integratePower sums into watt-seconds.  A pointer is {} (nil) or {value};   *)
(* energies are doubled, so that a trapezoid is an integer.                    *)
EXTENDS Samples

CONSTANTS Source,      \* names of power sensors
          Priority,    \* powerSourcePriority of each; 99 is no CPU total
          SensorBatches, GPUSamples,  \* what a pass may read
          SensorInterval, GPUInterval,  \* seconds
          GPUModel,    \* {} or {[idle, max]}, PowerGPUIdleW and PowerGPUMaxW
          Aux, Efficiency,     \* PowerAuxBaselineW, PowerPSUEfficiency in percent;
                               \* config.toml's watts are taken below 0, too
          Day, DayLength, Week, Month,  \* the calendar of DashboardTimezone
          MaxReadings  \* bound: passes of the two collectors

ASSUME PowerAssumption ==
  /\ Priority \in [Source -> {0, 1, 99}]
  /\ SensorBatches \subseteq SUBSET [name : Source, w : Nat]
  /\ \A batch \in SensorBatches : IsFiniteSet(batch)
  /\ \A s \in GPUSamples : s.power \subseteq Nat /\ s.util \subseteq Nat
  /\ SensorInterval \in Nat \ {0} /\ GPUInterval \in Nat \ {0}
  /\ GPUModel \subseteq [idle : Int, max : Int] /\ Aux \in Int /\ Efficiency \in 1..100
  /\ Day \subseteq Nat /\ DayLength \in Nat \ {0} /\ DOMAIN Week = Day /\ DOMAIN Month = Day
  /\ MaxReadings \in Nat

\* The calendar has every day that begins before the last reading may be.
ASSUME CalendarAssumption ==
  /\ IsFiniteSet(Day)
  /\ \A s \in Steps : \A d \in 0..MaxReadings * s : d * DayLength <= MaxReadings * s => d \in Day

VARIABLES sensors, gpus,   \* tables: [ts, name, w] and [ts, power, util]
          phase,           \* of the request
          asked,           \* history: times of the two queries
          sensorRows, gpuRows,  \* their answers
          cpuName,         \* the canonical source, {} or {name}
          rest,            \* buckets integratePower has not reached
          prev,            \* the point before
          total, covered, daily  \* of each field
tables == <<now, passes, sensors, gpus>>
request == <<phase, asked, sensorRows, gpuRows, cpuName>>
loop == <<rest, prev, total, covered, daily>>
powerVars == <<tables, request, loop>>

Field == {"measured", "estimated"}
Nil == [ts |-> 0, w |-> {}]
Val(p) == IF p = {} THEN 0 ELSE CHOOSE x \in p : TRUE

-----------------------------------------------------------------------------
(* The two queries.                                                            *)

\* avg() of a set of rows, NULLs left out.
Avg(rows, w(_)) ==
  LET known == {r \in rows : w(r) # {}}
  IN IF known = {} THEN {}
     ELSE {SumFunction([r \in known |-> Val(w(r))]) \div Cardinality(known)}

\* GROUP BY bucket, name.  "times" holds the times whose greatest is max(ts).
SensorGroup(g) == {r \in Recent(sensors) : Bucket(r.ts) = Bucket(g.ts) /\ r.name = g.name}
SensorWatts(g) == Avg(SensorGroup(g), LAMBDA r : {r.w})
SensorQuery ==
  {[bucket |-> Bucket(g.ts), name |-> g.name, times |-> {r.ts : r \in SensorGroup(g)},
    w |-> SensorWatts(g)] : g \in Recent(sensors)}

\* GROUP BY bucket.
GPUGroup(g) == {r \in Recent(gpus) : Bucket(r.ts) = Bucket(g.ts)}
GPUWatts(g) == Avg(GPUGroup(g), LAMBDA r : r.power)
GPUUtil(g) == Avg(GPUGroup(g), LAMBDA r : r.util)
GPUQuery ==
  {[bucket |-> Bucket(g.ts), times |-> {r.ts : r \in GPUGroup(g)},
    power |-> GPUWatts(g), util |-> GPUUtil(g)] : g \in Recent(gpus)}

\* Mutant of Better: the source with the most buckets, then the priority.
BetterByCount(rows, a, b) ==
  Cardinality({r \in rows : r.name = a}) > Cardinality({r \in rows : r.name = b})

\* The loop over counts replaces its choice b by a.
Better(rows, a, b) ==
  \/ Priority[a] < Priority[b]
  \/ /\ Priority[a] = Priority[b]
     /\ Cardinality({r \in rows : r.name = a}) > Cardinality({r \in rows : r.name = b})

\* A map is visited in any order: on a full tie the first visited stays.
Canonical(rows) ==
  LET cpus == {s \in {r.name : r \in rows} : Priority[s] < 99}
  IN IF cpus = {} THEN {{}}
     ELSE {{s} : s \in {a \in cpus : \A b \in cpus : ~Better(rows, b, a)}}

-----------------------------------------------------------------------------
(* The series: a point per bucket of either answer.                            *)

Buckets == {r.bucket : r \in sensorRows} \cup {r.bucket : r \in gpuRows}
Times(b) == UNION ({r.times : r \in {x \in sensorRows : x.bucket = b}} \cup
                   {r.times : r \in {x \in gpuRows : x.bucket = b}})

\* The last value up to bucket b, unless it is older than the limit.
Carried(rows, w(_), b, limit) ==
  UNION {w(r) : r \in {r \in rows : /\ w(r) # {} /\ r.bucket <= b
                                    /\ (b - r.bucket) * BucketSize <= limit
                                    /\ \A x \in rows : w(x) # {} /\ x.bucket <= b => x.bucket <= r.bucket}}

CPU(b) == Carried({r \in sensorRows : r.name \in cpuName}, LAMBDA r : r.w, b, 3 * SensorInterval)
GPU(b) == Carried(gpuRows, LAMBDA r : r.power, b, 3 * GPUInterval)
Util(b) == Carried(gpuRows, LAMBDA r : r.util, b, 3 * GPUInterval)
GPUEstimated(b) ==
  IF GPU(b) # {} THEN {}
  ELSE UNION {{m.idle + ((m.max - m.idle) * Min({u, 100})) \div 100 : u \in Util(b)} : m \in GPUModel}

\* Mutant of Estimated: there is no estimate without a CPU sensor.
EstimatedWithCPU(b) ==
  IF CPU(b) = {} THEN {}
  ELSE {((Val(CPU(b)) + Val(GPU(b)) + Val(GPUEstimated(b)) + Aux) * 100) \div Efficiency}

Measured(b) == IF CPU(b) \cup GPU(b) = {} THEN {} ELSE {Val(CPU(b)) + Val(GPU(b))}
Estimated(b) ==
  IF CPU(b) \cup GPU(b) \cup GPUEstimated(b) = {} THEN {}
  ELSE {((Val(CPU(b)) + Val(GPU(b)) + Val(GPUEstimated(b)) + Aux) * 100) \div Efficiency}
Value(b) == IF phase = "measured" THEN Measured(b) ELSE Estimated(b)

MaxGap == Max({2 * BucketSize, 3 * GPUInterval, 3 * SensorInterval})
\* The day of the middle of an interval.
DayOf(t, dt) == (2 * t + dt) \div (2 * DayLength)

-----------------------------------------------------------------------------
(* The collectors.                                                             *)

Reading == phase \in {"idle", "sensors"}

SensorPass(step, batch) ==
  /\ Reading /\ passes < MaxReadings /\ passes' = passes + 1
  /\ now' = now + step
  /\ sensors' = sensors \cup {[ts |-> now', name |-> x.name, w |-> x.w] : x \in batch}
  /\ UNCHANGED <<gpus, request, loop>>

GPUPass(step, s) ==
  /\ Reading /\ passes < MaxReadings /\ passes' = passes + 1
  /\ now' = now + step
  /\ gpus' = gpus \cup {[ts |-> now', power |-> s.power, util |-> s.util]}
  /\ UNCHANGED <<sensors, request, loop>>

(* The request.  From ReadGPU on it works on its own data: passes beside it    *)
(* change nothing of it and are left out.                                      *)

ReadSensors ==
  /\ phase = "idle" /\ phase' = "sensors"
  /\ asked' = [asked EXCEPT !.sensors = now]
  /\ sensorRows' = SensorQuery
  /\ UNCHANGED <<tables, gpuRows, cpuName, loop>>

ReadGPU ==
  /\ phase = "sensors" /\ phase' = "measured"
  /\ asked' = [asked EXCEPT !.gpu = now]
  /\ gpuRows' = GPUQuery
  /\ cpuName' \in Canonical(sensorRows)
  /\ UNCHANGED <<tables, sensorRows, prev, total, covered, daily>>
  /\ rest' = Buckets'

\* Mutant of IsNext: the buckets in the order of the map.
IsNextOfMap(b) == b \in rest
IsNext(b) == b \in rest /\ \A c \in rest : b <= c

\* Mutant of Added: the day is assigned, not added to.
AddedLast(days, d, wh) == [days EXCEPT ![d] = wh]
Added(days, d, wh) == [days EXCEPT ![d] = @ + wh]

\* An iteration of integratePower, at bucket b whose last row is of time t.
Integrate(b, t) ==
  LET dt == t - prev.ts
      wh == (Val(prev.w) + Val(Value(b))) * dt
  IN /\ phase \in Field /\ IsNext(b) /\ rest' = rest \ {b}
     /\ t \in Times(b) /\ \A u \in Times(b) : u <= t
     /\ IF prev.w # {} /\ Value(b) # {} /\ dt > 0 /\ dt <= MaxGap
        THEN /\ total' = [total EXCEPT ![phase] = @ + wh]
             /\ covered' = [covered EXCEPT ![phase] = @ + dt]
             /\ daily' = [daily EXCEPT ![phase] = Added(@, DayOf(prev.ts, dt), wh)]
        ELSE UNCHANGED <<total, covered, daily>>
     /\ prev' = [ts |-> t, w |-> Value(b)]
     /\ UNCHANGED <<tables, request>>

NextField ==
  /\ phase = "measured" /\ rest = {} /\ phase' = "estimated"
  /\ rest' = Buckets /\ prev' = Nil
  /\ UNCHANGED <<tables, asked, sensorRows, gpuRows, cpuName, total, covered, daily>>

Answer ==
  /\ phase = "estimated" /\ rest = {} /\ phase' = "done"
  /\ UNCHANGED <<tables, asked, sensorRows, gpuRows, cpuName, loop>>

PowerInit ==
  /\ now = 0 /\ passes = 0 /\ sensors = {} /\ gpus = {}
  /\ phase = "idle" /\ asked = [sensors |-> 0, gpu |-> 0]
  /\ sensorRows = {} /\ gpuRows = {} /\ cpuName = {}
  /\ rest = {} /\ prev = Nil
  /\ total = [f \in Field |-> 0] /\ covered = [f \in Field |-> 0]
  /\ daily = [f \in Field |-> [d \in Day |-> 0]]

PowerNext ==
  \/ \E step \in Steps, batch \in SensorBatches : SensorPass(step, batch)
  \/ \E step \in Steps, s \in GPUSamples : GPUPass(step, s)
  \/ ReadSensors \/ ReadGPU
  \/ \E b \in rest : \E t \in Times(b) : Integrate(b, t)
  \/ NextField \/ Answer

\* periodTotals: the days of each period, added up.
Periods(days, of) ==
  [p \in {of[d] : d \in Day} |-> SumFunctionOnSet(days, {d \in Day : of[d] = p})]

-----------------------------------------------------------------------------

\* CoverageWithinWindow: no second is integrated twice: what is covered is less
\* than the window and the time between the two queries (coverage_percent may
\* pass 100 only by that time, which minF cuts).
CoverageWithinWindow ==
  \A f \in Field : covered[f] = 0 \/ covered[f] < Window + (asked.gpu - asked.sensors)

\* MeasuredIsSubtotal: on every day the measured energy is at most the
\* estimated one: "Medido é subtotal dos componentes instrumentados; estimado
\* representa o modelo calibrável do sistema" (app.js:32).
MeasuredIsSubtotal ==
  phase = "done" => \A d \in Day : daily["measured"][d] <= daily["estimated"][d]

\* SubtotalIfPartsNonnegative: it is, whatever sensors, gaps and models each
\* point of the two has, if no part of the model has less than 0 W.
PartsNonnegative == Aux >= 0 /\ \A m \in GPUModel : m.idle >= 0 /\ m.max >= 0
SubtotalIfPartsNonnegative == PartsNonnegative => MeasuredIsSubtotal

\* DaysAddUp: the days, weeks and months of a request add up to its total.
DaysAddUp ==
  \A f \in Field : /\ SumFunction(daily[f]) = total[f]
                   /\ SumFunction(Periods(daily[f], Week)) = total[f]
                   /\ SumFunction(Periods(daily[f], Month)) = total[f]

\* CPUIsPreferredAndRecent: CPU watts at a point are those of one source,
\* of the best priority in the window, at most three intervals before.
CPUIsPreferredAndRecent ==
  phase \in Field => \A b \in Buckets : \A w \in CPU(b) : \E r \in sensorRows :
    /\ r.w = {w} /\ cpuName = {r.name}
    /\ \A x \in sensorRows : Priority[r.name] <= Priority[x.name]
    /\ (b - r.bucket) * BucketSize \in 0..3 * SensorInterval
=============================================================================
