--------------------------- MODULE TelemetryProofs ---------------------------
(* Proofs about the queries of the dashboard, for any rows, intervals, windows *)
(* and bucket sizes: first those of Power, then those of Counters, and last    *)
(* the theorems, of behaviours that follow either.                             *)
EXTENDS Telemetry, SumLemmas

-----------------------------------------------------------------------------
(* No second of a window is integrated twice.  Buckets are taken in ascending  *)
(* order, a row lies in its bucket, so the points' times ascend; then what is  *)
(* covered is less than the time from the edge of the window to the last       *)
(* point.                                                                      *)

\* The edge of the window of the first query.
Edge == asked.sensors - Window

\* Every row of an answer is of the window, not newer than its query, and in its bucket.
RowInWindow(r, upTo) ==
  /\ r.times \subseteq Nat /\ r.bucket \in Nat
  /\ \A t \in r.times : Edge < t /\ t <= upTo /\ Bucket(t) = r.bucket

TablesOK == /\ now \in Nat
            /\ \A r \in sensors : r.ts \in Nat /\ r.ts <= now
            /\ \A r \in gpus : r.ts \in Nat /\ r.ts <= now

RequestOK ==
  /\ phase \in {"idle", "sensors", "measured", "estimated", "done"}
  /\ asked \in [sensors : Nat, gpu : Nat]
  /\ covered \in [Field -> Nat]
  /\ phase = "idle" => sensorRows = {}
  /\ phase \in {"idle", "sensors"} =>
       /\ gpuRows = {} /\ prev = Nil /\ covered = [f \in Field |-> 0]
       /\ asked.sensors <= now /\ \A r \in sensorRows : RowInWindow(r, now)
  /\ phase \in {"measured", "estimated"} =>
       /\ asked.sensors <= asked.gpu /\ rest \subseteq Buckets
       /\ \A r \in sensorRows \cup gpuRows : RowInWindow(r, asked.gpu)
  /\ phase = "measured" => covered["estimated"] = 0

\* The points so far: the last one is of a bucket before the rest.
LoopOK ==
  phase \in Field =>
    \/ prev = Nil /\ covered[phase] = 0
    \/ /\ prev.ts \in Nat /\ Edge < prev.ts /\ prev.ts <= asked.gpu
       /\ \A b \in rest : Bucket(prev.ts) < b
       /\ covered[phase] < prev.ts - Edge

IInv == TablesOK /\ RequestOK /\ LoopOK /\ CoverageWithinWindow

-----------------------------------------------------------------------------

\* Rows of a later bucket are later.
LEMMA BucketsAscend ==
  ASSUME NEW t \in Nat, NEW u \in Nat, Bucket(t) < Bucket(u)
  PROVE  t < u
<1>1. SUFFICES ASSUME u <= t PROVE Bucket(u) <= Bucket(t)
  BY PowerAssumption, SamplesAssumption DEF Bucket
<1>2. BucketSize \in Nat /\ BucketSize > 0
  BY PowerAssumption, SamplesAssumption
<1> QED BY <1>1, <1>2 DEF Bucket

LEMMA BucketIsNat == ASSUME NEW t \in Nat PROVE Bucket(t) \in Nat
<1>1. BucketSize \in Nat /\ BucketSize > 0
  BY PowerAssumption, SamplesAssumption
<1> QED BY <1>1 DEF Bucket

\* A row of the buckets' times is a row of an answer, in that bucket.
LEMMA TimesAreRows ==
  ASSUME NEW b, NEW t \in Times(b)
  PROVE  \E r \in sensorRows \cup gpuRows : t \in r.times /\ r.bucket = b
BY DEF Times

\* The answers of the two queries hold rows of the window, each in its bucket.
LEMMA SensorAnswer ==
  ASSUME TablesOK, NEW r \in SensorQuery
  PROVE  /\ r.bucket \in Nat
         /\ \A t \in r.times : t \in Nat /\ now - Window < t /\ t <= now /\ Bucket(t) = r.bucket
<1>1. PICK g \in Recent(sensors) : r.times = {x.ts : x \in SensorGroup(g)} /\ r.bucket = Bucket(g.ts)
  BY DEF SensorQuery
<1>2. r.bucket \in Nat
  BY <1>1, BucketIsNat DEF Recent, TablesOK
<1>3. ASSUME NEW t \in r.times
      PROVE  t \in Nat /\ now - Window < t /\ t <= now /\ Bucket(t) = r.bucket
  <2>1. PICK x \in SensorGroup(g) : t = x.ts
    BY <1>1
  <2> QED BY <1>1, <2>1 DEF SensorGroup, Recent, TablesOK
<1> QED BY <1>2, <1>3

LEMMA GPUAnswer ==
  ASSUME TablesOK, NEW r \in GPUQuery
  PROVE  /\ r.bucket \in Nat
         /\ \A t \in r.times : t \in Nat /\ now - Window < t /\ t <= now /\ Bucket(t) = r.bucket
<1>1. PICK g \in Recent(gpus) : r.times = {x.ts : x \in GPUGroup(g)} /\ r.bucket = Bucket(g.ts)
  BY DEF GPUQuery
<1>2. r.bucket \in Nat
  BY <1>1, BucketIsNat DEF Recent, TablesOK
<1>3. ASSUME NEW t \in r.times
      PROVE  t \in Nat /\ now - Window < t /\ t <= now /\ Bucket(t) = r.bucket
  <2>1. PICK x \in GPUGroup(g) : t = x.ts
    BY <1>1
  <2> QED BY <1>1, <2>1 DEF GPUGroup, Recent, TablesOK
<1> QED BY <1>2, <1>3

-----------------------------------------------------------------------------
(* The inductive step, one lemma per action that disturbs a part.              *)

LEMMA InitIInv == PowerInit => IInv
<1> SUFFICES ASSUME PowerInit PROVE IInv
  OBVIOUS
<1>1. TablesOK
  BY DEF PowerInit, TablesOK
<1>2. RequestOK
  BY DEF PowerInit, RequestOK, Field, Nil
<1>3. LoopOK
  BY DEF PowerInit, LoopOK, Field
<1>4. CoverageWithinWindow
  BY DEF PowerInit, CoverageWithinWindow
<1> QED BY <1>1, <1>2, <1>3, <1>4 DEF IInv

LEMMA PassIInv ==
  ASSUME IInv,
         \/ \E step \in Steps, batch \in SensorBatches : SensorPass(step, batch)
         \/ \E step \in Steps, s \in GPUSamples : GPUPass(step, s)
  PROVE  IInv'
<1>1. /\ now' \in Nat /\ now <= now' /\ Reading
      /\ sensors' \subseteq sensors \cup [ts : {now'}, name : Source, w : Nat]
      /\ gpus' \subseteq gpus \cup {[ts |-> now', power |-> s.power, util |-> s.util] : s \in GPUSamples}
      /\ UNCHANGED <<request, loop>>
  <2>1. ASSUME NEW step \in Steps, NEW batch \in SensorBatches, SensorPass(step, batch)
        PROVE  <1>1!:
    <3>1. step \in Nat /\ batch \subseteq [name : Source, w : Nat]
      BY PowerAssumption, SamplesAssumption
    <3>2. {[ts |-> now', name |-> x.name, w |-> x.w] : x \in batch} \subseteq [ts : {now'}, name : Source, w : Nat]
      BY <3>1
    <3>3. now' \in Nat /\ now <= now'
      BY <2>1, <3>1 DEF SensorPass, IInv, TablesOK
    <3> QED BY <2>1, <3>2, <3>3 DEF SensorPass
  <2>2. ASSUME NEW step \in Steps, NEW s \in GPUSamples, GPUPass(step, s)
        PROVE  <1>1!:
    <3>1. now' \in Nat /\ now <= now'
      BY <2>2, PowerAssumption, SamplesAssumption DEF GPUPass, IInv, TablesOK
    <3> QED BY <2>2, <3>1 DEF GPUPass
  <2> QED BY <2>1, <2>2
<1>2. TablesOK'
  BY <1>1 DEF IInv, TablesOK
<1>3. RequestOK'
  <2>1. phase \in {"idle", "sensors"}
    BY <1>1 DEF Reading
  <2>2. \A r \in sensorRows : RowInWindow(r, now')
    BY <1>1, <2>1 DEF IInv, RequestOK, TablesOK, RowInWindow, Edge
  <2> QED BY <1>1, <2>1, <2>2 DEF IInv, RequestOK, TablesOK, RowInWindow, Edge, request, loop, Nil
<1>4. LoopOK' /\ CoverageWithinWindow'
  BY <1>1 DEF IInv, LoopOK, CoverageWithinWindow, Reading, Field, request, loop
<1> QED BY <1>2, <1>3, <1>4 DEF IInv

LEMMA ReadSensorsIInv == IInv /\ ReadSensors => IInv'
<1> SUFFICES ASSUME IInv, ReadSensors PROVE IInv'
  OBVIOUS
<1>1. TablesOK'
  BY DEF IInv, TablesOK, ReadSensors, tables
<1>2. asked' = [sensors |-> now, gpu |-> asked.gpu]
  BY DEF ReadSensors, IInv, RequestOK
<1>3. \A r \in sensorRows' : RowInWindow(r, now)'
  <2> SUFFICES ASSUME NEW r \in SensorQuery PROVE RowInWindow(r, now)'
    BY DEF ReadSensors
  <2>1. TablesOK
    BY DEF IInv
  <2>2. Edge' = now - Window /\ now' = now
    BY <1>2 DEF Edge, ReadSensors, tables
  <2>3. /\ r.bucket \in Nat
        /\ \A t \in r.times : t \in Nat /\ now - Window < t /\ t <= now /\ Bucket(t) = r.bucket
    BY <2>1, SensorAnswer
  <2> QED BY <2>2, <2>3 DEF RowInWindow
<1>4. RequestOK'
  BY <1>1, <1>2, <1>3 DEF IInv, RequestOK, TablesOK, ReadSensors, tables, loop, Nil
<1>5. LoopOK' /\ CoverageWithinWindow'
  BY DEF IInv, LoopOK, CoverageWithinWindow, RequestOK, ReadSensors, loop, Field
<1> QED BY <1>1, <1>4, <1>5 DEF IInv

LEMMA ReadGPUIInv == IInv /\ ReadGPU => IInv'
<1> SUFFICES ASSUME IInv, ReadGPU PROVE IInv'
  OBVIOUS
<1>1. TablesOK'
  BY DEF IInv, TablesOK, ReadGPU, tables
<1>2. /\ asked' = [sensors |-> asked.sensors, gpu |-> now] /\ asked.sensors \in Nat
      /\ now \in Nat /\ asked.sensors <= now /\ phase = "sensors" /\ phase' = "measured"
  BY DEF ReadGPU, IInv, RequestOK, TablesOK
<1>3. \A r \in sensorRows' \cup gpuRows' : RowInWindow(r, asked.gpu)'
  <2>1. Edge' = Edge /\ asked'.gpu = now /\ Edge <= now - Window
    BY <1>2, PowerAssumption, SamplesAssumption DEF Edge
  <2>2. ASSUME NEW r \in sensorRows PROVE RowInWindow(r, asked.gpu)'
    BY <1>2, <2>1 DEF RowInWindow, IInv, RequestOK
  <2>3. ASSUME NEW r \in GPUQuery PROVE RowInWindow(r, asked.gpu)'
    <3>1. /\ r.bucket \in Nat
          /\ \A t \in r.times : t \in Nat /\ now - Window < t /\ t <= now /\ Bucket(t) = r.bucket
      BY GPUAnswer DEF IInv
    <3>2. Edge \in Int /\ now - Window \in Int
      BY <1>2, PowerAssumption, SamplesAssumption DEF Edge
    <3> QED BY <2>1, <3>1, <3>2 DEF RowInWindow
  <2> QED BY <2>2, <2>3 DEF ReadGPU
<1>4. RequestOK'
  BY <1>1, <1>2, <1>3 DEF IInv, RequestOK, ReadGPU, tables, Field
<1>5. LoopOK' /\ CoverageWithinWindow'
  BY <1>2 DEF IInv, LoopOK, CoverageWithinWindow, RequestOK, ReadGPU, Field
<1> QED BY <1>1, <1>4, <1>5 DEF IInv

LEMMA IntegrateIInv ==
  ASSUME IInv, NEW b \in rest, NEW t \in Times(b), Integrate(b, t)
  PROVE  IInv'
<1> DEFINE dt == t - prev.ts
           adds == prev.w # {} /\ Value(b) # {} /\ dt > 0 /\ dt <= MaxGap
<1>1. /\ phase \in Field /\ UNCHANGED <<tables, request>>
      /\ rest' = rest \ {b} /\ \A c \in rest : b <= c
      /\ prev'.ts = t
  BY DEF Integrate, IsNext
<1>2. /\ t \in Nat /\ Edge < t /\ t <= asked.gpu /\ Bucket(t) = b
      /\ Edge \in Int /\ asked.gpu \in Nat
  <2>1. PICK r \in sensorRows \cup gpuRows : t \in r.times /\ r.bucket = b
    BY TimesAreRows
  <2>2. RowInWindow(r, asked.gpu)
    BY <1>1 DEF IInv, RequestOK, Field
  <2>3. Edge \in Int /\ asked.gpu \in Nat
    BY PowerAssumption, SamplesAssumption DEF Edge, IInv, RequestOK
  <2> QED BY <2>1, <2>2, <2>3 DEF RowInWindow
<1>3. \A c \in rest' : Bucket(t) < c
  <2>1. \A c \in rest : c \in Nat
    <3>1. rest \subseteq Buckets /\ \A r \in sensorRows \cup gpuRows : r.bucket \in Nat
      BY <1>1 DEF IInv, RequestOK, Field, RowInWindow
    <3> QED BY <3>1 DEF Buckets
  <2> QED BY <1>1, <1>2, <2>1
<1>4. \/ ~adds /\ covered' = covered
      \/ adds /\ covered' = [covered EXCEPT ![phase] = @ + dt]
  BY DEF Integrate
<1>5. /\ t \in Nat /\ covered'[phase] \in Nat /\ covered'[phase] < t - Edge
      /\ \A f \in Field : f # phase => covered'[f] = covered[f]
      /\ covered' \in [Field -> Nat]
  <2>1. /\ covered \in [Field -> Nat]
        /\ \/ prev = Nil /\ covered[phase] = 0
           \/ /\ prev.ts \in Nat /\ Edge < prev.ts /\ prev.ts < t
              /\ covered[phase] < prev.ts - Edge
    <3>1. ASSUME prev.ts \in Nat, \A c \in rest : Bucket(prev.ts) < c PROVE prev.ts < t
      BY <1>2, <3>1, BucketsAscend
    <3> QED BY <1>1, <3>1 DEF IInv, LoopOK, RequestOK
  <2>2. CASE ~adds /\ covered' = covered
    BY <1>1, <1>2, <2>1, <2>2
  <2>3. CASE adds /\ covered' = [covered EXCEPT ![phase] = @ + dt]
    <3>1. prev # Nil
      BY <2>3 DEF Nil
    <3>2. dt \in Nat /\ covered[phase] + dt < t - Edge
      BY <1>1, <1>2, <2>1, <3>1
    <3> QED BY <1>1, <1>2, <2>1, <2>3, <3>2
  <2> QED BY <1>4, <2>2, <2>3
<1>6. TablesOK'
  BY <1>1 DEF IInv, TablesOK, tables
<1>7. RequestOK'
  BY <1>1, <1>5 DEF IInv, RequestOK, TablesOK, RowInWindow, Edge, Buckets, Field, request, tables
<1>8. LoopOK'
  <2>1. Edge' = Edge /\ phase' = phase /\ asked' = asked
    BY <1>1 DEF Edge, request
  <2> QED BY <1>1, <1>2, <1>3, <1>5, <2>1 DEF LoopOK
<1>9. CoverageWithinWindow'
  <2>1. asked.sensors \in Nat /\ asked.gpu \in Nat /\ Window \in Nat /\ asked' = asked
    BY <1>1, PowerAssumption, SamplesAssumption DEF IInv, RequestOK, request
  <2>2. covered'[phase] < Window + (asked.gpu - asked.sensors)
    BY <1>2, <1>5, <2>1 DEF Edge
  <2> QED BY <1>1, <1>5, <2>1, <2>2 DEF IInv, CoverageWithinWindow
<1> QED BY <1>6, <1>7, <1>8, <1>9 DEF IInv

LEMMA NextFieldIInv == IInv /\ (NextField \/ Answer) => IInv'
<1> SUFFICES ASSUME IInv, NextField \/ Answer PROVE IInv'
  OBVIOUS
<1>1. TablesOK' /\ CoverageWithinWindow'
  BY DEF IInv, TablesOK, CoverageWithinWindow, NextField, Answer, tables, loop
<1>2. RequestOK'
  BY DEF IInv, RequestOK, RowInWindow, Edge, Buckets, NextField, Answer, tables, loop
<1>3. LoopOK'
  BY DEF IInv, RequestOK, LoopOK, Field, NextField, Answer, loop
<1> QED BY <1>1, <1>2, <1>3 DEF IInv

LEMMA StepIInv == IInv /\ [PowerNext]_powerVars => IInv'
<1> SUFFICES ASSUME IInv, [PowerNext]_powerVars PROVE IInv'
  OBVIOUS
<1>1. CASE UNCHANGED powerVars
  BY <1>1 DEF IInv, TablesOK, RequestOK, LoopOK, CoverageWithinWindow, RowInWindow, Edge,
              Buckets, powerVars, tables, request, loop
<1> QED BY <1>1, PassIInv, ReadSensorsIInv, ReadGPUIInv, IntegrateIInv, NextFieldIInv DEF PowerNext

-----------------------------------------------------------------------------
(* The source of the CPU watts.                                                *)

\* A row of the first answer has a source and at most one value; the canonical
\* source is chosen from the answer the request works on.
SourceOK ==
  /\ \A r \in sensors : r.name \in Source
  /\ \A r \in sensorRows : r.name \in Source /\ (r.w = {} \/ \E w : r.w = {w})
  /\ phase \in Field => cpuName \in Canonical(sensorRows)

\* Of all the sources of an answer the canonical one has the best priority.
LEMMA CanonicalIsPreferred ==
  ASSUME NEW rows, \A r \in rows : r.name \in Source,
         NEW a, {a} \in Canonical(rows)
  PROVE  \A r \in rows : Priority[a] <= Priority[r.name]
<1> DEFINE cpus == {s \in {r.name : r \in rows} : Priority[s] < 99}
<1>1. a \in cpus /\ \A b \in cpus : ~Better(rows, b, a)
  BY DEF Canonical
<1>2. TAKE r \in rows
<1>3. /\ a \in Source /\ r.name \in Source
      /\ Priority[a] \in {0, 1, 99} /\ Priority[r.name] \in {0, 1, 99}
  BY <1>1, PowerAssumption
<1>4. CASE r.name \in cpus
  <2>1. ~Better(rows, r.name, a)
    BY <1>1, <1>4
  <2>2. ~(Priority[r.name] < Priority[a])
    BY <2>1 DEF Better
  <2> QED BY <1>3, <2>2
<1>5. CASE r.name \notin cpus
  BY <1>1, <1>3, <1>5
<1> QED BY <1>4, <1>5

LEMMA SourceStep == IInv /\ SourceOK /\ [PowerNext]_powerVars => SourceOK'
<1> SUFFICES ASSUME IInv, SourceOK, [PowerNext]_powerVars PROVE SourceOK'
  OBVIOUS
<1>1. ASSUME NEW step \in Steps, NEW batch \in SensorBatches, SensorPass(step, batch)
      PROVE  SourceOK'
  <2>1. \A x \in batch : x.name \in Source
    BY PowerAssumption
  <2>2. \A r \in sensors' : r.name \in Source
    BY <1>1, <2>1 DEF SensorPass, SourceOK
  <2> QED BY <1>1, <2>2 DEF SensorPass, SourceOK, request
<1>2. ASSUME NEW step \in Steps, NEW s \in GPUSamples, GPUPass(step, s)
      PROVE  SourceOK'
  BY <1>2 DEF GPUPass, SourceOK, request
<1>3. CASE ReadSensors
  <2>1. ASSUME NEW r \in SensorQuery
        PROVE  r.name \in Source /\ (r.w = {} \/ \E w : r.w = {w})
    <3>1. PICK g \in Recent(sensors) : r.name = g.name /\ r.w = SensorWatts(g)
      BY DEF SensorQuery
    <3>2. g.name \in Source
      BY DEF Recent, SourceOK
    <3>3. SensorWatts(g) = {} \/ \E w : SensorWatts(g) = {w}
      BY DEF SensorWatts, Avg
    <3> QED BY <3>1, <3>2, <3>3
  <2> QED BY <1>3, <2>1 DEF ReadSensors, SourceOK, tables, Field
<1>4. CASE ReadGPU
  BY <1>4 DEF ReadGPU, SourceOK, tables
<1>5. ASSUME NEW b \in rest, NEW t \in Times(b), Integrate(b, t)
      PROVE  SourceOK'
  BY <1>5 DEF Integrate, SourceOK, tables, request
<1>6. CASE NextField
  BY <1>6 DEF NextField, SourceOK, tables, Field
<1>7. CASE Answer
  BY <1>7 DEF Answer, SourceOK, tables, Field
<1>8. CASE UNCHANGED powerVars
  BY <1>8 DEF SourceOK, powerVars, tables, request
<1> QED BY <1>1, <1>2, <1>3, <1>4, <1>5, <1>6, <1>7, <1>8 DEF PowerNext

LEMMA SourceIsPreferred == IInv /\ SourceOK => CPUIsPreferredAndRecent
<1> SUFFICES ASSUME IInv, SourceOK, phase \in Field, NEW b \in Buckets, NEW w \in CPU(b)
             PROVE  \E r \in sensorRows :
                      /\ r.w = {w} /\ cpuName = {r.name}
                      /\ \A x \in sensorRows : Priority[r.name] <= Priority[x.name]
                      /\ (b - r.bucket) * BucketSize \in 0..3 * SensorInterval
  BY DEF CPUIsPreferredAndRecent
<1>1. PICK r \in sensorRows : /\ r.name \in cpuName /\ w \in r.w /\ r.bucket <= b
                              /\ (b - r.bucket) * BucketSize <= 3 * SensorInterval
  BY DEF CPU, Carried
<1>2. r.w = {w}
  BY <1>1 DEF SourceOK
<1>3. cpuName = {r.name}
  BY <1>1 DEF SourceOK, Canonical
<1>4. \A x \in sensorRows : Priority[r.name] <= Priority[x.name]
  BY <1>3, CanonicalIsPreferred DEF SourceOK
<1>5. (b - r.bucket) * BucketSize \in 0..3 * SensorInterval
  <2>1. b \in Nat /\ r.bucket \in Nat
    BY DEF Buckets, IInv, RequestOK, RowInWindow, Field
  <2>2. BucketSize \in Nat /\ b - r.bucket \in Nat /\ SensorInterval \in Nat
    BY <1>1, <2>1, PowerAssumption, SamplesAssumption
  <2>3. (b - r.bucket) * BucketSize \in Nat
    BY <2>2
  <2> QED BY <1>1, <2>2, <2>3
<1> QED BY <1>2, <1>3, <1>4, <1>5

-----------------------------------------------------------------------------
(* Watts and the days they fall on are numbers.                                *)

\* A row of an answer has at most one value, a natural number, and a point has
\* at most one, an integer, as the model may have negative parts; the tables are
\* finite and no time in them is later than the passes so far may have made it.
WattsOK ==
  /\ IsFiniteSet(sensors) /\ IsFiniteSet(gpus)
  /\ \A r \in sensors : r.w \in Nat
  /\ \A r \in gpus : r.power \subseteq Nat /\ r.util \subseteq Nat
  /\ \A r \in sensorRows : r.w \subseteq Nat
  /\ \A r \in gpuRows : r.power \subseteq Nat /\ r.util \subseteq Nat
  /\ phase \in Field => prev.w \subseteq Int
  /\ passes \in 0..MaxReadings
  /\ phase \in Field => asked.gpu <= now
  /\ now = 0 \/ \E s \in Steps : now <= passes * s

\* A pointer to a number.
LEMMA ValIsNat == ASSUME NEW p, p \subseteq Nat PROVE Val(p) \in Nat
BY DEF Val

LEMMA ValIsInt == ASSUME NEW p, p \subseteq Int PROVE Val(p) \in Int
<1>1. CASE p = {}
  BY <1>1 DEF Val
<1>2. CASE p # {}
  <2>1. Val(p) \in p
    BY <1>2 DEF Val
  <2> QED BY <2>1
<1> QED BY <1>1, <1>2

\* An average of numbers is a number.
LEMMA AverageIsNat ==
  ASSUME NEW S, IsFiniteSet(S), S # {}, NEW f, \A r \in S : f[r] \in Nat
  PROVE  SumFunctionOnSet(f, S) \div Cardinality(S) \in Nat
<1>1. Cardinality(S) \in Nat /\ Cardinality(S) # 0
  BY FS_CardinalityType, FS_EmptySet
<1>2. SumFunctionOnSet(f, S) \in Nat
  BY SumTakeAny
<1> QED BY <1>1, <1>2

LEMMA SensorAverages ==
  ASSUME WattsOK, NEW r \in SensorQuery
  PROVE  r.w \subseteq Nat
<1>1. PICK g \in Recent(sensors) : r.w = SensorWatts(g)
  BY DEF SensorQuery
<1> DEFINE known == {x \in SensorGroup(g) : {x.w} # {}}
           f == [x \in known |-> Val({x.w})]
<1>2. r.w = {} \/ (r.w = {SumFunctionOnSet(f, known) \div Cardinality(known)} /\ known # {})
  BY <1>1 DEF SensorWatts, Avg, SumFunction
<1>3. known \subseteq sensors /\ IsFiniteSet(known)
  <2>1. known \subseteq sensors
    BY DEF SensorGroup, Recent
  <2> QED BY <2>1, FS_Subset DEF WattsOK
<1>4. \A x \in known : f[x] \in Nat
  <2> SUFFICES ASSUME NEW x \in known PROVE Val({x.w}) \in Nat
    OBVIOUS
  <2> QED BY <1>3, ValIsNat DEF WattsOK
<1> HIDE DEF known, f
<1> QED BY <1>2, <1>3, <1>4, AverageIsNat

LEMMA GPUAverages ==
  ASSUME WattsOK, NEW r \in GPUQuery
  PROVE  r.power \subseteq Nat /\ r.util \subseteq Nat
<1>1. PICK g \in Recent(gpus) : r.power = GPUWatts(g) /\ r.util = GPUUtil(g)
  BY DEF GPUQuery
<1>2. GPUGroup(g) \subseteq gpus
  BY DEF GPUGroup, Recent
<1>3. r.power \subseteq Nat
  <2> DEFINE known == {x \in GPUGroup(g) : x.power # {}}
             f == [x \in known |-> Val(x.power)]
  <2>1. r.power = {} \/ (r.power = {SumFunctionOnSet(f, known) \div Cardinality(known)} /\ known # {})
    BY <1>1 DEF GPUWatts, Avg, SumFunction
  <2>2. IsFiniteSet(known)
    BY <1>2, FS_Subset DEF WattsOK
  <2>3. \A x \in known : f[x] \in Nat
    <3> SUFFICES ASSUME NEW x \in known PROVE Val(x.power) \in Nat
      OBVIOUS
    <3> QED BY <1>2, ValIsNat DEF WattsOK
  <2> HIDE DEF known, f
  <2> QED BY <2>1, <2>2, <2>3, AverageIsNat
<1>4. r.util \subseteq Nat
  <2> DEFINE known == {x \in GPUGroup(g) : x.util # {}}
             f == [x \in known |-> Val(x.util)]
  <2>1. r.util = {} \/ (r.util = {SumFunctionOnSet(f, known) \div Cardinality(known)} /\ known # {})
    BY <1>1 DEF GPUUtil, Avg, SumFunction
  <2>2. IsFiniteSet(known)
    BY <1>2, FS_Subset DEF WattsOK
  <2>3. \A x \in known : f[x] \in Nat
    <3> SUFFICES ASSUME NEW x \in known PROVE Val(x.util) \in Nat
      OBVIOUS
    <3> QED BY <1>2, ValIsNat DEF WattsOK
  <2> HIDE DEF known, f
  <2> QED BY <2>1, <2>2, <2>3, AverageIsNat
<1> QED BY <1>3, <1>4

\* The estimate for a GPU without native power is not negative, also if its
\* maximum is below its idle power.
LEMMA GPUModelIsNat ==
  ASSUME NEW idle \in Nat, NEW max \in Nat, NEW u \in 0..100
  PROVE  idle + ((max - idle) * u) \div 100 \in Nat
<1> DEFINE x == max * u + idle * (100 - u)
<1>1. x \in Nat
  OBVIOUS
<1>2. (max - idle) * u = x - 100 * idle
  OBVIOUS
<1> HIDE DEF x
<1>3. (x - 100 * idle) \div 100 = x \div 100 - idle
  BY <1>1
<1>4. x \div 100 \in Nat
  BY <1>1
<1> QED BY <1>2, <1>3, <1>4

\* The watts of a point.
LEMMA ReadingsAreNat ==
  ASSUME WattsOK, NEW b
  PROVE  CPU(b) \subseteq Nat /\ GPU(b) \subseteq Nat /\ Util(b) \subseteq Nat
BY DEF WattsOK, CPU, GPU, Util, Carried

\* A point's GPU estimate is an integer, and natural if the model's parts are.
LEMMA GPUEstimatedIsInt ==
  ASSUME WattsOK, NEW b
  PROVE  /\ GPUEstimated(b) \subseteq Int
         /\ PartsNonnegative => GPUEstimated(b) \subseteq Nat
<1> DEFINE watts(m, u) == m.idle + ((m.max - m.idle) * Min({u, 100})) \div 100
<1>1. \A x \in GPUEstimated(b) : \E m \in GPUModel : \E u \in Util(b) : x = watts(m, u)
  <2>1. GPUEstimated(b) = IF GPU(b) # {} THEN {} ELSE UNION {{watts(m, u) : u \in Util(b)} : m \in GPUModel}
    BY DEF GPUEstimated
  <2> HIDE DEF watts
  <2> QED BY <2>1
<1>2. ASSUME NEW m \in GPUModel, NEW u \in Util(b)
      PROVE  watts(m, u) \in Int /\ (PartsNonnegative => watts(m, u) \in Nat)
  <2>1. u \in Nat
    BY ReadingsAreNat
  <2>2. Min({u, 100}) \in 0..100
    <3>1. \E x \in {u, 100} : \A y \in {u, 100} : x <= y
      BY <2>1
    <3>2. Min({u, 100}) \in {u, 100} /\ Min({u, 100}) <= 100
      BY <3>1 DEF Min
    <3> QED BY <2>1, <3>2
  <2>3. m.idle \in Int /\ m.max \in Int
    BY PowerAssumption
  <2>4. watts(m, u) \in Int
    BY <2>2, <2>3
  <2>5. ASSUME PartsNonnegative PROVE watts(m, u) \in Nat
    <3>1. m.idle \in Nat /\ m.max \in Nat
      BY <2>3, <2>5 DEF PartsNonnegative
    <3> QED BY <2>2, <3>1, GPUModelIsNat
  <2> QED BY <2>4, <2>5
<1> HIDE DEF watts
<1> QED BY <1>1, <1>2

\* The watts of a point are integers, and a measured point is estimated, too.
LEMMA WattsAreInt ==
  ASSUME WattsOK, NEW b
  PROVE  /\ Measured(b) \subseteq Nat /\ Estimated(b) \subseteq Int
         /\ Measured(b) # {} => Estimated(b) # {}
<1> DEFINE c == Val(CPU(b))
           g == Val(GPU(b))
           e == Val(GPUEstimated(b))
<1>1. c \in Nat /\ g \in Nat /\ e \in Int
  BY ReadingsAreNat, GPUEstimatedIsInt, ValIsNat, ValIsInt
<1>2. Measured(b) = IF CPU(b) \cup GPU(b) = {} THEN {} ELSE {c + g}
  BY DEF Measured
<1>3. Estimated(b) = IF CPU(b) \cup GPU(b) \cup GPUEstimated(b) = {} THEN {}
                     ELSE {((c + g + e + Aux) * 100) \div Efficiency}
  BY DEF Estimated
<1> HIDE DEF c, g, e
<1>4. ((c + g + e + Aux) * 100) \div Efficiency \in Int
  BY <1>1, PowerAssumption
<1> QED BY <1>1, <1>2, <1>3, <1>4

\* It is estimated at no fewer watts, if no part of the model is negative.
LEMMA EstimateIsMore ==
  ASSUME WattsOK, PartsNonnegative, NEW b
  PROVE  /\ Measured(b) \subseteq Nat /\ Estimated(b) \subseteq Nat
         /\ Measured(b) # {} => Estimated(b) # {} /\ Val(Measured(b)) <= Val(Estimated(b))
<1> DEFINE c == Val(CPU(b))
           g == Val(GPU(b))
           e == Val(GPUEstimated(b))
<1>1. c \in Nat /\ g \in Nat /\ e \in Nat
  BY ReadingsAreNat, GPUEstimatedIsInt, ValIsNat
<1>2. Measured(b) = IF CPU(b) \cup GPU(b) = {} THEN {} ELSE {c + g}
  BY DEF Measured
<1>3. Estimated(b) = IF CPU(b) \cup GPU(b) \cup GPUEstimated(b) = {} THEN {}
                     ELSE {((c + g + e + Aux) * 100) \div Efficiency}
  BY DEF Estimated
<1> HIDE DEF c, g, e
<1>4. Aux \in Nat /\ Efficiency \in 1..100
  BY PowerAssumption DEF PartsNonnegative
<1>5. /\ ((c + g + e + Aux) * 100) \div Efficiency \in Nat
      /\ c + g <= ((c + g + e + Aux) * 100) \div Efficiency
  <2> DEFINE x == c + g + e + Aux
             q == (x * 100) \div Efficiency
  <2>1. x \in Nat /\ c + g <= x
    BY <1>1, <1>4
  <2> HIDE DEF x
  <2>2. q \in Int /\ x * 100 < (q + 1) * Efficiency /\ x * 100 \in Nat
    BY <2>1, <1>4
  <2> HIDE DEF q
  <2>3. x <= q
    <3> SUFFICES ASSUME q < x PROVE FALSE
      BY <2>1, <2>2
    <3>1. q + 1 <= x
      BY <2>1, <2>2
    <3>2. (q + 1) * Efficiency <= x * Efficiency
      BY <1>4, <2>1, <2>2, <3>1
    <3>3. x * Efficiency <= x * 100
      BY <1>4, <2>1
    <3> QED BY <1>4, <2>1, <2>2, <3>2, <3>3
  <2> QED BY <1>1, <2>1, <2>2, <2>3 DEF x, q
<1>6. Measured(b) # {} => Val(Measured(b)) = c + g
  BY <1>2 DEF Val
<1>7. Estimated(b) # {} => Val(Estimated(b)) = ((c + g + e + Aux) * 100) \div Efficiency
  BY <1>3 DEF Val
<1> QED BY <1>1, <1>2, <1>3, <1>5, <1>6, <1>7

LEMMA ValueIsInt == ASSUME WattsOK, NEW b PROVE Value(b) \subseteq Int
BY WattsAreInt DEF Value

LEMMA WattsStep == IInv /\ WattsOK /\ [PowerNext]_powerVars => WattsOK'
<1> SUFFICES ASSUME IInv, WattsOK, [PowerNext]_powerVars PROVE WattsOK'
  OBVIOUS
<1> USE PowerAssumption, SamplesAssumption
<1>1. ASSUME NEW step \in Steps, passes < MaxReadings, passes' = passes + 1, now' = now + step
      PROVE  /\ passes' \in 0..MaxReadings
             /\ \E s \in Steps : now' <= passes' * s
  <2>1. passes \in Nat /\ now \in Nat /\ step \in Nat
    BY DEF WattsOK, IInv, TablesOK
  <2>2. CASE now = 0
    <3>1. 1 * step <= (passes + 1) * step
      BY <2>1
    <3> QED BY <1>1, <2>1, <2>2, <3>1
  <2>3. ASSUME NEW s \in Steps, now <= passes * s PROVE \E z \in Steps : now' <= passes' * z
    <3>1. s \in Nat /\ passes * s \in Nat /\ passes * step \in Nat
      BY <2>1
    <3>2. (passes + 1) * s = passes * s + s /\ (passes + 1) * step = passes * step + step
      BY <2>1, <3>1
    <3>3. CASE step <= s
      BY <1>1, <2>1, <2>3, <3>1, <3>2, <3>3
    <3>4. CASE s <= step
      <4>1. passes * s <= passes * step
        BY <2>1, <3>1, <3>4
      <4> QED BY <1>1, <2>1, <2>3, <3>1, <3>2, <4>1
    <3> QED BY <2>1, <3>1, <3>3, <3>4
  <2> QED BY <1>1, <2>1, <2>2, <2>3 DEF WattsOK
<1>2. ASSUME NEW step \in Steps, NEW batch \in SensorBatches, SensorPass(step, batch)
      PROVE  WattsOK'
  <2> DEFINE f == [x \in batch |-> [ts |-> now', name |-> x.name, w |-> x.w]]
             new == {f[x] : x \in batch}
  <2>1. IsFiniteSet(new)
    <3> HIDE DEF f
    <3> QED BY ImageFinite
  <2>2. sensors' = sensors \cup new
    BY <1>2 DEF SensorPass
  <2>3. \A r \in new : r.w \in Nat
    OBVIOUS
  <2>4. IsFiniteSet(sensors') /\ \A r \in sensors' : r.w \in Nat
    <3> HIDE DEF new
    <3> QED BY <2>1, <2>2, <2>3, FS_Union DEF WattsOK
  <2>5. phase \notin Field /\ UNCHANGED <<gpus, request, loop>>
    BY <1>2 DEF SensorPass, Reading, Field
  <2> QED BY <1>1, <1>2, <2>4, <2>5 DEF SensorPass, WattsOK, request, loop
<1>3. ASSUME NEW step \in Steps, NEW s \in GPUSamples, GPUPass(step, s)
      PROVE  WattsOK'
  <2>1. IsFiniteSet(gpus')
    <3> DEFINE row == [ts |-> now', power |-> s.power, util |-> s.util]
    <3>1. IsFiniteSet(gpus) /\ gpus' = gpus \cup {row}
      BY <1>3 DEF GPUPass, WattsOK
    <3> HIDE DEF row
    <3> QED BY <3>1, FS_AddElement
  <2>2. phase \notin Field /\ UNCHANGED <<sensors, request, loop>>
    BY <1>3 DEF GPUPass, Reading, Field
  <2>3. \A r \in gpus' : r.power \subseteq Nat /\ r.util \subseteq Nat
    BY <1>3 DEF GPUPass, WattsOK
  <2> QED BY <1>1, <1>3, <2>1, <2>2, <2>3 DEF GPUPass, WattsOK, request, loop
<1>4. CASE ReadSensors
  BY <1>4, SensorAverages DEF ReadSensors, WattsOK, tables, loop, Field
<1>5. CASE ReadGPU
  <2>1. prev' = Nil /\ asked'.gpu = now /\ now \in Nat /\ now' = now
    BY <1>5 DEF ReadGPU, IInv, RequestOK, TablesOK, tables
  <2> QED BY <1>5, <2>1, GPUAverages DEF ReadGPU, WattsOK, tables, Nil
<1>6. ASSUME NEW b \in rest, NEW t \in Times(b), Integrate(b, t)
      PROVE  WattsOK'
  <2>1. Value(b) \subseteq Int
    BY <1>6, ValueIsInt DEF Integrate
  <2> QED BY <1>6, <2>1 DEF Integrate, WattsOK, tables, request
<1>7. CASE NextField
  BY <1>7 DEF NextField, WattsOK, tables, Field, Nil
<1>8. CASE Answer
  BY <1>8 DEF Answer, WattsOK, tables, Field, loop
<1>9. CASE UNCHANGED powerVars
  BY <1>9 DEF WattsOK, powerVars, tables, request, loop
<1> QED BY <1>2, <1>3, <1>4, <1>5, <1>6, <1>7, <1>8, <1>9 DEF PowerNext

-----------------------------------------------------------------------------
(* The days of a request add up to its total.                                  *)

DaysOK ==
  /\ total \in [Field -> Int] /\ daily \in [Field -> [Day -> Int]]
  /\ \A f \in Field : SumFunctionOnSet(daily[f], Day) = total[f]

\* Days put into weeks or months keep their sum.
LEMMA PeriodsAddUp ==
  ASSUME NEW days \in [Day -> Int], NEW of
  PROVE  SumFunction(Periods(days, of)) = SumFunctionOnSet(days, Day)
<1> DEFINE P == {of[d] : d \in Day}
<1>1. IsFiniteSet(P)
  BY ImageFinite, CalendarAssumption
<1>2. \A d \in Day : of[d] \in P
  OBVIOUS
<1>3. /\ Periods(days, of) = [p \in P |-> SumFunctionOnSet(days, {d \in Day : of[d] = p})]
      /\ DOMAIN Periods(days, of) = P
  BY DEF Periods
<1> HIDE DEF P
<1>4. SumFunctionOnSet([p \in P |-> SumFunctionOnSet(days, {d \in Day : of[d] = p})], P)
        = SumFunctionOnSet(days, Day)
  BY <1>1, <1>2, SumOfGroups, CalendarAssumption
<1> QED BY <1>3, <1>4 DEF SumFunction

LEMMA DaysArePeriods == DaysOK => DaysAddUp
<1> SUFFICES ASSUME DaysOK, NEW f \in Field
             PROVE  /\ SumFunction(daily[f]) = total[f]
                    /\ SumFunction(Periods(daily[f], Week)) = total[f]
                    /\ SumFunction(Periods(daily[f], Month)) = total[f]
  BY DEF DaysAddUp
<1>1. daily[f] \in [Day -> Int] /\ SumFunctionOnSet(daily[f], Day) = total[f]
  BY DEF DaysOK
<1>2. SumFunction(daily[f]) = total[f]
  BY <1>1 DEF SumFunction
<1> QED BY <1>1, <1>2, PeriodsAddUp

\* The middle of an interval between two readings falls on a day of the calendar.
LEMMA DayIsInCalendar ==
  ASSUME NEW t \in Nat, NEW dt \in Nat, NEW s \in Steps, t + dt <= passes * s, WattsOK
  PROVE  DayOf(t, dt) \in Day
<1> USE PowerAssumption, SamplesAssumption
<1> DEFINE d == DayOf(t, dt)
<1>1. d \in Nat /\ d * (2 * DayLength) <= 2 * t + dt
  BY DEF DayOf
<1> HIDE DEF d
<1>2. d * DayLength \in Nat /\ d * (2 * DayLength) = 2 * (d * DayLength)
  BY <1>1
<1>3. d * DayLength <= t + dt
  BY <1>1, <1>2
<1>4. passes * s <= MaxReadings * s /\ passes * s \in Nat /\ MaxReadings * s \in Nat
  BY DEF WattsOK
<1>5. d * DayLength <= MaxReadings * s
  BY <1>2, <1>3, <1>4
<1>6. d <= d * DayLength
  <2>1. d * 1 <= d * DayLength
    BY <1>1
  <2> QED BY <1>1, <2>1
<1>7. d \in 0..MaxReadings * s
  BY <1>1, <1>2, <1>4, <1>5, <1>6
<1> QED BY <1>5, <1>7, CalendarAssumption DEF d

\* What an iteration adds: an integer, to a day of the calendar.
LEMMA AddedIsInt ==
  ASSUME IInv, WattsOK, NEW b \in rest, NEW t \in Times(b), Integrate(b, t),
         prev.w # {}, t - prev.ts > 0
  PROVE  /\ t - prev.ts \in Nat
         /\ (Val(prev.w) + Val(Value(b))) * (t - prev.ts) \in Int
         /\ DayOf(prev.ts, t - prev.ts) \in Day
<1>1. phase \in Field /\ prev.ts \in Nat
  <2>1. phase \in Field
    BY DEF Integrate
  <2> QED BY <2>1 DEF IInv, LoopOK, Nil
<1>2. t \in Nat /\ t <= asked.gpu /\ asked.gpu \in Nat /\ now \in Nat
  <2>1. PICK r \in sensorRows \cup gpuRows : t \in r.times /\ r.bucket = b
    BY TimesAreRows
  <2>2. RowInWindow(r, asked.gpu)
    BY <1>1 DEF IInv, RequestOK, Field
  <2> QED BY <2>1, <2>2 DEF RowInWindow, IInv, RequestOK, TablesOK
<1>3. Val(prev.w) \in Int /\ Val(Value(b)) \in Int
  BY <1>1, ValIsInt, ValueIsInt DEF WattsOK
<1>4. t - prev.ts \in Nat /\ prev.ts + (t - prev.ts) = t
  BY <1>1, <1>2
<1>5. t <= now
  BY <1>1, <1>2 DEF WattsOK
<1>6. PICK s \in Steps : now <= passes * s
  BY <1>1, <1>2, <1>4, <1>5 DEF WattsOK
<1>7. t <= passes * s
  <2>1. passes * s \in Nat
    BY SamplesAssumption, PowerAssumption DEF WattsOK
  <2> QED BY <1>2, <1>5, <1>6, <2>1
<1>8. DayOf(prev.ts, t - prev.ts) \in Day
  BY <1>1, <1>4, <1>7, DayIsInCalendar
<1> QED BY <1>3, <1>4, <1>8

LEMMA DaysStep == IInv /\ WattsOK /\ DaysOK /\ [PowerNext]_powerVars => DaysOK'
<1> SUFFICES ASSUME IInv, WattsOK, DaysOK, [PowerNext]_powerVars PROVE DaysOK'
  OBVIOUS
<1>1. ASSUME NEW b \in rest, NEW t \in Times(b), Integrate(b, t)
      PROVE  DaysOK'
  <2> DEFINE dt == t - prev.ts
             wh == (Val(prev.w) + Val(Value(b))) * dt
             d == DayOf(prev.ts, dt)
  <2>1. CASE prev.w # {} /\ Value(b) # {} /\ dt > 0 /\ dt <= MaxGap
    <3>1. wh \in Int /\ d \in Day /\ phase \in Field
      BY <1>1, <2>1, AddedIsInt DEF Integrate
    <3>2. /\ total' = [total EXCEPT ![phase] = @ + wh]
          /\ daily' = [daily EXCEPT ![phase] = Added(daily[phase], d, wh)]
      BY <1>1, <2>1 DEF Integrate
    <3> HIDE DEF wh, d
    <3>3. /\ Added(daily[phase], d, wh) \in [Day -> Int]
          /\ Added(daily[phase], d, wh)[d] = daily[phase][d] + wh
          /\ \A x \in Day \ {d} : Added(daily[phase], d, wh)[x] = daily[phase][x]
      BY <3>1 DEF DaysOK, Added
    <3>4. total' \in [Field -> Int] /\ daily' \in [Field -> [Day -> Int]]
      BY <3>1, <3>2, <3>3 DEF DaysOK
    <3>5. ASSUME NEW f \in Field PROVE SumFunctionOnSet(daily'[f], Day) = total'[f]
      <4>1. CASE f = phase
        <5> DEFINE g == daily[f]
                   h == daily'[f]
        <5>1. /\ \A x \in Day : g[x] \in Int
              /\ h[d] = g[d] + wh /\ \A x \in Day \ {d} : h[x] = g[x]
          BY <3>1, <3>2, <3>3, <4>1 DEF DaysOK
        <5> HIDE DEF g, h
        <5>2. SumFunctionOnSet(h, Day) = SumFunctionOnSet(g, Day) + wh
          BY <3>1, <5>1, SumUpdate, CalendarAssumption
        <5>3. SumFunctionOnSet(g, Day) = total[f]
          BY DEF DaysOK, g
        <5>4. total'[f] = total[f] + wh
          BY <3>1, <3>2, <4>1 DEF DaysOK
        <5> QED BY <5>2, <5>3, <5>4 DEF h
      <4>2. CASE f # phase
        BY <3>1, <3>2, <4>2 DEF DaysOK
      <4> QED BY <4>1, <4>2
    <3> QED BY <3>5, <3>4 DEF DaysOK
  <2>2. CASE ~(prev.w # {} /\ Value(b) # {} /\ dt > 0 /\ dt <= MaxGap)
    BY <1>1, <2>2 DEF Integrate, DaysOK
  <2> QED BY <2>1, <2>2
<1>2. CASE UNCHANGED <<total, daily>>
  BY <1>2 DEF DaysOK
<1> QED BY <1>1, <1>2 DEF PowerNext, SensorPass, GPUPass, ReadSensors, ReadGPU, NextField, Answer, loop, powerVars

LEMMA LoopInit == PowerInit => WattsOK /\ DaysOK
<1> SUFFICES ASSUME PowerInit PROVE WattsOK /\ DaysOK
  OBVIOUS
<1>1. WattsOK
  BY FS_EmptySet, PowerAssumption DEF PowerInit, WattsOK, Field
<1>2. ASSUME NEW f \in Field PROVE SumFunctionOnSet(daily[f], Day) = 0
  <2>1. \A d \in Day : daily[f][d] = 0
    BY DEF PowerInit
  <2> QED BY <2>1, SumOfZeros, CalendarAssumption
<1>3. DaysOK
  BY <1>2 DEF PowerInit, DaysOK
<1> QED BY <1>1, <1>3

-----------------------------------------------------------------------------
(* Measured and estimated energy, day by day.  Either is the sum over the      *)
(* buckets of what the interval up to a bucket's point adds, and the interval  *)
(* of a bucket is the same in both.                                            *)

\* The time of a bucket's point, the last of some buckets, and the watts.
At(b) == CHOOSE t : t \in Times(b) /\ \A u \in Times(b) : u <= t
Last(S) == CHOOSE c \in S : \A x \in S : x <= c
Watts(f, b) == IF f = "measured" THEN Measured(b) ELSE Estimated(b)

\* The point integratePower holds when it has reached the buckets S.
PointAt(f, S) == IF S = {} THEN Nil ELSE [ts |-> At(Last(S)), w |-> Watts(f, Last(S))]
Earlier(b) == {c \in Buckets : c < b}

\* What bucket b adds to day d.
Share(f, b, d) ==
  LET p == PointAt(f, Earlier(b))
      dt == At(b) - p.ts
  IN IF /\ p.w # {} /\ Watts(f, b) # {}
        /\ dt \in Nat \ {0} /\ dt <= MaxGap /\ DayOf(p.ts, dt) = d
     THEN (Val(p.w) + Val(Watts(f, b))) * dt ELSE 0
Shares(f, d) == [b \in Buckets |-> Share(f, b, d)]

Reached == Buckets \ rest
SharesOK ==
  /\ IsFiniteSet(sensorRows) /\ IsFiniteSet(gpuRows)
  /\ phase \in {"idle", "sensors", "measured"} => \A d \in Day : daily["estimated"][d] = 0
  /\ phase \in {"idle", "sensors"} => \A d \in Day : daily["measured"][d] = 0
  /\ phase \in Field =>
       /\ \A c \in Reached : \A b \in rest : c < b
       /\ prev = PointAt(phase, Reached)
       /\ \A d \in Day : daily[phase][d] = SumFunctionOnSet(Shares(phase, d), Reached)
  /\ phase = "estimated" =>
       \A d \in Day : daily["measured"][d] = SumFunctionOnSet(Shares("measured", d), Buckets)
  /\ SubtotalIfPartsNonnegative

LEMMA ShareIsInt ==
  ASSUME WattsOK, NEW f, NEW b, NEW d
  PROVE  Share(f, b, d) \in Int
<1> DEFINE p == PointAt(f, Earlier(b))
           dt == At(b) - p.ts
<1>1. p.w \subseteq Int /\ Watts(f, b) \subseteq Int
  BY WattsAreInt DEF PointAt, Nil, Watts
<1>2. Val(p.w) \in Int /\ Val(Watts(f, b)) \in Int
  BY <1>1, ValIsInt
<1>3. Share(f, b, d) = 0 \/ (dt \in Nat /\ Share(f, b, d) = (Val(p.w) + Val(Watts(f, b))) * dt)
  BY DEF Share
<1> HIDE DEF p, dt
<1> QED BY <1>2, <1>3

LEMMA ShareIsNat ==
  ASSUME WattsOK, PartsNonnegative, NEW f, NEW b, NEW d
  PROVE  Share(f, b, d) \in Nat
<1> DEFINE p == PointAt(f, Earlier(b))
           dt == At(b) - p.ts
<1>1. p.w \subseteq Nat /\ Watts(f, b) \subseteq Nat
  BY EstimateIsMore DEF PointAt, Nil, Watts
<1>2. Val(p.w) \in Nat /\ Val(Watts(f, b)) \in Nat
  BY <1>1, ValIsNat
<1>3. Share(f, b, d) = 0 \/ (dt \in Nat /\ Share(f, b, d) = (Val(p.w) + Val(Watts(f, b))) * dt)
  BY DEF Share
<1> HIDE DEF p, dt
<1> QED BY <1>2, <1>3

\* A bucket adds at most as much to the measured energy as to the estimated.
LEMMA ShareIsSubtotal ==
  ASSUME WattsOK, PartsNonnegative, NEW b, NEW d
  PROVE  Share("measured", b, d) <= Share("estimated", b, d)
<1> DEFINE p == PointAt("measured", Earlier(b))
           q == PointAt("estimated", Earlier(b))
           dt == At(b) - p.ts
<1>1. CASE Share("measured", b, d) = 0
  BY <1>1, ShareIsNat
<1>2. CASE Share("measured", b, d) # 0
  <2>1. /\ p.w # {} /\ Watts("measured", b) # {}
        /\ dt \in Nat \ {0} /\ dt <= MaxGap /\ DayOf(p.ts, dt) = d
        /\ Share("measured", b, d) = (Val(p.w) + Val(Watts("measured", b))) * dt
    BY <1>2 DEF Share
  <2>2. /\ q.ts = p.ts /\ q.w # {} /\ Val(p.w) <= Val(q.w)
        /\ Val(p.w) \in Nat /\ Val(q.w) \in Nat
    <3>1. Earlier(b) # {}
      BY <2>1 DEF PointAt, Nil
    <3>2. /\ p = [ts |-> At(Last(Earlier(b))), w |-> Measured(Last(Earlier(b)))]
          /\ q = [ts |-> At(Last(Earlier(b))), w |-> Estimated(Last(Earlier(b)))]
      BY <3>1 DEF PointAt, Watts
    <3> HIDE DEF p, q
    <3> QED BY <2>1, <3>2, EstimateIsMore, ValIsNat
  <2>3. /\ Watts("estimated", b) # {} /\ Val(Watts("measured", b)) <= Val(Watts("estimated", b))
        /\ Val(Watts("measured", b)) \in Nat /\ Val(Watts("estimated", b)) \in Nat
    BY <2>1, EstimateIsMore, ValIsNat DEF Watts
  <2>4. Share("estimated", b, d) = (Val(q.w) + Val(Watts("estimated", b))) * dt
    BY <2>1, <2>2, <2>3 DEF Share
  <2> DEFINE m == Val(p.w) + Val(Watts("measured", b))
             e == Val(q.w) + Val(Watts("estimated", b))
  <2>5. m \in Nat /\ e \in Nat /\ m <= e
    BY <2>2, <2>3
  <2> HIDE DEF m, e, dt
  <2>6. m * dt <= e * dt
    BY <2>1, <2>5
  <2> QED BY <2>1, <2>4, <2>6 DEF m, e
<1> QED BY <1>1, <1>2

LEMMA BucketsFinite ==
  ASSUME IsFiniteSet(sensorRows), IsFiniteSet(gpuRows)
  PROVE  IsFiniteSet(Buckets)
<1> DEFINE f == [r \in sensorRows |-> r.bucket]
           g == [r \in gpuRows |-> r.bucket]
<1>1. Buckets = {f[r] : r \in sensorRows} \cup {g[r] : r \in gpuRows}
  BY DEF Buckets
<1>2. IsFiniteSet({f[r] : r \in sensorRows}) /\ IsFiniteSet({g[r] : r \in gpuRows})
  <2> HIDE DEF f, g
  <2> QED BY ImageFinite
<1> HIDE DEF f, g
<1> QED BY <1>1, <1>2, FS_Union

\* The answers do not change while the request integrates.
LEMMA SharesStay ==
  ASSUME UNCHANGED <<sensorRows, gpuRows, cpuName>>
  PROVE  /\ Buckets' = Buckets
         /\ \A f, S : PointAt(f, S)' = PointAt(f, S)
         /\ \A f, d : Shares(f, d)' = Shares(f, d)
<1>1. Buckets' = Buckets
  BY DEF Buckets
<1>2. ASSUME NEW b PROVE Times(b)' = Times(b)
  BY DEF Times
<1>3. ASSUME NEW b PROVE At(b)' = At(b)
  BY <1>2 DEF At
<1>4. ASSUME NEW b PROVE CPU(b)' = CPU(b) /\ GPU(b)' = GPU(b) /\ Util(b)' = Util(b)
  BY DEF CPU, GPU, Util, Carried
<1>5. ASSUME NEW b PROVE GPUEstimated(b)' = GPUEstimated(b)
  <2> DEFINE E(g, util) ==
        IF g # {} THEN {}
        ELSE UNION {{m.idle + ((m.max - m.idle) * Min({u, 100})) \div 100 : u \in util} : m \in GPUModel}
  <2>1. GPUEstimated(b) = E(GPU(b), Util(b))
    BY DEF GPUEstimated
  <2>2. GPUEstimated(b)' = E(GPU(b)', Util(b)')
    BY DEF GPUEstimated, Min
  <2> HIDE DEF E
  <2> QED BY <1>4, <2>1, <2>2
<1>6. ASSUME NEW b PROVE Measured(b)' = Measured(b) /\ Estimated(b)' = Estimated(b)
  <2>1. Measured(b)' = Measured(b)
    BY <1>4 DEF Measured, Val
  <2>2. Estimated(b)' = Estimated(b)
    <3> DEFINE E(c, g, e) ==
          IF c \cup g \cup e = {} THEN {}
          ELSE {((Val(c) + Val(g) + Val(e) + Aux) * 100) \div Efficiency}
    <3>1. Estimated(b) = E(CPU(b), GPU(b), GPUEstimated(b))
      BY DEF Estimated
    <3>2. Estimated(b)' = E(CPU(b)', GPU(b)', GPUEstimated(b)')
      BY DEF Estimated, Val
    <3> HIDE DEF E
    <3> QED BY <1>4, <1>5, <3>1, <3>2
  <2> QED BY <2>1, <2>2
<1>7. ASSUME NEW f, NEW b PROVE Watts(f, b)' = Watts(f, b)
  BY <1>6 DEF Watts
<1>8. ASSUME NEW f, NEW S PROVE PointAt(f, S)' = PointAt(f, S)
  BY <1>3, <1>7 DEF PointAt
<1>9. ASSUME NEW b PROVE Earlier(b)' = Earlier(b)
  BY <1>1 DEF Earlier
<1>10. ASSUME NEW f, NEW b, NEW d PROVE Share(f, b, d)' = Share(f, b, d)
  BY <1>3, <1>7, <1>8, <1>9 DEF Share
<1>11. ASSUME NEW f, NEW d PROVE Shares(f, d)' = Shares(f, d)
  BY <1>1, <1>10 DEF Shares
<1> QED BY <1>1, <1>8, <1>11

LEMMA SharesIntegrate ==
  ASSUME IInv, WattsOK, DaysOK, SharesOK, NEW b \in rest, NEW t \in Times(b), Integrate(b, t)
  PROVE  SharesOK'
<1>1. /\ phase \in Field /\ phase' = phase /\ rest \subseteq Buckets
      /\ rest' = rest \ {b} /\ \A c \in rest : b <= c
      /\ prev' = [ts |-> t, w |-> Value(b)]
      /\ UNCHANGED <<sensorRows, gpuRows, cpuName>>
  BY DEF Integrate, IsNext, request, IInv, RequestOK, Field
<1>2. \A c \in Buckets : c \in Nat
  BY <1>1 DEF IInv, RequestOK, Field, RowInWindow, Buckets
<1>3. \A u \in Times(b) : u \in Nat
  BY <1>1, TimesAreRows DEF IInv, RequestOK, Field, RowInWindow
<1>4. At(b) = t
  <2>1. \A u \in Times(b) : u <= t
    BY DEF Integrate
  <2>2. At(b) \in Times(b) /\ \A u \in Times(b) : u <= At(b)
    BY <2>1 DEF At
  <2> QED BY <1>3, <2>1, <2>2
<1>5. Earlier(b) = Reached
  <2>1. \A c \in Reached : c < b
    BY <1>1 DEF SharesOK
  <2> QED BY <1>1, <1>2, <2>1 DEF Earlier, Reached
<1>6. prev = PointAt(phase, Earlier(b)) /\ Value(b) = Watts(phase, b)
  BY <1>1, <1>5 DEF SharesOK, Value, Watts, Field
<1> DEFINE dt == t - prev.ts
           wh == (Val(prev.w) + Val(Value(b))) * dt
           adds == prev.w # {} /\ Value(b) # {} /\ dt > 0 /\ dt <= MaxGap
<1>7. Reached' = Reached \cup {b} /\ b \notin Reached /\ Buckets' = Buckets
  BY <1>1, SharesStay DEF Reached
<1>8. ASSUME NEW d \in Day PROVE daily'[phase][d] = daily[phase][d] + Share(phase, b, d)
  <2>1. CASE adds
    <3>1. dt \in Nat /\ wh \in Int /\ DayOf(prev.ts, dt) \in Day
      BY <2>1, AddedIsInt
    <3>2. daily' = [daily EXCEPT ![phase] = Added(daily[phase], DayOf(prev.ts, dt), wh)]
      BY <2>1 DEF Integrate
    <3>3. Share(phase, b, d) = IF DayOf(prev.ts, dt) = d THEN wh ELSE 0
      BY <1>4, <1>6, <2>1, <3>1 DEF Share
    <3> HIDE DEF wh, dt
    <3>4. daily'[phase] = Added(daily[phase], DayOf(prev.ts, dt), wh)
      BY <1>1, <3>2 DEF DaysOK
    <3>5. daily[phase] \in [Day -> Int]
      BY <1>1 DEF DaysOK
    <3> QED BY <3>1, <3>3, <3>4, <3>5 DEF Added
  <2>2. CASE ~adds
    <3>1. Share(phase, b, d) = 0
      BY <1>4, <1>6, <2>2 DEF Share
    <3>2. daily' = daily
      BY <2>2 DEF Integrate
    <3>3. daily[phase][d] \in Int
      BY <1>1 DEF DaysOK
    <3> QED BY <3>1, <3>2, <3>3
  <2> QED BY <2>1, <2>2
<1>9. ASSUME NEW d \in Day
      PROVE  daily'[phase][d] = SumFunctionOnSet(Shares(phase, d), Reached')
  <2> DEFINE g == Shares(phase, d)
  <2>1. /\ \A c \in Reached : g[c] \in Int
        /\ b \in Buckets /\ g[b] = Share(phase, b, d) /\ g[b] \in Int
    BY <1>1, ShareIsInt DEF Shares, Reached
  <2>2. IsFiniteSet(Reached)
    BY BucketsFinite, FS_Subset DEF SharesOK, Reached
  <2> HIDE DEF g
  <2>3. SumFunctionOnSet(g, Reached \cup {b}) = g[b] + SumFunctionOnSet(g, Reached)
    BY <1>7, <2>1, <2>2, SumAdd
  <2>4. SumFunctionOnSet(g, Reached) \in Int
    BY <2>1, <2>2, SumTakeAnyInt
  <2>5. daily[phase][d] = SumFunctionOnSet(g, Reached)
    BY <1>1 DEF SharesOK, g
  <2> QED BY <1>7, <1>8, <2>1, <2>3, <2>4, <2>5 DEF g
<1>10. \A f \in Field \ {phase} : daily'[f] = daily[f]
  BY <1>1 DEF Integrate, DaysOK
<1>11. prev' = PointAt(phase, Reached')
  <2>1. b \in Reached' /\ \A x \in Reached' : x <= b
    BY <1>1, <1>2, <1>7 DEF SharesOK, Reached
  <2>2. \A x \in Reached' : x \in Nat
    BY <1>2, <1>7 DEF Reached
  <2>3. Last(Reached') = b
    <3>1. Last(Reached') \in Reached' /\ \A x \in Reached' : x <= Last(Reached')
      BY <2>1 DEF Last
    <3> QED BY <2>1, <2>2, <3>1
  <2> QED BY <1>1, <1>4, <1>6, <2>1, <2>3 DEF PointAt
<1>12. \A c \in Reached' : \A x \in rest' : c < x
  BY <1>1, <1>2, <1>7 DEF SharesOK, Reached
<1>13. /\ prev' = PointAt(phase, Reached)'
       /\ \A f, d : Shares(f, d)' = Shares(f, d)
  BY <1>1, <1>11, SharesStay
<1>14. SubtotalIfPartsNonnegative'
  BY <1>1 DEF SubtotalIfPartsNonnegative, MeasuredIsSubtotal, Field
<1> QED BY <1>1, <1>7, <1>9, <1>10, <1>12, <1>13, <1>14 DEF SharesOK, Field

LEMMA SharesStep == IInv /\ WattsOK /\ DaysOK /\ SharesOK /\ [PowerNext]_powerVars => SharesOK'
<1> SUFFICES ASSUME IInv, WattsOK, DaysOK, SharesOK, [PowerNext]_powerVars PROVE SharesOK'
  OBVIOUS
<1>1. CASE Reading /\ UNCHANGED <<request, loop>>
  BY <1>1 DEF Reading, SharesOK, request, loop, Field, SubtotalIfPartsNonnegative, MeasuredIsSubtotal
<1>2. CASE ReadSensors
  <2> DEFINE f == [g \in Recent(sensors) |->
                     [bucket |-> Bucket(g.ts), name |-> g.name, times |-> {r.ts : r \in SensorGroup(g)},
                      w |-> SensorWatts(g)]]
  <2>1. IsFiniteSet(Recent(sensors))
    BY FS_Subset DEF Recent, WattsOK
  <2>2. SensorQuery = {f[g] : g \in Recent(sensors)}
    BY DEF SensorQuery
  <2>3. IsFiniteSet(SensorQuery)
    <3> HIDE DEF f
    <3> QED BY <2>1, <2>2, ImageFinite
  <2> QED BY <1>2, <2>3 DEF ReadSensors, SharesOK, loop, Field, SubtotalIfPartsNonnegative, MeasuredIsSubtotal
<1>3. CASE ReadGPU
  <2> DEFINE f == [g \in Recent(gpus) |->
                     [bucket |-> Bucket(g.ts), times |-> {r.ts : r \in GPUGroup(g)},
                      power |-> GPUWatts(g), util |-> GPUUtil(g)]]
  <2>1. IsFiniteSet(Recent(gpus))
    BY FS_Subset DEF Recent, WattsOK
  <2>2. GPUQuery = {f[g] : g \in Recent(gpus)}
    BY DEF GPUQuery
  <2>3. IsFiniteSet(GPUQuery)
    <3> HIDE DEF f
    <3> QED BY <2>1, <2>2, ImageFinite
  <2>4. Reached' = {}
    BY <1>3 DEF ReadGPU, Reached
  <2>5. prev' = PointAt(phase, Reached)'
    BY <1>3, <2>4 DEF ReadGPU, PointAt, IInv, RequestOK
  <2>6. ASSUME NEW d \in Day PROVE daily'[phase'][d] = SumFunctionOnSet(Shares(phase, d)', Reached')
    <3>1. daily'[phase'][d] = 0
      BY <1>3 DEF ReadGPU, SharesOK
    <3> QED BY <2>4, <3>1, SumEmpty
  <2> QED BY <1>3, <2>3, <2>4, <2>5, <2>6 DEF ReadGPU, SharesOK, Field, SubtotalIfPartsNonnegative, MeasuredIsSubtotal
<1>4. ASSUME NEW b \in rest, NEW t \in Times(b), Integrate(b, t)
      PROVE  SharesOK'
  BY <1>4, SharesIntegrate
<1>5. CASE NextField
  <2>1. /\ phase = "measured" /\ phase' = "estimated" /\ Reached = Buckets
        /\ rest' = Buckets /\ prev' = Nil /\ daily' = daily
        /\ UNCHANGED <<sensorRows, gpuRows, cpuName>>
    BY <1>5 DEF NextField, Reached
  <2>2. /\ Buckets' = Buckets /\ Reached' = {}
        /\ \A f, d : Shares(f, d)' = Shares(f, d)
    BY <2>1, SharesStay DEF Reached
  <2>3. prev' = PointAt(phase, Reached)'
    BY <2>1, <2>2 DEF PointAt, Nil
  <2>4. ASSUME NEW d \in Day
        PROVE  /\ daily'["estimated"][d] = SumFunctionOnSet(Shares("estimated", d)', Reached')
               /\ daily'["measured"][d] = SumFunctionOnSet(Shares("measured", d), Buckets)
    <3>1. daily["estimated"][d] = 0
      BY <2>1 DEF SharesOK
    <3>2. daily["measured"][d] = SumFunctionOnSet(Shares("measured", d), Buckets)
      BY <2>1 DEF SharesOK, Field
    <3> QED BY <2>1, <2>2, <3>1, <3>2, SumEmpty
  <2> QED BY <2>1, <2>2, <2>3, <2>4 DEF SharesOK, Field, SubtotalIfPartsNonnegative, MeasuredIsSubtotal
<1>6. CASE Answer
  <2>1. /\ phase = "estimated" /\ phase' = "done" /\ Reached = Buckets /\ daily' = daily
        /\ UNCHANGED <<sensorRows, gpuRows>>
    BY <1>6 DEF Answer, Reached, loop
  <2>2. ASSUME PartsNonnegative, NEW d \in Day
        PROVE  daily["measured"][d] <= daily["estimated"][d]
    <3> DEFINE m == Shares("measured", d)
               e == Shares("estimated", d)
    <3>1. \A b \in Buckets : m[b] \in Nat /\ e[b] \in Nat /\ m[b] <= e[b]
      BY <2>2, ShareIsNat, ShareIsSubtotal DEF Shares
    <3>2. IsFiniteSet(Buckets)
      BY BucketsFinite DEF SharesOK
    <3>3. daily["measured"][d] = SumFunctionOnSet(m, Buckets) /\ daily["estimated"][d] = SumFunctionOnSet(e, Buckets)
      BY <2>1 DEF SharesOK, Field
    <3> HIDE DEF m, e
    <3> QED BY <3>1, <3>2, <3>3, SumMonotone
  <2> QED BY <2>1, <2>2 DEF SharesOK, Field, SubtotalIfPartsNonnegative, MeasuredIsSubtotal
<1>7. CASE UNCHANGED powerVars
  <2>1. /\ Buckets' = Buckets /\ Reached' = Reached
        /\ \A f, d : Shares(f, d)' = Shares(f, d)
        /\ \A f, S : PointAt(f, S)' = PointAt(f, S)
    BY <1>7, SharesStay DEF Reached, powerVars, request, loop
  <2>2. PointAt(phase, Reached)' = PointAt(phase, Reached)
    BY <1>7, <2>1 DEF powerVars, request
  <2> QED BY <1>7, <2>1, <2>2 DEF SharesOK, SubtotalIfPartsNonnegative, MeasuredIsSubtotal, powerVars, request, loop
<1> QED BY <1>1, <1>2, <1>3, <1>4, <1>5, <1>6, <1>7 DEF PowerNext, SensorPass, GPUPass

-----------------------------------------------------------------------------
(* Counters: the rows of the table and of the spool.                           *)

TheHost == CHOOSE h \in Host : Host = {h}

\* Rows of the table, and samples that wait in the spool.
Row == [host : Host, dev : Dev, ts : Nat, n : [Counter -> Nat], id : Nat]
Sample == [host : Host, dev : Dev, ts : Nat, n : [Counter -> Nat]]
Waiting == UNION {spool[i] : i \in DOMAIN spool}
Written == table \cup Waiting

CountersTypes ==
  /\ now \in Nat /\ last = [h \in Host |-> now]
  /\ real \in [Host -> [Dev -> [Counter -> Nat]]]
  /\ done \in [Dev -> [Counter -> Nat]] /\ peak \in [Dev -> [Counter -> Nat]]
  /\ table \subseteq Row /\ IsFiniteSet(table)
  /\ spool \in Seq(SUBSET Sample)

\* An arrival brings at most one row of a device, and ids tell arrivals apart.
ArrivalsOK ==
  /\ \A i \in DOMAIN spool : /\ IsFiniteSet(spool[i])
                             /\ \A x, y \in spool[i] : x.dev = y.dev => x = y
  /\ \A r \in table : r.id < Cardinality(table)
  /\ \A q, r \in table : q.dev = r.dev /\ q.id = r.id => q = r

\* What is written of one device and one instant agrees.
SamplesOK ==
  /\ \A x \in Written : x.ts <= now
  /\ \A x, y \in Written : x.dev = y.dev /\ x.ts = y.ts => x.n = y.n

RowsOK == CountersTypes /\ ArrivalsOK /\ SamplesOK

-----------------------------------------------------------------------------

LEMMA OneHost == TheHost \in Host /\ \A h \in Host : h = TheHost
<1>1. \E h \in Host : Host = {h}
  BY CountersAssumption
<1> QED BY <1>1 DEF TheHost

LEMMA WrittenTypes ==
  ASSUME CountersTypes, NEW x \in Written
  PROVE  x.dev \in Dev /\ x.ts \in Nat /\ x.n \in [Counter -> Nat]
<1>1. CASE x \in table
  BY <1>1 DEF CountersTypes, Row
<1>2. CASE x \in Waiting
  <2>1. PICK i \in DOMAIN spool : x \in spool[i]
    BY <1>2 DEF Waiting
  <2>2. spool[i] \subseteq Sample
    BY <2>1 DEF CountersTypes
  <2> QED BY <2>1, <2>2 DEF Sample
<1> QED BY <1>1, <1>2 DEF Written

\* What a pass does, with the one host there is.
PassOf(step, w, reboot, to) ==
  LET r == [v \in Dev |-> [c \in Counter |->
              IF reboot THEN w[v][c] ELSE real[TheHost][v][c] + w[v][c] * step]]
      batch == {[host |-> TheHost, dev |-> v, ts |-> now', n |-> r[v]] : v \in Dev}
  IN /\ now' = now + step /\ last' = [h \in Host |-> now']
     /\ real' = [h \in Host |-> r]
     /\ done' = [v \in Dev |-> [c \in Counter |-> done[v][c] + w[v][c] * step]]
     /\ peak' = [v \in Dev |-> [c \in Counter |-> Max({peak[v][c], w[v][c]})]]
     /\ rebooted' = (rebooted \/ reboot)
     /\ table' = IF "table" \in to THEN table \cup Arrived(batch) ELSE table
     /\ spool' = IF "spool" \in to THEN Append(spool, batch) ELSE spool

LEMMA PassIsOfTheHost ==
  ASSUME CountersTypes, NEW h \in Host, NEW step \in Steps, NEW w \in Work,
         NEW reboot \in BOOLEAN, NEW to, Pass(h, step, w, reboot, to)
  PROVE  PassOf(step, w, reboot, to) /\ step \in Nat \ {0} /\ w \in [Dev -> [Counter -> Nat]]
<1>1. step \in Nat \ {0} /\ w \in [Dev -> [Counter -> Nat]]
  BY SamplesAssumption, CountersAssumption
<1>2. h = TheHost
  BY OneHost
<1>3. now' = now + step /\ now' - last[h] = step
  BY <1>1 DEF Pass, CountersTypes
<1>4. now' - last[h] = (now + step) - last[h]
  BY <1>3
<1>5. last' = [k \in Host |-> now']
  BY <1>2, OneHost, <1>3 DEF Pass, CountersTypes
<1> DEFINE r == [v \in Dev |-> [c \in Counter |->
              IF reboot THEN w[v][c] ELSE real[TheHost][v][c] + w[v][c] * step]]
           n == [v \in Dev |-> [c \in Counter |->
              IF reboot THEN w[v][c] ELSE real[h][v][c] + [u \in Dev |-> [d \in Counter |-> w[u][d] * ((now + step) - last[h])]][v][c]]]
           g == [u \in Dev |-> [d \in Counter |-> w[u][d] * ((now + step) - last[h])]]
<1>6. n = r
  BY <1>2, <1>3, <1>4
<1>7. done' = [v \in Dev |-> [c \in Counter |-> done[v][c] + w[v][c] * step]]
  <2>1. done' = [v \in Dev |-> [c \in Counter |-> done[v][c] + g[v][c]]]
    BY DEF Pass
  <2> QED BY <2>1, <1>3, <1>4
<1>8. real' = [k \in Host |-> r]
  <2>1. real' = [real EXCEPT ![h] = n]
    BY DEF Pass
  <2>2. real' = [real EXCEPT ![h] = r]
    BY <2>1, <1>6
  <2> HIDE DEF r
  <2> QED BY <2>2, <1>2, OneHost DEF CountersTypes
<1> DEFINE bn == {[host |-> h, dev |-> v, ts |-> now + step, n |-> n[v]] : v \in Dev}
           br == {[host |-> TheHost, dev |-> v, ts |-> now', n |-> r[v]] : v \in Dev}
<1>9. bn = br
  <2> HIDE DEF n, r
  <2> QED BY <1>2, <1>3, <1>6
<1>10. /\ table' = IF "table" \in to THEN table \cup Arrived(bn) ELSE table
       /\ spool' = IF "spool" \in to THEN Append(spool, bn) ELSE spool
  BY DEF Pass
<1>11. /\ table' = IF "table" \in to THEN table \cup Arrived(br) ELSE table
       /\ spool' = IF "spool" \in to THEN Append(spool, br) ELSE spool
  <2> HIDE DEF bn, br
  <2> QED BY <1>9, <1>10
<1>12. /\ peak' = [v \in Dev |-> [c \in Counter |-> Max({peak[v][c], w[v][c]})]]
       /\ rebooted' = (rebooted \/ reboot)
  BY DEF Pass
<1> QED BY <1>1, <1>3, <1>5, <1>7, <1>8, <1>11, <1>12 DEF PassOf

LEMMA MaxOfTwo ==
  ASSUME NEW a \in Nat, NEW b \in Nat
  PROVE  Max({a, b}) \in Nat /\ a <= Max({a, b}) /\ b <= Max({a, b})
<1>1. \E x \in {a, b} : \A y \in {a, b} : x >= y
  OBVIOUS
<1>2. Max({a, b}) \in {a, b} /\ \A y \in {a, b} : Max({a, b}) >= y
  BY <1>1 DEF Max
<1> QED BY <1>2

\* What a pass adds is of this instant, and of the counters as they are now.
LEMMA PassWrites ==
  ASSUME CountersTypes, NEW step \in Steps, NEW w \in Work, NEW reboot \in BOOLEAN, NEW to,
         PassOf(step, w, reboot, to), NEW x \in Written'
  PROVE  x \in Written \/ (x.dev \in Dev /\ x.ts = now' /\ x.n = real'[TheHost][x.dev])
<1> DEFINE r == [v \in Dev |-> [c \in Counter |->
              IF reboot THEN w[v][c] ELSE real[TheHost][v][c] + w[v][c] * step]]
           batch == {[host |-> TheHost, dev |-> v, ts |-> now', n |-> r[v]] : v \in Dev}
<1>1. /\ table' = IF "table" \in to THEN table \cup Arrived(batch) ELSE table
      /\ spool' = IF "spool" \in to THEN Append(spool, batch) ELSE spool
      /\ real' = [h \in Host |-> r]
  BY DEF PassOf
<1> HIDE DEF r
<1>2. real'[TheHost] = r
  BY <1>1, OneHost
<1>3. CASE x \in table'
  <2>1. CASE x \in Arrived(batch)
    <3>1. PICK v \in Dev : x = [host |-> TheHost, dev |-> v, ts |-> now', n |-> r[v],
                                id |-> Cardinality(table)]
      BY <2>1 DEF Arrived
    <3> QED BY <3>1, <1>2
  <2> QED BY <1>1, <1>3, <2>1 DEF Written
<1>4. CASE x \in Waiting'
  <2>1. PICK i \in DOMAIN spool' : x \in spool'[i]
    BY <1>4 DEF Waiting
  <2> HIDE DEF batch
  <2>2. (i \in DOMAIN spool /\ spool'[i] = spool[i]) \/ spool'[i] = batch
    BY <1>1, <2>1 DEF CountersTypes
  <2>3. CASE x \in batch
    BY <2>3, <1>2 DEF batch
  <2> QED BY <2>1, <2>2, <2>3 DEF Written, Waiting
<1> QED BY <1>3, <1>4 DEF Written

\* A replay writes nothing new.
LEMMA ReplayWrites ==
  ASSUME CountersTypes, Replay, NEW x \in Written'
  PROVE  \E y \in Written : x.dev = y.dev /\ x.ts = y.ts /\ x.n = y.n
<1>1. 1 \in DOMAIN spool /\ Head(spool) = spool[1]
  BY DEF Replay, CountersTypes
<1>2. CASE x \in Arrived(Head(spool))
  <2>1. PICK y \in Head(spool) : x = [host |-> y.host, dev |-> y.dev, ts |-> y.ts, n |-> y.n,
                                      id |-> Cardinality(table)]
    BY <1>2 DEF Arrived
  <2> QED BY <1>1, <2>1 DEF Written, Waiting
<1>3. CASE x \in Waiting'
  <2>1. PICK i \in DOMAIN spool' : x \in spool'[i]
    BY <1>3 DEF Waiting
  <2>2. i + 1 \in DOMAIN spool /\ spool'[i] = spool[i + 1]
    BY <2>1 DEF Replay, CountersTypes
  <2> QED BY <2>1, <2>2 DEF Written, Waiting
<1> QED BY <1>2, <1>3 DEF Written, Replay

\* The rows of an arrived batch, whose samples are of different devices.
LEMMA ArrivalKeepsIds ==
  ASSUME CountersTypes, ArrivalsOK, NEW batch \in SUBSET Sample, IsFiniteSet(batch),
         \A x, y \in batch : x.dev = y.dev => x = y, table' = table \cup Arrived(batch)
  PROVE  /\ table' \subseteq Row /\ IsFiniteSet(table')
         /\ \A r \in table' : r.id < Cardinality(table')
         /\ \A q, r \in table' : q.dev = r.dev /\ q.id = r.id => q = r
<1> DEFINE n == Cardinality(table)
           f == [b \in batch |-> [host |-> b.host, dev |-> b.dev, ts |-> b.ts, n |-> b.n, id |-> n]]
<1>1. n \in Nat /\ IsFiniteSet(table)
  BY FS_CardinalityType DEF CountersTypes
<1>2. Arrived(batch) = {f[b] : b \in batch}
  BY DEF Arrived
<1>3. IsFiniteSet(Arrived(batch))
  <2> HIDE DEF f
  <2> QED BY <1>2, ImageFinite
<1>4. IsFiniteSet(table')
  BY <1>1, <1>3, FS_Union
<1>5. \A r \in Arrived(batch) : r.id = n /\ r \in Row
  BY <1>1 DEF Arrived, Sample, Row
<1>6. \A r \in table : r.id # n
  BY <1>1 DEF ArrivalsOK
<1>7. \A q, r \in Arrived(batch) : q.dev = r.dev => q = r
  BY DEF Arrived
<1>8. Cardinality(table') \in Nat /\ n <= Cardinality(table')
  BY <1>1, <1>4, FS_Subset, FS_CardinalityType
<1>9. ASSUME NEW x \in Arrived(batch) PROVE n < Cardinality(table')
  <2>1. x \notin table
    BY <1>5, <1>6
  <2>2. Cardinality(table \cup {x}) = n + 1 /\ IsFiniteSet(table \cup {x})
    BY <1>1, <2>1, FS_AddElement
  <2>3. Cardinality(table \cup {x}) <= Cardinality(table')
    BY <1>4, FS_Subset
  <2> QED BY <1>1, <1>8, <2>2, <2>3
<1>10. \A r \in table : r.id \in Nat /\ r.id < n
  BY DEF CountersTypes, ArrivalsOK, Row
<1> HIDE DEF n
<1>11. \A r \in table' : r.id < Cardinality(table')
  BY <1>1, <1>5, <1>8, <1>9, <1>10
<1>12. \A q, r \in table' : q.dev = r.dev /\ q.id = r.id => q = r
  BY <1>5, <1>6, <1>7 DEF ArrivalsOK
<1>13. table' \subseteq Row
  BY <1>5 DEF CountersTypes
<1> QED BY <1>4, <1>11, <1>12, <1>13

LEMMA PassRowsOK ==
  ASSUME RowsOK, NEW step \in Steps, NEW w \in Work, NEW reboot \in BOOLEAN, NEW to,
         PassOf(step, w, reboot, to), step \in Nat \ {0}, w \in [Dev -> [Counter -> Nat]]
  PROVE  RowsOK'
<1> DEFINE r == [v \in Dev |-> [c \in Counter |->
              IF reboot THEN w[v][c] ELSE real[TheHost][v][c] + w[v][c] * step]]
           batch == {[host |-> TheHost, dev |-> v, ts |-> now', n |-> r[v]] : v \in Dev}
<1>1. CountersTypes
  BY DEF RowsOK
<1>2. /\ now' = now + step /\ last' = [h \in Host |-> now']
      /\ real' = [h \in Host |-> r]
      /\ done' = [v \in Dev |-> [c \in Counter |-> done[v][c] + w[v][c] * step]]
      /\ peak' = [v \in Dev |-> [c \in Counter |-> Max({peak[v][c], w[v][c]})]]
      /\ table' = IF "table" \in to THEN table \cup Arrived(batch) ELSE table
      /\ spool' = IF "spool" \in to THEN Append(spool, batch) ELSE spool
  BY DEF PassOf
<1>3. now' \in Nat /\ now < now'
  BY <1>1, <1>2 DEF CountersTypes
<1>4. r \in [Dev -> [Counter -> Nat]]
  <2>1. real[TheHost] \in [Dev -> [Counter -> Nat]]
    BY <1>1, OneHost DEF CountersTypes
  <2>2. \A v \in Dev, c \in Counter : real[TheHost][v][c] \in Nat /\ w[v][c] \in Nat
    BY <2>1
  <2>3. \A v \in Dev, c \in Counter : w[v][c] * step \in Nat
    BY <2>2
  <2>4. \A v \in Dev, c \in Counter : real[TheHost][v][c] + w[v][c] * step \in Nat
    BY <2>2, <2>3
  <2> QED BY <2>2, <2>4
<1>5. batch \subseteq Sample /\ IsFiniteSet(batch) /\ \A x, y \in batch : x.dev = y.dev => x = y
  <2> DEFINE f == [v \in Dev |-> [host |-> TheHost, dev |-> v, ts |-> now', n |-> r[v]]]
  <2>1. \A v \in Dev : r[v] \in [Counter -> Nat]
    BY <1>4
  <2> HIDE DEF r
  <2>2. batch \subseteq Sample
    BY <1>3, <2>1, OneHost DEF Sample
  <2>3. batch = {f[v] : v \in Dev}
    OBVIOUS
  <2>4. IsFiniteSet({f[v] : v \in Dev})
    <3> HIDE DEF f
    <3> QED BY ImageFinite, CountersAssumption
  <2>5. \A x, y \in batch : x.dev = y.dev => x = y
    OBVIOUS
  <2>6. IsFiniteSet(batch)
    BY <2>3, <2>4
  <2> HIDE DEF batch
  <2> QED BY <2>2, <2>5, <2>6
<1> HIDE DEF r, batch
<1>6. CountersTypes'
  <2>1. real' \in [Host -> [Dev -> [Counter -> Nat]]]
    BY <1>2, <1>4
  <2>2. done' \in [Dev -> [Counter -> Nat]]
    <3>1. \A v \in Dev, c \in Counter : done[v][c] \in Nat /\ w[v][c] \in Nat
      BY <1>1 DEF CountersTypes
    <3>2. \A v \in Dev, c \in Counter : w[v][c] * step \in Nat
      BY <3>1
    <3>3. \A v \in Dev, c \in Counter : done[v][c] + w[v][c] * step \in Nat
      BY <3>1, <3>2
    <3> QED BY <1>2, <3>3
  <2>3. peak' \in [Dev -> [Counter -> Nat]]
    <3>1. \A v \in Dev, c \in Counter : Max({peak[v][c], w[v][c]}) \in Nat
      BY <1>1, MaxOfTwo DEF CountersTypes
    <3> QED BY <1>2, <3>1
  <2>4. table' \subseteq Row /\ IsFiniteSet(table')
    <3>1. CASE table' = table
      BY <3>1, <1>1 DEF CountersTypes
    <3>2. CASE table' = table \cup Arrived(batch)
      BY <3>2, <1>1, <1>5, ArrivalKeepsIds DEF RowsOK
    <3> QED BY <1>2, <3>1, <3>2
  <2>5. spool' \in Seq(SUBSET Sample)
    BY <1>1, <1>2, <1>5 DEF CountersTypes
  <2> QED BY <1>2, <1>3, <2>1, <2>2, <2>3, <2>4, <2>5 DEF CountersTypes
<1>7. ArrivalsOK'
  <2>1. \A i \in DOMAIN spool' : /\ IsFiniteSet(spool'[i])
                                 /\ \A x, y \in spool'[i] : x.dev = y.dev => x = y
    <3> SUFFICES ASSUME NEW i \in DOMAIN spool'
                 PROVE  IsFiniteSet(spool'[i]) /\ \A x, y \in spool'[i] : x.dev = y.dev => x = y
      OBVIOUS
    <3>1. (i \in DOMAIN spool /\ spool'[i] = spool[i]) \/ spool'[i] = batch
      BY <1>1, <1>2 DEF CountersTypes
    <3>2. CASE spool'[i] = batch
      <4> QED BY <3>2, <1>5
    <3>3. CASE i \in DOMAIN spool /\ spool'[i] = spool[i]
      BY <3>3 DEF RowsOK, ArrivalsOK
    <3> QED BY <3>1, <3>2, <3>3
  <2>2. CASE table' = table
    BY <2>1, <2>2 DEF RowsOK, ArrivalsOK
  <2>3. CASE table' = table \cup Arrived(batch)
    <3>1. /\ \A x \in table' : x.id < Cardinality(table')
          /\ \A q, x \in table' : q.dev = x.dev /\ q.id = x.id => q = x
      BY <2>3, <1>1, <1>5, ArrivalKeepsIds DEF RowsOK
    <3> QED BY <2>1, <3>1 DEF ArrivalsOK
  <2> QED BY <1>2, <2>2, <2>3
<1>8. SamplesOK'
  <2>1. \A x \in Written' : x \in Written \/ (x.dev \in Dev /\ x.ts = now' /\ x.n = real'[TheHost][x.dev])
    BY <1>1, PassWrites
  <2>2. \A x \in Written : x.ts \in Nat /\ x.ts <= now
    BY <1>1, WrittenTypes DEF RowsOK, SamplesOK
  <2>3. \A x \in Written' : x.ts <= now'
    BY <1>3, <2>1, <2>2, <1>1 DEF CountersTypes
  <2>4. ASSUME NEW x \in Written', NEW y \in Written', x.dev = y.dev, x.ts = y.ts
        PROVE  x.n = y.n
    <3>2. \A a, b \in Written : a.dev = b.dev /\ a.ts = b.ts => a.n = b.n
      BY DEF RowsOK, SamplesOK
    <3>3. \A a \in Written : a.ts # now'
      BY <1>1, <1>3, <2>2 DEF CountersTypes
    <3> QED BY <2>1, <2>4, <3>2, <3>3
  <2> QED BY <2>3, <2>4 DEF SamplesOK
<1> QED BY <1>6, <1>7, <1>8 DEF RowsOK

LEMMA ReplayRowsOK ==
  ASSUME RowsOK, Replay
  PROVE  RowsOK'
<1>1. CountersTypes
  BY DEF RowsOK
<1>2. 1 \in DOMAIN spool /\ Head(spool) = spool[1] /\ Head(spool) \in SUBSET Sample
  BY <1>1 DEF Replay, CountersTypes
<1>3. IsFiniteSet(Head(spool)) /\ \A x, y \in Head(spool) : x.dev = y.dev => x = y
  BY <1>2 DEF RowsOK, ArrivalsOK
<1>4. table' = table \cup Arrived(Head(spool))
  BY DEF Replay
<1>5. /\ table' \subseteq Row /\ IsFiniteSet(table')
      /\ \A r \in table' : r.id < Cardinality(table')
      /\ \A q, r \in table' : q.dev = r.dev /\ q.id = r.id => q = r
  BY <1>1, <1>2, <1>3, <1>4, ArrivalKeepsIds DEF RowsOK
<1>6. \A i \in DOMAIN spool' : i + 1 \in DOMAIN spool /\ spool'[i] = spool[i + 1]
  BY <1>1 DEF Replay, CountersTypes
<1>7. CountersTypes'
  <2>1. spool' \in Seq(SUBSET Sample)
    BY <1>1 DEF Replay, CountersTypes
  <2> QED BY <2>1, <1>1, <1>5 DEF Replay, CountersTypes
<1>8. ArrivalsOK'
  <2>1. \A i \in DOMAIN spool' : /\ IsFiniteSet(spool'[i])
                                 /\ \A x, y \in spool'[i] : x.dev = y.dev => x = y
    BY <1>6 DEF RowsOK, ArrivalsOK
  <2> QED BY <2>1, <1>5 DEF ArrivalsOK
<1>9. SamplesOK'
  <2>1. \A x \in Written' : \E y \in Written : x.dev = y.dev /\ x.ts = y.ts /\ x.n = y.n
    BY <1>1, ReplayWrites
  <2>2. \A x \in Written' : x.ts <= now'
    BY <2>1 DEF RowsOK, SamplesOK, Replay
  <2>3. \A x, y \in Written' : x.dev = y.dev /\ x.ts = y.ts => x.n = y.n
    BY <2>1 DEF RowsOK, SamplesOK
  <2> QED BY <2>2, <2>3 DEF SamplesOK
<1> QED BY <1>7, <1>8, <1>9 DEF RowsOK

-----------------------------------------------------------------------------
(* The intervals of a set of rows.                                             *)

RowSet(rows) ==
  /\ rows \subseteq Row /\ IsFiniteSet(rows)
  /\ \A q, r \in rows : q.dev = r.dev /\ q.id = r.id => q = r

IsInterval(rows, x, q, r) ==
  /\ q \in Lag(rows, r) /\ x = Delta(q, r)
  /\ q.dev = r.dev /\ q.ts \in Nat /\ r.ts \in Nat /\ q.ts < r.ts /\ r.dev \in Dev
  /\ r.ts - q.ts <= 3 * Interval
  /\ \A c \in Counter : q.n[c] \in Nat /\ r.n[c] \in Nat /\ q.n[c] <= r.n[c]

LEMMA RecentRowSet == RowsOK => RowSet(table) /\ RowSet(Recent(table))
<1> SUFFICES ASSUME RowsOK PROVE RowSet(table) /\ RowSet(Recent(table))
  OBVIOUS
<1>1. RowSet(table)
  BY DEF RowsOK, CountersTypes, ArrivalsOK, RowSet
<1>2. Recent(table) \subseteq table
  BY DEF Recent
<1>3. IsFiniteSet(Recent(table))
  BY <1>1, <1>2, FS_Subset DEF RowSet
<1> QED BY <1>1, <1>2, <1>3 DEF RowSet

LEMMA IntervalOf ==
  ASSUME NEW rows, RowSet(rows), NEW x \in Valid(rows)
  PROVE  \E q, r \in rows : IsInterval(rows, x, q, r)
<1>1. PICK r \in rows : x \in {Delta(q, r) : q \in Lag(rows, r)}
  BY DEF Valid
<1>2. PICK q \in Lag(rows, r) : x = Delta(q, r)
  BY <1>1
<1>3. q \in rows /\ q.dev = r.dev
  BY <1>2 DEF Lag
<1>4. q.ts \in Nat /\ r.ts \in Nat /\ r.dev \in Dev /\ q.n \in [Counter -> Nat] /\ r.n \in [Counter -> Nat]
  BY <1>3 DEF RowSet, Row
<1>5. x.dt = r.ts - q.ts /\ \A c \in Counter : x.d[c] = r.n[c] - q.n[c]
  BY <1>2 DEF Delta
<1>6. x.dt > 0 /\ x.dt <= 3 * Interval /\ \A c \in Counter : x.d[c] >= 0
  BY DEF Valid
<1>7. q.ts < r.ts /\ r.ts - q.ts <= 3 * Interval
  BY <1>4, <1>5, <1>6
<1>8. \A c \in Counter : q.n[c] \in Nat /\ r.n[c] \in Nat /\ q.n[c] <= r.n[c]
  BY <1>4, <1>5, <1>6
<1> QED BY <1>2, <1>3, <1>4, <1>7, <1>8 DEF IsInterval

\* An interval is valid: the converse.
LEMMA IntervalIsValid ==
  ASSUME NEW rows, NEW r \in rows, NEW q, NEW x, IsInterval(rows, x, q, r)
  PROVE  x \in Valid(rows)
<1>1. x = Delta(q, r) /\ q \in Lag(rows, r)
  BY DEF IsInterval
<1>2. x.dt = r.ts - q.ts /\ \A c \in Counter : x.d[c] = r.n[c] - q.n[c]
  BY <1>1 DEF Delta
<1>3. x.dt > 0 /\ x.dt <= 3 * Interval
  BY <1>2 DEF IsInterval
<1>4. \A c \in Counter : x.d[c] >= 0
  BY <1>2 DEF IsInterval
<1> QED BY <1>1, <1>3, <1>4 DEF Valid

LEMMA IntervalParts ==
  ASSUME NEW rows, NEW q, NEW r, NEW x, IsInterval(rows, x, q, r)
  PROVE  /\ x.row = r /\ x.dt = r.ts - q.ts /\ x.dt \in Nat /\ x.row.ts - x.dt = q.ts
         /\ \A c \in Counter : x.d[c] \in Nat /\ q.n[c] + x.d[c] = r.n[c]
<1>1. x.row = r /\ x.dt = r.ts - q.ts /\ \A c \in Counter : x.d[c] = r.n[c] - q.n[c]
  BY DEF IsInterval, Delta
<1>2. x.dt \in Nat /\ r.ts - (r.ts - q.ts) = q.ts
  BY <1>1 DEF IsInterval
<1>3. \A c \in Counter : x.d[c] \in Nat /\ q.n[c] + x.d[c] = r.n[c]
  BY <1>1 DEF IsInterval
<1> QED BY <1>1, <1>2, <1>3

\* A row has one row before it.
LEMMA LagIsUnique ==
  ASSUME NEW rows, RowSet(rows), NEW r \in rows, NEW p \in Lag(rows, r), NEW q \in Lag(rows, r)
  PROVE  p = q
<1>1. p \in rows /\ q \in rows /\ p.dev = r.dev /\ q.dev = r.dev
  BY DEF Lag
<1>2. ~Before(p, q) /\ ~Before(q, p)
  BY DEF Lag
<1>3. p.ts \in Nat /\ q.ts \in Nat /\ p.id \in Nat /\ q.id \in Nat
  BY <1>1 DEF RowSet, Row
<1>4. p.id = q.id
  BY <1>2, <1>3 DEF Before
<1> QED BY <1>1, <1>4 DEF RowSet

\* Two intervals of a device do not overlap.
LEMMA IntervalsApart ==
  ASSUME NEW rows, RowSet(rows), NEW x \in Valid(rows), NEW y \in Valid(rows),
         x.row.dev = y.row.dev, x # y
  PROVE  x.row.ts <= y.row.ts - y.dt \/ y.row.ts <= x.row.ts - x.dt
<1>1. PICK p \in rows, r \in rows : IsInterval(rows, x, p, r)
  BY IntervalOf
<1>2. PICK q \in rows, s \in rows : IsInterval(rows, y, q, s)
  BY IntervalOf
<1>3. x.row = r /\ x.row.ts - x.dt = p.ts /\ y.row = s /\ y.row.ts - y.dt = q.ts
  BY <1>1, <1>2, IntervalParts
<1>4. p.dev = r.dev /\ q.dev = s.dev /\ p \in Lag(rows, r) /\ q \in Lag(rows, s)
  BY <1>1, <1>2 DEF IsInterval
<1>5. r # s
  BY <1>1, <1>2, <1>4, LagIsUnique DEF IsInterval
<1>6. r.id \in Nat /\ s.id \in Nat /\ r.ts \in Nat /\ s.ts \in Nat /\ p.ts \in Nat /\ q.ts \in Nat
      /\ p.id \in Nat /\ q.id \in Nat
  BY DEF RowSet, Row
<1>7. r.id # s.id
  BY <1>3, <1>5 DEF RowSet
<1>8. Before(r, s) \/ Before(s, r)
  BY <1>6, <1>7 DEF Before
<1>9. CASE Before(r, s)
  <2>1. ~Before(q, r)
    BY <1>3, <1>4, <1>9 DEF Lag
  <2> QED BY <1>3, <1>6, <2>1 DEF Before
<1>10. CASE Before(s, r)
  <2>1. ~Before(p, s)
    BY <1>3, <1>4, <1>10 DEF Lag
  <2> QED BY <1>3, <1>6, <2>1 DEF Before
<1> QED BY <1>8, <1>9, <1>10

LEMMA ValidFinite == ASSUME NEW rows, RowSet(rows) PROVE IsFiniteSet(Valid(rows))
<1> DEFINE S == rows \X rows
           f == [p \in S |-> Delta(p[1], p[2])]
<1>1. IsFiniteSet(S)
  BY FS_Product DEF RowSet
<1>2. IsFiniteSet({f[p] : p \in S})
  <2> HIDE DEF f, S
  <2> QED BY <1>1, ImageFinite
<1>3. ASSUME NEW x \in Valid(rows) PROVE x \in {f[p] : p \in S}
  <2>1. PICK q \in rows, r \in rows : x = Delta(q, r)
    BY IntervalOf DEF IsInterval
  <2>2. <<q, r>> \in S /\ f[<<q, r>>] = x
    BY <2>1
  <2> HIDE DEF f, S
  <2> QED BY <2>2
<1> HIDE DEF f, S
<1> QED BY <1>2, <1>3, FS_Subset

-----------------------------------------------------------------------------
(* TotalsWithinActivity: the activity of a device up to each second is a       *)
(* rising quantity that grows at least as much as a counter does between two   *)
(* of its rows.                                                                *)

Grows(act) ==
  /\ act \in [Nat -> [Dev -> [Counter -> Nat]]]
  /\ \A i, j \in Nat : i <= j => \A v \in Dev, c \in Counter : act[i][v][c] <= act[j][v][c]
  /\ \A s \in Nat : s >= now => act[s] = done
  /\ \A a, b \in Written : a.dev = b.dev /\ a.ts < b.ts =>
       \A c \in Counter : b.n[c] + act[a.ts][a.dev][c] <= a.n[c] + act[b.ts][a.dev][c]
  /\ \A a \in Written : \A c \in Counter :
       real[TheHost][a.dev][c] + act[a.ts][a.dev][c] <= a.n[c] + done[a.dev][c]

ActivityOK == \E act : Grows(act)

\* How the counters and the histories move in a pass.
LEMMA PassGrows ==
  ASSUME CountersTypes, NEW step \in Nat \ {0}, NEW w \in [Dev -> [Counter -> Nat]],
         NEW reboot \in BOOLEAN, NEW to, PassOf(step, w, reboot, to),
         NEW v \in Dev, NEW c \in Counter
  PROVE  /\ now \in Nat /\ now' = now + step
         /\ real[TheHost][v][c] \in Nat /\ real'[TheHost][v][c] \in Nat
         /\ w[v][c] \in Nat /\ w[v][c] * step \in Nat
         /\ real'[TheHost][v][c] <= real[TheHost][v][c] + w[v][c] * step
         /\ ~reboot => real'[TheHost][v][c] = real[TheHost][v][c] + w[v][c] * step
         /\ done[v][c] \in Nat /\ done'[v][c] = done[v][c] + w[v][c] * step
         /\ peak[v][c] \in Nat /\ peak'[v][c] \in Nat
         /\ peak[v][c] <= peak'[v][c] /\ w[v][c] <= peak'[v][c]
<1>1. /\ now \in Nat /\ real[TheHost][v][c] \in Nat /\ w[v][c] \in Nat
      /\ done[v][c] \in Nat /\ peak[v][c] \in Nat
  BY OneHost DEF CountersTypes
<1>2. /\ now' = now + step
      /\ real'[TheHost][v][c] = IF reboot THEN w[v][c] ELSE real[TheHost][v][c] + w[v][c] * step
      /\ done'[v][c] = done[v][c] + w[v][c] * step
      /\ peak'[v][c] = Max({peak[v][c], w[v][c]})
  BY OneHost DEF PassOf
<1>3. w[v][c] * step \in Nat /\ w[v][c] <= w[v][c] * step
  <2>1. ASSUME NEW k \in Nat PROVE k * step \in Nat /\ k <= k * step
    OBVIOUS
  <2> QED BY <1>1, <2>1
<1>4. /\ peak'[v][c] \in Nat /\ peak[v][c] <= peak'[v][c] /\ w[v][c] <= peak'[v][c]
  BY <1>1, <1>2, MaxOfTwo
<1>5. real'[TheHost][v][c] \in Nat /\ real'[TheHost][v][c] <= real[TheHost][v][c] + w[v][c] * step
  BY <1>1, <1>2, <1>3
<1> QED BY <1>1, <1>2, <1>3, <1>4, <1>5

LEMMA PassActivity ==
  ASSUME RowsOK, ActivityOK, NEW step \in Steps, NEW w \in Work, NEW reboot \in BOOLEAN, NEW to,
         PassOf(step, w, reboot, to), step \in Nat \ {0}, w \in [Dev -> [Counter -> Nat]]
  PROVE  ActivityOK'
<1>1. CountersTypes
  BY DEF RowsOK
<1>2. PICK act : Grows(act)
  BY DEF ActivityOK
<1>0. PICK new : new = [s \in Nat |-> IF s <= now THEN act[s] ELSE done']
  OBVIOUS
<1>3. now \in Nat /\ now' = now + step /\ now < now'
  BY <1>1 DEF CountersTypes, PassOf
<1>4. act[now] = done /\ act \in [Nat -> [Dev -> [Counter -> Nat]]]
  BY <1>2, <1>3 DEF Grows
<1>5. done' \in [Dev -> [Counter -> Nat]] /\ \A v \in Dev, c \in Counter : done[v][c] <= done'[v][c]
  <2>1. \A v \in Dev, c \in Counter : done[v][c] <= done'[v][c]
    BY <1>1, PassGrows
  <2>2. CountersTypes'
    BY PassRowsOK DEF RowsOK
  <2> QED BY <2>1, <2>2 DEF CountersTypes
<1>6. new \in [Nat -> [Dev -> [Counter -> Nat]]]
  BY <1>0, <1>4, <1>5
<1>7. ASSUME NEW i \in Nat, NEW j \in Nat, i <= j, NEW v \in Dev, NEW c \in Counter
      PROVE  new[i][v][c] <= new[j][v][c]
  <2>1. act[i][v][c] \in Nat /\ done[v][c] \in Nat /\ done'[v][c] \in Nat
    BY <1>1, <1>4, <1>5 DEF CountersTypes
  <2>2. CASE j <= now
    <3>1. new[i] = act[i] /\ new[j] = act[j]
      BY <1>0, <1>3, <1>7, <2>2
    <3> QED BY <1>2, <1>7, <3>1 DEF Grows
  <2>3. CASE i <= now /\ ~(j <= now)
    <3>1. act[i][v][c] <= act[now][v][c]
      BY <1>2, <1>3, <2>3 DEF Grows
    <3>2. new[i] = act[i] /\ new[j] = done'
      BY <1>0, <2>3
    <3> QED BY <1>4, <1>5, <2>1, <3>1, <3>2
  <2>4. CASE ~(i <= now) /\ ~(j <= now)
    BY <1>0, <2>1, <2>4
  <2> QED BY <1>3, <1>7, <2>2, <2>3, <2>4
<1>8. \A s \in Nat : s >= now' => new[s] = done'
  BY <1>0, <1>3
<1>9. \A x \in Written' : \/ x \in Written /\ x.dev \in Dev /\ x.ts \in Nat /\ x.ts <= now
                                           /\ x.n \in [Counter -> Nat]
                          \/ x.dev \in Dev /\ x.ts = now' /\ x.n = real'[TheHost][x.dev]
  BY <1>1, PassWrites, WrittenTypes DEF RowsOK, SamplesOK
<1>10. \A a \in Written : new[a.ts] = act[a.ts]
  BY <1>0, <1>1, WrittenTypes DEF RowsOK, SamplesOK
<1>11. new[now'] = done'
  BY <1>0, <1>3
<1>12. ASSUME NEW a \in Written, NEW c \in Counter
       PROVE  real'[TheHost][a.dev][c] + new[a.ts][a.dev][c] <= a.n[c] + done'[a.dev][c]
  <2>1. a.dev \in Dev /\ a.ts \in Nat /\ a.n[c] \in Nat
    BY <1>1, WrittenTypes
  <2>2. real[TheHost][a.dev][c] + act[a.ts][a.dev][c] <= a.n[c] + done[a.dev][c]
    BY <1>2 DEF Grows
  <2>3. act[a.ts][a.dev][c] \in Nat
    BY <1>4, <2>1
  <2>4. /\ real[TheHost][a.dev][c] \in Nat /\ real'[TheHost][a.dev][c] \in Nat
        /\ w[a.dev][c] * step \in Nat
        /\ real'[TheHost][a.dev][c] <= real[TheHost][a.dev][c] + w[a.dev][c] * step
        /\ done[a.dev][c] \in Nat /\ done'[a.dev][c] = done[a.dev][c] + w[a.dev][c] * step
    BY <1>1, <2>1, PassGrows
  <2> QED BY <1>10, <2>1, <2>2, <2>3, <2>4
<1>13. ASSUME NEW a \in Written', NEW b \in Written', a.dev = b.dev, a.ts < b.ts, NEW c \in Counter
       PROVE  b.n[c] + new[a.ts][a.dev][c] <= a.n[c] + new[b.ts][a.dev][c]
  <2>1. CASE b \in Written /\ b.ts <= now
    <3>1. a \in Written
      BY <1>3, <1>9, <1>13, <2>1
    <3> QED BY <1>2, <1>10, <1>13, <2>1, <3>1 DEF Grows
  <2>2. CASE b.ts = now' /\ b.n = real'[TheHost][b.dev]
    <3>1. a \in Written
      BY <1>3, <1>9, <1>13, <2>2
    <3> QED BY <1>11, <1>12, <1>13, <2>2, <3>1
  <2> QED BY <1>9, <2>1, <2>2
<1>14. ASSUME NEW a \in Written', NEW c \in Counter
       PROVE  real'[TheHost][a.dev][c] + new[a.ts][a.dev][c] <= a.n[c] + done'[a.dev][c]
  <2>1. CASE a.dev \in Dev /\ a.ts = now' /\ a.n = real'[TheHost][a.dev]
    <3>1. real'[TheHost][a.dev][c] \in Nat /\ done'[a.dev][c] \in Nat
      <4>1. real'[TheHost][a.dev][c] \in Nat
        BY <1>1, <2>1, PassGrows
      <4> QED BY <1>5, <2>1, <4>1
    <3> QED BY <1>11, <2>1, <3>1
  <2> QED BY <1>9, <1>12, <2>1
<1>15. \A i, j \in Nat : i <= j => \A v \in Dev, c \in Counter : new[i][v][c] <= new[j][v][c]
  BY <1>7
<1>16. Grows(new)'
  BY <1>6, <1>8, <1>13, <1>14, <1>15 DEF Grows
<1> QED BY <1>16 DEF ActivityOK

LEMMA ReplayActivity ==
  ASSUME RowsOK, ActivityOK, Replay
  PROVE  ActivityOK'
<1>1. CountersTypes
  BY DEF RowsOK
<1>2. PICK act : Grows(act)
  BY DEF ActivityOK
<1>3. \A x \in Written' : \E y \in Written : x.dev = y.dev /\ x.ts = y.ts /\ x.n = y.n
  BY <1>1, ReplayWrites
<1>4. UNCHANGED <<now, real, done>>
  BY DEF Replay
<1>5. ASSUME NEW a \in Written', NEW b \in Written', a.dev = b.dev, a.ts < b.ts, NEW c \in Counter
      PROVE  b.n[c] + act[a.ts][a.dev][c] <= a.n[c] + act[b.ts][a.dev][c]
  <2>1. PICK x \in Written : a.dev = x.dev /\ a.ts = x.ts /\ a.n = x.n
    BY <1>3
  <2>2. PICK y \in Written : b.dev = y.dev /\ b.ts = y.ts /\ b.n = y.n
    BY <1>3
  <2> QED BY <1>2, <1>5, <2>1, <2>2 DEF Grows
<1>6. ASSUME NEW a \in Written', NEW c \in Counter
      PROVE  real[TheHost][a.dev][c] + act[a.ts][a.dev][c] <= a.n[c] + done[a.dev][c]
  <2>1. PICK x \in Written : a.dev = x.dev /\ a.ts = x.ts /\ a.n = x.n
    BY <1>3
  <2> QED BY <1>2, <2>1 DEF Grows
<1>7. Grows(act)'
  BY <1>2, <1>4, <1>5, <1>6 DEF Grows
<1> QED BY <1>7 DEF ActivityOK

\* An answer of QDeltas, of bucket b and device v.
Of(b, v) == {x \in Valid(Recent(table)) : x.row.dev = v /\ Bucket(x.row.ts) = b}
UpTo(b, v) == {x \in Valid(Recent(table)) : x.row.dev = v /\ Bucket(x.row.ts) <= b}

LEMMA AnswerOf ==
  ASSUME RowsOK, NEW a \in QDeltas(table)
  PROVE  \E b, v : /\ v \in Dev /\ a.dev = v
                   /\ a.cumulative = Total(UpTo(b, v), "bytes")
                   /\ a.delta = Total(Of(b, v), "bytes") /\ a.seconds = Seconds(Of(b, v))
<1> DEFINE answer(b, v) ==
             [bucket |-> b, dev |-> v, samples |-> Cardinality(Of(b, v)),
              delta |-> Total(Of(b, v), "bytes"), cumulative |-> Total(UpTo(b, v), "bytes"),
              seconds |-> Seconds(Of(b, v)),
              rate |-> Ratio(Total(Of(b, v), "bytes"), Seconds(Of(b, v))),
              latency |-> Ratio(Total(Of(b, v), "ms"), Total(Of(b, v), "ops"))]
<1>0. QDeltas(table) = {answer(Bucket(x.row.ts), x.row.dev) : x \in Valid(Recent(table))}
  BY DEF QDeltas, Of, UpTo
<1>1. PICK x \in Valid(Recent(table)) : a = answer(Bucket(x.row.ts), x.row.dev)
  BY <1>0
<1>2. x.row.dev \in Dev
  <2>1. PICK q \in Recent(table), r \in Recent(table) : IsInterval(Recent(table), x, q, r)
    BY RecentRowSet, IntervalOf
  <2> QED BY <2>1, IntervalParts DEF IsInterval
<1> QED BY <1>1, <1>2

LEMMA TotalsFromActivity == RowsOK /\ ActivityOK => TotalsWithinActivity
<1> SUFFICES ASSUME RowsOK, ActivityOK, NEW a \in QDeltas(table)
             PROVE  a.cumulative <= done[a.dev]["bytes"]
  BY DEF TotalsWithinActivity
<1>1. PICK b, v : v \in Dev /\ a.dev = v /\ a.cumulative = Total(UpTo(b, v), "bytes")
  BY AnswerOf
<1>2. PICK act : Grows(act)
  BY DEF ActivityOK
<1> DEFINE c == "bytes"
           rows == Recent(table)
           X == UpTo(b, v)
           f == [x \in X |-> x.d[c]]
           lo == [x \in X |-> x.row.ts - x.dt]
           hi == [x \in X |-> x.row.ts]
           of == [s \in Nat |-> act[s][v][c]]
<1>3. c \in Counter
  BY CountersAssumption
<1>4. RowSet(rows) /\ rows \subseteq Written /\ now \in Nat /\ \A r \in rows : r.ts <= now
  BY RecentRowSet DEF RowsOK, CountersTypes, SamplesOK, Written, Recent
<1>5. X \subseteq Valid(rows) /\ IsFiniteSet(X) /\ \A x \in X : x.row.dev = v
  <2>1. X \subseteq Valid(rows) /\ \A x \in X : x.row.dev = v
    BY DEF UpTo
  <2> QED BY <2>1, <1>4, ValidFinite, FS_Subset
<1> HIDE DEF c, rows, X
<1>6. ASSUME NEW x \in X
      PROVE  /\ f[x] \in Nat /\ lo[x] \in Nat /\ hi[x] \in Nat /\ lo[x] < hi[x] /\ hi[x] <= now
             /\ f[x] + of[lo[x]] <= of[hi[x]]
  <2>1. PICK q \in rows, r \in rows : IsInterval(rows, x, q, r)
    BY <1>4, <1>5, IntervalOf
  <2>2. /\ x.row = r /\ x.row.ts - x.dt = q.ts
        /\ x.d[c] \in Nat /\ q.n[c] + x.d[c] = r.n[c]
    BY <1>3, <2>1, IntervalParts
  <2>3. q.dev = v /\ r.dev = v /\ q.ts \in Nat /\ r.ts \in Nat /\ q.ts < r.ts /\ q.n[c] \in Nat /\ r.n[c] \in Nat
    BY <1>3, <1>5, <2>1, <2>2 DEF IsInterval
  <2>4. r.n[c] + act[q.ts][v][c] <= q.n[c] + act[r.ts][v][c]
    BY <1>2, <1>3, <1>4, <2>3 DEF Grows
  <2>5. act[q.ts][v][c] \in Nat /\ act[r.ts][v][c] \in Nat
    BY <1>1, <1>2, <1>3, <2>3 DEF Grows
  <2>6. x.d[c] + act[q.ts][v][c] <= act[r.ts][v][c]
    BY <2>2, <2>3, <2>4, <2>5
  <2>7. f[x] = x.d[c] /\ lo[x] = q.ts /\ hi[x] = r.ts
    BY <2>2
  <2>8. of[q.ts] = act[q.ts][v][c] /\ of[r.ts] = act[r.ts][v][c]
    BY <2>3
  <2> HIDE DEF f, lo, hi, of
  <2> QED BY <1>4, <2>2, <2>3, <2>6, <2>7, <2>8
<1>7. ASSUME NEW x \in X, NEW y \in X, x # y PROVE hi[x] <= lo[y] \/ hi[y] <= lo[x]
  BY <1>4, <1>5, <1>7, IntervalsApart
<1>8. of \in [Nat -> Nat] /\ \A i, j \in Nat : i <= j => of[i] <= of[j]
  <2>1. \A i \in Nat : act[i][v][c] \in Nat
    BY <1>1, <1>2, <1>3 DEF Grows
  <2>2. \A i, j \in Nat : i <= j => act[i][v][c] <= act[j][v][c]
    BY <1>1, <1>2, <1>3 DEF Grows
  <2> QED BY <2>1, <2>2
<1>9. of[now] = done[v][c]
  BY <1>2, <1>4 DEF Grows
<1>10. a.cumulative = SumFunctionOnSet(f, X)
  BY <1>1 DEF Total, SumFunction, X, c
<1> HIDE DEF f, lo, hi, of
<1>11. SumFunctionOnSet(f, X) <= of[now]
  BY <1>4, <1>5, <1>6, <1>7, <1>8, SumOfIntervals
<1> QED BY <1>1, <1>9, <1>10, <1>11 DEF c

-----------------------------------------------------------------------------
(* RatesWithinPeak: between two rows of a device a counter grows by at most    *)
(* the peak for each second.                                                   *)

PeakOK ==
  /\ \A a, b \in Written : a.dev = b.dev /\ a.ts < b.ts =>
       \A c \in Counter : b.n[c] <= a.n[c] + peak[a.dev][c] * (b.ts - a.ts)
  /\ \A a \in Written : \A c \in Counter :
       real[TheHost][a.dev][c] <= a.n[c] + peak[a.dev][c] * (now - a.ts)

\* Products of numbers.
LEMMA TimesMonotone ==
  ASSUME NEW p \in Nat, NEW q \in Nat, NEW k \in Nat, p <= q
  PROVE  p * k \in Nat /\ q * k \in Nat /\ p * k <= q * k
OBVIOUS

LEMMA TimesAdds ==
  ASSUME NEW p \in Nat, NEW k \in Nat, NEW j \in Nat
  PROVE  p * (k + j) = p * k + p * j
OBVIOUS

LEMMA PassPeak ==
  ASSUME RowsOK, PeakOK, NEW step \in Steps, NEW w \in Work, NEW reboot \in BOOLEAN, NEW to,
         PassOf(step, w, reboot, to), step \in Nat \ {0}, w \in [Dev -> [Counter -> Nat]]
  PROVE  PeakOK'
<1>1. CountersTypes
  BY DEF RowsOK
<1>2. now \in Nat /\ now' = now + step /\ now < now'
  BY <1>1 DEF CountersTypes, PassOf
<1>3. \A x \in Written' : \/ x \in Written /\ x.dev \in Dev /\ x.ts \in Nat /\ x.ts <= now
                                           /\ x.n \in [Counter -> Nat]
                          \/ x.dev \in Dev /\ x.ts = now' /\ x.n = real'[TheHost][x.dev]
  BY <1>1, PassWrites, WrittenTypes DEF RowsOK, SamplesOK
<1>4. ASSUME NEW a \in Written, NEW c \in Counter
      PROVE  real'[TheHost][a.dev][c] <= a.n[c] + peak'[a.dev][c] * (now' - a.ts)
  <2>1. a.dev \in Dev /\ a.ts \in Nat /\ a.ts <= now /\ a.n[c] \in Nat
    BY <1>1, WrittenTypes DEF RowsOK, SamplesOK
  <2> DEFINE p == peak[a.dev][c]
             q == peak'[a.dev][c]
             k == now - a.ts
             u == w[a.dev][c]
             m == real[TheHost][a.dev][c]
             n == real'[TheHost][a.dev][c]
  <2>2. /\ m \in Nat /\ n \in Nat /\ n <= m + u * step
        /\ u \in Nat /\ p \in Nat /\ q \in Nat /\ p <= q /\ u <= q
    BY <1>1, <2>1, PassGrows
  <2>3. m <= a.n[c] + p * k
    BY DEF PeakOK
  <2>4. k \in Nat /\ now' - a.ts = k + step
    BY <1>2, <2>1
  <2> HIDE DEF p, q, k, u, m, n
  <2>5. p * k \in Nat /\ q * k \in Nat /\ p * k <= q * k
    BY <2>2, <2>4, TimesMonotone
  <2>6. u * step \in Nat /\ q * step \in Nat /\ u * step <= q * step
    BY <2>2, TimesMonotone
  <2>7. q * (k + step) = q * k + q * step
    BY <2>2, <2>4, TimesAdds
  <2>8. n <= a.n[c] + q * (now' - a.ts)
    BY <2>1, <2>2, <2>3, <2>4, <2>5, <2>6, <2>7
  <2> QED BY <2>8 DEF n, q
<1>5. ASSUME NEW a \in Written', NEW b \in Written', a.dev = b.dev, a.ts < b.ts, NEW c \in Counter
      PROVE  b.n[c] <= a.n[c] + peak'[a.dev][c] * (b.ts - a.ts)
  <2>1. a \in Written /\ a.dev \in Dev /\ a.ts \in Nat /\ a.ts <= now /\ a.n[c] \in Nat
    <3>1. \A x \in Written' : x.ts <= now'
      BY PassRowsOK DEF RowsOK, SamplesOK
    <3>2. b.ts \in Nat /\ b.ts <= now'
      BY <1>2, <1>3, <3>1
    <3> QED BY <1>2, <1>3, <1>5, <3>2
  <2>2. CASE b \in Written
    <3> DEFINE p == peak[a.dev][c]
               q == peak'[a.dev][c]
               k == b.ts - a.ts
    <3>1. b.ts \in Nat /\ b.n[c] \in Nat /\ k \in Nat
      BY <1>1, <1>5, <2>1, <2>2, WrittenTypes
    <3>2. p \in Nat /\ q \in Nat /\ p <= q
      BY <1>1, <2>1, PassGrows
    <3>3. b.n[c] <= a.n[c] + p * k
      BY <1>5, <2>1, <2>2 DEF PeakOK
    <3> HIDE DEF p, q, k
    <3>4. p * k \in Nat /\ q * k \in Nat /\ p * k <= q * k
      BY <3>1, <3>2, TimesMonotone
    <3>5. b.n[c] <= a.n[c] + q * k
      BY <2>1, <3>1, <3>3, <3>4
    <3> QED BY <3>5 DEF q, k
  <2>3. CASE b.ts = now' /\ b.n = real'[TheHost][b.dev]
    BY <1>4, <1>5, <2>1, <2>3
  <2> QED BY <1>3, <2>2, <2>3
<1>6. ASSUME NEW a \in Written', NEW c \in Counter
      PROVE  real'[TheHost][a.dev][c] <= a.n[c] + peak'[a.dev][c] * (now' - a.ts)
  <2>1. CASE a.dev \in Dev /\ a.ts = now' /\ a.n = real'[TheHost][a.dev]
    <3>1. real'[TheHost][a.dev][c] \in Nat /\ peak'[a.dev][c] \in Nat
      BY <1>1, <2>1, PassGrows
    <3>2. now' - a.ts = 0
      BY <1>2, <2>1
    <3>3. peak'[a.dev][c] * (now' - a.ts) = 0
      BY <3>1, <3>2
    <3> QED BY <2>1, <3>1, <3>3
  <2> QED BY <1>3, <1>4, <2>1
<1> QED BY <1>5, <1>6 DEF PeakOK

LEMMA ReplayPeak ==
  ASSUME RowsOK, PeakOK, Replay
  PROVE  PeakOK'
<1>1. CountersTypes
  BY DEF RowsOK
<1>2. \A x \in Written' : \E y \in Written : x.dev = y.dev /\ x.ts = y.ts /\ x.n = y.n
  BY <1>1, ReplayWrites
<1>3. UNCHANGED <<now, real, peak>>
  BY DEF Replay
<1>4. ASSUME NEW a \in Written', NEW b \in Written', a.dev = b.dev, a.ts < b.ts, NEW c \in Counter
      PROVE  b.n[c] <= a.n[c] + peak[a.dev][c] * (b.ts - a.ts)
  <2>1. PICK x \in Written : a.dev = x.dev /\ a.ts = x.ts /\ a.n = x.n
    BY <1>2
  <2>2. PICK y \in Written : b.dev = y.dev /\ b.ts = y.ts /\ b.n = y.n
    BY <1>2
  <2> QED BY <1>4, <2>1, <2>2 DEF PeakOK
<1>5. ASSUME NEW a \in Written', NEW c \in Counter
      PROVE  real[TheHost][a.dev][c] <= a.n[c] + peak[a.dev][c] * (now - a.ts)
  <2>1. PICK x \in Written : a.dev = x.dev /\ a.ts = x.ts /\ a.n = x.n
    BY <1>2
  <2> QED BY <2>1 DEF PeakOK
<1> QED BY <1>3, <1>4, <1>5 DEF PeakOK

LEMMA RatesFromPeak == RowsOK /\ PeakOK => RatesWithinPeak
<1> SUFFICES ASSUME RowsOK, PeakOK, NEW a \in QDeltas(table)
             PROVE  a.delta <= peak[a.dev]["bytes"] * a.seconds
  BY DEF RatesWithinPeak
<1>1. PICK b, v : v \in Dev /\ a.dev = v /\ a.delta = Total(Of(b, v), "bytes") /\ a.seconds = Seconds(Of(b, v))
  BY AnswerOf
<1> DEFINE c == "bytes"
           p == peak[v][c]
           rows == Recent(table)
           X == Of(b, v)
           f == [x \in X |-> x.d[c]]
           time == [x \in X |-> x.dt]
           g == [x \in X |-> p * x.dt]
<1>2. c \in Counter
  BY CountersAssumption
<1>3. p \in Nat
  BY <1>1, <1>2 DEF RowsOK, CountersTypes
<1>4. RowSet(rows) /\ rows \subseteq Written
  BY RecentRowSet DEF Written, Recent
<1>5. X \subseteq Valid(rows) /\ IsFiniteSet(X) /\ \A x \in X : x.row.dev = v
  <2>1. X \subseteq Valid(rows) /\ \A x \in X : x.row.dev = v
    BY DEF Of
  <2> QED BY <2>1, <1>4, ValidFinite, FS_Subset
<1>6. a.delta = SumFunctionOnSet(f, X) /\ a.seconds = SumFunctionOnSet(time, X)
  BY <1>1 DEF Total, Seconds, SumFunction
<1> HIDE DEF c, rows, X
<1>7. ASSUME NEW x \in X
      PROVE  /\ x.d[c] \in Nat /\ x.dt \in Nat /\ p * x.dt \in Nat
             /\ x.d[c] <= p * x.dt
  <2>1. PICK q \in rows, r \in rows : IsInterval(rows, x, q, r)
    BY <1>4, <1>5, IntervalOf
  <2>2. /\ x.row = r /\ x.dt = r.ts - q.ts /\ x.dt \in Nat
        /\ x.d[c] \in Nat /\ q.n[c] + x.d[c] = r.n[c]
    BY <1>2, <2>1, IntervalParts
  <2>3. q.dev = v /\ r.dev = v /\ q.ts < r.ts /\ q.n[c] \in Nat /\ r.n[c] \in Nat
    BY <1>2, <1>5, <2>1, <2>2 DEF IsInterval
  <2>4. r.n[c] <= q.n[c] + p * (r.ts - q.ts)
    BY <1>2, <1>4, <2>3 DEF PeakOK
  <2> HIDE DEF p
  <2>5. p * x.dt \in Nat
    BY <1>3, <2>2, TimesMonotone
  <2> QED BY <2>2, <2>3, <2>4, <2>5
<1> HIDE DEF p
<1>8. \A x \in X : time[x] \in Nat /\ g[x] = p * time[x] /\ f[x] \in Nat /\ g[x] \in Nat /\ f[x] <= g[x]
  BY <1>7
<1> HIDE DEF f, g, time
<1>9. SumFunctionOnSet(f, X) <= SumFunctionOnSet(g, X)
  BY <1>5, <1>8, SumMonotone
<1>10. SumFunctionOnSet(g, X) = p * SumFunctionOnSet(time, X)
  BY <1>3, <1>5, <1>8, SumOfMultiples
<1> QED BY <1>1, <1>6, <1>9, <1>10 DEF p, c

-----------------------------------------------------------------------------
(* DuplicatesInvisible: an interval begins with any row of an instant, all of  *)
(* which agree, and ends with the first row of a later one.                    *)

FirstOf(rows) == {r \in rows : \A q \in rows : q.dev = r.dev /\ q.ts = r.ts => r.id <= q.id}
Agree(rows) == \A q, r \in rows : q.dev = r.dev /\ q.ts = r.ts => q.n = r.n

LEMMA LastExists ==
  ASSUME NEW rows, RowSet(rows), NEW q \in rows
  PROVE  \E p \in rows : /\ p.dev = q.dev /\ p.ts = q.ts
                         /\ \A r \in rows : r.dev = q.dev /\ r.ts = q.ts => r.id <= p.id
<1> DEFINE S == {p \in rows : p.dev = q.dev /\ p.ts = q.ts}
           f == [p \in S |-> p.id]
<1>1. IsFiniteSet(S) /\ S # {} /\ \A p \in S : f[p] \in Nat
  BY FS_Subset DEF RowSet, Row
<1>2. PICK p \in S : \A r \in S : f[r] <= f[p]
  <2> HIDE DEF f, S
  <2> QED BY <1>1, GreatestExists
<1> QED BY <1>2

LEMMA FirstExists ==
  ASSUME NEW rows, RowSet(rows), NEW q \in rows
  PROVE  \E p \in FirstOf(rows) : p.dev = q.dev /\ p.ts = q.ts
<1>1. PICK k \in rows : \A r \in rows : r.id <= k.id
  <2> DEFINE f == [p \in rows |-> p.id]
  <2>1. IsFiniteSet(rows) /\ rows # {} /\ \A p \in rows : f[p] \in Nat
    BY DEF RowSet, Row
  <2>2. \E p \in rows : \A r \in rows : f[r] <= f[p]
    <3> HIDE DEF f
    <3> QED BY <2>1, GreatestExists
  <2> QED BY <2>2
<1> DEFINE S == {p \in rows : p.dev = q.dev /\ p.ts = q.ts}
           f == [p \in S |-> k.id - p.id]
<1>2. \A p \in rows : p.id \in Nat
  BY DEF RowSet, Row
<1>3. IsFiniteSet(S) /\ S # {} /\ \A p \in S : f[p] \in Nat
  BY <1>1, <1>2, FS_Subset DEF RowSet
<1>4. PICK p \in S : \A r \in S : f[r] <= f[p]
  <2> HIDE DEF f, S
  <2> QED BY <1>3, GreatestExists
<1>5. \A r \in S : p.id <= r.id
  BY <1>2, <1>4
<1> QED BY <1>5 DEF FirstOf

LEMMA FirstIsEnough ==
  ASSUME NEW rows, RowSet(rows), Agree(rows)
  PROVE  Valid(rows) = Valid(FirstOf(rows))
<1> DEFINE first == FirstOf(rows)
<1>1. RowSet(first) /\ first \subseteq rows
  <2>1. first \subseteq rows
    BY DEF FirstOf
  <2>2. IsFiniteSet(first)
    BY <2>1, FS_Subset DEF RowSet
  <2> QED BY <2>1, <2>2 DEF RowSet
<1> HIDE DEF first
<1>2. \A p \in rows : p.ts \in Nat /\ p.id \in Nat
  BY DEF RowSet, Row
<1>3. ASSUME NEW x \in Valid(rows) PROVE x \in Valid(first)
  <2>1. PICK q \in rows, r \in rows : IsInterval(rows, x, q, r)
    BY IntervalOf
  <2>2. q \in Lag(rows, r) /\ q.dev = r.dev /\ q.ts < r.ts
    BY <2>1 DEF IsInterval
  <2>3. r \in first
    <3>1. SUFFICES ASSUME NEW p \in rows, p.dev = r.dev, p.ts = r.ts, p.id < r.id PROVE FALSE
      BY <1>2 DEF FirstOf, first
    <3> QED BY <2>2, <3>1 DEF Lag, Before
  <2>4. PICK p \in first : p.dev = q.dev /\ p.ts = q.ts
    BY FirstExists DEF first
  <2>5. p \in rows /\ p.n = q.n
    BY <1>1, <2>4 DEF Agree
  <2>6. p \in Lag(first, r)
    <3>1. p.dev = r.dev /\ Before(p, r)
      BY <2>2, <2>4 DEF Before
    <3>2. ASSUME NEW o \in first, o.dev = r.dev, Before(o, r), Before(p, o) PROVE FALSE
      <4>1. o \in rows /\ ~Before(q, o)
        BY <1>1, <2>2, <3>2 DEF Lag
      <4>2. o.ts = p.ts /\ p.id < o.id
        BY <2>4, <3>2, <4>1 DEF Before
      <4>3. o.id <= p.id
        BY <2>5, <3>1, <3>2, <4>2 DEF first, FirstOf
      <4> QED BY <1>2, <2>5, <4>1, <4>2, <4>3
    <3> QED BY <3>1, <3>2 DEF Lag
  <2>7. Delta(p, r) = Delta(q, r)
    BY <2>4, <2>5 DEF Delta
  <2>8. IsInterval(first, x, p, r)
    BY <2>1, <2>4, <2>5, <2>6, <2>7 DEF IsInterval
  <2> QED BY <2>3, <2>8, IntervalIsValid
<1>4. ASSUME NEW x \in Valid(first) PROVE x \in Valid(rows)
  <2>1. PICK q \in first, r \in first : IsInterval(first, x, q, r)
    BY <1>1, IntervalOf
  <2>2. q \in Lag(first, r) /\ q.dev = r.dev /\ q.ts < r.ts /\ q \in rows /\ r \in rows
    BY <1>1, <2>1 DEF IsInterval
  <2>3. PICK p \in rows : /\ p.dev = q.dev /\ p.ts = q.ts
                          /\ \A o \in rows : o.dev = q.dev /\ o.ts = q.ts => o.id <= p.id
    BY <2>2, LastExists
  <2>4. p.n = q.n
    BY <2>2, <2>3 DEF Agree
  <2>5. p \in Lag(rows, r)
    <3>1. p.dev = r.dev /\ Before(p, r)
      BY <2>2, <2>3 DEF Before
    <3>2. ASSUME NEW o \in rows, o.dev = r.dev, Before(o, r), Before(p, o) PROVE FALSE
      <4>1. p.ts < o.ts
        BY <1>2, <2>2, <2>3, <3>2 DEF Before
      <4>2. PICK z \in first : z.dev = o.dev /\ z.ts = o.ts
        BY FirstExists DEF first
      <4>3. ~Before(z, r)
        BY <2>2, <2>3, <3>2, <4>1, <4>2 DEF Lag, Before
      <4>4. o.ts = r.ts /\ o.id < r.id
        BY <1>2, <3>2, <4>2, <4>3 DEF Before
      <4>5. r.id <= o.id
        BY <3>2, <4>4 DEF first, FirstOf
      <4> QED BY <1>2, <2>2, <4>4, <4>5
    <3> QED BY <3>1, <3>2 DEF Lag
  <2>6. Delta(p, r) = Delta(q, r)
    BY <2>3, <2>4 DEF Delta
  <2>7. IsInterval(rows, x, p, r)
    BY <2>1, <2>3, <2>4, <2>5, <2>6 DEF IsInterval
  <2> QED BY <2>2, <2>7, IntervalIsValid
<1> QED BY <1>3, <1>4 DEF first

LEMMA RowsAgree == RowsOK => DuplicatesInvisible
<1> SUFFICES ASSUME RowsOK PROVE DuplicatesInvisible
  OBVIOUS
<1> DEFINE once == {r \in table : \A q \in table :
                      q.host = r.host /\ q.dev = r.dev /\ q.ts = r.ts => r.id <= q.id}
           rows == Recent(table)
<1>1. RowSet(rows) /\ Agree(rows)
  BY RecentRowSet DEF RowsOK, SamplesOK, Written, Recent, Agree
<1>2. \A r \in table : r.host = TheHost
  BY OneHost DEF RowsOK, CountersTypes, Row
<1>3. Recent(once) = FirstOf(rows)
  BY <1>2 DEF Recent, FirstOf
<1>4. Valid(Recent(once)) = Valid(rows)
  BY <1>1, <1>3, FirstIsEnough
<1> DEFINE of(V, b, v) == {x \in V : x.row.dev = v /\ Bucket(x.row.ts) = b}
           upTo(V, b, v) == {x \in V : x.row.dev = v /\ Bucket(x.row.ts) <= b}
           answer(V, b, v) ==
             [bucket |-> b, dev |-> v, samples |-> Cardinality(of(V, b, v)),
              delta |-> Total(of(V, b, v), "bytes"), cumulative |-> Total(upTo(V, b, v), "bytes"),
              seconds |-> Seconds(of(V, b, v)),
              rate |-> Ratio(Total(of(V, b, v), "bytes"), Seconds(of(V, b, v))),
              latency |-> Ratio(Total(of(V, b, v), "ms"), Total(of(V, b, v), "ops"))]
           answers(V) == {answer(V, Bucket(x.row.ts), x.row.dev) : x \in V}
<1> HIDE DEF once
<1>5. QDeltas(table) = answers(Valid(Recent(table)))
  BY DEF QDeltas
<1>6. QDeltas(once) = answers(Valid(Recent(once)))
  BY DEF QDeltas
<1>7. answers(Valid(Recent(once))) = answers(Valid(Recent(table)))
  <2> HIDE DEF answers
  <2> QED BY <1>4
<1> HIDE DEF answers
<1>8. QDeltas(table) = QDeltas(once)
  BY <1>5, <1>6, <1>7
<1> QED BY <1>8 DEF DuplicatesInvisible, once

-----------------------------------------------------------------------------
(* ReplayNeverLowersTotals: a row that arrives divides at most one interval of *)
(* its device, and while counters only rise both parts are valid.              *)

RisingOK ==
  ~rebooted =>
    /\ \A a, b \in Written : a.dev = b.dev /\ a.ts < b.ts =>
         \A c \in Counter : a.n[c] <= b.n[c]
    /\ \A a \in Written : \A c \in Counter : a.n[c] <= real[TheHost][a.dev][c]

LEMMA PassRising ==
  ASSUME RowsOK, RisingOK, NEW step \in Steps, NEW w \in Work, NEW reboot \in BOOLEAN, NEW to,
         PassOf(step, w, reboot, to), step \in Nat \ {0}, w \in [Dev -> [Counter -> Nat]]
  PROVE  RisingOK'
<1> SUFFICES ASSUME ~rebooted'
             PROVE  /\ \A a, b \in Written' : a.dev = b.dev /\ a.ts < b.ts =>
                         \A c \in Counter : a.n[c] <= b.n[c]
                    /\ \A a \in Written' : \A c \in Counter : a.n[c] <= real'[TheHost][a.dev][c]
  BY DEF RisingOK
<1>1. CountersTypes /\ ~rebooted /\ ~reboot
  BY DEF RowsOK, PassOf
<1>2. now \in Nat /\ now < now'
  BY <1>1 DEF CountersTypes, PassOf
<1>3. \A x \in Written' : \/ x \in Written /\ x.dev \in Dev /\ x.ts \in Nat /\ x.ts <= now
                                           /\ x.n \in [Counter -> Nat]
                          \/ x.dev \in Dev /\ x.ts = now' /\ x.n = real'[TheHost][x.dev]
  BY <1>1, PassWrites, WrittenTypes DEF RowsOK, SamplesOK
<1>4. ASSUME NEW a \in Written, NEW c \in Counter
      PROVE  a.n[c] <= real'[TheHost][a.dev][c]
  <2>1. a.dev \in Dev /\ a.n[c] \in Nat
    BY <1>1, WrittenTypes
  <2>2. a.n[c] <= real[TheHost][a.dev][c]
    BY <1>1 DEF RisingOK
  <2>3. /\ real[TheHost][a.dev][c] \in Nat /\ w[a.dev][c] * step \in Nat
        /\ real'[TheHost][a.dev][c] = real[TheHost][a.dev][c] + w[a.dev][c] * step
    BY <1>1, <2>1, PassGrows
  <2> QED BY <2>1, <2>2, <2>3
<1>5. ASSUME NEW a \in Written', NEW b \in Written', a.dev = b.dev, a.ts < b.ts, NEW c \in Counter
      PROVE  a.n[c] <= b.n[c]
  <2>1. a \in Written
    <3>1. \A x \in Written' : x.ts \in Nat /\ x.ts <= now'
      <4>1. \A x \in Written' : x.ts <= now'
        BY PassRowsOK DEF RowsOK, SamplesOK
      <4>2. now' \in Nat
        BY PassRowsOK DEF RowsOK, CountersTypes
      <4> QED BY <1>3, <4>1, <4>2
    <3> QED BY <1>3, <1>5, <3>1
  <2>2. CASE b \in Written
    BY <1>1, <1>5, <2>1, <2>2 DEF RisingOK
  <2>3. CASE b.n = real'[TheHost][b.dev]
    BY <1>4, <1>5, <2>1, <2>3
  <2> QED BY <1>3, <2>2, <2>3
<1>6. ASSUME NEW a \in Written', NEW c \in Counter
      PROVE  a.n[c] <= real'[TheHost][a.dev][c]
  <2>1. CASE a.dev \in Dev /\ a.n = real'[TheHost][a.dev]
    <3>1. real'[TheHost][a.dev][c] \in Nat
      BY <1>1, <2>1, PassGrows
    <3> QED BY <2>1, <3>1
  <2> QED BY <1>3, <1>4, <2>1
<1> QED BY <1>5, <1>6

LEMMA ReplayRising ==
  ASSUME RowsOK, RisingOK, Replay
  PROVE  RisingOK'
<1> SUFFICES ASSUME ~rebooted'
             PROVE  /\ \A a, b \in Written' : a.dev = b.dev /\ a.ts < b.ts =>
                         \A c \in Counter : a.n[c] <= b.n[c]
                    /\ \A a \in Written' : \A c \in Counter : a.n[c] <= real'[TheHost][a.dev][c]
  BY DEF RisingOK
<1>1. CountersTypes
  BY DEF RowsOK
<1>2. \A x \in Written' : \E y \in Written : x.dev = y.dev /\ x.ts = y.ts /\ x.n = y.n
  BY <1>1, ReplayWrites
<1>3. UNCHANGED <<rebooted, real>>
  BY DEF Replay
<1>4. ASSUME NEW a \in Written', NEW b \in Written', a.dev = b.dev, a.ts < b.ts, NEW c \in Counter
      PROVE  a.n[c] <= b.n[c]
  <2>1. PICK x \in Written : a.dev = x.dev /\ a.ts = x.ts /\ a.n = x.n
    BY <1>2
  <2>2. PICK y \in Written : b.dev = y.dev /\ b.ts = y.ts /\ b.n = y.n
    BY <1>2
  <2> QED BY <1>3, <1>4, <2>1, <2>2 DEF RisingOK
<1>5. ASSUME NEW a \in Written', NEW c \in Counter
      PROVE  a.n[c] <= real[TheHost][a.dev][c]
  <2>1. PICK x \in Written : a.dev = x.dev /\ a.ts = x.ts /\ a.n = x.n
    BY <1>2
  <2> QED BY <1>3, <2>1 DEF RisingOK
<1> QED BY <1>3, <1>4, <1>5

Rising(rows) ==
  \A q, r \in rows : q.dev = r.dev /\ q.ts < r.ts => \A c \in Counter : q.n[c] <= r.n[c]

\* The rows of one arrival more.
Joined(rows, more) ==
  /\ RowSet(rows) /\ RowSet(more) /\ rows \subseteq more
  /\ Agree(more) /\ Rising(more)
  /\ \A z \in more \ rows : \A r \in rows : r.id < z.id
  /\ \A y, z \in more \ rows : y.dev = z.dev => y = z

\* An interval stays or is divided.
LEMMA IntervalDivided ==
  ASSUME NEW rows, NEW more, Joined(rows, more), NEW p \in rows, NEW r \in rows, NEW x,
         IsInterval(rows, x, p, r)
  PROVE  \/ x \in Valid(more)
         \/ \E z \in more \ rows : /\ IsInterval(more, Delta(p, z), p, z)
                                   /\ IsInterval(more, Delta(z, r), z, r)
<1>1. p \in Lag(rows, r) /\ p.dev = r.dev /\ p.ts < r.ts /\ x = Delta(p, r) /\ r.dev \in Dev
      /\ r.ts - p.ts <= 3 * Interval
  BY DEF IsInterval
<1>2. \A q \in more : q.ts \in Nat /\ q.id \in Nat /\ q.n \in [Counter -> Nat]
  BY DEF Joined, RowSet, Row
<1>3. p \in more /\ r \in more /\ Before(p, r)
  BY <1>1 DEF Joined, Lag
<1>4. CASE p \in Lag(more, r)
  <2>1. IsInterval(more, x, p, r)
    BY <1>4 DEF IsInterval
  <2> QED BY <1>3, <2>1, IntervalIsValid
<1>5. CASE p \notin Lag(more, r)
  <2>1. PICK z \in more : z.dev = r.dev /\ Before(z, r) /\ Before(p, z)
    BY <1>1, <1>3, <1>5 DEF Lag
  <2>2. z \in more \ rows
    BY <1>1, <2>1 DEF Lag
  <2>3. p.ts <= z.ts /\ z.ts < r.ts
    BY <1>2, <1>3, <2>1, <2>2 DEF Joined, Before
  <2>4. ASSUME NEW o \in more, o.dev = r.dev, Before(o, r) PROVE ~Before(z, o)
    <3>1. CASE o \in rows
      <4>1. ~Before(p, o)
        BY <1>1, <2>4, <3>1 DEF Lag
      <4>2. o.ts <= p.ts /\ o.id < z.id
        BY <1>2, <1>3, <2>2, <3>1, <4>1 DEF Joined, Before
      <4> QED BY <1>2, <1>3, <2>3, <4>2 DEF Before
    <3>2. CASE o \notin rows
      <4>1. o = z
        BY <2>1, <2>2, <2>4, <3>2 DEF Joined
      <4> QED BY <1>2, <4>1 DEF Before
    <3> QED BY <3>1, <3>2
  <2>5. z \in Lag(more, r)
    BY <2>1, <2>4 DEF Lag
  <2>6. CASE z.ts = p.ts
    <3>1. z.n = p.n
      BY <1>1, <1>3, <2>1, <2>6 DEF Joined, Agree
    <3>2. Delta(z, r) = x
      BY <1>1, <2>6, <3>1 DEF Delta
    <3>3. IsInterval(more, x, z, r)
      BY <1>1, <2>1, <2>5, <2>6, <3>1, <3>2 DEF IsInterval
    <3> QED BY <1>3, <3>3, IntervalIsValid
  <2>7. CASE p.ts < z.ts
    <3>1. p \in Lag(more, z)
      <4>1. p.dev = z.dev /\ Before(p, z)
        BY <1>1, <2>1
      <4>2. ASSUME NEW o \in more, o.dev = z.dev, Before(o, z) PROVE ~Before(p, o)
        <5>1. o # z
          BY <1>2, <4>2 DEF Before
        <5>2. o \in rows
          BY <2>2, <4>2, <5>1 DEF Joined
        <5>3. Before(o, r)
          BY <1>2, <1>3, <2>3, <4>2, <5>2 DEF Before
        <5> QED BY <1>1, <2>1, <4>2, <5>2, <5>3 DEF Lag
      <4> QED BY <1>3, <4>1, <4>2 DEF Lag
    <3>2. \A c \in Counter : p.n[c] \in Nat /\ z.n[c] \in Nat /\ r.n[c] \in Nat
      BY <1>2, <1>3
    <3>3. \A c \in Counter : p.n[c] <= z.n[c] /\ z.n[c] <= r.n[c]
      BY <1>1, <1>3, <2>1, <2>3, <2>7 DEF Joined, Rising
    <3>4. z.ts - p.ts <= 3 * Interval /\ r.ts - z.ts <= 3 * Interval
      BY <1>1, <1>2, <1>3, <2>3, <2>7, CountersAssumption
    <3>5. IsInterval(more, Delta(p, z), p, z)
      BY <1>1, <1>2, <1>3, <2>1, <2>7, <3>1, <3>2, <3>3, <3>4 DEF IsInterval
    <3>6. IsInterval(more, Delta(z, r), z, r)
      BY <1>1, <1>2, <1>3, <2>1, <2>3, <2>5, <3>2, <3>3, <3>4 DEF IsInterval
    <3> QED BY <2>2, <3>5, <3>6
  <2> QED BY <1>2, <1>3, <2>3, <2>6, <2>7
<1> QED BY <1>4, <1>5

ShownOf(v, rows) == {x \in Valid(rows) : x.row.dev = v}

LEMMA ShownTypes ==
  ASSUME NEW rows, RowSet(rows), NEW v, NEW c \in Counter
  PROVE  /\ IsFiniteSet(ShownOf(v, rows))
         /\ \A x \in ShownOf(v, rows) : x.d[c] \in Nat
<1>1. IsFiniteSet(ShownOf(v, rows))
  BY ValidFinite, FS_Subset DEF ShownOf
<1>2. ASSUME NEW x \in ShownOf(v, rows) PROVE x.d[c] \in Nat
  <2>1. PICK q \in rows, r \in rows : IsInterval(rows, x, q, r)
    BY IntervalOf DEF ShownOf
  <2> QED BY <2>1, IntervalParts
<1> QED BY <1>1, <1>2

LEMMA TotalRises ==
  ASSUME NEW rows, NEW more, Joined(rows, more), NEW v, NEW c \in Counter
  PROVE  Total(ShownOf(v, rows), c) <= Total(ShownOf(v, more), c)
<1> DEFINE X == ShownOf(v, rows)
           Y == ShownOf(v, more)
           f == [x \in X \cup Y |-> x.d[c]]
           S(T) == SumFunctionOnSet(f, T)
<1>1. RowSet(rows) /\ RowSet(more)
  BY DEF Joined
<1>2. /\ IsFiniteSet(X) /\ IsFiniteSet(Y)
      /\ \A x \in X \cup Y : x.d[c] \in Nat
  BY <1>1, ShownTypes
<1>3. \A x \in X \cup Y : f[x] \in Nat
  BY <1>2
<1>4. Total(X, c) = S(X) /\ Total(Y, c) = S(Y)
  <2>1. /\ Total(X, c) = SumFunctionOnSet([x \in X |-> x.d[c]], X)
        /\ Total(Y, c) = SumFunctionOnSet([x \in Y |-> x.d[c]], Y)
    BY DEF Total, SumFunction
  <2>2. /\ SumFunctionOnSet([x \in X |-> x.d[c]], X) = SumFunctionOnSet(f, X)
        /\ SumFunctionOnSet([x \in Y |-> x.d[c]], Y) = SumFunctionOnSet(f, Y)
    <3> HIDE DEF X, Y
    <3> QED BY <1>2, SumCongruence
  <2> QED BY <2>1, <2>2
<1>5. CASE X \subseteq Y
  <2>1. S(X) <= S(Y)
    <3> HIDE DEF X, Y, f
    <3> QED BY <1>2, <1>3, <1>5, SumOfSubset
  <2> QED BY <1>4, <2>1
<1>6. CASE ~(X \subseteq Y)
  <2>1. PICK x \in X : x \notin Y
    BY <1>6
  <2>2. x \in Valid(rows) /\ x.row.dev = v /\ x \notin Valid(more)
    BY <2>1 DEF ShownOf
  <2>3. PICK p \in rows, r \in rows : IsInterval(rows, x, p, r)
    BY <1>1, <2>2, IntervalOf
  <2>4. PICK z \in more \ rows : /\ IsInterval(more, Delta(p, z), p, z)
                                 /\ IsInterval(more, Delta(z, r), z, r)
    BY <2>2, <2>3, IntervalDivided
  <2> DEFINE a == Delta(p, z)
             b == Delta(z, r)
             R == X \ {x}
  <2>5. /\ x.row = r /\ x.dt = r.ts - p.ts /\ p.n[c] + x.d[c] = r.n[c] /\ x.d[c] \in Nat
        /\ a.row = z /\ p.n[c] + a.d[c] = z.n[c] /\ a.d[c] \in Nat
        /\ b.row = r /\ b.dt = r.ts - z.ts /\ z.n[c] + b.d[c] = r.n[c] /\ b.d[c] \in Nat
    BY <2>3, <2>4, IntervalParts
  <2>6. /\ p.ts \in Nat /\ z.ts \in Nat /\ r.ts \in Nat /\ p.ts < z.ts /\ z.dev = r.dev
        /\ p.n[c] \in Nat /\ z.n[c] \in Nat /\ r.n[c] \in Nat
    BY <2>4 DEF IsInterval
  <2>7. a \in Y /\ b \in Y
    <3>1. r \in more
      BY DEF Joined
    <3>2. a \in Valid(more) /\ b \in Valid(more)
      BY <2>4, <3>1, IntervalIsValid
    <3> QED BY <2>2, <2>5, <2>6, <3>2 DEF ShownOf
  <2>8. f[a] + f[b] = f[x] /\ f[a] \in Nat /\ f[b] \in Nat /\ f[x] \in Nat
    <3>1. f[a] = a.d[c] /\ f[b] = b.d[c] /\ f[x] = x.d[c]
      BY <2>1, <2>7
    <3> HIDE DEF a, b, f
    <3> QED BY <2>5, <2>6, <3>1
  <2> HIDE DEF a, b
  <2>9. a \notin X
    <3>1. SUFFICES ASSUME a \in X PROVE FALSE
      OBVIOUS
    <3>2. PICK q \in rows, s \in rows : IsInterval(rows, a, q, s)
      BY <1>1, <3>1, IntervalOf DEF ShownOf
    <3>3. a.row = s
      BY <3>2, IntervalParts
    <3> QED BY <2>5, <3>3
  <2>10. b # x
    BY <2>5, <2>6
  <2>11. b \notin X
    <3>1. SUFFICES ASSUME b \in X PROVE FALSE
      OBVIOUS
    <3>2. PICK q \in rows, s \in rows : IsInterval(rows, b, q, s)
      BY <1>1, <3>1, IntervalOf DEF ShownOf
    <3>3. b.row = s
      BY <3>2, IntervalParts
    <3>4. s = r
      BY <2>5, <3>3
    <3>5. q = p
      BY <1>1, <2>3, <3>2, <3>4, LagIsUnique DEF IsInterval
    <3>6. b = Delta(p, r) /\ x = Delta(p, r)
      BY <2>3, <3>2, <3>4, <3>5 DEF IsInterval
    <3> QED BY <2>10, <3>6
  <2>12. a # b
    BY <2>5
  <2>13. R \subseteq Y
    <3> SUFFICES ASSUME NEW y \in X, y # x PROVE y \in Valid(more)
      BY DEF ShownOf
    <3>1. PICK q \in rows, s \in rows : IsInterval(rows, y, q, s)
      BY <1>1, IntervalOf DEF ShownOf
    <3>2. CASE y \in Valid(more)
      BY <3>2
    <3>3. ASSUME NEW o \in more \ rows, IsInterval(more, Delta(q, o), q, o),
                 IsInterval(more, Delta(o, s), o, s)
          PROVE  FALSE
      <4>1. y.row = s /\ y.row.ts - y.dt = q.ts /\ x.row.ts - x.dt = p.ts
        BY <2>3, <3>1, IntervalParts
      <4>2. o.dev = s.dev /\ s.dev = v /\ z.dev = v
        BY <2>2, <2>5, <2>6, <3>3, <4>1 DEF IsInterval, ShownOf
      <4>3. o = z
        BY <4>2 DEF Joined
      <4>4. q.ts < z.ts /\ z.ts < s.ts /\ p.ts < z.ts /\ z.ts < r.ts /\ s.ts \in Nat /\ q.ts \in Nat
        BY <2>4, <3>3, <4>3 DEF IsInterval
      <4>5. s.ts <= p.ts \/ r.ts <= q.ts
        <5>1. y.row.ts <= x.row.ts - x.dt \/ x.row.ts <= y.row.ts - y.dt
          BY <1>1, <2>2, IntervalsApart DEF ShownOf
        <5> QED BY <2>5, <4>1, <5>1
      <4> QED BY <2>6, <4>4, <4>5
    <3> QED BY <3>1, <3>2, <3>3, IntervalDivided
  <2> HIDE DEF X, Y, f
  <2>14. IsFiniteSet(R) /\ S(X) = f[x] + S(R) /\ S(R) \in Nat
    <3>1. IsFiniteSet(R) /\ \A y \in X : f[y] \in Nat
      BY <1>2, <1>3, FS_Subset
    <3>2. S(X) = f[x] + S(R)
      BY <1>2, <3>1, SumTakeAny
    <3>3. \A y \in R : f[y] \in Nat
      BY <3>1
    <3>4. S(R) \in Nat
      BY <3>1, <3>3, SumTakeAny
    <3> QED BY <3>1, <3>2, <3>4
  <2> HIDE DEF R
  <2>15. S(R \cup {a}) = f[a] + S(R) /\ IsFiniteSet(R \cup {a})
    <3>1. a \notin R /\ \A y \in R : f[y] \in Nat
      BY <1>3, <2>9 DEF R
    <3>2. IsFiniteSet(R \cup {a})
      BY <2>14, FS_AddElement
    <3> QED BY <2>8, <2>14, <3>1, <3>2, SumAdd
  <2>16. S((R \cup {a}) \cup {b}) = f[b] + S(R \cup {a})
    <3>1. b \notin R \cup {a} /\ \A y \in R \cup {a} : f[y] \in Nat
      BY <1>3, <2>8, <2>11, <2>12 DEF R
    <3> QED BY <2>8, <2>15, <3>1, SumAdd
  <2>17. S((R \cup {a}) \cup {b}) <= S(Y)
    <3>1. (R \cup {a}) \cup {b} \in SUBSET Y
      BY <2>7, <2>13
    <3>2. \A y \in Y : f[y] \in Nat
      BY <1>3
    <3> QED BY <1>2, <3>1, <3>2, SumOfSubset
  <2> HIDE DEF S
  <2>18. S(X) <= S(Y)
    <3>1. S((R \cup {a}) \cup {b}) = S(X)
      BY <2>8, <2>14, <2>15, <2>16
    <3> QED BY <2>17, <3>1
  <2> QED BY <1>4, <2>18 DEF X, Y
<1> QED BY <1>5, <1>6

LEMMA ReplayCompletes ==
  ASSUME RowsOK, RisingOK, Replay, ~rebooted, NEW v \in Dev
  PROVE  ShownTotal(v, table') >= ShownTotal(v, table)
<1> DEFINE rows == Recent(table)
           more == Recent(table')
           n == Cardinality(table)
<1>1. /\ CountersTypes /\ table' = table \cup Arrived(Head(spool))
      /\ UNCHANGED <<now, rebooted>>
  BY DEF RowsOK, Replay
<1>2. RowsOK' /\ RisingOK'
  BY ReplayRowsOK, ReplayRising
<1>3. RowSet(table')
  BY <1>2 DEF RowsOK, CountersTypes, ArrivalsOK, RowSet
<1>4. RowSet(rows) /\ RowSet(more)
  <2>1. more \subseteq table'
    BY DEF Recent
  <2>2. IsFiniteSet(more)
    BY <1>3, <2>1, FS_Subset DEF RowSet
  <2>3. RowSet(more)
    BY <1>3, <2>1, <2>2 DEF RowSet
  <2> QED BY <2>3, RecentRowSet
<1>5. rows \subseteq more
  BY <1>1 DEF Recent
<1>6. Agree(more)
  BY <1>2 DEF RowsOK, SamplesOK, Written, Recent, Agree
<1>7. Rising(more)
  BY <1>1, <1>2 DEF RisingOK, Written, Recent, Rising
<1>8. \A z \in more \ rows : z \in Arrived(Head(spool))
  BY <1>1 DEF Recent
<1>9. \A z \in more \ rows : \A r \in rows : r.id < z.id
  <2>1. \A z \in Arrived(Head(spool)) : z.id = n
    BY DEF Arrived
  <2>2. \A r \in rows : r.id < n
    BY DEF RowsOK, ArrivalsOK, Recent
  <2> QED BY <1>8, <2>1, <2>2
<1>10. \A y, z \in more \ rows : y.dev = z.dev => y = z
  <2>1. \A y, z \in Head(spool) : y.dev = z.dev => y = z
    <3>1. 1 \in DOMAIN spool /\ Head(spool) = spool[1]
      BY <1>1 DEF Replay, CountersTypes
    <3> QED BY <3>1 DEF RowsOK, ArrivalsOK
  <2>2. \A y, z \in Arrived(Head(spool)) : y.dev = z.dev => y = z
    BY <2>1 DEF Arrived
  <2> QED BY <1>8, <2>2
<1> HIDE DEF rows, more
<1>11. Joined(rows, more)
  BY <1>4, <1>5, <1>6, <1>7, <1>9, <1>10 DEF Joined
<1>12. "bytes" \in Counter
  BY CountersAssumption
<1>13. Total(ShownOf(v, rows), "bytes") <= Total(ShownOf(v, more), "bytes")
  BY <1>11, <1>12, TotalRises
<1>14. /\ ShownTotal(v, table) = Total(ShownOf(v, rows), "bytes")
       /\ ShownTotal(v, table') = Total(ShownOf(v, more), "bytes")
  BY DEF ShownTotal, ShownOf, rows, more
<1>15. /\ Total(ShownOf(v, rows), "bytes") \in Nat
       /\ Total(ShownOf(v, more), "bytes") \in Nat
  <2>1. ASSUME NEW any, RowSet(any) PROVE Total(ShownOf(v, any), "bytes") \in Nat
    <3> DEFINE X == ShownOf(v, any)
               f == [x \in X |-> x.d["bytes"]]
    <3>1. IsFiniteSet(X) /\ \A x \in X : f[x] \in Nat
      BY <1>12, <2>1, ShownTypes
    <3>2. Total(X, "bytes") = SumFunctionOnSet(f, X)
      BY DEF Total, SumFunction
    <3> HIDE DEF X, f
    <3>3. SumFunctionOnSet(f, X) \in Nat
      BY <3>1, SumTakeAny
    <3> QED BY <3>2, <3>3 DEF X
  <2> QED BY <1>4, <2>1
<1> HIDE DEF n
<1> QED BY <1>13, <1>14, <1>15

-----------------------------------------------------------------------------
(* TotalsAreComplete: without gaps the intervals reach from any row to any     *)
(* later one, and what the counter grew by is what they add up to.             *)

\* The first row of an instant has the last row of an earlier one before it.
LEMMA LagExists ==
  ASSUME NEW rows, RowSet(rows), NEW r \in FirstOf(rows),
         NEW q \in rows, q.dev = r.dev, q.ts < r.ts
  PROVE  \E p \in Lag(rows, r) : q.ts <= p.ts /\ p.ts < r.ts
<1> DEFINE S == {o \in rows : o.dev = r.dev /\ o.ts < r.ts}
           f == [o \in S |-> o.ts]
<1>1. \A o \in rows : o.ts \in Nat /\ o.id \in Nat
  BY DEF RowSet, Row
<1>2. IsFiniteSet(S) /\ S # {} /\ \A o \in S : f[o] \in Nat
  BY <1>1, FS_Subset DEF RowSet
<1>3. PICK o \in S : \A s \in S : f[s] <= f[o]
  <2> HIDE DEF f, S
  <2> QED BY <1>2, GreatestExists
<1>4. \A s \in S : s.ts <= o.ts
  BY <1>3
<1>5. PICK p \in rows : /\ p.dev = o.dev /\ p.ts = o.ts
                        /\ \A s \in rows : s.dev = o.dev /\ s.ts = o.ts => s.id <= p.id
  BY LastExists
<1>6. r \in rows /\ p.dev = r.dev /\ p.ts < r.ts /\ q.ts <= p.ts
  BY <1>4, <1>5 DEF FirstOf
<1>7. ASSUME NEW s \in rows, s.dev = r.dev, Before(s, r) PROVE ~Before(p, s)
  <2>1. s.ts < r.ts
    <3>1. s.ts = r.ts => r.id <= s.id
      BY <1>7 DEF FirstOf
    <3> QED BY <1>1, <1>6, <1>7, <3>1 DEF Before
  <2>2. s.ts <= p.ts /\ (s.ts = p.ts => s.id <= p.id)
    BY <1>4, <1>5, <1>7, <2>1
  <2> QED BY <1>1, <2>2 DEF Before
<1>8. p \in Lag(rows, r)
  BY <1>6, <1>7 DEF Lag, Before
<1> QED BY <1>6, <1>8

LEMMA ShownIsComplete ==
  ASSUME NEW rows, RowSet(rows), Agree(rows), Rising(rows), NEW v \in Dev, NEW c \in Counter,
         \A r \in rows : r.dev = v => \A q \in Lag(rows, r) : r.ts - q.ts <= 3 * Interval
  PROVE  \A q, r \in rows : q.dev = v /\ r.dev = v =>
           r.n[c] - q.n[c] <= Total(ShownOf(v, rows), c)
<1> DEFINE X == ShownOf(v, rows)
           f == [x \in X |-> x.d[c]]
           Until(m) == {x \in X : x.row.ts <= m}
           Sum(T) == SumFunctionOnSet(f, T)
           Reaches(n) == \A q, r \in rows :
             q.dev = v /\ r.dev = v /\ q.ts <= r.ts /\ r.ts <= n =>
               r.n[c] <= q.n[c] + Sum(Until(r.ts))
           N == {n \in Nat : Reaches(n)}
<1>1. \A r \in rows : r.ts \in Nat /\ r.id \in Nat /\ r.n \in [Counter -> Nat] /\ r.n[c] \in Nat
  BY DEF RowSet, Row
<1>2. IsFiniteSet(X) /\ \A x \in X : f[x] \in Nat
  BY ShownTypes
<1>3. ASSUME NEW T, T \subseteq X PROVE Sum(T) \in Nat /\ Sum(T) <= Sum(X)
  <2>1. IsFiniteSet(T) /\ \A x \in T : f[x] \in Nat
    BY <1>2, <1>3, FS_Subset
  <2> HIDE DEF X, f
  <2> QED BY <1>2, <1>3, <2>1, SumTakeAny, SumOfSubset
<1>4. \A m : Until(m) \subseteq X
  OBVIOUS
<1>5. ASSUME NEW q \in rows, NEW r \in rows, q.dev = r.dev, q.ts = r.ts
      PROVE  r.n[c] = q.n[c]
  BY <1>5 DEF Agree
<1>6. 0 \in N
  <2> SUFFICES ASSUME NEW q \in rows, NEW r \in rows, q.dev = v, r.dev = v, q.ts <= r.ts, r.ts <= 0
               PROVE  r.n[c] <= q.n[c] + Sum(Until(r.ts))
    OBVIOUS
  <2>1. r.n[c] = q.n[c]
    BY <1>1, <1>5
  <2>2. Sum(Until(r.ts)) \in Nat
    BY <1>3, <1>4
  <2> HIDE DEF Sum, Until
  <2> QED BY <1>1, <2>1, <2>2
<1>7. ASSUME NEW n \in Nat, n \in N PROVE n + 1 \in N
  <2> SUFFICES ASSUME NEW q \in rows, NEW r \in rows, q.dev = v, r.dev = v,
                      q.ts <= r.ts, r.ts <= n + 1
               PROVE  r.n[c] <= q.n[c] + Sum(Until(r.ts))
    OBVIOUS
  <2>1. Sum(Until(r.ts)) \in Nat
    BY <1>3, <1>4
  <2>2. CASE q.ts = r.ts
    <3>1. r.n[c] = q.n[c]
      BY <1>5, <2>2
    <3> HIDE DEF Sum, Until
    <3> QED BY <1>1, <2>1, <3>1
  <2>3. CASE q.ts < r.ts
    <3>1. PICK z \in FirstOf(rows) : z.dev = r.dev /\ z.ts = r.ts
      BY FirstExists
    <3>2. z \in rows /\ z.n[c] = r.n[c] /\ q.dev = z.dev /\ q.ts < z.ts
      BY <1>5, <2>3, <3>1 DEF FirstOf
    <3>3. PICK p \in Lag(rows, z) : q.ts <= p.ts /\ p.ts < z.ts
      BY <3>2, LagExists
    <3>4. p \in rows /\ p.dev = z.dev
      BY <3>3 DEF Lag
    <3> DEFINE x == Delta(p, z)
    <3>5. IsInterval(rows, x, p, z)
      <4>1. \A k \in Counter : p.n[k] \in Nat /\ z.n[k] \in Nat /\ p.n[k] <= z.n[k]
        BY <1>1, <3>2, <3>3, <3>4 DEF Rising
      <4>2. z.ts - p.ts <= 3 * Interval
        BY <3>1, <3>2, <3>3
      <4> QED BY <1>1, <3>1, <3>2, <3>3, <3>4, <4>1, <4>2 DEF IsInterval
    <3>6. x.row = z /\ x.d[c] \in Nat /\ p.n[c] + x.d[c] = z.n[c]
      BY <3>5, IntervalParts
    <3>7. x \in X /\ x \in Until(r.ts) /\ x \notin Until(p.ts)
      <4>1. x \in Valid(rows)
        BY <3>2, <3>5, IntervalIsValid
      <4>2. x \in X
        BY <3>1, <3>6, <4>1 DEF ShownOf
      <4> HIDE DEF x, X
      <4> QED BY <1>1, <3>1, <3>2, <3>3, <3>4, <3>6, <4>2
    <3>8. f[x] = x.d[c] /\ f[x] \in Nat
      BY <3>6, <3>7
    <3>9. p.n[c] <= q.n[c] + Sum(Until(p.ts))
      <4>1. p.ts <= n
        BY <1>1, <3>1, <3>3, <3>4
      <4> QED BY <1>7, <3>1, <3>3, <3>4, <4>1
    <3>10. Sum(Until(p.ts) \cup {x}) = f[x] + Sum(Until(p.ts))
      <4>1. IsFiniteSet(Until(p.ts)) /\ \A y \in Until(p.ts) : f[y] \in Nat
        BY <1>2, <1>4, FS_Subset
      <4> HIDE DEF x, X, f, Until
      <4> QED BY <3>7, <3>8, <4>1, SumAdd
    <3>11. Sum(Until(p.ts) \cup {x}) <= Sum(Until(r.ts))
      <4>1. Until(p.ts) \cup {x} \subseteq Until(r.ts)
        <5>1. \A y \in X : y.row.ts \in Nat
          <6> SUFFICES ASSUME NEW y \in X PROVE y.row.ts \in Nat
            OBVIOUS
          <6>1. PICK a \in rows, b \in rows : IsInterval(rows, y, a, b)
            BY IntervalOf DEF ShownOf
          <6> QED BY <1>1, <6>1, IntervalParts
        <5>2. p.ts < r.ts /\ p.ts \in Nat /\ r.ts \in Nat
          BY <1>1, <3>1, <3>3, <3>4
        <5> HIDE DEF x, X
        <5> QED BY <3>7, <5>1, <5>2
      <4>2. IsFiniteSet(Until(r.ts)) /\ \A y \in Until(r.ts) : f[y] \in Nat
        BY <1>2, <1>4, FS_Subset
      <4> HIDE DEF x, X, f, Until
      <4> QED BY <4>1, <4>2, SumOfSubset
    <3>12. Sum(Until(p.ts)) \in Nat
      BY <1>3, <1>4
    <3> HIDE DEF x, Sum, Until, f
    <3> QED BY <1>1, <2>1, <3>2, <3>4, <3>6, <3>8, <3>9, <3>10, <3>11, <3>12
  <2> QED BY <1>1, <2>2, <2>3
<1>8. Nat \subseteq N
  <2> HIDE DEF N
  <2> QED BY <1>6, <1>7, NatSetInduction
<1>9. Total(X, c) = Sum(X)
  BY DEF Total, SumFunction
<1> SUFFICES ASSUME NEW q \in rows, NEW r \in rows, q.dev = v, r.dev = v
             PROVE  r.n[c] - q.n[c] <= Sum(X)
  BY <1>9
<1>10. Sum(X) \in Nat
  BY <1>3
<1>11. CASE q.ts <= r.ts
  <2>1. r.n[c] <= q.n[c] + Sum(Until(r.ts))
    BY <1>1, <1>8, <1>11
  <2>2. Sum(Until(r.ts)) \in Nat /\ Sum(Until(r.ts)) <= Sum(X)
    BY <1>3, <1>4
  <2> HIDE DEF Sum, Until, X
  <2> QED BY <1>1, <1>10, <2>1, <2>2
<1>12. CASE r.ts < q.ts
  <2>1. r.n[c] <= q.n[c]
    BY <1>12 DEF Rising
  <2> HIDE DEF Sum, X
  <2> QED BY <1>1, <1>10, <2>1
<1> QED BY <1>1, <1>11, <1>12

LEMMA TotalsFromRising == RowsOK /\ RisingOK => TotalsAreComplete
<1> SUFFICES ASSUME RowsOK, RisingOK, ~rebooted, NEW v \in Dev,
                    \A r \in {p \in Recent(table) : p.dev = v} :
                      \A q \in Lag({p \in Recent(table) : p.dev = v}, r) : r.ts - q.ts <= 3 * Interval
             PROVE  \A q, r \in {p \in Recent(table) : p.dev = v} :
                      r.n["bytes"] - q.n["bytes"] <= ShownTotal(v, table)
  BY DEF TotalsAreComplete
<1> DEFINE rows == Recent(table)
<1>1. RowSet(rows)
  BY RecentRowSet
<1>2. Agree(rows) /\ Rising(rows)
  BY DEF RowsOK, SamplesOK, RisingOK, Written, Recent, Agree, Rising
<1>3. ASSUME NEW r \in rows, r.dev = v, NEW q \in Lag(rows, r) PROVE r.ts - q.ts <= 3 * Interval
  <2>1. q \in Lag({p \in rows : p.dev = v}, r)
    BY <1>3 DEF Lag
  <2> QED BY <1>3, <2>1
<1>4. "bytes" \in Counter
  BY CountersAssumption
<1>5. ShownTotal(v, table) = Total(ShownOf(v, rows), "bytes")
  BY DEF ShownTotal, ShownOf
<1>6. \A q, r \in rows : q.dev = v /\ r.dev = v =>
        r.n["bytes"] - q.n["bytes"] <= Total(ShownOf(v, rows), "bytes")
  <2> HIDE DEF rows
  <2> QED BY <1>1, <1>2, <1>3, <1>4, ShownIsComplete
<1> QED BY <1>5, <1>6

-----------------------------------------------------------------------------
(* The theorems.  Each of the two parts has its invariant while the behaviour  *)
(* follows it; the other rests as it began.                                    *)

PowerOK == IInv /\ SourceOK /\ WattsOK /\ DaysOK /\ SharesOK
PowerAnswers == CoverageWithinWindow /\ CPUIsPreferredAndRecent /\ DaysAddUp /\ SubtotalIfPartsNonnegative
CountersOK == RowsOK /\ ActivityOK /\ PeakOK /\ RisingOK
CountersRest == table = {} /\ spool = <<>>

TelemetryInv ==
  /\ topic \in {"io", "power"} /\ PowerAnswers
  /\ topic = "power" => PowerOK /\ CountersRest
  /\ topic = "io" => CountersOK

LEMMA PowerStarts == PowerInit => PowerOK
<1> SUFFICES ASSUME PowerInit PROVE PowerOK
  OBVIOUS
<1>1. SourceOK
  BY DEF PowerInit, SourceOK, Field
<1>2. SharesOK
  BY FS_EmptySet DEF PowerInit, SharesOK, Field, SubtotalIfPartsNonnegative, MeasuredIsSubtotal
<1> QED BY <1>1, <1>2, InitIInv, LoopInit DEF PowerOK

LEMMA PowerSteps == PowerOK /\ [PowerNext]_powerVars => PowerOK'
BY StepIInv, SourceStep, WattsStep, DaysStep, SharesStep DEF PowerOK

LEMMA PowerIsRight == PowerOK => PowerAnswers
BY SourceIsPreferred, DaysArePeriods DEF PowerOK, PowerAnswers, IInv, SharesOK

\* No part of an answer changes while the behaviour is of counters.
LEMMA PowerRests == PowerAnswers /\ UNCHANGED <<request, loop>> => PowerAnswers'
<1> SUFFICES ASSUME PowerAnswers, UNCHANGED <<request, loop>> PROVE PowerAnswers'
  OBVIOUS
<1>1. CoverageWithinWindow' /\ DaysAddUp' /\ SubtotalIfPartsNonnegative'
  BY DEF PowerAnswers, CoverageWithinWindow, DaysAddUp, Periods, SubtotalIfPartsNonnegative, MeasuredIsSubtotal, request, loop
<1>2. CPUIsPreferredAndRecent'
  <2>1. UNCHANGED <<phase, sensorRows, gpuRows, cpuName>>
    BY DEF request
  <2>2. Buckets' = Buckets
    BY <2>1 DEF Buckets
  <2>3. \A b : CPU(b)' = CPU(b)
    BY <2>1 DEF CPU, Carried
  <2> QED BY <2>1, <2>2, <2>3 DEF PowerAnswers, CPUIsPreferredAndRecent
<1> QED BY <1>1, <1>2 DEF PowerAnswers

LEMMA CountersStart == CountersInit => CountersOK
<1> SUFFICES ASSUME CountersInit PROVE CountersOK
  OBVIOUS
<1>1. table = {} /\ spool = <<>> /\ Written = {}
  BY DEF CountersInit, Written, Waiting
<1>2. RowsOK
  <2>1. CountersTypes
    BY <1>1, FS_EmptySet DEF CountersInit, CountersTypes
  <2>2. ArrivalsOK /\ SamplesOK
    BY <1>1 DEF ArrivalsOK, SamplesOK
  <2> QED BY <2>1, <2>2 DEF RowsOK
<1>3. ActivityOK
  <2>1. PICK act : act = [s \in Nat |-> [v \in Dev |-> [c \in Counter |-> 0]]]
    OBVIOUS
  <2>2. act \in [Nat -> [Dev -> [Counter -> Nat]]]
    BY <2>1
  <2>3. \A i, j \in Nat : i <= j => \A v \in Dev, c \in Counter : act[i][v][c] <= act[j][v][c]
    BY <2>1
  <2>4. \A s \in Nat : act[s] = done
    BY <2>1 DEF CountersInit
  <2>5. Grows(act)
    BY <1>1, <2>2, <2>3, <2>4 DEF Grows
  <2> QED BY <2>5 DEF ActivityOK
<1>4. PeakOK /\ RisingOK
  BY <1>1 DEF PeakOK, RisingOK
<1> QED BY <1>2, <1>3, <1>4 DEF CountersOK

LEMMA CountersSteps == CountersOK /\ [CountersNext]_counterVars => CountersOK'
<1> SUFFICES ASSUME CountersOK, [CountersNext]_counterVars PROVE CountersOK'
  OBVIOUS
<1>1. ASSUME NEW h \in Host, NEW step \in Steps, NEW w \in Work, NEW reboot \in BOOLEAN,
             NEW to \in SUBSET {"table", "spool"}, Pass(h, step, w, reboot, to)
      PROVE  CountersOK'
  <2>1. PassOf(step, w, reboot, to) /\ step \in Nat \ {0} /\ w \in [Dev -> [Counter -> Nat]]
    BY <1>1, PassIsOfTheHost DEF CountersOK, RowsOK
  <2>2. RowsOK' /\ ActivityOK'
    BY <2>1, PassRowsOK, PassActivity DEF CountersOK
  <2>3. PeakOK' /\ RisingOK'
    BY <2>1, PassPeak, PassRising DEF CountersOK
  <2> QED BY <2>2, <2>3 DEF CountersOK
<1>2. CASE Replay
  BY <1>2, ReplayRowsOK, ReplayActivity, ReplayPeak, ReplayRising DEF CountersOK
<1>3. CASE UNCHANGED counterVars
  <2>0. UNCHANGED <<now, last, real, done, peak, rebooted, table, spool, Written>>
    BY <1>3 DEF Written, Waiting, counterVars
  <2>1. RowsOK' /\ PeakOK' /\ RisingOK'
    <3>1. CountersTypes' /\ ArrivalsOK' /\ SamplesOK'
      BY <2>0 DEF CountersOK, RowsOK, CountersTypes, ArrivalsOK, SamplesOK
    <3>2. PeakOK' /\ RisingOK'
      BY <2>0 DEF CountersOK, PeakOK, RisingOK
    <3> QED BY <3>1, <3>2 DEF RowsOK
  <2>2. PICK act : Grows(act)
    BY DEF CountersOK, ActivityOK
  <2>3. Grows(act)'
    BY <2>0, <2>2 DEF Grows
  <2> QED BY <2>1, <2>3 DEF CountersOK, ActivityOK
<1> QED BY <1>1, <1>2, <1>3 DEF CountersNext

LEMMA TelemetryStarts == Init => TelemetryInv
<1> SUFFICES ASSUME Init PROVE TelemetryInv
  OBVIOUS
<1>1. PowerOK /\ CountersOK
  BY PowerStarts, CountersStart DEF Init
<1>2. CountersRest
  BY DEF Init, CountersInit, CountersRest
<1> QED BY <1>1, <1>2, PowerIsRight DEF Init, TelemetryInv

LEMMA TelemetrySteps == TelemetryInv /\ [Next]_telemetryVars => TelemetryInv'
<1> SUFFICES ASSUME TelemetryInv, [Next]_telemetryVars PROVE TelemetryInv'
  OBVIOUS
<1>1. UNCHANGED topic
  BY DEF Next, telemetryVars
<1>2. CASE topic = "io"
  <2>1. [CountersNext]_counterVars /\ UNCHANGED <<request, loop>>
    BY <1>2 DEF Next, telemetryVars, powerVars
  <2>2. CountersOK' /\ PowerAnswers'
    BY <1>2, <2>1, CountersSteps, PowerRests DEF TelemetryInv
  <2> QED BY <1>1, <1>2, <2>2 DEF TelemetryInv
<1>3. CASE topic = "power"
  <2>1. [PowerNext]_powerVars /\ UNCHANGED <<table, spool>>
    BY <1>3 DEF Next, telemetryVars, counterVars
  <2>2. PowerOK'
    BY <1>3, <2>1, PowerSteps DEF TelemetryInv
  <2>3. PowerOK' => PowerAnswers'
    BY PowerIsRight, PTL
  <2>4. CountersRest'
    BY <1>3, <2>1 DEF TelemetryInv, CountersRest
  <2> QED BY <1>1, <1>3, <2>2, <2>3, <2>4 DEF TelemetryInv
<1> QED BY <1>2, <1>3 DEF TelemetryInv

LEMMA TelemetryHolds == Spec => []TelemetryInv
BY TelemetryStarts, TelemetrySteps, PTL DEF Spec

\* A table without rows has no answer.
LEMMA NoRowsNoAnswer == CountersRest => QDeltas(table) = {} /\ DuplicatesInvisible
<1> SUFFICES ASSUME CountersRest PROVE QDeltas(table) = {} /\ DuplicatesInvisible
  OBVIOUS
<1>1. Recent({}) = {} /\ Valid({}) = {}
  BY DEF Recent, Valid
<1>2. QDeltas({}) = {}
  BY <1>1 DEF QDeltas
<1>3. {r \in {} : \A q \in {} : q.host = r.host /\ q.dev = r.dev /\ q.ts = r.ts => r.id <= q.id} = {}
  OBVIOUS
<1>4. table = {}
  BY DEF CountersRest
<1> HIDE DEF CountersRest
<1> QED BY <1>2, <1>3, <1>4 DEF DuplicatesInvisible

\* CoverageIsNotCountedTwice: for any rows, intervals, window and bucket size,
\* what integratePower covers is less than the window and the time between the
\* two queries, whatever arrives between them.
THEOREM CoverageIsNotCountedTwice == Spec => []CoverageWithinWindow
BY TelemetryHolds, PTL DEF TelemetryInv, PowerAnswers

\* CPUWattsAreOfOneSource: for any sensors, priorities, intervals and order in
\* which the map is visited, the CPU watts of a point are those of the one
\* source of the best priority, no older than three of its intervals.
THEOREM CPUWattsAreOfOneSource == Spec => []CPUIsPreferredAndRecent
BY TelemetryHolds, PTL DEF TelemetryInv, PowerAnswers

\* PeriodsAddUpToTotal: for any rows, watts, calendar and bounds, the days, the
\* weeks and the months of a request each add up to its total.
THEOREM PeriodsAddUpToTotal == Spec => []DaysAddUp
BY TelemetryHolds, PTL DEF TelemetryInv, PowerAnswers

\* MeasuredIsPartOfEstimated: for any rows, sensors, gaps and settings, if the
\* baseline and the GPU's watts of the model are not negative, which the
\* environment is checked for and config.toml is not, the measured energy of a
\* day is at most the estimated one.
THEOREM MeasuredIsPartOfEstimated == Spec => []SubtotalIfPartsNonnegative
BY TelemetryHolds, PTL DEF TelemetryInv, PowerAnswers

\* TotalIsWithinActivity: for any devices, activities, reboots, gaps, late rows
\* and rows written twice, a total of QDiskIO or QNet is at most what its
\* device has done.
THEOREM TotalIsWithinActivity == Spec => []TotalsWithinActivity
<1>1. TelemetryInv => TotalsWithinActivity
  <2>1. CASE topic = "io"
    BY <2>1, TotalsFromActivity DEF TelemetryInv, CountersOK
  <2>2. CASE topic = "power"
    BY <2>2, NoRowsNoAnswer DEF TelemetryInv, TotalsWithinActivity
  <2> QED BY <2>1, <2>2 DEF TelemetryInv
<1> QED BY <1>1, TelemetryHolds, PTL

\* TotalIsComplete: for any devices, activities, late, repeated and missing
\* rows, while no counter was set back and the rows of the window leave no gap
\* of more than three collections, a total of QDiskIO or QNet is at least what
\* its device did between any two rows of the window.
THEOREM TotalIsComplete == Spec => []TotalsAreComplete
<1>1. TelemetryInv => TotalsAreComplete
  <2>1. CASE topic = "io"
    BY <2>1, TotalsFromRising DEF TelemetryInv, CountersOK
  <2>2. CountersRest => TotalsAreComplete
    <3>1. Recent({}) = {}
      BY DEF Recent
    <3> QED BY <3>1 DEF CountersRest, TotalsAreComplete
  <2> QED BY <2>1, <2>2 DEF TelemetryInv
<1> QED BY <1>1, TelemetryHolds, PTL

\* RateIsWithinPeak: under the same conditions no rate of a bucket is above the
\* highest one of its device.
THEOREM RateIsWithinPeak == Spec => []RatesWithinPeak
<1>1. TelemetryInv => RatesWithinPeak
  <2>1. CASE topic = "io"
    BY <2>1, RatesFromPeak DEF TelemetryInv, CountersOK
  <2>2. CASE topic = "power"
    BY <2>2, NoRowsNoAnswer DEF TelemetryInv, RatesWithinPeak
  <2> QED BY <2>1, <2>2 DEF TelemetryInv
<1> QED BY <1>1, TelemetryHolds, PTL

\* DuplicatesDoNotShow: rows of a batch written twice, in whatever order the
\* two arrive among others, change no answer of QDiskIO and QNet.
THEOREM DuplicatesDoNotShow == Spec => []DuplicatesInvisible
<1>1. TelemetryInv => DuplicatesInvisible
  <2>1. CASE topic = "io"
    BY <2>1, RowsAgree DEF TelemetryInv, CountersOK
  <2>2. CASE topic = "power"
    BY <2>2, NoRowsNoAnswer DEF TelemetryInv
  <2> QED BY <2>1, <2>2 DEF TelemetryInv
<1> QED BY <1>1, TelemetryHolds, PTL

\* ReplayOnlyCompletes: while no counter was set back, a replayed batch lowers
\* the total of no device, wherever its rows fall among those of the table.
THEOREM ReplayOnlyCompletes == Spec => ReplayNeverLowersTotals
<1> DEFINE Lowers == ~rebooted /\ spool' # spool /\ now' = now =>
                       \A v \in Dev : ShownTotal(v, table') >= ShownTotal(v, table)
<1>1. TelemetryInv /\ [Next]_telemetryVars => [Lowers]_counterVars
  <2> SUFFICES ASSUME TelemetryInv, [Next]_telemetryVars, ~rebooted, spool' # spool, now' = now,
                      NEW v \in Dev
               PROVE  ShownTotal(v, table') >= ShownTotal(v, table)
    OBVIOUS
  <2>1. topic = "io" /\ CountersNext
    BY DEF TelemetryInv, Next, telemetryVars, counterVars, CountersRest
  <2>2. ASSUME NEW h \in Host, NEW step \in Steps, NEW w \in Work, NEW reboot \in BOOLEAN,
               NEW to \in SUBSET {"table", "spool"}, Pass(h, step, w, reboot, to)
        PROVE  FALSE
    <3>1. PassOf(step, w, reboot, to) /\ step \in Nat \ {0} /\ now \in Nat
      BY <2>1, <2>2, PassIsOfTheHost DEF TelemetryInv, CountersOK, RowsOK, CountersTypes
    <3> QED BY <3>1 DEF PassOf
  <2>3. Replay
    BY <2>1, <2>2 DEF CountersNext
  <2> QED BY <2>1, <2>3, ReplayCompletes DEF TelemetryInv, CountersOK
<1>2. Spec => [][Lowers]_counterVars
  BY <1>1, TelemetryHolds, PTL DEF Spec
<1> QED BY <1>2 DEF ReplayNeverLowersTotals

\* LatestRowIsNeverOlder: for any order in which rows arrive, the row shown as
\* the latest of a device is never followed by an older one.
THEOREM LatestRowIsNeverOlder == Spec => LatestNeverGoesBack
<1> DEFINE Forward == \A r \in Latest(table), q \in Latest(table)' : q.dev = r.dev => q.ts >= r.ts
<1>1. TelemetryInv /\ TelemetryInv' /\ [Next]_telemetryVars => [Forward]_counterVars
  <2> SUFFICES ASSUME TelemetryInv, TelemetryInv', [Next]_telemetryVars,
                      NEW r \in Latest(table), NEW q \in Latest(table)', q.dev = r.dev
               PROVE  q.ts >= r.ts
    OBVIOUS
  <2>1. table \subseteq table'
    <3>1. ASSUME NEW h \in Host, NEW step \in Steps, NEW w \in Work, NEW reboot \in BOOLEAN,
                 NEW to \in SUBSET {"table", "spool"}, Pass(h, step, w, reboot, to)
          PROVE  table \subseteq table'
      BY <3>1 DEF Pass
    <3>2. Replay => table \subseteq table'
      BY DEF Replay
    <3>3. CountersNext \/ UNCHANGED table
      BY DEF Next, telemetryVars, counterVars
    <3> QED BY <3>1, <3>2, <3>3 DEF CountersNext
  <2>2. r \in table' /\ q \in table' /\ \A p \in table' : p.dev = q.dev => p.ts <= q.ts
    BY <2>1 DEF Latest
  <2>3. table' \subseteq Row
    BY <2>2 DEF TelemetryInv, CountersRest, CountersOK, RowsOK, CountersTypes
  <2> QED BY <2>2, <2>3 DEF Row
<1>2. Spec => [][Forward]_counterVars
  BY <1>1, TelemetryHolds, PTL DEF Spec
<1> QED BY <1>2 DEF LatestNeverGoesBack
=============================================================================
