------------------------------- MODULE Config -------------------------------
(* config.Load: settings from the environment, config.toml and the defaults,   *)
(* read once when a process of the monitor starts.  The collector (--collect)  *)
(* and the dashboard (--serve) are processes of one executable, started from   *)
(* any working directory; between starts the operator edits the environment    *)
(* and the files.  Config also decides where the spool lives.                  *)
(*                                                                             *)
(* A value is [kind, n]: "unset" (or the empty string), "blank" (only spaces), *)
(* "bad" (other text no parser accepts; for database_url, not a PostgreSQL     *)
(* URL) or "num" (text that parses, n its number; for a text key any text).    *)
(* Fractions count hundredths; NaN and infinities are not among the inputs.    *)
EXTENDS Integers

CONSTANTS Dir, Parent,  \* directories and the function of their ".."
          Exe,          \* the directory of the executable
          Proc,         \* the processes
          Half, Second, \* int64 is -Half..Half-1; time.Second in nanoseconds
          Focus,        \* keys, values, directories written and started from in one behaviour
          MaxEdits      \* how often the operator writes

\* Settings' integers (buffer_max_bytes counts MiB) and their defaults.
IntDefault == [buffer_max_bytes |-> 2048, batch_limit |-> 50000, top_processes |-> 50,
               port |-> 8501]
\* Settings in seconds and their defaults.
SecondsDefault == [connect_timeout |-> 10, retry_seconds |-> 30]
\* Seconds between two runs of each collector.
IntervalDefault ==
  [cpu |-> 10, memory |-> 10, disk_io |-> 10, disk_usage |-> 60, disk_physical |-> 300,
   disk_smart |-> 300, network |-> 10, gpu |-> 10, sensors |-> 15, processes |-> 30,
   connections |-> 30, services |-> 60, system |-> 60, eventlog |-> 60]
\* Texts; the tables' keys carry the retention intervals.
TextDefault ==
  [database_url |-> "", hostname |-> "os.Hostname", host |-> "127.0.0.1",
   timezone |-> "America/Sao_Paulo",
   keep_processes |-> "30 days", keep_connections |-> "7 days", keep_sensors |-> "90 days",
   keep_cpu |-> "90 days", keep_memory |-> "90 days", keep_gpu |-> "90 days",
   keep_heartbeat |-> "30 days", keep_eventlog |-> "30 days", keep_disk_io |-> "90 days",
   keep_net_io |-> "90 days"]
OtherKey == {"aux_baseline_w", "psu_efficiency", "gpu_idle_w", "gpu_max_w",
             "enabled", "batch_sleep"}
Key == DOMAIN IntDefault \cup DOMAIN SecondsDefault \cup DOMAIN IntervalDefault
         \cup DOMAIN TextDefault \cup OtherKey

Text == [kind : {"unset", "blank", "bad", "num"}, n : -Half .. Half - 1]
Unset == [kind |-> "unset", n |-> 0]
\* fileConfig; a missing key is Go's zero value, a missing file all of them.
NoKeys == [k \in Key |-> Unset]
NoFile == [state |-> "none", keys |-> NoKeys]
File == [state : {"none", "malformed", "ok"}, keys : [Key -> Text]]

ASSUME ConfigAssumption ==
  /\ Parent \in [Dir -> Dir] /\ Exe \in Dir
  /\ Half \in Nat /\ Second \in Nat /\ Second > 0 /\ Half > 50000 /\ Half > 300 * Second
  /\ Focus \subseteq [keys : SUBSET Key, values : SUBSET Text,
                     dirs : SUBSET Dir, starts : SUBSET Dir]
  /\ MaxEdits \in Nat

VARIABLES env,    \* the environment a process would be started with
          file,   \* config.toml of every directory
          run,    \* what each process loaded, and from what; {} before its first start
          edits,  \* number of edits, at most MaxEdits
          focus   \* what this behaviour's operator edits
vars == <<env, file, run, edits, focus>>

-----------------------------------------------------------------------------
(* Directories.                                                                *)

Up(d) == Parent[d]

\* Mutant of BaseDir: only the working directory and its parents are searched.
BaseDirWithoutExe(f, wd) ==
  LET cand == <<wd, Up(wd), Up(Up(wd))>>
      present == {i \in DOMAIN cand : f[cand[i]].state # "none"}
  IN IF present = {} THEN wd
     ELSE cand[CHOOSE i \in present : \A j \in present : i <= j]

\* baseDir: the first of the working directory, the executable's directory and
\* their parents that holds a config.toml, well-formed or not.
BaseDir(f, wd) ==
  LET cand == <<wd, Up(wd), Up(Up(wd)), Exe, Up(Exe), Up(Up(Exe))>>
      present == {i \in 1 .. 6 : f[cand[i]].state # "none"}
  IN IF present = {} THEN wd
     ELSE cand[CHOOSE i \in present : \A j \in present : i <= j]

\* findConfigFile: the first file that decodes; a malformed one is skipped.
FindConfigFile(f, base) ==
  LET cand == <<base, Up(base), Exe, Up(Exe)>>
      sound == {i \in 1 .. 4 : f[cand[i]].state = "ok"}
  IN IF sound = {} THEN NoFile
     ELSE f[cand[CHOOSE i \in sound : \A j \in sound : i <= j]]

-----------------------------------------------------------------------------
(* The rules, one per kind of key: e is the environment's value, t the file's. *)

\* A toml number, or what Atoi and ParseFloat return (0 when they fail).
Num(x) == IF x.kind = "num" THEN x.n ELSE 0
NonBlank(x) == x.kind \in {"bad", "num"}

\* Mutant of IntSetting: an environment value is taken whatever its sign.
IntSettingUnchecked(e, t, d) ==
  IF e.kind = "num" THEN e.n ELSE IF Num(t) > 0 THEN Num(t) ELSE d

\* intOr and int64Or as Load calls them, with the fallbacks after the calls.
IntSetting(e, t, d) ==
  IF Num(e) > 0 THEN Num(e) ELSE IF Num(t) > 0 THEN Num(t) ELSE d

MaxPort == 65535
PortSetting(e, t, d) == LET p == IntSetting(e, t, d) IN IF p > MaxPort THEN d ELSE p

\* time.Duration(n) * time.Second, and in int64.
Nanoseconds(n) == n * Second
Duration(n) == LET p == Nanoseconds(n)
               IN IF p < Half THEN p ELSE ((p + Half) % (2 * Half)) - Half

SecondsSetting(e, t, d) == Duration(IntSetting(e, t, d))

\* An environment value whose product wraps to 0 leaves the key to the file.
IntervalSetting(e, t, d) ==
  LET own == IF Num(e) > 0 THEN Duration(Num(e)) ELSE 0
  IN IF own # 0 THEN own ELSE IF Num(t) > 0 THEN Duration(Num(t)) ELSE Duration(d)

\* Mutant of TextSetting: the file is asked first.
TextSettingFileFirst(e, t, d) == IF NonBlank(t) THEN t ELSE IF NonBlank(e) THEN e ELSE d

\* strOr and envOrToml.
TextSetting(e, t, d) == IF NonBlank(e) THEN e ELSE IF NonBlank(t) THEN t ELSE d

Baseline(e, t) ==
  IF e.kind = "num" /\ e.n >= 0 THEN e.n ELSE IF Num(t) # 0 THEN Num(t) ELSE 3000

Fraction(x) == x.kind = "num" /\ x.n \in 1 .. 100
Efficiency(e, t) == IF Fraction(e) THEN e.n ELSE IF Fraction(t) THEN t.n ELSE 90

\* nonnegativeFloat, and the file only when the variable is empty; -1 is nil.
Watts(e, t) == IF e.kind = "unset" THEN IF t.kind = "num" THEN t.n ELSE -1
               ELSE IF e.kind = "num" /\ e.n >= 0 THEN e.n ELSE -1
GPUModel(e, t) == LET idle == Watts(e["gpu_idle_w"], t["gpu_idle_w"])
                      max == Watts(e["gpu_max_w"], t["gpu_max_w"])
                  IN [idle |-> idle, max |-> max, present |->
                        \A k \in {"gpu_idle_w", "gpu_max_w"} :
                          IF e[k].kind = "unset" THEN t[k].kind = "num"
                          ELSE e[k].kind = "num" /\ e[k].n >= 0]

\* parseBoolEnv: 1 stands for true, yes and on, 0 for the negatives.
Enabled(e, t) == IF e.kind = "unset" THEN t.kind = "num" /\ t.n = 1
                 ELSE e.kind = "num" /\ e.n = 1

\* In hundredths of a second; an invalid variable hides the file.
BatchSleep(e, t) == IF NonBlank(e) THEN IF e.kind = "num" /\ e.n >= 0 THEN e.n ELSE 10
                    ELSE IF Num(t) # 0 THEN Num(t) ELSE 10

Settings(e, t) ==
  [int |-> [k \in DOMAIN IntDefault |->
              IF k = "port" THEN PortSetting(e[k], t[k], IntDefault[k])
              ELSE IntSetting(e[k], t[k], IntDefault[k])],
   seconds |-> [k \in DOMAIN SecondsDefault |-> SecondsSetting(e[k], t[k], SecondsDefault[k])],
   interval |-> [k \in DOMAIN IntervalDefault |->
                   IntervalSetting(e[k], t[k], IntervalDefault[k])],
   text |-> [k \in DOMAIN TextDefault |-> TextSetting(e[k], t[k], Unset)],
   aux_baseline_w |-> Baseline(e["aux_baseline_w"], t["aux_baseline_w"]),
   psu_efficiency |-> Efficiency(e["psu_efficiency"], t["psu_efficiency"]),
   gpu |-> GPUModel(e, t),
   enabled |-> Enabled(e["enabled"], t["enabled"]),
   batch_sleep |-> BatchSleep(e["batch_sleep"], t["batch_sleep"])]

\* RequireDatabaseURL, which reads the environment again.
DatabaseURLAccepted(e, set) ==
  IF NonBlank(e["database_url"]) THEN e["database_url"].kind = "num"
  ELSE set.text["database_url"].kind = "num"

-----------------------------------------------------------------------------

\* Load: the spool is logs/pending_batches.sqlite3 under base.
Load(e, f, wd) == LET base == BaseDir(f, wd) IN
  [base |-> base, env |-> e, at |-> {d \in Dir : f[d].state # "none"}, read |-> FindConfigFile(f, base),
   set |-> Settings(e, FindConfigFile(f, base).keys)]

Init == /\ env = NoKeys /\ file = [d \in Dir |-> NoFile] /\ edits = 0
        /\ focus \in Focus /\ run = [p \in Proc |-> {}]

\* The operator sets a variable or a key of a file (creating it), spoils or
\* removes a file; bounded by MaxEdits and to the focus of the behaviour.
EditEnv(k, x) == env' = [env EXCEPT ![k] = x] /\ UNCHANGED file
EditFile(d, k, x) ==
  /\ k \notin DOMAIN TextDefault => x.kind \in {"unset", "num"}   \* else it does not decode
  /\ file' = [file EXCEPT ![d] = [state |-> "ok", keys |-> [@.keys EXCEPT ![k] = x]]]
  /\ UNCHANGED env
SpoilFile(d) == /\ file' = [file EXCEPT ![d] = [state |-> "malformed", keys |-> NoKeys]]
                /\ UNCHANGED env
RemoveFile(d) == /\ file[d].state # "none"
                 /\ file' = [file EXCEPT ![d] = NoFile] /\ UNCHANGED env

Edit == /\ edits < MaxEdits /\ edits' = edits + 1 /\ UNCHANGED <<focus, run>>
        /\ \/ \E k \in focus.keys, x \in focus.values : EditEnv(k, x)
           \/ \E d \in focus.dirs, k \in focus.keys, x \in focus.values : EditFile(d, k, x)
           \/ \E d \in focus.dirs : SpoilFile(d) \/ RemoveFile(d)

\* The process starts (again) from working directory wd.
Start(p, wd) == /\ run' = [run EXCEPT ![p] = {Load(env, file, wd)}]
                /\ UNCHANGED <<env, file, edits, focus>>

Next == Edit \/ \E p \in Proc, wd \in focus.starts : Start(p, wd)

Spec == Init /\ [][Next]_vars

-----------------------------------------------------------------------------

Loaded == UNION {run[p] : p \in Proc}

TypeOK ==
  /\ env \in [Key -> Text] /\ file \in [Dir -> File] /\ edits \in 0 .. MaxEdits /\ focus \in Focus
  /\ \A r \in Loaded : r.base \in Dir /\ r.env \in [Key -> Text] /\ r.at \subseteq Dir /\ r.read \in File

\* The product in Duration of every value in the key's inputs fits an int64.
Fits(r, k) == Nanoseconds(Num(r.env[k])) < Half /\ Nanoseconds(Num(r.read.keys[k])) < Half

\* LoadedIsUsable: whatever the environment and the files hold, what the
\* process runs with can be used: positive sizes and a port of TCP, an
\* efficiency the power estimate may divide by, and positive intervals and
\* timeouts except where the number of seconds itself overflows time.Duration.
LoadedIsUsable ==
  \A r \in Loaded :
    /\ \A k \in DOMAIN IntDefault : r.set.int[k] > 0
    /\ r.set.int["port"] <= MaxPort
    /\ \A k \in DOMAIN SecondsDefault : Fits(r, k) => r.set.seconds[k] > 0
    /\ \A k \in DOMAIN IntervalDefault : Fits(r, k) => r.set.interval[k] > 0
    /\ r.set.psu_efficiency \in 1 .. 100

\* EnvironmentBeatsFile: "Precedence: env var > config.toml > default"
\* (config.go:200): a variable with a value its key accepts is in force
\* whatever the file says, and an accepted value of the file is in force when
\* the variable is empty.  Of a number of the file, 0 is not accepted.
TimeKey == DOMAIN SecondsDefault \cup DOMAIN IntervalDefault
Accepted(r, k, x, inEnv) ==
  IF k \in DOMAIN TextDefault THEN NonBlank(x)
  ELSE /\ x.kind = "num" /\ x.n >= 0
       /\ k = "enabled" => x.n \in {0, 1}
       /\ k = "psu_efficiency" => x.n \in 1 .. 100
       /\ k = "port" => x.n <= MaxPort
       /\ k \in TimeKey => Fits(r, k)
       /\ k \in TimeKey \cup DOMAIN IntDefault => x.n > 0
       /\ k \in {"aux_baseline_w", "batch_sleep"} /\ ~inEnv => x.n > 0
InForce(r, k, x) ==
  LET s == r.set
  IN /\ k \in DOMAIN IntDefault => s.int[k] = x.n
     /\ k \in DOMAIN SecondsDefault => s.seconds[k] = Nanoseconds(x.n)
     /\ k \in DOMAIN IntervalDefault => s.interval[k] = Nanoseconds(x.n)
     /\ k \in DOMAIN TextDefault => s.text[k] = x
     /\ k = "psu_efficiency" => s.psu_efficiency = x.n
     /\ k = "aux_baseline_w" => s.aux_baseline_w = x.n
     /\ k = "batch_sleep" => s.batch_sleep = x.n
     /\ k = "enabled" => s.enabled = (x.n = 1)
     /\ k = "gpu_idle_w" /\ s.gpu.present => s.gpu.idle = x.n
     /\ k = "gpu_max_w" /\ s.gpu.present => s.gpu.max = x.n
EnvironmentBeatsFile ==
  \A r \in Loaded, k \in Key :
    LET e == r.env[k]
        t == r.read.keys[k]
    IN /\ Accepted(r, k, e, TRUE) => InForce(r, k, e)
       /\ e.kind = "unset" /\ Accepted(r, k, t, FALSE) => InForce(r, k, t)

\* OneConfigOneSpool: processes started while the only config.toml of the
\* machine stood in one place above the executable share a base directory, and
\* so a spool, from whatever directories they were started and whether or not
\* the file decodes: what the collector buffers, the dashboard counts.
ExeSearch == {Exe, Up(Exe), Up(Up(Exe))}
OneConfigOneSpool ==
  \A d \in ExeSearch : \A r, q \in Loaded : r.at = {d} /\ q.at = {d} => r.base = q.base
=============================================================================
