----------------------------- MODULE ConfigProofs -----------------------------
(* Every loaded record came from Load; what Load promises follows from its     *)
(* rules, one lemma per kind of key.                                           *)
EXTENDS Config, TLAPS

LEMMA LeastExists ==
  ASSUME NEW S \in SUBSET (1 .. 6), S # {}
  PROVE  /\ (CHOOSE i \in S : \A j \in S : i <= j) \in S
         /\ \A j \in S : (CHOOSE i \in S : \A l \in S : i <= l) <= j
<1>1. \E i \in S : \A j \in S : i <= j
  <2>1. PICK s \in S : TRUE  OBVIOUS
  <2>2. CASE 1 \in S  BY <2>2
  <2>3. CASE 1 \notin S /\ 2 \in S  BY <2>3
  <2>4. CASE 1 \notin S /\ 2 \notin S /\ 3 \in S  BY <2>4
  <2>5. CASE 1 \notin S /\ 2 \notin S /\ 3 \notin S /\ 4 \in S  BY <2>5
  <2>6. CASE 1 \notin S /\ 2 \notin S /\ 3 \notin S /\ 4 \notin S  BY <2>1, <2>6
  <2>. QED  BY <2>2, <2>3, <2>4, <2>5, <2>6
<1>. QED  BY <1>1

LEMMA BaseDirInDir ==
  ASSUME NEW f \in [Dir -> File], NEW wd \in Dir
  PROVE  BaseDir(f, wd) \in Dir
<1> DEFINE cand == <<wd, Up(wd), Up(Up(wd)), Exe, Up(Exe), Up(Up(Exe))>>
           present == {i \in 1 .. 6 : f[cand[i]].state # "none"}
           least == CHOOSE i \in present : \A j \in present : i <= j
<1>1. \A i \in 1 .. 6 : cand[i] \in Dir  BY ConfigAssumption DEF Up
<1>2. present # {} => least \in 1 .. 6  BY LeastExists
<1>. HIDE DEF cand, least
<1>3. (IF present = {} THEN wd ELSE cand[least]) \in Dir  BY <1>1, <1>2
<1>. QED  BY <1>3 DEF BaseDir, cand, least

LEMMA FindConfigFileInFile ==
  ASSUME NEW f \in [Dir -> File], NEW base \in Dir
  PROVE  FindConfigFile(f, base) \in File
<1> DEFINE cand == <<base, Up(base), Exe, Up(Exe)>>
           sound == {i \in 1 .. 4 : f[cand[i]].state = "ok"}
           least == CHOOSE i \in sound : \A j \in sound : i <= j
<1>1. \A i \in 1 .. 4 : cand[i] \in Dir  BY ConfigAssumption DEF Up
<1>2. sound # {} => least \in 1 .. 4  BY LeastExists
<1>3. NoFile \in File  BY ConfigAssumption DEF NoFile, File, NoKeys, Unset, Text
<1>. HIDE DEF cand, least
<1>4. (IF sound = {} THEN NoFile ELSE f[cand[least]]) \in File  BY <1>1, <1>2, <1>3
<1>. QED  BY <1>4 DEF FindConfigFile, cand, least

\* The search reaches the one directory that holds a file, from anywhere.
LEMMA BaseIsTheOnlyFile ==
  ASSUME NEW f \in [Dir -> File], NEW wd \in Dir, NEW d \in ExeSearch,
         {c \in Dir : f[c].state # "none"} = {d}
  PROVE  BaseDir(f, wd) = d
<1> DEFINE cand == <<wd, Up(wd), Up(Up(wd)), Exe, Up(Exe), Up(Up(Exe))>>
           present == {i \in 1 .. 6 : f[cand[i]].state # "none"}
           least == CHOOSE i \in present : \A j \in present : i <= j
<1>1. \A i \in 1 .. 6 : cand[i] \in Dir  BY ConfigAssumption DEF Up
<1>2. \E i \in 1 .. 6 : cand[i] = d
  <2>1. cand[4] = Exe /\ cand[5] = Up(Exe) /\ cand[6] = Up(Up(Exe))  OBVIOUS
  <2>. HIDE DEF cand
  <2>. QED  BY <2>1 DEF ExeSearch
<1>3. d \in Dir /\ f[d].state # "none"  OBVIOUS
<1>4. present # {}  BY <1>2, <1>3
<1>5. least \in present  BY <1>4, LeastExists
<1>. HIDE DEF cand, least
<1>6. cand[least] = d  BY <1>1, <1>5
<1>7. (IF present = {} THEN wd ELSE cand[least]) = d  BY <1>4, <1>6
<1>. QED  BY <1>7 DEF BaseDir, cand, least

-----------------------------------------------------------------------------

\* What a loaded record knows of the moment it was loaded.
FromLoad(r) ==
  /\ r.set = Settings(r.env, r.read.keys)
  /\ \E f \in [Dir -> File], wd \in Dir : /\ r.base = BaseDir(f, wd)
                                          /\ r.at = {d \in Dir : f[d].state # "none"}
IInv == TypeOK /\ run \in [Proc -> SUBSET Loaded] /\ \A r \in Loaded : FromLoad(r)

LEMMA InitIInv == Init => IInv
<1>1. ASSUME Init PROVE IInv
  <2>1. Loaded = {}  BY <1>1 DEF Init, Loaded
  <2>2. Unset \in Text  BY ConfigAssumption DEF Unset, Text
  <2>3. NoKeys \in [Key -> Text] /\ NoFile \in File  BY <2>2 DEF NoKeys, NoFile, File
  <2>4. TypeOK  BY <1>1, <2>1, <2>3, ConfigAssumption DEF Init, TypeOK
  <2>. QED  BY <1>1, <2>1, <2>4 DEF Init, IInv
<1>. QED  BY <1>1

LEMMA LoadFromLoad ==
  ASSUME NEW e \in [Key -> Text], NEW f \in [Dir -> File], NEW wd \in Dir
  PROVE  LET r == Load(e, f, wd)
         IN /\ r.base \in Dir /\ r.env \in [Key -> Text] /\ r.at \subseteq Dir
            /\ r.read \in File /\ FromLoad(r)
<1>1. BaseDir(f, wd) \in Dir  BY BaseDirInDir
<1>2. FindConfigFile(f, BaseDir(f, wd)) \in File  BY <1>1, FindConfigFileInFile
<1>. QED  BY <1>1, <1>2 DEF Load, FromLoad

LEMMA NextIInv == IInv /\ [Next]_vars => IInv'
<1> SUFFICES ASSUME IInv, [Next]_vars PROVE IInv'  OBVIOUS
<1>. USE DEF IInv
<1>1. CASE Edit
  <2>1. Loaded' = Loaded /\ run' = run /\ focus' = focus  BY <1>1 DEF Edit, Loaded
  <2>2. edits' \in 0 .. MaxEdits  BY <1>1, ConfigAssumption DEF Edit, TypeOK
  <2>3. focus \in [keys : SUBSET Key, values : SUBSET Text, dirs : SUBSET Dir,
                   starts : SUBSET Dir]
    BY ConfigAssumption DEF TypeOK
  <2>4. NoKeys \in [Key -> Text] /\ NoFile \in File
    BY ConfigAssumption DEF NoKeys, NoFile, File, Unset, Text
  <2>5. env' \in [Key -> Text] /\ file' \in [Dir -> File]
    <3>1. ASSUME NEW k \in focus.keys, NEW x \in focus.values, EditEnv(k, x)
          PROVE  env' \in [Key -> Text] /\ file' \in [Dir -> File]
      BY <3>1, <2>3 DEF EditEnv, TypeOK
    <3>2. ASSUME NEW d \in focus.dirs, NEW k \in focus.keys, NEW x \in focus.values,
                 EditFile(d, k, x)
          PROVE  env' \in [Key -> Text] /\ file' \in [Dir -> File]
      <4>1. d \in Dir /\ k \in Key /\ x \in Text  BY <2>3
      <4>2. file[d].keys \in [Key -> Text]  BY <4>1 DEF TypeOK, File
      <4>3. [file[d].keys EXCEPT ![k] = x] \in [Key -> Text]  BY <4>1, <4>2
      <4>4. [state |-> "ok", keys |-> [file[d].keys EXCEPT ![k] = x]] \in File
        BY <4>3 DEF File
      <4>5. file' = [file EXCEPT ![d] = [state |-> "ok",
                                         keys |-> [file[d].keys EXCEPT ![k] = x]]]
        BY <3>2 DEF EditFile
      <4>. QED  BY <3>2, <4>1, <4>4, <4>5 DEF EditFile, TypeOK
    <3>3. ASSUME NEW d \in focus.dirs, SpoilFile(d)
          PROVE  env' \in [Key -> Text] /\ file' \in [Dir -> File]
      <4>1. [state |-> "malformed", keys |-> NoKeys] \in File  BY <2>4 DEF File
      <4>. QED  BY <3>3, <2>3, <4>1 DEF SpoilFile, TypeOK
    <3>4. ASSUME NEW d \in focus.dirs, RemoveFile(d)
          PROVE  env' \in [Key -> Text] /\ file' \in [Dir -> File]
      BY <3>4, <2>3, <2>4 DEF RemoveFile, TypeOK
    <3>. QED  BY <1>1, <3>1, <3>2, <3>3, <3>4 DEF Edit
  <2>6. TypeOK'  BY <2>1, <2>2, <2>5 DEF TypeOK
  <2>7. (\A r \in Loaded : FromLoad(r))'  BY <2>1
  <2>8. (run \in [Proc -> SUBSET Loaded])'  BY <2>1
  <2>. QED  BY <2>6, <2>7, <2>8
<1>2. ASSUME NEW p \in Proc, NEW wd \in focus.starts, Start(p, wd) PROVE IInv'
  <2> DEFINE new == Load(env, file, wd)
  <2>1. wd \in Dir  BY ConfigAssumption DEF TypeOK
  <2>2. \A q \in Proc : run'[q] = IF q = p THEN {new} ELSE run[q]  BY <1>2 DEF Start
  <2>3. Loaded' \subseteq Loaded \cup {new}  BY <2>2 DEF Loaded
  <2>4. /\ new.base \in Dir /\ new.env \in [Key -> Text] /\ new.at \subseteq Dir
        /\ new.read \in File /\ FromLoad(new)
    BY <2>1, LoadFromLoad DEF TypeOK
  <2>. HIDE DEF new
  <2>5. TypeOK'  BY <1>2, <2>3, <2>4 DEF Start, TypeOK
  <2>6. (\A r \in Loaded : FromLoad(r))'  BY <2>3, <2>4
  <2>7. (run \in [Proc -> SUBSET Loaded])'
    <3>1. \A q \in Proc : run'[q] \subseteq Loaded'  BY DEF Loaded
    <3>2. run' = [q \in Proc |-> run'[q]]  BY <1>2 DEF Start
    <3>. QED  BY <3>1, <3>2
  <2>. QED  BY <2>5, <2>6, <2>7
<1>3. CASE UNCHANGED vars
  <2>1. Loaded' = Loaded  BY <1>3 DEF vars, Loaded
  <2>. QED  BY <1>3, <2>1 DEF vars, TypeOK
<1>. QED  BY <1>1, <1>2, <1>3 DEF Next

\* Type correctness: loaded settings come from directories of the machine.
THEOREM ConfigTypeCorrect == Spec => []TypeOK
<1>1. IInv => TypeOK  BY DEF IInv
<1>. QED  BY InitIInv, NextIInv, <1>1, PTL DEF Spec

\* The processes agree on the spool whenever there is one config.toml.
THEOREM ConfigOneSpool == Spec => []OneConfigOneSpool
<1>1. IInv => OneConfigOneSpool
  <2> SUFFICES ASSUME IInv, NEW d \in ExeSearch, NEW r \in Loaded, NEW q \in Loaded,
                      r.at = {d}, q.at = {d}
               PROVE  r.base = q.base
    BY DEF OneConfigOneSpool
  <2>1. r.base = d  BY BaseIsTheOnlyFile DEF IInv, FromLoad
  <2>2. q.base = d  BY BaseIsTheOnlyFile DEF IInv, FromLoad
  <2>. QED  BY <2>1, <2>2
<1>. QED  BY InitIInv, NextIInv, <1>1, PTL DEF Spec

-----------------------------------------------------------------------------
(* The rules, for every value the environment and the file can hold.           *)

LEMMA Defaults ==
  /\ \A k \in DOMAIN IntDefault : IntDefault[k] \in Nat \ {0}
  /\ IntDefault["port"] \in Nat /\ MaxPort \in Nat /\ IntDefault["port"] <= MaxPort
  /\ \A k \in DOMAIN SecondsDefault : SecondsDefault[k] \in 1 .. 300
  /\ \A k \in DOMAIN IntervalDefault : IntervalDefault[k] \in 1 .. 300
<1>1. \A k \in DOMAIN IntDefault : IntDefault[k] \in Nat \ {0}
  <2>1. DOMAIN IntDefault = {"buffer_max_bytes", "batch_limit", "top_processes", "port"}
    BY DEF IntDefault
  <2>. QED  BY <2>1 DEF IntDefault
<1>2. IntDefault["port"] \in Nat /\ MaxPort \in Nat /\ IntDefault["port"] <= MaxPort
  BY DEF IntDefault, MaxPort
<1>3. \A k \in DOMAIN SecondsDefault : SecondsDefault[k] \in 1 .. 300
  <2>1. DOMAIN SecondsDefault = {"connect_timeout", "retry_seconds"}  BY DEF SecondsDefault
  <2>. QED  BY <2>1 DEF SecondsDefault
<1>4. \A k \in DOMAIN IntervalDefault : IntervalDefault[k] \in 1 .. 300
  <2>1. DOMAIN IntervalDefault = {"cpu", "memory", "disk_io", "disk_usage", "disk_physical",
          "disk_smart", "network", "gpu", "sensors", "processes", "connections", "services",
          "system", "eventlog"}
    BY DEF IntervalDefault
  <2>. QED  BY <2>1 DEF IntervalDefault
<1>. QED  BY <1>1, <1>2, <1>3, <1>4

\* Every key belongs to one kind.
LEMMA KindsDisjoint ==
  /\ DOMAIN IntDefault \cap TimeKey = {} /\ DOMAIN IntDefault \cap DOMAIN TextDefault = {}
  /\ DOMAIN SecondsDefault \cap DOMAIN IntervalDefault = {}
  /\ TimeKey \cap DOMAIN TextDefault = {} /\ TimeKey \cap OtherKey = {}
  /\ OtherKey \cap DOMAIN IntDefault = {} /\ OtherKey \cap DOMAIN TextDefault = {}
  /\ "port" \in DOMAIN IntDefault
BY DEF IntDefault, SecondsDefault, IntervalDefault, TextDefault, OtherKey, TimeKey

LEMMA DurationFits ==
  ASSUME NEW n \in Nat \ {0}, Nanoseconds(n) < Half
  PROVE  Duration(n) = Nanoseconds(n) /\ Duration(n) > 0
<1>1. Nanoseconds(n) \in Nat /\ Nanoseconds(n) > 0  BY ConfigAssumption DEF Nanoseconds
<1>. QED  BY <1>1 DEF Duration

LEMMA IntRule ==
  ASSUME NEW e \in Text, NEW t \in Text, NEW d \in Nat \ {0}
  PROVE  /\ IntSetting(e, t, d) \in Nat \ {0}
         /\ IntSetting(e, t, d) \in {Num(e), Num(t), d}
         /\ e.kind = "num" /\ e.n > 0 => IntSetting(e, t, d) = e.n
         /\ e.kind = "unset" /\ t.kind = "num" /\ t.n > 0 => IntSetting(e, t, d) = t.n
BY ConfigAssumption DEF IntSetting, Num, Text

LEMMA DefaultDuration ==
  ASSUME NEW d \in 1 .. 300
  PROVE  Nanoseconds(d) < Half /\ Nanoseconds(d) \in Nat
<1>1. Nanoseconds(d) <= Nanoseconds(300)  BY ConfigAssumption DEF Nanoseconds
<1>. QED  BY <1>1, ConfigAssumption DEF Nanoseconds

LEMMA SecondsRule ==
  ASSUME NEW e \in Text, NEW t \in Text, NEW d \in 1 .. 300
  PROVE  /\ Nanoseconds(Num(e)) < Half /\ Nanoseconds(Num(t)) < Half => SecondsSetting(e, t, d) > 0
         /\ e.kind = "num" /\ e.n > 0 /\ Nanoseconds(e.n) < Half
              => SecondsSetting(e, t, d) = Nanoseconds(e.n)
         /\ e.kind = "unset" /\ t.kind = "num" /\ t.n > 0 /\ Nanoseconds(t.n) < Half
              => SecondsSetting(e, t, d) = Nanoseconds(t.n)
<1>0. d \in Nat \ {0}  OBVIOUS
<1>1. IntSetting(e, t, d) \in Nat \ {0} /\ IntSetting(e, t, d) \in {Num(e), Num(t), d}
  BY <1>0, IntRule
<1>2. Nanoseconds(d) < Half  BY DefaultDuration
<1>3. ASSUME Nanoseconds(Num(e)) < Half, Nanoseconds(Num(t)) < Half PROVE SecondsSetting(e, t, d) > 0
  <2>1. Nanoseconds(IntSetting(e, t, d)) < Half  BY <1>1, <1>2, <1>3
  <2>. QED  BY <1>1, <2>1, DurationFits DEF SecondsSetting
<1>4. ASSUME e.kind = "num", e.n > 0, Nanoseconds(e.n) < Half
      PROVE  SecondsSetting(e, t, d) = Nanoseconds(e.n)
  <2>1. IntSetting(e, t, d) = e.n  BY <1>0, <1>4, IntRule
  <2>. QED  BY <1>1, <1>4, <2>1, DurationFits DEF SecondsSetting
<1>5. ASSUME e.kind = "unset", t.kind = "num", t.n > 0, Nanoseconds(t.n) < Half
      PROVE  SecondsSetting(e, t, d) = Nanoseconds(t.n)
  <2>1. IntSetting(e, t, d) = t.n  BY <1>0, <1>5, IntRule
  <2>. QED  BY <1>1, <1>5, <2>1, DurationFits DEF SecondsSetting
<1>. QED  BY <1>3, <1>4, <1>5

LEMMA IntervalRule ==
  ASSUME NEW e \in Text, NEW t \in Text, NEW d \in 1 .. 300
  PROVE  /\ Nanoseconds(Num(e)) < Half /\ Nanoseconds(Num(t)) < Half => IntervalSetting(e, t, d) > 0
         /\ e.kind = "num" /\ e.n > 0 /\ Nanoseconds(e.n) < Half
              => IntervalSetting(e, t, d) = Nanoseconds(e.n)
         /\ e.kind = "unset" /\ t.kind = "num" /\ t.n > 0 /\ Nanoseconds(t.n) < Half
              => IntervalSetting(e, t, d) = Nanoseconds(t.n)
<1>1. e.n \in Int /\ t.n \in Int /\ Num(e) \in Int /\ Num(t) \in Int
  BY ConfigAssumption DEF Num, Text
<1>2. Duration(d) > 0  BY DefaultDuration, DurationFits
<1>3. Num(e) > 0 /\ Nanoseconds(Num(e)) < Half
        => Duration(Num(e)) = Nanoseconds(Num(e)) /\ Duration(Num(e)) > 0
  BY <1>1, DurationFits
<1>4. Num(t) > 0 /\ Nanoseconds(Num(t)) < Half
        => Duration(Num(t)) = Nanoseconds(Num(t)) /\ Duration(Num(t)) > 0
  BY <1>1, DurationFits
<1>. HIDE DEF Duration
<1>5. IntervalSetting(e, t, d) =
        IF Num(e) > 0 /\ Duration(Num(e)) # 0 THEN Duration(Num(e))
        ELSE IF Num(t) > 0 THEN Duration(Num(t)) ELSE Duration(d)
  BY DEF IntervalSetting
<1>6. ASSUME Nanoseconds(Num(e)) < Half, Nanoseconds(Num(t)) < Half PROVE IntervalSetting(e, t, d) > 0
  BY <1>2, <1>3, <1>4, <1>5, <1>6
<1>7. ASSUME e.kind = "num", e.n > 0, Nanoseconds(e.n) < Half
      PROVE  IntervalSetting(e, t, d) = Nanoseconds(e.n)
  <2>1. Num(e) = e.n  BY <1>7 DEF Num
  <2>2. Duration(e.n) = Nanoseconds(e.n) /\ Duration(e.n) > 0  BY <1>3, <1>7, <2>1
  <2>3. Duration(e.n) # 0  BY <2>2
  <2>. QED  BY <1>5, <1>7, <2>1, <2>2, <2>3
<1>8. ASSUME e.kind = "unset", t.kind = "num", t.n > 0, Nanoseconds(t.n) < Half
      PROVE  IntervalSetting(e, t, d) = Nanoseconds(t.n)
  <2>1. Num(e) = 0 /\ Num(t) = t.n  BY <1>8 DEF Num
  <2>. QED  BY <1>4, <1>5, <1>8, <2>1
<1>. QED  BY <1>6, <1>7, <1>8

LEMMA LoadedKeys ==
  ASSUME IInv, NEW r \in Loaded
  PROVE  /\ r.set = Settings(r.env, r.read.keys)
         /\ r.env \in [Key -> Text] /\ r.read.keys \in [Key -> Text]
BY DEF IInv, FromLoad, TypeOK, File

\* What every start loads can be used, whatever the environment and file hold.
THEOREM ConfigUsable == Spec => []LoadedIsUsable
<1>1. IInv => LoadedIsUsable
  <2> SUFFICES ASSUME IInv, NEW r \in Loaded
               PROVE  /\ \A k \in DOMAIN IntDefault : r.set.int[k] > 0
                      /\ r.set.int["port"] <= MaxPort
                      /\ \A k \in DOMAIN SecondsDefault : Fits(r, k) => r.set.seconds[k] > 0
                      /\ \A k \in DOMAIN IntervalDefault : Fits(r, k) => r.set.interval[k] > 0
                      /\ r.set.psu_efficiency \in 1 .. 100
    BY DEF LoadedIsUsable
  <2> DEFINE e == r.env
             t == r.read.keys
  <2>1. r.set = Settings(e, t) /\ e \in [Key -> Text] /\ t \in [Key -> Text]  BY LoadedKeys
  <2>. HIDE DEF e, t
  <2>2. ASSUME NEW k \in DOMAIN IntDefault
        PROVE  r.set.int[k] > 0 /\ (k = "port" => r.set.int[k] <= MaxPort)
    <3>1. r.set.int[k] = IF k = "port" THEN PortSetting(e[k], t[k], IntDefault[k])
                         ELSE IntSetting(e[k], t[k], IntDefault[k])
      BY <2>1 DEF Settings
    <3>2. e[k] \in Text /\ t[k] \in Text  BY <2>1 DEF Key
    <3>3. IntSetting(e[k], t[k], IntDefault[k]) \in Nat \ {0}  BY <3>2, Defaults, IntRule
    <3>. QED  BY <3>1, <3>3, Defaults DEF PortSetting
  <2>3. ASSUME NEW k \in DOMAIN SecondsDefault, Fits(r, k) PROVE r.set.seconds[k] > 0
    <3>1. r.set.seconds[k] = SecondsSetting(e[k], t[k], SecondsDefault[k])
      BY <2>1 DEF Settings
    <3>2. e[k] \in Text /\ t[k] \in Text  BY <2>1 DEF Key
    <3>3. Nanoseconds(Num(e[k])) < Half /\ Nanoseconds(Num(t[k])) < Half  BY <2>3 DEF Fits, e, t
    <3>4. SecondsDefault[k] \in 1 .. 300  BY Defaults
    <3>5. SecondsSetting(e[k], t[k], SecondsDefault[k]) > 0  BY <3>2, <3>3, <3>4, SecondsRule
    <3>. QED  BY <3>1, <3>5
  <2>4. ASSUME NEW k \in DOMAIN IntervalDefault, Fits(r, k) PROVE r.set.interval[k] > 0
    <3>1. r.set.interval[k] = IntervalSetting(e[k], t[k], IntervalDefault[k])
      BY <2>1 DEF Settings
    <3>2. e[k] \in Text /\ t[k] \in Text  BY <2>1 DEF Key
    <3>3. Nanoseconds(Num(e[k])) < Half /\ Nanoseconds(Num(t[k])) < Half  BY <2>4 DEF Fits, e, t
    <3>4. IntervalDefault[k] \in 1 .. 300  BY Defaults
    <3>5. IntervalSetting(e[k], t[k], IntervalDefault[k]) > 0  BY <3>2, <3>3, <3>4, IntervalRule
    <3>. QED  BY <3>1, <3>5
  <2>5. r.set.psu_efficiency \in 1 .. 100
    BY <2>1 DEF Settings, Efficiency, Fraction
  <2>6. "port" \in DOMAIN IntDefault  BY DEF IntDefault
  <2>. QED  BY <2>2, <2>3, <2>4, <2>5, <2>6
<1>. QED  BY InitIInv, NextIInv, <1>1, PTL DEF Spec

\* The documented precedence, for every kind of key.
THEOREM ConfigPrecedence == Spec => []EnvironmentBeatsFile
<1>1. IInv => EnvironmentBeatsFile
  <2> SUFFICES ASSUME IInv, NEW r \in Loaded, NEW k \in Key
               PROVE  /\ Accepted(r, k, r.env[k], TRUE) => InForce(r, k, r.env[k])
                      /\ r.env[k].kind = "unset" /\ Accepted(r, k, r.read.keys[k], FALSE)
                           => InForce(r, k, r.read.keys[k])
    BY DEF EnvironmentBeatsFile
  <2> DEFINE e == r.env[k]
             t == r.read.keys[k]
             Goal == /\ Accepted(r, k, e, TRUE) => InForce(r, k, e)
                     /\ e.kind = "unset" /\ Accepted(r, k, t, FALSE) => InForce(r, k, t)
  <2>1. r.set = Settings(r.env, r.read.keys) /\ e \in Text /\ t \in Text  BY LoadedKeys
  <2>. HIDE DEF e, t
  <2>2. ASSUME k \in DOMAIN IntDefault PROVE Goal
    <3>1. k \notin DOMAIN TextDefault /\ k \notin OtherKey /\ k \notin TimeKey
      BY <2>2, KindsDisjoint
    <3>2. r.set.int[k] = IF k = "port" THEN PortSetting(e, t, IntDefault[k])
                         ELSE IntSetting(e, t, IntDefault[k])
      BY <2>1, <2>2 DEF Settings, e, t
    <3>3. /\ e.kind = "num" /\ e.n > 0 => IntSetting(e, t, IntDefault[k]) = e.n
          /\ e.kind = "unset" /\ t.kind = "num" /\ t.n > 0
               => IntSetting(e, t, IntDefault[k]) = t.n
      BY <2>1, <2>2, Defaults, IntRule
    <3>4. \A x \in Text, b \in BOOLEAN : Accepted(r, k, x, b) =>
            x.kind = "num" /\ x.n > 0 /\ (k = "port" => x.n <= MaxPort)
      BY <2>2, <3>1, ConfigAssumption DEF Accepted, Text
    <3>5. ASSUME NEW x \in Text, r.set.int[k] = x.n PROVE InForce(r, k, x)
      BY <2>2, <3>1, <3>5, KindsDisjoint DEF InForce, OtherKey, TimeKey
    <3>6. ASSUME Accepted(r, k, e, TRUE) PROVE InForce(r, k, e)
      <4>1. e.kind = "num" /\ e.n > 0 /\ (k = "port" => e.n <= MaxPort)  BY <2>1, <3>4, <3>6
      <4>2. r.set.int[k] = e.n  BY <2>1, <3>2, <3>3, <4>1, Defaults DEF PortSetting, Text
      <4>. QED  BY <2>1, <3>5, <4>2
    <3>7. ASSUME e.kind = "unset", Accepted(r, k, t, FALSE) PROVE InForce(r, k, t)
      <4>1. t.kind = "num" /\ t.n > 0 /\ (k = "port" => t.n <= MaxPort)  BY <2>1, <3>4, <3>7
      <4>2. r.set.int[k] = t.n  BY <2>1, <3>2, <3>3, <3>7, <4>1, Defaults DEF PortSetting, Text
      <4>. QED  BY <2>1, <3>5, <4>2
    <3>. QED  BY <3>6, <3>7
  <2>3. ASSUME k \in DOMAIN SecondsDefault PROVE Goal
    <3>1. /\ k \notin DOMAIN TextDefault /\ k \notin OtherKey /\ k # "port"
          /\ k \notin DOMAIN IntDefault /\ k \notin DOMAIN IntervalDefault
      BY <2>3, KindsDisjoint DEF TimeKey
    <3>2. r.set.seconds[k] = SecondsSetting(e, t, SecondsDefault[k])
      BY <2>1, <2>3 DEF Settings, e, t
    <3>3. SecondsDefault[k] \in 1 .. 300  BY <2>3, Defaults
    <3>4. \A x \in Text, b \in BOOLEAN : Accepted(r, k, x, b) =>
            x.kind = "num" /\ x.n > 0 /\ Fits(r, k)
      BY <2>3, <3>1, ConfigAssumption DEF Accepted, TimeKey, Text
    <3>5. Fits(r, k) => Nanoseconds(Num(e)) < Half /\ Nanoseconds(Num(t)) < Half  BY DEF Fits, e, t
    <3>6. ASSUME NEW x \in Text, r.set.seconds[k] = Nanoseconds(x.n) PROVE InForce(r, k, x)
      BY <2>3, <3>1, <3>6 DEF InForce, OtherKey
    <3>7. Accepted(r, k, e, TRUE) => InForce(r, k, e)
      <4>1. ASSUME Accepted(r, k, e, TRUE) PROVE Nanoseconds(e.n) < Half /\ e.kind = "num" /\ e.n > 0
        BY <2>1, <3>4, <3>5, <4>1 DEF Num
      <4>. QED  BY <2>1, <3>2, <3>3, <3>6, <4>1, SecondsRule
    <3>8. e.kind = "unset" /\ Accepted(r, k, t, FALSE) => InForce(r, k, t)
      <4>1. ASSUME Accepted(r, k, t, FALSE) PROVE Nanoseconds(t.n) < Half /\ t.kind = "num" /\ t.n > 0
        BY <2>1, <3>4, <3>5, <4>1 DEF Num
      <4>. QED  BY <2>1, <3>2, <3>3, <3>6, <4>1, SecondsRule
    <3>. QED  BY <3>7, <3>8
  <2>4. ASSUME k \in DOMAIN IntervalDefault PROVE Goal
    <3>1. /\ k \notin DOMAIN TextDefault /\ k \notin OtherKey /\ k # "port"
          /\ k \notin DOMAIN IntDefault /\ k \notin DOMAIN SecondsDefault
      BY <2>4, KindsDisjoint DEF TimeKey
    <3>2. r.set.interval[k] = IntervalSetting(e, t, IntervalDefault[k])
      BY <2>1, <2>4 DEF Settings, e, t
    <3>3. IntervalDefault[k] \in 1 .. 300  BY <2>4, Defaults
    <3>4. \A x \in Text, b \in BOOLEAN : Accepted(r, k, x, b) =>
            x.kind = "num" /\ x.n > 0 /\ Fits(r, k)
      BY <2>4, <3>1, ConfigAssumption DEF Accepted, TimeKey, Text
    <3>5. Fits(r, k) => Nanoseconds(Num(e)) < Half /\ Nanoseconds(Num(t)) < Half  BY DEF Fits, e, t
    <3>6. ASSUME NEW x \in Text, r.set.interval[k] = Nanoseconds(x.n) PROVE InForce(r, k, x)
      BY <2>4, <3>1, <3>6 DEF InForce, OtherKey
    <3>7. Accepted(r, k, e, TRUE) => InForce(r, k, e)
      <4>1. ASSUME Accepted(r, k, e, TRUE) PROVE Nanoseconds(e.n) < Half /\ e.kind = "num" /\ e.n > 0
        BY <2>1, <3>4, <3>5, <4>1 DEF Num
      <4>. QED  BY <2>1, <3>2, <3>3, <3>6, <4>1, IntervalRule
    <3>8. e.kind = "unset" /\ Accepted(r, k, t, FALSE) => InForce(r, k, t)
      <4>1. ASSUME Accepted(r, k, t, FALSE) PROVE Nanoseconds(t.n) < Half /\ t.kind = "num" /\ t.n > 0
        BY <2>1, <3>4, <3>5, <4>1 DEF Num
      <4>. QED  BY <2>1, <3>2, <3>3, <3>6, <4>1, IntervalRule
    <3>. QED  BY <3>7, <3>8
  <2>5. ASSUME k \in DOMAIN TextDefault PROVE Goal
    <3>1. /\ k \notin OtherKey /\ k \notin DOMAIN IntDefault /\ k \notin DOMAIN SecondsDefault
          /\ k \notin DOMAIN IntervalDefault
      BY <2>5, KindsDisjoint DEF TimeKey
    <3>2. r.set.text[k] = TextSetting(e, t, Unset)  BY <2>1, <2>5 DEF Settings, e, t
    <3>3. ASSUME NEW x \in Text, r.set.text[k] = x PROVE InForce(r, k, x)
      BY <2>5, <3>1, <3>3 DEF InForce, OtherKey
    <3>4. \A x \in Text, b \in BOOLEAN : Accepted(r, k, x, b) => NonBlank(x)
      BY <2>5 DEF Accepted
    <3>. QED  BY <2>1, <3>2, <3>3, <3>4 DEF TextSetting, NonBlank
  <2>6. ASSUME k \in OtherKey PROVE Goal
    <3>1. /\ k \notin DOMAIN TextDefault /\ k \notin DOMAIN IntDefault
          /\ k \notin DOMAIN SecondsDefault /\ k \notin DOMAIN IntervalDefault
      BY <2>6, KindsDisjoint DEF TimeKey
    <3>2. ASSUME k = "psu_efficiency" PROVE Goal
      <4>1. r.set.psu_efficiency = Efficiency(e, t)
        BY <2>1, <3>2 DEF Settings, e, t
      <4>2. \A x \in Text, b \in BOOLEAN : Accepted(r, k, x, b) => Fraction(x)
        BY <3>1, <3>2 DEF Accepted, Fraction
      <4>3. ASSUME NEW x \in Text, r.set.psu_efficiency = x.n PROVE InForce(r, k, x)
        BY <3>1, <3>2, <4>3 DEF InForce
      <4>4. Fraction(e) => r.set.psu_efficiency = e.n  BY <4>1 DEF Efficiency
      <4>5. e.kind = "unset" /\ Fraction(t) => r.set.psu_efficiency = t.n
        BY <4>1 DEF Efficiency, Fraction
      <4>. QED  BY <2>1, <4>2, <4>3, <4>4, <4>5
    <3>3. ASSUME k = "aux_baseline_w" PROVE Goal
      BY <2>1, <3>1, <3>3, ConfigAssumption
      DEF Accepted, InForce, Settings, Baseline, Num, Text, e, t
    <3>4. ASSUME k = "batch_sleep" PROVE Goal
      BY <2>1, <3>1, <3>4, ConfigAssumption
      DEF Accepted, InForce, Settings, BatchSleep, NonBlank, Num, Text, e, t
    <3>5. ASSUME k = "enabled" PROVE Goal
      BY <2>1, <3>1, <3>5 DEF Accepted, InForce, Settings, Enabled, e, t
    <3>6. ASSUME k \in {"gpu_idle_w", "gpu_max_w"} PROVE Goal
      BY <2>1, <3>1, <3>6 DEF Accepted, InForce, Settings, GPUModel, Watts, e, t
    <3>. QED  BY <2>6, <3>2, <3>3, <3>4, <3>5, <3>6 DEF OtherKey
  <2>7. Goal  BY <2>2, <2>3, <2>4, <2>5, <2>6 DEF Key
  <2>. QED  BY <2>7 DEF e, t
<1>. QED  BY InitIInv, NextIInv, <1>1, PTL DEF Spec
=============================================================================
