-------------------------- MODULE RetentionProofs --------------------------
(***************************************************************************)
(* Proofs about Retention, for every set of tables and rows and every      *)
(* batch limit.                                                            *)
(***************************************************************************)
EXTENDS Retention, SumLemmas

\* Counting some rows gives a number.
LEMMA RowsCount ==
  ASSUME NEW S \in SUBSET Row
  PROVE  Cardinality(S) \in Nat
BY FS_Subset, FS_CardinalityType, RetentionAssumption

LEMMA TypingInit == Init => TypeOK
<1> SUFFICES ASSUME Init PROVE TypeOK
  OBVIOUS
<1> QED BY RetentionAssumption DEF Init, TypeOK

LEMMA TypingStep == TypeOK /\ [Next]_vars => TypeOK'
<1> SUFFICES ASSUME TypeOK, [Next]_vars PROVE TypeOK'
  OBVIOUS
<1> USE RetentionAssumption
<1>1. ASSUME NEW p \in Run, Disabled(p) PROVE TypeOK'
  BY <1>1 DEF Disabled, TypeOK
<1>2. ASSUME NEW p \in Run, Begin(p) PROVE TypeOK'
  BY <1>2 DEF Begin, TypeOK
<1>3. ASSUME NEW p \in Run, NEW t \in Table, Count(p, t) PROVE TypeOK'
  <2>1. Cardinality(Old(t)) \in Nat
    BY RowsCount DEF Old
  <2> QED BY <1>3, <2>1 DEF Count, TypeOK
<1>4. ASSUME NEW p \in Run, NEW t \in Table, CountFails(p, t) PROVE TypeOK'
  BY <1>4 DEF CountFails, TypeOK
<1>5. ASSUME NEW p \in Run, NEW t \in Table, StartTable(p, t) PROVE TypeOK'
  BY <1>5 DEF StartTable, TypeOK
<1>6. ASSUME NEW p \in Run, Select(p) PROVE TypeOK'
  BY <1>6 DEF Select, TypeOK, Old
<1>7. ASSUME NEW p \in Run, Delete(p) PROVE TypeOK'
  <2>1. Counted(p) \in Nat
    BY RowsCount DEF Counted, TypeOK
  <2>2. at[p] \in Table
    BY <1>7 DEF Delete, TypeOK
  <2>3. total' \in [Run -> [Table -> Nat]]
    <3>1. total[p][at[p]] + Counted(p) \in Nat
      BY <2>1, <2>2 DEF TypeOK
    <3> QED BY <1>7, <2>2, <3>1 DEF Delete, TypeOK
  <2>4. state' \in [Row -> {"none", "young", "old", "deleted"}]
    BY <1>7 DEF Delete, TypeOK
  <2>5. /\ UNCHANGED <<dry, enabled, todo, late, stray, unanswered, due, faults>>
        /\ picked' \in [Run -> SUBSET Row]
    BY <1>7 DEF Delete, TypeOK
  <2>6. CASE More(Counted(p))
    <3>1. pc' = [pc EXCEPT ![p] = "select"] /\ at' = at
      BY <1>7, <2>6 DEF Delete
    <3>2. \A q \in Run : at'[q] # NoTable <=> pc'[q] \in {"select", "delete"}
      BY <2>2, <3>1 DEF TypeOK
    <3> QED BY <2>3, <2>4, <2>5, <3>1, <3>2 DEF TypeOK
  <2>7. CASE ~More(Counted(p))
    <3>1. pc' = [pc EXCEPT ![p] = "tables"] /\ at' = [at EXCEPT ![p] = NoTable]
      BY <1>7, <2>7 DEF Delete, Leave
    <3>2. \A q \in Run : at'[q] # NoTable <=> pc'[q] \in {"select", "delete"}
      BY <3>1 DEF TypeOK
    <3> QED BY <2>3, <2>4, <2>5, <3>1, <3>2 DEF TypeOK
  <2> QED BY <2>6, <2>7
<1>8. ASSUME NEW p \in Run, DeleteFails(p) PROVE TypeOK'
  BY <1>8 DEF DeleteFails, Leave, TypeOK
<1>9. ASSUME NEW p \in Run, Return(p) PROVE TypeOK'
  BY <1>9 DEF Return, TypeOK
<1>10. ASSUME NEW p \in Run, Deadline(p) PROVE TypeOK'
  BY <1>10 DEF Deadline, TypeOK
<1>11. ASSUME NEW r \in Row, GrowOld(r) \/ \E s \in {"young", "old"} : InsertRow(r, s)
       PROVE  TypeOK'
  <2>1. PICK s \in {"young", "old"} : state' = [state EXCEPT ![r] = s]
    BY <1>11 DEF GrowOld, InsertRow
  <2>2. state' \in [Row -> {"none", "young", "old", "deleted"}]
    BY <2>1 DEF TypeOK
  <2> QED BY <1>11, <2>2 DEF GrowOld, InsertRow, TypeOK
<1>12. ASSUME NEW S \in stray, StrayDelete(S) PROVE TypeOK'
  BY <1>12 DEF StrayDelete, TypeOK
<1>13. CASE UNCHANGED vars
  BY <1>13 DEF vars, TypeOK
<1> QED BY <1>1, <1>2, <1>3, <1>4, <1>5, <1>6, <1>7, <1>8, <1>9, <1>10,
           <1>11, <1>12, <1>13 DEF Next, Step

\* Every reachable state is type-correct: totals are numbers of rows.
THEOREM RetentionTypeCorrect == Spec => []TypeOK
BY TypingInit, TypingStep, PTL DEF Spec

-----------------------------------------------------------------------------
(* A run without faults beside which no other deletes.  What it found old  *)
(* is deleted or still ahead of it, and a statement that picked fewer rows *)
(* than a batch picked them all.                                           *)

Ahead(p) ==
  \A r \in due[p] :
    \/ TableOf[r] \in todo[p] \cup {at[p]}
    \/ state[r] = "deleted"

PickedAll(p) ==
  /\ picked[p] \subseteq Old(at[p])
  /\ Cardinality(picked[p]) < BatchLimit =>
       \A r \in due[p] : TableOf[r] = at[p] => r \in picked[p] \/ state[r] = "deleted"

RunInv(p) ==
  /\ \A r \in due[p] : state[r] \in {"old", "deleted"}
  /\ dry[p] => pc[p] \notin {"select", "delete"}
  /\ pc[p] = "ok" => todo[p] = {}
  /\ Undisturbed(p) =>
       /\ ~late[p]
       /\ ~dry[p] /\ pc[p] \in {"tables", "select", "delete", "ok"} => Ahead(p)
       /\ pc[p] = "delete" => PickedAll(p)

\* Without a fault no statement was given up.
NothingStray == faults = 0 => stray = {} /\ \A p \in Run : ~late[p]

CleanInv == TypeOK /\ NothingStray /\ \A p \in Run : RunInv(p)

\* Steps of the run itself.
LEMMA OwnStep ==
  ASSUME NEW p \in Run, CleanInv, TypeOK', Step(p) \/ Deadline(p)
  PROVE  RunInv(p)'
<1> USE RetentionAssumption
<1>1. TypeOK /\ RunInv(p)
  BY DEF CleanInv
<1>2. CASE Disabled(p)
  BY <1>1, <1>2 DEF Disabled, TypeOK, RunInv, Undisturbed
<1>3. CASE Begin(p)
  BY <1>1, <1>3 DEF Begin, TypeOK, RunInv, Ahead, Undisturbed
<1>4. ASSUME NEW t \in Table, Count(p, t) PROVE RunInv(p)'
  BY <1>1, <1>4 DEF Count, TypeOK, RunInv, Undisturbed
<1>5. ASSUME NEW t \in Table, CountFails(p, t) PROVE RunInv(p)'
  BY <1>1, <1>5 DEF CountFails, TypeOK, RunInv, Undisturbed
<1>6. ASSUME NEW t \in Table, StartTable(p, t) PROVE RunInv(p)'
  BY <1>1, <1>6 DEF StartTable, TypeOK, RunInv, Ahead, Undisturbed
<1>7. CASE Select(p)
  <2>1. PICK S \in SUBSET Old(at[p]) :
          /\ Cardinality(S) = BatchLimit \/ S = Old(at[p])
          /\ picked' = [picked EXCEPT ![p] = S]
    BY <1>7 DEF Select
  <2>2. /\ picked'[p] = S
        /\ pc' = [pc EXCEPT ![p] = "delete"]
        /\ UNCHANGED <<state, at, due, todo, dry, late, faults>>
    BY <1>1, <1>7, <2>1 DEF Select, TypeOK
  <2>3. PickedAll(p)'
    <3>1. S \subseteq Old(at[p])'
      BY <2>2 DEF Old
    <3>2. ASSUME Cardinality(S) < BatchLimit, NEW r \in due[p], TableOf[r] = at[p],
                 state[r] # "deleted"
          PROVE  r \in S
      <4>1. S = Old(at[p])
        BY <2>1, <3>2
      <4> QED BY <4>1, <3>2, <1>1 DEF Old, RunInv, TypeOK
    <3> QED BY <2>2, <3>1, <3>2 DEF PickedAll
  <2> QED BY <1>1, <1>7, <2>2, <2>3 DEF RunInv, Ahead, Select, Undisturbed, TypeOK
<1>8. CASE Delete(p)
  <2>1. /\ \A r \in Row : state'[r] = IF r \in picked[p] THEN "deleted" ELSE state[r]
        /\ UNCHANGED <<dry, enabled, todo, late, due, faults>>
        /\ due[p] \subseteq Row /\ ~dry[p]
        /\ \A q \in Run \ {p} : pc'[q] = pc[q]
        /\ pc'[p] \in {"select", "tables"}
    BY <1>1, <1>8 DEF Delete, Leave, TypeOK, RunInv
  <2>2. Undisturbed(p)' => Undisturbed(p)
    BY <2>1 DEF Undisturbed
  <2>3. SUFFICES ASSUME Undisturbed(p) PROVE Ahead(p)'
    BY <1>1, <2>1, <2>2 DEF RunInv
  <2>4. PickedAll(p) /\ picked[p] \subseteq Row /\ Ahead(p)
    BY <1>1, <1>8, <2>1, <2>3 DEF Delete, RunInv, TypeOK
  <2>5. {r \in picked[p] : state[r] = "old"} = picked[p]
    BY <2>4 DEF PickedAll, Old
  <2>6. Counted(p) = Cardinality(picked[p]) /\ Counted(p) \in Nat
    BY <2>4, <2>5, RowsCount DEF Counted
  <2>7. CASE More(Counted(p))
    BY <1>8, <2>1, <2>4, <2>7 DEF Delete, Ahead
  <2>8. CASE ~More(Counted(p))
    <3>1. \A r \in due[p] : TableOf[r] = at[p] => r \in picked[p] \/ state[r] = "deleted"
      BY <2>4, <2>6, <2>8 DEF More, PickedAll
    <3> QED BY <2>1, <2>4, <3>1 DEF Ahead
  <2> QED BY <2>7, <2>8
<1>9. CASE DeleteFails(p)
  BY <1>1, <1>9 DEF DeleteFails, Leave, TypeOK, RunInv, Undisturbed
<1>10. CASE Return(p)
  BY <1>1, <1>10 DEF Return, TypeOK, RunInv, Ahead, Undisturbed
<1>11. CASE Deadline(p)
  BY <1>1, <1>11 DEF Deadline, TypeOK, RunInv, Undisturbed
<1> QED BY <1>2, <1>3, <1>4, <1>5, <1>6, <1>7, <1>8, <1>9, <1>10, <1>11 DEF Step

\* Steps of another run q: it leaves p's place alone, and if it deletes then
\* p is not undisturbed.
LEMMA OtherStep ==
  ASSUME NEW p \in Run, NEW q \in Run, q # p, CleanInv, TypeOK', Step(q) \/ Deadline(q)
  PROVE  RunInv(p)'
<1> USE RetentionAssumption
<1>1. TypeOK /\ RunInv(p) /\ RunInv(q)
  BY DEF CleanInv
<1> DEFINE Kept ==
  /\ UNCHANGED <<dry, due[p], pc[p], todo[p], at[p], picked[p], late[p]>>
  /\ \A o \in Run \ {q} : pc'[o] = pc[o]
<1> DEFINE Reading ==
  /\ UNCHANGED state
  /\ faults' = 0 => faults = 0
  /\ pc'[q] \in {"start", "off"} => pc[q] \in {"start", "off"}
<1>2. SUFFICES ASSUME Kept, Reading \/ Delete(q) PROVE RunInv(p)'
  <2> USE <1>1 DEF TypeOK
  <2>1. CASE Disabled(q) BY <2>1, <1>2 DEF Disabled
  <2>2. CASE Begin(q) BY <2>2, <1>2 DEF Begin
  <2>3. ASSUME NEW t \in Table, Count(q, t) PROVE RunInv(p)'
    BY <2>3, <1>2 DEF Count
  <2>4. ASSUME NEW t \in Table, CountFails(q, t) PROVE RunInv(p)'
    BY <2>4, <1>2 DEF CountFails
  <2>5. ASSUME NEW t \in Table, StartTable(q, t) PROVE RunInv(p)'
    BY <2>5, <1>2 DEF StartTable
  <2>6. CASE Select(q) BY <2>6, <1>2 DEF Select
  <2>7. CASE Delete(q) BY <2>7, <1>2 DEF Delete, Leave
  <2>8. CASE DeleteFails(q) BY <2>8, <1>2 DEF DeleteFails, Leave
  <2>9. CASE Return(q) BY <2>9, <1>2 DEF Return
  <2>10. CASE Deadline(q)
    <3>1. faults' # 0
      BY <2>10 DEF Deadline
    <3>2. Kept /\ UNCHANGED <<state, pc>>
      BY <2>10 DEF Deadline
    <3> QED BY <3>1, <3>2, <1>2
  <2> QED BY <2>1, <2>2, <2>3, <2>4, <2>5, <2>6, <2>7, <2>8, <2>9, <2>10 DEF Step
<1>3. CASE Reading
  <2>1. ASSUME Undisturbed(p)' PROVE Undisturbed(p)
    <3>1. faults = 0
      BY <1>3, <2>1 DEF Undisturbed
    <3>2. ASSUME NEW o \in Run \ {p} PROVE dry[o] \/ pc[o] \in {"start", "off"}
      <4>1. dry'[o] \/ pc'[o] \in {"start", "off"}
        BY <2>1 DEF Undisturbed
      <4>2. pc'[o] \in {"start", "off"} => pc[o] \in {"start", "off"}
        BY <1>2, <1>3
      <4> QED BY <4>1, <4>2, <1>2
    <3> QED BY <3>1, <3>2 DEF Undisturbed
  <2> QED BY <1>1, <1>2, <1>3, <2>1 DEF RunInv, Ahead, PickedAll, Old
<1>4. CASE Delete(q)
  <2>1. /\ \A r \in Row : state'[r] \in {state[r], "deleted"}
        /\ pc'[q] \in {"select", "tables"} /\ pc[q] = "delete"
    BY <1>1, <1>4 DEF Delete, Leave, TypeOK
  <2>2. ~Undisturbed(p)'
    BY <1>1, <1>2, <2>1 DEF RunInv, Undisturbed
  <2> QED BY <1>1, <1>2, <2>1, <2>2 DEF RunInv, TypeOK
<1> QED BY <1>2, <1>3, <1>4

\* Rows arrive or grow old: what a run found old stays old, and what its
\* subselect picked stays picked.
LEMMA RowStep ==
  ASSUME NEW p \in Run, CleanInv, TypeOK', NEW r \in Row,
         GrowOld(r) \/ \E s \in {"young", "old"} : InsertRow(r, s)
  PROVE  RunInv(p)'
<1>1. /\ TypeOK /\ RunInv(p)
      /\ state[r] \in {"none", "young"}
      /\ \A x \in Row \ {r} : state'[x] = state[x]
      /\ UNCHANGED <<pc, dry, enabled, todo, at, picked, total, late, due, faults>>
  BY DEF CleanInv, GrowOld, InsertRow, TypeOK
<1>2. due[p] \subseteq Row \ {r}
  BY <1>1 DEF RunInv, TypeOK
<1>3. PickedAll(p) => PickedAll(p)'
  BY <1>1, <1>2 DEF PickedAll, Old, TypeOK
<1> QED BY <1>1, <1>2, <1>3 DEF RunInv, Ahead, Undisturbed

\* A statement given up is completed: there was a fault, and rows that are
\* deleted stay so.
LEMMA StrayStep ==
  ASSUME NEW p \in Run, CleanInv, NEW S \in stray, StrayDelete(S)
  PROVE  RunInv(p)'
<1>1. /\ TypeOK /\ RunInv(p) /\ faults # 0
      /\ \A r \in Row : state'[r] \in {state[r], "deleted"}
      /\ UNCHANGED <<pc, dry, todo, at, picked, late, due, faults>>
  BY DEF CleanInv, NothingStray, StrayDelete, TypeOK
<1>2. ~Undisturbed(p)'
  BY <1>1 DEF Undisturbed
<1> QED BY <1>1, <1>2 DEF RunInv, TypeOK

LEMMA StrayIsFault ==
  ASSUME TypeOK, NothingStray, [Next]_vars
  PROVE  NothingStray'
<1> USE RetentionAssumption
<1>1. ASSUME NEW p \in Run, Step(p) \/ Deadline(p) PROVE NothingStray'
  <2>1. CASE DeleteFails(p)
    <3>1. faults' # 0
      BY <2>1 DEF DeleteFails, NothingStray, TypeOK
    <3> QED BY <3>1 DEF NothingStray
  <2>2. CASE Deadline(p)
    <3>1. faults' # 0
      BY <2>2 DEF Deadline, TypeOK
    <3> QED BY <3>1 DEF NothingStray
  <2>3. ASSUME NEW t \in Table, CountFails(p, t) PROVE NothingStray'
    <3>1. faults' # 0
      BY <2>3 DEF CountFails, NothingStray, TypeOK
    <3> QED BY <3>1 DEF NothingStray
  <2>4. CASE UNCHANGED <<stray, late, faults>>
    BY <2>4 DEF NothingStray
  <2> QED BY <1>1, <2>1, <2>2, <2>3, <2>4
          DEF Step, Disabled, Begin, Count, StartTable, Select, Delete, Return
<1>2. ASSUME NEW S \in stray, StrayDelete(S) PROVE NothingStray'
  BY <1>2 DEF StrayDelete, NothingStray
<1>3. ASSUME NEW r \in Row, GrowOld(r) \/ \E s \in {"young", "old"} : InsertRow(r, s)
      PROVE  NothingStray'
  BY <1>3 DEF GrowOld, InsertRow, NothingStray
<1>4. CASE UNCHANGED vars
  BY <1>4 DEF vars, NothingStray
<1> QED BY <1>1, <1>2, <1>3, <1>4 DEF Next

LEMMA CleanInit == Init => CleanInv
<1> SUFFICES ASSUME Init, NEW p \in Run PROVE RunInv(p)
  BY TypingInit DEF CleanInv, NothingStray, Init
<1> QED BY DEF Init, RunInv

LEMMA CleanStep == CleanInv /\ [Next]_vars => CleanInv'
<1> SUFFICES ASSUME CleanInv, [Next]_vars, NEW p \in Run PROVE RunInv(p)'
  BY TypingStep, StrayIsFault DEF CleanInv
<1>1. TypeOK'
  BY TypingStep DEF CleanInv
<1>2. CASE UNCHANGED vars
  BY <1>2 DEF CleanInv, vars, RunInv, Ahead, PickedAll, Old, Undisturbed
<1> QED BY <1>1, <1>2, OwnStep, OtherStep, StrayStep, RowStep DEF Next

\* For any tables, rows and batch limit, a run without faults beside which no
\* other deletes leaves nothing behind that was old when it began: the loop of
\* RunRetention ends a table neither too early nor for rows that arrived late.
THEOREM UndisturbedRunCleansUp == Spec => []UndisturbedRunCleans
<1>1. CleanInv => UndisturbedRunCleans
  <2> SUFFICES ASSUME CleanInv, NEW p \in Run, pc[p] = "ok", ~dry[p], Undisturbed(p),
                      NEW r \in due[p]
               PROVE  state[r] = "deleted"
    BY DEF UndisturbedRunCleans
  <2>1. TypeOK /\ RunInv(p)
    BY DEF CleanInv
  <2>2. r \in Row /\ TableOf[r] \in Table /\ at[p] = NoTable
    BY <2>1, RetentionAssumption DEF TypeOK
  <2> QED BY <2>1, <2>2, RetentionAssumption DEF RunInv, Ahead
<1> QED BY <1>1, CleanInit, CleanStep, PTL DEF Spec

-----------------------------------------------------------------------------
(* The totals of all runs.  What makes them right: a statement deletes     *)
(* rows of the run's table only, each of them old or deleted by another    *)
(* run since it was picked, and counts the ones it found.  Those of a      *)
(* statement that was given up are old or deleted too, and what it deletes *)
(* is neither counted nor taken for counted.                               *)

PickedOfTable(p) ==
  /\ dry[p] => pc[p] \notin {"select", "delete"}
  /\ \A r \in picked[p] : TableOf[r] = at[p] /\ state[r] \in {"old", "deleted"}

StrayOld ==
  /\ \A S \in stray : \A r \in S : state[r] \in {"old", "deleted"}
  /\ \A r \in unanswered : state[r] = "deleted"

TotalsInv == TypeOK /\ TotalsAreDeletions /\ StrayOld /\ \A p \in Run : PickedOfTable(p)

Deleted(t) == {r \in Row : TableOf[r] = t /\ state[r] = "deleted"} \ unanswered
Reported(t) == [p \in Run |-> IF dry[p] THEN 0 ELSE total[p][t]]

\* The sum of what is reported of a table does not change as long as the totals
\* of real runs and the rows deleted with an answer do not.
LEMMA SameTotals ==
  ASSUME TotalsAreDeletions, UNCHANGED dry,
         \A p \in Run : ~dry[p] => total'[p] = total[p],
         \A r \in Row : (state'[r] = "deleted" /\ r \notin unanswered')
                          <=> (state[r] = "deleted" /\ r \notin unanswered)
  PROVE  TotalsAreDeletions'
<1> SUFFICES ASSUME NEW t \in Table
             PROVE  SumFunction(Reported(t)') = Cardinality(Deleted(t)')
  BY DEF TotalsAreDeletions, Reported, Deleted
<1>1. Reported(t)' = Reported(t)
  BY DEF Reported
<1>2. Deleted(t)' = Deleted(t)
  BY DEF Deleted
<1> QED BY <1>1, <1>2 DEF TotalsAreDeletions, Reported, Deleted

LEMMA TotalsInit == Init => TotalsInv
<1> SUFFICES ASSUME Init PROVE TotalsInv
  OBVIOUS
<1>1. TotalsAreDeletions
  <2> SUFFICES ASSUME NEW t \in Table
               PROVE  SumFunction(Reported(t)) = Cardinality(Deleted(t))
    BY DEF TotalsAreDeletions, Reported, Deleted
  <2>1. Deleted(t) = {}
    BY DEF Init, Deleted
  <2>2. DOMAIN Reported(t) = Run /\ \A p \in Run : Reported(t)[p] = 0
    BY DEF Init, Reported
  <2>3. SumFunction(Reported(t)) = 0
    BY <2>2, SumOfZeros, RetentionAssumption DEF SumFunction
  <2> QED BY <2>1, <2>3, FS_EmptySet
<1>2. \A p \in Run : PickedOfTable(p)
  BY DEF Init, PickedOfTable
<1>3. StrayOld
  BY DEF Init, StrayOld
<1> QED BY <1>1, <1>2, <1>3, TypingInit DEF TotalsInv

\* A DELETE adds to the totals what it deletes.
LEMMA DeleteTotals ==
  ASSUME TotalsInv, NEW p \in Run, Delete(p)
  PROVE  TotalsAreDeletions'
<1> USE RetentionAssumption
<1> DEFINE n == Counted(p)
           gone == {r \in picked[p] : state[r] = "old"}
<1>1. /\ TypeOK /\ ~dry[p] /\ at[p] \in Table /\ picked[p] \subseteq Row
      /\ \A r \in picked[p] : TableOf[r] = at[p] /\ state[r] \in {"old", "deleted"}
      /\ \A r \in unanswered : state[r] = "deleted"
  BY DEF TotalsInv, StrayOld, PickedOfTable, TypeOK, Delete
<1>2. n \in Nat /\ n = Cardinality(gone)
  BY <1>1, RowsCount DEF Counted
<1>3. /\ state' = [r \in Row |-> IF r \in picked[p] THEN "deleted" ELSE state[r]]
      /\ total' = [total EXCEPT ![p][at[p]] = @ + n]
      /\ dry' = dry /\ unanswered' = unanswered
  BY DEF Delete
<1> SUFFICES ASSUME NEW t \in Table
             PROVE  SumFunction(Reported(t)') = Cardinality(Deleted(t)')
  BY DEF TotalsAreDeletions, Reported, Deleted
<1>4. SumFunction(Reported(t)) = Cardinality(Deleted(t))
  BY DEF TotalsInv, TotalsAreDeletions, Reported, Deleted
<1> HIDE DEF n
<1>5. CASE t # at[p]
  <2>1. Reported(t)' = Reported(t)
    BY <1>1, <1>3, <1>5 DEF Reported, TypeOK
  <2>2. Deleted(t)' = Deleted(t)
    BY <1>1, <1>3, <1>5 DEF Deleted
  <2> QED BY <1>4, <2>1, <2>2
<1>6. CASE t = at[p]
  <2>1. /\ Reported(t) \in [Run -> Nat]
        /\ DOMAIN Reported(t)' = Run
        /\ Reported(t)'[p] = Reported(t)[p] + n
        /\ \A q \in Run \ {p} : Reported(t)'[q] = Reported(t)[q]
    BY <1>1, <1>2, <1>3, <1>6 DEF Reported, TypeOK
  <2>2. SumFunctionOnSet(Reported(t)', Run) = SumFunctionOnSet(Reported(t), Run) + n
    <3> DEFINE f == Reported(t)
               g == Reported(t)'
    <3>1. /\ \A q \in Run : f[q] \in Nat
          /\ g[p] = f[p] + n /\ \A q \in Run \ {p} : g[q] = f[q]
      BY <2>1
    <3> HIDE DEF f, g
    <3>2. SumFunctionOnSet(g, Run) = SumFunctionOnSet(f, Run) + n
      BY <1>2, <3>1, SumUpdate
    <3> QED BY <3>2 DEF f, g
  <2>3. SumFunction(Reported(t)') = SumFunction(Reported(t)) + n
    BY <2>1, <2>2 DEF SumFunction, Reported
  <2>4. Deleted(t)' = Deleted(t) \cup gone /\ Deleted(t) \cap gone = {}
    BY <1>1, <1>3, <1>6 DEF Deleted
  <2>5. IsFiniteSet(Deleted(t)) /\ IsFiniteSet(gone)
    BY <1>1, FS_Subset DEF Deleted
  <2>6. Cardinality(Deleted(t) \cup gone) = Cardinality(Deleted(t)) + Cardinality(gone)
    <3> HIDE DEF gone
    <3>1. Cardinality(Deleted(t) \cap gone) = 0
      BY <2>4, FS_EmptySet
    <3>2. Cardinality(Deleted(t)) \in Nat /\ Cardinality(gone) \in Nat
      BY <2>5, FS_CardinalityType
    <3> QED BY <2>5, <3>1, <3>2, FS_Union
  <2> QED BY <1>2, <1>4, <2>3, <2>4, <2>6
<1> QED BY <1>5, <1>6

LEMMA TotalsStep == TotalsInv /\ [Next]_vars => TotalsInv'
<1> SUFFICES ASSUME TotalsInv, [Next]_vars
             PROVE  TotalsAreDeletions' /\ StrayOld' /\ \A o \in Run : PickedOfTable(o)'
  BY TypingStep DEF TotalsInv
<1> USE RetentionAssumption
<1>1. /\ TypeOK /\ TotalsAreDeletions /\ StrayOld
      /\ \A o \in Run : PickedOfTable(o) /\ (at[o] # NoTable <=> pc[o] \in {"select", "delete"})
      /\ \A o \in Run : picked[o] \subseteq Row
      /\ \A o \in Run : at[o] = NoTable => picked[o] = {}
  BY DEF TotalsInv, TypeOK, PickedOfTable
<1> DEFINE Kept == /\ UNCHANGED <<dry, state, stray, unanswered>>
                   /\ \A o \in Run : ~dry[o] => total'[o] = total[o]
<1>2. ASSUME Kept PROVE TotalsAreDeletions' /\ StrayOld'
  BY <1>1, <1>2, SameTotals DEF StrayOld
<1>3. ASSUME NEW p \in Run, Disabled(p) \/ Begin(p) \/ Return(p) \/ Deadline(p)
      PROVE  Kept /\ \A o \in Run : PickedOfTable(o)'
  BY <1>1, <1>3 DEF Disabled, Begin, Return, Deadline, PickedOfTable, TypeOK
<1>4. ASSUME NEW p \in Run, NEW t \in Table, Count(p, t) \/ CountFails(p, t)
      PROVE  Kept /\ \A o \in Run : PickedOfTable(o)'
  BY <1>1, <1>4 DEF Count, CountFails, PickedOfTable, TypeOK
<1>5. ASSUME NEW p \in Run, NEW t \in Table, StartTable(p, t)
      PROVE  Kept /\ \A o \in Run : PickedOfTable(o)'
  <2>1. picked[p] = {}
    BY <1>1, <1>5 DEF StartTable
  <2> QED BY <1>1, <1>5, <2>1 DEF StartTable, PickedOfTable, TypeOK
<1>6. ASSUME NEW p \in Run, Select(p)
      PROVE  Kept /\ \A o \in Run : PickedOfTable(o)'
  BY <1>1, <1>6 DEF Select, Old, PickedOfTable, TypeOK
<1>7. ASSUME NEW p \in Run, Delete(p)
      PROVE  TotalsAreDeletions' /\ StrayOld' /\ \A o \in Run : PickedOfTable(o)'
  <2>1. TotalsAreDeletions'
    BY <1>7, DeleteTotals
  <2>2. /\ picked' = [picked EXCEPT ![p] = {}]
        /\ \A r \in Row : state'[r] \in {state[r], "deleted"}
        /\ UNCHANGED <<dry, stray, unanswered>> /\ ~dry[p]
        /\ \A o \in Run \ {p} : at'[o] = at[o] /\ pc'[o] = pc[o]
    BY <1>1, <1>7 DEF Delete, Leave, PickedOfTable, TypeOK
  <2>3. ASSUME NEW o \in Run PROVE PickedOfTable(o)'
    <3>1. CASE o = p
      BY <1>1, <2>2, <3>1 DEF PickedOfTable, TypeOK
    <3>2. CASE o # p
      BY <1>1, <2>2, <3>2 DEF PickedOfTable, TypeOK
    <3> QED BY <3>1, <3>2
  <2>4. StrayOld'
    BY <1>1, <2>2 DEF StrayOld, TypeOK
  <2> QED BY <2>1, <2>3, <2>4
<1>8. ASSUME NEW p \in Run, DeleteFails(p)
      PROVE  TotalsAreDeletions' /\ StrayOld' /\ \A o \in Run : PickedOfTable(o)'
  <2>1. UNCHANGED <<state, dry, total, unanswered>>
    BY <1>8 DEF DeleteFails
  <2>2. \A r \in picked[p] : state[r] \in {"old", "deleted"}
    BY <1>1 DEF PickedOfTable
  <2>3. StrayOld'
    BY <1>1, <1>8, <2>1, <2>2 DEF DeleteFails, StrayOld
  <2>4. TotalsAreDeletions'
    BY <1>1, <2>1, SameTotals
  <2>5. \A o \in Run : PickedOfTable(o)'
    BY <1>1, <1>8 DEF DeleteFails, Leave, PickedOfTable, TypeOK
  <2> QED BY <2>3, <2>4, <2>5
<1>9. ASSUME NEW r \in Row, GrowOld(r) \/ \E s \in {"young", "old"} : InsertRow(r, s)
      PROVE  TotalsAreDeletions' /\ StrayOld' /\ \A o \in Run : PickedOfTable(o)'
  <2>1. /\ state[r] \in {"none", "young"} /\ state'[r] \in {"young", "old"}
        /\ \A x \in Row \ {r} : state'[x] = state[x]
        /\ UNCHANGED <<pc, dry, at, picked, total, stray, unanswered>>
    BY <1>1, <1>9 DEF GrowOld, InsertRow, TypeOK
  <2>2. TotalsAreDeletions'
    BY <1>1, <2>1, SameTotals
  <2>3. \A o \in Run : PickedOfTable(o)'
    BY <1>1, <2>1 DEF PickedOfTable
  <2>4. StrayOld'
    BY <1>1, <2>1 DEF StrayOld, TypeOK
  <2> QED BY <2>2, <2>3, <2>4
<1>10. ASSUME UNCHANGED vars
       PROVE  Kept /\ \A o \in Run : PickedOfTable(o)'
  BY <1>1, <1>10 DEF vars, PickedOfTable
<1>11. ASSUME NEW S \in stray, StrayDelete(S)
       PROVE  TotalsAreDeletions' /\ StrayOld' /\ \A o \in Run : PickedOfTable(o)'
  <2>1. /\ S \subseteq Row
        /\ \A r \in Row : state'[r] = IF r \in S THEN "deleted" ELSE state[r]
        /\ unanswered' = unanswered \cup {r \in S : state[r] = "old"}
        /\ stray' \subseteq stray
        /\ UNCHANGED <<pc, dry, at, picked, total>>
    BY <1>1, <1>11 DEF StrayDelete, TypeOK
  <2>2. \A r \in S : state[r] \in {"old", "deleted"}
    BY <1>1 DEF StrayOld
  <2>3. \A r \in Row : (state'[r] = "deleted" /\ r \notin unanswered')
                         <=> (state[r] = "deleted" /\ r \notin unanswered)
    BY <2>1, <2>2
  <2>4. TotalsAreDeletions'
    BY <1>1, <2>1, <2>3, SameTotals
  <2>5. StrayOld'
    BY <1>1, <2>1, <2>2 DEF StrayOld, TypeOK
  <2>6. \A o \in Run : PickedOfTable(o)'
    BY <1>1, <2>1 DEF PickedOfTable
  <2> QED BY <2>4, <2>5, <2>6
<1> HIDE DEF Kept
<1> QED BY <1>2, <1>3, <1>4, <1>5, <1>6, <1>7, <1>8, <1>9, <1>10, <1>11 DEF Next, Step

\* For any tables, rows, runs and batch limit, however runs overlap and fail:
\* the totals that the runs which delete report for a table add up to the rows
\* that are gone from it, but for those of statements PostgreSQL completed after
\* their run had got an error, whether the answer was lost, the connection
\* dropped or the deadline came first.
THEOREM ReportedIsDeleted == Spec => []TotalsAreDeletions
<1>1. TotalsInv => TotalsAreDeletions
  BY DEF TotalsInv
<1> QED BY <1>1, TotalsInit, TotalsStep, PTL DEF Spec
=============================================================================
