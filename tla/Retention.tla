----------------------------- MODULE Retention -----------------------------
(***************************************************************************)
(* Store.RunRetention (go/internal/db/db.go) as runRetention of            *)
(* go/cmd/monitor/main.go runs it: table after table, DELETE statements of *)
(* at most RetentionBatch rows until one deletes fewer, or a count in a    *)
(* dry run.  Meanwhile rows are inserted, some of them old already because *)
(* they waited in the spool, and rows grow old.                            *)
(*                                                                         *)
(* The intervals come from config.Load, which leaves none blank and names  *)
(* valid tables only: the loop's two checks for that skip nothing.         *)
(*                                                                         *)
(* A row is an identity in a table; all that matters of its ts is whether  *)
(* it is past the table's interval.  A DELETE is two steps: its subselect, *)
(* and the deletion of the rows it picked that are still there when their  *)
(* locks are granted (READ COMMITTED).  It commits by itself: one whose    *)
(* error the run sees may have deleted its rows all the same, or do so     *)
(* after the run has gone on.                                              *)
(***************************************************************************)
EXTENDS Naturals, FiniteSets, Functions

CONSTANTS
  Row,         \* every row a table may hold
  Table,       \* the keys of cfg.Retention
  TableOf,     \* TableOf[r]: the table of row r
  NoTable,     \* where a run is between two tables
  Run,         \* processes started with --retention or --retention-dry-run
  BatchLimit,  \* cfg.RetentionBatch, 50000 if not positive
  MaxFaults    \* bound: failed statements and expired deadlines

ASSUME RetentionAssumption ==
  /\ TableOf \in [Row -> Table]
  /\ IsFiniteSet(Row) /\ IsFiniteSet(Run)
  /\ NoTable \notin Table
  /\ BatchLimit \in Nat \ {0}
  /\ MaxFaults \in Nat

VARIABLES
  state,   \* of each row: "none" (not inserted) | "young" | "old" | "deleted"
  pc,      \* of each run: "start" | "tables" | "select" | "delete" | "ok" | "off"
  dry,     \* whether it is a dry run
  enabled, \* ENABLE_RETENTION
  todo,    \* the tables its loop has not reached
  at,      \* the table it is at
  picked,  \* the rows its subselect picked
  total,   \* total[p][t]: rows it deleted from t, or counted in a dry run
  late,    \* whether its five minutes are over
  stray,   \* the rows picked by each statement a run got an error from
  unanswered, \* history: the rows such statements deleted
  due,     \* history: the old rows when it began
  faults   \* history: failed statements and expired deadlines

vars ==
  <<state, pc, dry, enabled, todo, at, picked, total, late, stray, unanswered, due, faults>>

-----------------------------------------------------------------------------
Old(t) == {r \in Row : TableOf[r] = t /\ state[r] = "old"}

Init ==
  /\ state \in [Row -> {"none", "young", "old"}]
  /\ pc = [p \in Run |-> "start"]
  /\ dry \in [Run -> BOOLEAN]
  /\ enabled \in BOOLEAN
  /\ todo = [p \in Run |-> {}]
  /\ at = [p \in Run |-> NoTable]
  /\ picked = [p \in Run |-> {}]
  /\ total = [p \in Run |-> [t \in Table |-> 0]]
  /\ late = [p \in Run |-> FALSE]
  /\ stray = {}
  /\ unanswered = {}
  /\ due = [p \in Run |-> {}]
  /\ faults = 0

\* Disabled: only a dry run goes on.
Disabled(p) ==
  /\ pc[p] = "start"
  /\ ~enabled
  /\ ~dry[p]
  /\ pc' = [pc EXCEPT ![p] = "off"]
  /\ UNCHANGED <<state, dry, enabled, todo, at, picked, total, late, stray, unanswered, due, faults>>

Begin(p) ==
  /\ pc[p] = "start"
  /\ enabled \/ dry[p]
  /\ pc' = [pc EXCEPT ![p] = "tables"]
  /\ todo' = [todo EXCEPT ![p] = Table]
  /\ due' = [due EXCEPT ![p] = {r \in Row : state[r] = "old"}]
  /\ UNCHANGED <<state, dry, enabled, at, picked, total, late, stray, unanswered, faults>>

\* The dry run's count.
Count(p, t) ==
  /\ pc[p] = "tables"
  /\ dry[p]
  /\ t \in todo[p]
  /\ ~late[p]
  /\ todo' = [todo EXCEPT ![p] = @ \ {t}]
  /\ total' = [total EXCEPT ![p][t] = Cardinality(Old(t))]
  /\ UNCHANGED <<state, pc, dry, enabled, at, picked, late, stray, unanswered, due, faults>>

\* The count fails: the table is left out and the loop goes on.
CountFails(p, t) ==
  /\ pc[p] = "tables"
  /\ dry[p]
  /\ t \in todo[p]
  /\ late[p] \/ faults < MaxFaults
  /\ faults' = IF late[p] THEN faults ELSE faults + 1
  /\ todo' = [todo EXCEPT ![p] = @ \ {t}]
  /\ UNCHANGED <<state, pc, dry, enabled, at, picked, total, late, stray, unanswered, due>>

StartTable(p, t) ==
  /\ pc[p] = "tables"
  /\ ~dry[p]
  /\ t \in todo[p]
  /\ todo' = [todo EXCEPT ![p] = @ \ {t}]
  /\ at' = [at EXCEPT ![p] = t]
  /\ pc' = [pc EXCEPT ![p] = "select"]
  /\ UNCHANGED <<state, dry, enabled, picked, total, late, stray, unanswered, due, faults>>

\* SELECT ctid FROM t WHERE ts < now() - interval LIMIT batch.
Select(p) ==
  /\ pc[p] = "select"
  /\ ~late[p]
  /\ \E S \in SUBSET Old(at[p]) :
       /\ Cardinality(S) = BatchLimit \/ S = Old(at[p])
       /\ Cardinality(S) <= BatchLimit
       /\ picked' = [picked EXCEPT ![p] = S]
  /\ pc' = [pc EXCEPT ![p] = "delete"]
  /\ UNCHANGED <<state, dry, enabled, todo, at, total, late, stray, unanswered, due, faults>>

\* The table is finished.
Leave(p) ==
  /\ at' = [at EXCEPT ![p] = NoTable]
  /\ pc' = [pc EXCEPT ![p] = "tables"]

\* Mutants of More: a full batch ends the loop; no number of rows does.
MoreThanFull(n) == n > BatchLimit
MoreAlways(n) == n >= 0

\* Whether a statement that deleted n rows is followed by another.
More(n) == n >= BatchLimit

\* Mutant of Counted: the rows the subselect picked.
CountedPicked(p) == Cardinality(picked[p])

\* RowsAffected: another run may have deleted some of the rows picked.
Counted(p) == Cardinality({r \in picked[p] : state[r] = "old"})

Delete(p) ==
  /\ pc[p] = "delete"
  /\ ~late[p]
  /\ state' = [r \in Row |-> IF r \in picked[p] THEN "deleted" ELSE state[r]]
  /\ total' = [total EXCEPT ![p][at[p]] = @ + Counted(p)]
  /\ picked' = [picked EXCEPT ![p] = {}]
  /\ IF More(Counted(p))
     THEN pc' = [pc EXCEPT ![p] = "select"] /\ UNCHANGED at
     ELSE Leave(p)
  /\ UNCHANGED <<dry, enabled, todo, late, stray, unanswered, due, faults>>

\* The statement fails: it is the victim of a deadlock, the connection drops or
\* the deadline comes.  The run leaves the table and counts nothing of it.
DeleteFails(p) ==
  /\ pc[p] \in {"select", "delete"}
  /\ late[p] \/ faults < MaxFaults
  /\ faults' = IF late[p] THEN faults ELSE faults + 1
  /\ stray' = (stray \cup {picked[p]}) \ {{}}
  /\ picked' = [picked EXCEPT ![p] = {}]
  /\ Leave(p)
  /\ UNCHANGED <<state, dry, enabled, todo, total, late, unanswered, due>>

\* PostgreSQL completes a statement whose run saw an error, before it learns of
\* that or because only the answer was lost.  It need not: a deadlock undoes it.
StrayDelete(S) ==
  /\ state' = [r \in Row |-> IF r \in S THEN "deleted" ELSE state[r]]
  /\ unanswered' = unanswered \cup {r \in S : state[r] = "old"}
  /\ stray' = stray \ {S}
  /\ UNCHANGED <<pc, dry, enabled, todo, at, picked, total, late, due, faults>>

\* The loop is over: RunRetention returns its results and no error.
Return(p) ==
  /\ pc[p] = "tables"
  /\ todo[p] = {}
  /\ pc' = [pc EXCEPT ![p] = "ok"]
  /\ UNCHANGED <<state, dry, enabled, todo, at, picked, total, late, stray, unanswered, due, faults>>

\* context.WithTimeout of runRetention.
Deadline(p) ==
  /\ pc[p] \in {"tables", "select", "delete"}
  /\ ~late[p]
  /\ faults < MaxFaults
  /\ late' = [late EXCEPT ![p] = TRUE]
  /\ faults' = faults + 1
  /\ UNCHANGED <<state, pc, dry, enabled, todo, at, picked, total, stray, unanswered, due>>

\* The collector inserts r, perhaps from the spool and with an old ts.
InsertRow(r, s) ==
  /\ state[r] = "none"
  /\ state' = [state EXCEPT ![r] = s]
  /\ UNCHANGED <<pc, dry, enabled, todo, at, picked, total, late, stray, unanswered, due, faults>>

GrowOld(r) ==
  /\ state[r] = "young"
  /\ state' = [state EXCEPT ![r] = "old"]
  /\ UNCHANGED <<pc, dry, enabled, todo, at, picked, total, late, stray, unanswered, due, faults>>

-----------------------------------------------------------------------------
Step(p) ==
  \/ Disabled(p)
  \/ Begin(p)
  \/ \E t \in Table : \/ Count(p, t)
                      \/ CountFails(p, t)
                      \/ StartTable(p, t)
  \/ Select(p)
  \/ Delete(p)
  \/ DeleteFails(p)
  \/ Return(p)

Finished == \A p \in Run : pc[p] \in {"ok", "off"}

Next ==
  \/ \E p \in Run : Step(p) \/ Deadline(p)
  \/ \E S \in stray : StrayDelete(S)
  \/ \E r \in Row : GrowOld(r) \/ \E s \in {"young", "old"} : InsertRow(r, s)
  \/ Finished /\ UNCHANGED vars

Spec == Init /\ [][Next]_vars

\* PostgreSQL answers every statement or the deadline ends it.
FairSpec == Spec /\ \A p \in Run : WF_vars(Step(p))

-----------------------------------------------------------------------------
(* Properties.                                                             *)

\* The values of the variables; a run has rows picked only in a DELETE.
TypeOK ==
  /\ state \in [Row -> {"none", "young", "old", "deleted"}]
  /\ pc \in [Run -> {"start", "tables", "select", "delete", "ok", "off"}]
  /\ dry \in [Run -> BOOLEAN]
  /\ enabled \in BOOLEAN
  /\ todo \in [Run -> SUBSET Table]
  /\ at \in [Run -> Table \cup {NoTable}]
  /\ \A p \in Run : at[p] # NoTable <=> pc[p] \in {"select", "delete"}
  /\ picked \in [Run -> SUBSET Row]
  /\ total \in [Run -> [Table -> Nat]]
  /\ late \in [Run -> BOOLEAN]
  /\ stray \subseteq SUBSET Row
  /\ unanswered \subseteq Row
  /\ due \in [Run -> SUBSET Row]
  /\ faults \in 0..MaxFaults

\* What the runs report is what went: their totals for a table add up to the
\* rows deleted from it, although two runs may pick the same rows and a
\* statement may fail after others succeeded.  Only the rows of a statement that
\* PostgreSQL completed and answered with nothing but an error are in no total.
TotalsAreDeletions ==
  \A t \in Table :
    SumFunction([p \in Run |-> IF dry[p] THEN 0 ELSE total[p][t]])
      = Cardinality({r \in Row : TableOf[r] = t /\ state[r] = "deleted"} \ unanswered)

\* "RunRetention deletes rows older than the configured intervals": when all
\* runs are over, what was old when one of them began that returned without an
\* error is gone.
SuccessMeansClean ==
  Finished => \A p \in Run : pc[p] = "ok" /\ ~dry[p] =>
    \A r \in due[p] : state[r] = "deleted"

\* No statement failed, and no other run ever deleted.
Undisturbed(p) ==
  /\ faults = 0
  /\ \A q \in Run \ {p} : dry[q] \/ pc[q] \in {"start", "off"}

\* A run that meets no fault and no other run leaves nothing behind that was
\* old when it began, whatever is inserted or grows old meanwhile.
UndisturbedRunCleans ==
  \A p \in Run : pc[p] = "ok" /\ ~dry[p] /\ Undisturbed(p) =>
    \A r \in due[p] : state[r] = "deleted"

\* The delete loop comes to an end, also when rows keep growing old.
RunsEnd == \A p \in Run : <>(pc[p] \in {"ok", "off"})
=============================================================================
