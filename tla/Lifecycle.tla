----------------------------- MODULE Lifecycle ------------------------------
(* The process around runLoop: the writes of the slow runs it leaves behind    *)
(* when it returns, the deferred Store.Close, and runServe beside it           *)
(* (--collect --serve) with the requests in flight when the signal comes.      *)
(* Scheduler's Stop is the end of the process; what happens between runLoop's  *)
(* return and that is here, and every behaviour is also one of Scheduler.      *)
EXTENDS Scheduler

CONSTANT Request  \* requests the dashboard may have in flight

VARIABLES closing,  \* of the store: "no" | "pool" | "spool" | "exit" (both closed)
          left,     \* writes a slow run has left: its batch and its heartbeat
          copying,  \* slow runs that hold a connection of the store's pool
          serve,    \* runServe: "off" | "listening" | "pool" (closing it) | "closed"
          req       \* "none" | "waiting" | "conn", per request
store == <<closing, left, copying>>
dashboard == <<serve, req>>
lifeVars == <<vars, store, dashboard>>

LInit ==
  /\ Init /\ closing = "no" /\ left = [c \in Slow |-> 0] /\ copying = {}
  /\ serve \in {"off", "listening"}
  /\ req = [r \in Request |-> "none"]

\* runLoop until it sees done.
LLoop ==
  /\ closing = "no"
  /\ \/ /\ \/ \E d \in 0..MaxGap : Tick(d)
           \/ \E c \in Collector : Skip(c) \/ RunFast(c) \/ StartSlow(c)
           \/ EndPass
        /\ UNCHANGED left
     \/ Acquire /\ left' = [left EXCEPT ![want] = 2]
  /\ UNCHANGED <<closing, copying, dashboard>>

\* case <-done: the deferred Close begins, and the pool gives no connection.
Return ==
  /\ closing = "no" /\ pc = "select" /\ signal
  /\ closing' = "pool"
  /\ UNCHANGED <<vars, left, copying, dashboard>>

\* pgxpool's Close waits until every connection is returned.
CloseStorePool ==
  /\ closing = "pool" /\ copying = {}
  /\ closing' = "spool"
  /\ UNCHANGED <<vars, left, copying, dashboard>>

CloseStoreSpool ==
  /\ closing = "spool" /\ pc # "stopped" /\ closing' = "exit"
  /\ UNCHANGED <<vars, left, copying, dashboard>>

(* A slow run: InsertBatch, unless there is nothing to write or its collector  *)
(* failed, then InsertHeartbeat.  WritePath says what becomes of the rows.     *)
Alive == pc # "stopped"
AtRun(c, writes, who) ==
  /\ Alive /\ left' = [left EXCEPT ![c] = writes] /\ copying' = who
  /\ UNCHANGED <<vars, closing, dashboard>>

NothingToWrite(c) == left[c] = 2 /\ c \notin copying /\ AtRun(c, 1, copying)

\* A closed pool refuses the connection: the rows go to the spool, or nowhere
\* when that is closed too.
Connect(c) ==
  /\ left[c] > 0 /\ c \notin copying
  /\ IF closing = "no" THEN AtRun(c, left[c], copying \cup {c})
     ELSE AtRun(c, left[c] - 1, copying)

\* CopyFrom returns; what failed is buffered.
CopyEnds(c) == c \in copying /\ AtRun(c, left[c] - 1, copying \ {c})

RunEnds(c) == left[c] = 0 /\ Finish(c) /\ UNCHANGED <<store, dashboard>>

LRelease == Release /\ UNCHANGED <<store, dashboard>>

LSignal == Signal /\ UNCHANGED <<store, dashboard>>

-----------------------------------------------------------------------------
(* runServe.  Its signal handler calls Shutdown, which closes the listener;    *)
(* ListenAndServe returns at once and the deferred Close calls run, the spool's *)
(* (in the same step) and the pool's, while Shutdown still waits for requests. *)

Serving(s) == Alive /\ serve' = s /\ UNCHANGED <<vars, store, req>>

ShutdownStarts == signal /\ serve = "listening" /\ Serving("pool")
\* The port is in use: beside the collector the error is only logged.
ListenFails ==
  /\ serve = "listening" /\ \A r \in Request : req[r] = "none"
  /\ Serving("pool")

ClosePool == serve = "pool" /\ (\A r \in Request : req[r] # "conn") /\ Serving("closed")

Requesting(r, s) ==
  /\ Alive /\ req' = [req EXCEPT ![r] = s]
  /\ UNCHANGED <<vars, store, serve>>
Arrive(r) == serve = "listening" /\ req[r] = "none" /\ Requesting(r, "waiting")
\* The pool is open until its Close begins; then the answer is 503.
Query(r) ==
  /\ req[r] = "waiting"
  /\ Requesting(r, IF serve = "listening" THEN "conn" ELSE "none")
\* The rows are read and the answer is written; a handler may query again.
QueryEnds(r) == req[r] = "conn" /\ (Requesting(r, "none") \/ Requesting(r, "waiting"))

-----------------------------------------------------------------------------

\* Mutant of ProcessEnds: main does not wait for runServe.
ProcessEndsAlone ==
  /\ closing = "exit" /\ Stop
  /\ UNCHANGED <<store, dashboard>>

\* runLoop and runServe have both returned; goroutines and requests that are
\* still there end with the process.
ProcessEnds ==
  /\ closing = "exit" /\ serve \in {"off", "closed"} /\ Stop
  /\ UNCHANGED <<store, dashboard>>

LExited == Exited /\ UNCHANGED <<store, dashboard>>

Run(c) == NothingToWrite(c) \/ Connect(c) \/ CopyEnds(c) \/ RunEnds(c)
Handle(r) == Query(r) \/ QueryEnds(r)
Closing == Return \/ CloseStorePool \/ CloseStoreSpool \/ ProcessEnds
Shutdown == ShutdownStarts \/ ClosePool

LNext ==
  \/ LLoop \/ LRelease \/ LSignal \/ LExited \/ Closing \/ Shutdown \/ ListenFails
  \/ \E c \in Slow : Run(c)
  \/ \E r \in Request : Arrive(r) \/ Handle(r)

LSpec == LInit /\ [][LNext]_lifeVars

\* As in Scheduler; besides, a COPY and a query end (or their connection
\* does), handlers return, and the deferred calls run.
LFairness ==
  /\ WF_lifeVars(LLoop) /\ WF_lifeVars(LRelease)
  /\ SF_lifeVars(LLoop /\ \E d \in 1..MaxGap : Tick(d)) /\ SF_lifeVars(Return)
  /\ WF_lifeVars(CloseStorePool \/ CloseStoreSpool \/ ProcessEnds) /\ WF_lifeVars(Shutdown)
  /\ \A c \in Slow : WF_lifeVars(Run(c))
  /\ \A r \in Request : WF_lifeVars(Handle(r))

LFairSpec == LSpec /\ LFairness

-----------------------------------------------------------------------------

\* StopCutsNoQuery: a stop never cuts a COPY or a query in the middle: what is
\* lost of a run are writes it had not begun, and nothing is left half done
\* in PostgreSQL for the next start.
StopCutsNoQuery ==
  pc = "stopped" => copying = {} /\ \A r \in Request : req[r] # "conn"
=============================================================================
