---------------------------- MODULE BatchQueue ----------------------------
(***************************************************************************)
(* What the spool promises, without threads, transactions, bytes or row    *)
(* ids: a queue of batches that is emptied from its oldest, at least once  *)
(* each.  WritePathRefinement shows that the write path implements it.     *)
(***************************************************************************)

CONSTANT Batch

VARIABLES
  waiting,  \* the buffered batches
  older,    \* <<b, c>>: b was buffered before c
  sent,     \* batches PostgreSQL has
  acked,    \* batches that left the queue because they were sent
  dropped   \* batches that left the queue to make room

qvars == <<waiting, older, sent, acked, dropped>>

QInit ==
  /\ waiting = {}
  /\ older = {}
  /\ sent = {}
  /\ acked = {}
  /\ dropped = {}

\* The batches D are the front of the queue: who waits longer is one of them.
IsFront(D) ==
  /\ D \subseteq waiting
  /\ \A b \in waiting, d \in D : <<b, d>> \in older => b \in D

\* A batch is buffered behind all others; the oldest make room, never the new one.
Put(b, D) ==
  /\ b \notin waiting \cup acked \cup dropped
  /\ IsFront(D)
  /\ waiting' = (waiting \ D) \cup {b}
  /\ older' = (older \cup (waiting \X {b})) \cap (waiting' \X waiting')
  /\ dropped' = dropped \cup D
  /\ UNCHANGED <<sent, acked>>

\* A batch reaches PostgreSQL, from the queue or directly.  An acknowledged
\* batch is never sent again.
Send(b) ==
  /\ b \notin acked
  /\ sent' = sent \cup {b}
  /\ UNCHANGED <<waiting, older, acked, dropped>>

\* The oldest leave together; all of them were sent.
Ack(D) ==
  /\ IsFront(D)
  /\ D \subseteq sent
  /\ waiting' = waiting \ D
  /\ older' = older \cap (waiting' \X waiting')
  /\ acked' = acked \cup D
  /\ UNCHANGED <<sent, dropped>>

QNext ==
  \/ \E b \in Batch : Send(b) \/ \E D \in SUBSET waiting : Put(b, D)
  \/ \E D \in SUBSET waiting : Ack(D)

QSpec == QInit /\ [][QNext]_qvars
=============================================================================
