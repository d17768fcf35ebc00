------------------------ MODULE WritePathRefinement ------------------------
(***************************************************************************)
(* The write path implements BatchQueue: the queue is the spool table in   *)
(* the order of its row ids, and a batch is acknowledged when it was       *)
(* buffered and has left the table without being evicted.                  *)
(***************************************************************************)
EXTENDS WritePath

SpoolOrder ==
  {p \in Spooled \X Spooled :
     \E i, j \in DOMAIN batches : i < j /\ p = <<batches[i], batches[j]>>}

InPostgres == {b \in Batch : copies[b] > 0}

Acked == {b \in Batch : report[b] = "buffered"} \ (Spooled \cup evicted)

Q == INSTANCE BatchQueue WITH
       waiting <- Spooled,
       older <- SpoolOrder,
       sent <- InPostgres,
       acked <- Acked,
       dropped <- evicted

\* Whatever the goroutines, the rollbacks and the restarts do, the spool is
\* a queue: batches enter at the end, leave from the front, leave only sent
\* or dropped for room, and an acknowledged batch is not sent again.
ImplementsBatchQueue == Q!QSpec
=============================================================================
