-------------------------- MODULE WritePathProofs --------------------------
(***************************************************************************)
(* Proofs about WritePath, for every set of batches, every size limit and  *)
(* any number of goroutines.                                               *)
(***************************************************************************)
EXTENDS WritePathRefinement, FiniteSetTheorems, TLAPS

Bounded(S) == \E n \in Nat : \A i \in S : i <= n

-----------------------------------------------------------------------------
(* Lemmas about the operators of the spool table.                          *)

\* A non-empty set of naturals has a smallest member, which Min is.
LEMMA MinOfNats ==
  ASSUME NEW S, S \subseteq Nat, S # {}
  PROVE  Min(S) \in S /\ \A x \in S : Min(S) <= x
<1>1. \E x \in S : \A y \in S : ~(<<y, x>> \in OpToRel(<, Nat))
  BY NatLessThanWellFounded, WFMin, Zenon
<1>2. \E x \in S : \A y \in S : x <= y
  <2>1. PICK x \in S : \A y \in S : ~(<<y, x>> \in OpToRel(<, Nat))
    BY <1>1
  <2>2. ASSUME NEW y \in S PROVE x <= y
    <3>1. y \in Nat /\ x \in Nat
      OBVIOUS
    <3>2. ~(y < x)
      BY <2>1, <3>1 DEF OpToRel
    <3> QED BY <3>1, <3>2
  <2> QED BY <2>2
<1> QED BY <1>2 DEF Min

\* A non-empty bounded set of naturals has a largest member, which Max is.
LEMMA MaxOfNats ==
  ASSUME NEW S, S \subseteq Nat, S # {}, Bounded(S)
  PROVE  Max(S) \in S /\ \A x \in S : x <= Max(S)
<1> DEFINE U == {n \in Nat : \A i \in S : i <= n}
<1>1. U \subseteq Nat /\ U # {}
  BY DEF Bounded
<1>2. Min(U) \in U /\ \A x \in U : Min(U) <= x
  BY <1>1, MinOfNats
<1>3. Min(U) \in Nat /\ \A i \in S : i <= Min(U)
  BY <1>2
<1> DEFINE m == Min(U)
<1> HIDE DEF m
<1>4. m \in S
  <2> SUFFICES ASSUME m \notin S PROVE FALSE
    OBVIOUS
  <2>1. PICK i \in S : TRUE
    OBVIOUS
  <2>2. i < m /\ i \in Nat /\ m \in Nat
    BY <1>3 DEF m
  <2>3. m - 1 \in Nat /\ \A j \in S : j <= m - 1
    BY <2>2, <1>3 DEF m
  <2>4. m - 1 \in U
    BY <2>3
  <2>5. m <= m - 1
    BY <2>4, <1>2 DEF m
  <2> QED BY <2>5, <2>2
<1>5. \A x \in S : m >= x
  BY <1>3 DEF m
<1> QED BY <1>4, <1>5 DEF Max

\* The id SQLite gives a new row is positive and above every id in the table.
LEMMA NextIdIsAbove ==
  ASSUME NEW ids, ids \subseteq Nat \ {0}, Bounded(ids)
  PROVE  /\ NextId(ids) \in Nat \ {0}
         /\ \A i \in ids : i < NextId(ids)
<1>1. CASE ids = {}
  BY <1>1 DEF NextId
<1>2. CASE ids # {}
  <2>1. Max(ids) \in ids /\ \A x \in ids : x <= Max(ids)
    BY <1>2, MaxOfNats
  <2>2. NextId(ids) = Max(ids) + 1
    BY <1>2 DEF NextId
  <2> HIDE DEF NextId
  <2>3. Max(ids) \in Nat \ {0}
    BY <2>1
  <2> QED BY <2>1, <2>2, <2>3
<1> QED BY <1>1, <1>2

\* One row holds the bytes of its batch.
LEMMA BytesOfOneRow ==
  ASSUME NEW t, NEW i, Size[t[i]] \in Nat
  PROVE  Bytes(t, {i}) = Size[t[i]]
<1> DEFINE n == Size[t[i]]
           rows == {{j} \X (1..Size[t[j]]) : j \in {i}}
<1>n. n \in Nat /\ n \in Int /\ 1 \in Int
  OBVIOUS
<1> HIDE DEF n
<1>1. IsFiniteSet(1..n) /\ Cardinality(1..n) = n
  <2>1. IsFiniteSet(1..n) /\ Cardinality(1..n) = IF 1 > n THEN 0 ELSE n - 1 + 1
    BY <1>n, FS_Interval
  <2> QED BY <2>1, <1>n
<1>2. IsFiniteSet({i}) /\ Cardinality({i}) = 1
  BY FS_Singleton
<1>3. Cardinality({i} \X (1..n)) = 1 * n
  BY <1>1, <1>2, FS_Product
<1>4. rows = {{i} \X (1..n)}
  BY Zenon DEF n
<1>5. UNION rows = {i} \X (1..n)
  BY <1>4
<1>6. Bytes(t, {i}) = Cardinality(UNION rows)
  BY DEF Bytes
<1> HIDE DEF rows
<1>7. Bytes(t, {i}) = 1 * n
  BY <1>3, <1>5, <1>6
<1>8. Bytes(t, {i}) = n
  BY <1>7, <1>n
<1> QED BY <1>8 DEF n

\* Enqueue's loop never drops the newest row if that row alone fits, drops
\* nothing above a row it keeps, leaves at most `limit` bytes, and drops only
\* rows from which on the rest does not fit.
LEMMA SurvivorsFit ==
  ASSUME NEW t, NEW limit \in Nat, DOMAIN t \subseteq Nat,
         NEW n \in DOMAIN t, \A i \in DOMAIN t : i <= n,
         Size[t[n]] \in Nat, Size[t[n]] <= limit
  PROVE  /\ n \in Survivors(t, limit)
         /\ Survivors(t, limit) \subseteq DOMAIN t
         /\ \A i \in Survivors(t, limit), j \in DOMAIN t :
              i <= j => j \in Survivors(t, limit)
         /\ Bytes(t, Survivors(t, limit)) <= limit
         /\ \A i \in DOMAIN t \ Survivors(t, limit) :
              ~(Bytes(t, From(DOMAIN t, i)) <= limit)
<1> DEFINE fits == {i \in DOMAIN t : Bytes(t, From(DOMAIN t, i)) <= limit}
<1>1. From(DOMAIN t, n) = {n}
  BY DEF From
<1>2. n \in fits
  BY <1>1, BytesOfOneRow
<1>3. Min(fits) \in fits /\ \A x \in fits : Min(fits) <= x
  BY <1>2, MinOfNats
<1>4. Survivors(t, limit) = From(DOMAIN t, Min(fits))
  <2>1. Survivors(t, limit) = {j \in DOMAIN t : \E i \in fits : i <= j}
    BY DEF Survivors
  <2>2. Min(fits) \in Nat /\ fits \subseteq Nat
    BY <1>3
  <2> HIDE DEF fits
  <2> QED BY <1>3, <2>1, <2>2 DEF From
<1> HIDE DEF fits
<1>5. Min(fits) \in DOMAIN t /\ Bytes(t, From(DOMAIN t, Min(fits))) <= limit
  BY <1>3 DEF fits
<1>6. ASSUME NEW i \in DOMAIN t \ Survivors(t, limit)
      PROVE  ~(Bytes(t, From(DOMAIN t, i)) <= limit)
  <2>1. i \notin fits
    BY <1>3, <1>4 DEF From
  <2> QED BY <2>1 DEF fits
<1> QED BY <1>2, <1>3, <1>4, <1>5, <1>6 DEF From

-----------------------------------------------------------------------------
(* What the two steps that write the table do to it.                       *)

\* What Enqueue keeps of the table and the new row: what fits, or more if its
\* eviction stopped at an error, always without a gap up to the newest row.
LEMMA EnqueueOutcome ==
  ASSUME TypeOK, NEW t \in Thread, Enqueue(t),
         NEW full, full = WithRow(batches, cur[t]), DOMAIN full \subseteq Nat,
         Survivors(full, cap) \subseteq DOMAIN full,
         \A i \in Survivors(full, cap), j \in DOMAIN full : i <= j => j \in Survivors(full, cap)
  PROVE  \E kept \in SUBSET DOMAIN full :
           /\ batches' = Restrict(full, kept)
           /\ evicted' = evicted \cup {full[i] : i \in DOMAIN full \ kept}
           /\ Survivors(full, cap) \subseteq kept
           /\ \A i \in kept, j \in DOMAIN full : i <= j => j \in kept
           /\ ~excess' \/ faults' = faults => kept = Survivors(full, cap)
           /\ excess' \in BOOLEAN
           /\ faults' \in 0..MaxFaults
<1> DEFINE fit == Survivors(full, cap)
<1>1. PICK kept \in {fit} \cup {T \in Tails(full) : fit \subseteq T} :
         /\ batches' = Restrict(full, kept)
         /\ evicted' = evicted \cup {full[i] : i \in DOMAIN full \ kept}
         /\ excess' = (kept # fit)
         /\ kept # fit => faults < MaxFaults
         /\ faults' = IF kept = fit THEN faults ELSE faults + 1
  BY Zenon DEF Enqueue
<1>2. kept = fit \/ \E i \in DOMAIN full : kept = From(DOMAIN full, i)
  BY <1>1 DEF Tails
<1>3. /\ fit \subseteq DOMAIN full
      /\ \A i \in fit, j \in DOMAIN full : i <= j => j \in fit
  OBVIOUS
<1> HIDE DEF fit
<1>4. fit \subseteq kept
  BY <1>1
<1>5. kept \subseteq DOMAIN full /\ \A i \in kept, j \in DOMAIN full : i <= j => j \in kept
  <2>1. CASE kept = fit
    BY <1>3, <2>1
  <2>2. ASSUME NEW k \in DOMAIN full, kept = From(DOMAIN full, k)
        PROVE  /\ kept \subseteq DOMAIN full
               /\ \A i \in kept, j \in DOMAIN full : i <= j => j \in kept
    BY <2>2 DEF From
  <2> QED BY <1>2, <2>1, <2>2
<1>6. faults \in 0..MaxFaults /\ MaxFaults \in Nat
  BY ProcessAssumption DEF TypeOK
<1>7. faults' = faults => kept = fit
  BY <1>1, <1>6
<1>8. faults' \in 0..MaxFaults
  BY <1>1, <1>6
<1>9. excess' \in BOOLEAN /\ (~excess' => kept = fit)
  BY <1>1
<1> QED BY <1>1, <1>4, <1>5, <1>7, <1>8, <1>9 DEF fit

\* Enqueue adds cur[t] under an id above all others and keeps it; the rows it
\* removes are the evicted ones; the rest is unchanged, and fits unless the
\* eviction stopped at an error.
LEMMA EnqueueEffect ==
  ASSUME TypeOK, Bounded(DOMAIN batches), NEW t \in Thread, Enqueue(t)
  PROVE  /\ cur[t] \in Batch
         /\ evicted \subseteq evicted'
         /\ evicted' \subseteq Batch
         /\ evicted' = evicted \cup {batches[i] : i \in DOMAIN batches \ DOMAIN batches'}
         /\ \A i \in DOMAIN batches', j \in DOMAIN batches : i <= j => j \in DOMAIN batches'
         /\ batches' \in [DOMAIN batches' -> Batch]
         /\ ~excess' \/ faults' = faults => Bytes(batches', DOMAIN batches') <= cap
         /\ excess' \in BOOLEAN /\ faults' \in 0..MaxFaults
         /\ \E n \in DOMAIN batches' \ DOMAIN batches :
              /\ n \in Nat \ {0}
              /\ \A i \in DOMAIN batches : i < n
              /\ DOMAIN batches' \subseteq DOMAIN batches \cup {n}
              /\ batches'[n] = cur[t]
              /\ \A i \in DOMAIN batches' \ {n} : batches'[i] = batches[i]
<1> DEFINE n == NextId(DOMAIN batches)
           full == WithRow(batches, cur[t])
           fit == Survivors(full, cap)
<1>1. n \in Nat \ {0} /\ \A i \in DOMAIN batches : i < n
  BY NextIdIsAbove DEF TypeOK
<1>2. cur[t] \in Batch
  BY DEF TypeOK, Enqueue
<1>3. /\ DOMAIN full = DOMAIN batches \cup {n}
      /\ \A i \in DOMAIN batches : full[i] = batches[i]
  BY DEF WithRow
<1>4. n \notin DOMAIN batches
  BY <1>1 DEF TypeOK
<1>5. full[n] = cur[t]
  BY <1>4 DEF WithRow
<1>s. Size[cur[t]] <= cap
  BY Zenon DEF Enqueue
<1>f. full = WithRow(batches, cur[t])
  OBVIOUS
<1> HIDE DEF n, full
<1>7. Size[full[n]] \in Nat /\ Size[full[n]] <= cap /\ cap \in Nat
  BY <1>2, <1>5, <1>s, BatchAssumption, ProcessAssumption DEF TypeOK
<1>8. DOMAIN full \subseteq Nat /\ n \in DOMAIN full /\ \A i \in DOMAIN full : i <= n
  BY <1>1, <1>3 DEF TypeOK
<1> HIDE DEF fit
<1>t. /\ n \in fit /\ fit \subseteq DOMAIN full /\ Bytes(full, fit) <= cap
      /\ \A i \in fit, j \in DOMAIN full : i <= j => j \in fit
  BY <1>7, <1>8, SurvivorsFit DEF fit
<1>6. PICK kept \in SUBSET DOMAIN full :
         /\ batches' = Restrict(full, kept)
         /\ evicted' = evicted \cup {full[i] : i \in DOMAIN full \ kept}
         /\ fit \subseteq kept
         /\ \A i \in kept, j \in DOMAIN full : i <= j => j \in kept
         /\ ~excess' \/ faults' = faults => kept = fit
         /\ excess' \in BOOLEAN
         /\ faults' \in 0..MaxFaults
  BY <1>f, <1>8, <1>t, EnqueueOutcome DEF fit
<1>9. /\ n \in kept /\ kept \subseteq DOMAIN full
      /\ \A i \in kept, j \in DOMAIN full : i <= j => j \in kept
  BY <1>6, <1>t
<1>10. DOMAIN batches' = kept /\ \A i \in kept : batches'[i] = full[i]
  BY <1>6 DEF Restrict
<1>11. ASSUME ~excess' \/ faults' = faults PROVE Bytes(batches', DOMAIN batches') <= cap
  <2>0. kept = fit
    BY <1>6, <1>11
  <2>1. {{i} \X (1..Size[batches'[i]]) : i \in kept}
          = {{i} \X (1..Size[full[i]]) : i \in kept}
    BY <1>10
  <2> QED BY <2>0, <2>1, <1>t, <1>10 DEF Bytes
<1>12. \A i \in DOMAIN full : full[i] \in Batch
  BY <1>2, <1>3, <1>5 DEF TypeOK
<1>13. batches' \in [DOMAIN batches' -> Batch]
  BY <1>6, <1>9, <1>12 DEF Restrict
<1>14. evicted \subseteq evicted' /\ evicted' \subseteq Batch
  BY <1>6, <1>12 DEF TypeOK
<1>15. /\ evicted' = evicted \cup {batches[i] : i \in DOMAIN batches \ DOMAIN batches'}
       /\ \A i \in DOMAIN batches', j \in DOMAIN batches : i <= j => j \in DOMAIN batches'
  <2>1. DOMAIN full \ kept = DOMAIN batches \ DOMAIN batches'
    BY <1>3, <1>9, <1>10
  <2>2. {full[i] : i \in DOMAIN full \ kept} = {batches[i] : i \in DOMAIN batches \ DOMAIN batches'}
    BY <1>3, <2>1
  <2> QED BY <1>3, <1>6, <1>9, <1>10, <2>2
<1>16. /\ n \in DOMAIN batches' \ DOMAIN batches
       /\ DOMAIN batches' \subseteq DOMAIN batches \cup {n}
       /\ batches'[n] = cur[t]
       /\ \A i \in DOMAIN batches' \ {n} : batches'[i] = batches[i]
  BY <1>3, <1>4, <1>5, <1>9, <1>10
<1> QED BY <1>1, <1>2, <1>6, <1>11, <1>13, <1>14, <1>15, <1>16

\* Replay's COMMIT removes the ids it deleted and touches no other row.
LEMMA CommitEffect ==
  ASSUME TypeOK, ReplayCommit
  PROVE  /\ DOMAIN batches' = DOMAIN batches \ done
         /\ batches' \in [DOMAIN batches' -> Batch]
         /\ \A i \in DOMAIN batches' : batches'[i] = batches[i]
  BY DEF TypeOK, ReplayCommit, Restrict

\* Replay's SELECT reads rows of the table.
LEMMA ReadEffect ==
  ASSUME TypeOK, ReplayRead
  PROVE  /\ DOMAIN snap' \subseteq DOMAIN batches
         /\ snap' \in [DOMAIN snap' -> Batch]
         /\ \A i \in DOMAIN snap' : snap'[i] = batches[i]
<1> DEFINE ids == Oldest(DOMAIN batches)
<1>1. ids \subseteq DOMAIN batches
  BY DEF Oldest
<1>2. snap' = Restrict(batches, ids)
  BY DEF ReplayRead
<1> HIDE DEF ids
<1> QED BY <1>1, <1>2 DEF Restrict, TypeOK

-----------------------------------------------------------------------------
(* Type correctness.  The bound on the ids is what makes NextId defined.   *)

TInv == TypeOK /\ Bounded(DOMAIN batches)

LEMMA TypingInit == Init => TInv
<1> SUFFICES ASSUME Init PROVE TInv
  OBVIOUS
<1>1. DOMAIN batches = {} /\ DOMAIN snap = {}
  BY DEF Init, EmptyTable
<1>2. batches \in [DOMAIN batches -> Batch] /\ snap \in [DOMAIN snap -> Batch]
  BY <1>1 DEF Init, EmptyTable
<1>3. excess \in BOOLEAN
  BY Zenon DEF Init
<1>t. TypeOK
  BY <1>1, <1>2, <1>3, BatchAssumption, ProcessAssumption DEF Init, TypeOK
<1>4. Bounded(DOMAIN batches)
  BY <1>1 DEF Bounded
<1> QED BY <1>t, <1>4 DEF TInv

\* Actions that leave the table and the snapshot alone.
LEMMA TypingInsert ==
  ASSUME TypeOK, NEW t \in Thread,
         \/ Collect(t) \/ CopyStored(t) \/ CopyFails(t)
         \/ CopyAnswerLost(t) \/ EnqueueFails(t)
  PROVE  TypeOK' /\ batches' = batches
<1> USE BatchAssumption, ProcessAssumption
<1>1. ASSUME NEW b \in Batch, RejectInvalid(t, b) PROVE TypeOK' /\ batches' = batches
  BY <1>1 DEF RejectInvalid, TypeOK
<1>2. ASSUME NEW b \in Batch, StartInsert(t, b) PROVE TypeOK' /\ batches' = batches
  <2>1. t = Main \/ t \in Thread \ {Main}
    OBVIOUS
  <2> QED BY <1>2, <2>1 DEF StartInsert, TypeOK
<1>3. CASE CopyStored(t)
  BY <1>3 DEF CopyStored, Return, Copied, TypeOK
<1>4. CASE CopyFails(t)
  BY <1>4 DEF CopyFails, TypeOK
<1>5. CASE CopyAnswerLost(t)
  BY <1>5 DEF CopyAnswerLost, Copied, TypeOK
<1>6. CASE EnqueueFails(t)
  BY <1>6 DEF EnqueueFails, Return, TypeOK
<1> QED BY <1>1, <1>2, <1>3, <1>4, <1>5, <1>6 DEF Collect

LEMMA TypingReplay ==
  ASSUME TypeOK, NEW i \in DOMAIN snap,
         \/ ReplayWrite(i) \/ ReplayWriteFails(i) \/ ReplayAnswerLost(i)
         \/ ReplayDelete(i)
  PROVE  TypeOK' /\ batches' = batches
<1> USE BatchAssumption, ProcessAssumption
<1>1. DOMAIN EmptyTable = {} /\ EmptyTable \in [{} -> Batch]
  BY DEF EmptyTable
<1>2. CASE ReplayWrite(i)
  BY <1>2 DEF ReplayWrite, Copied, TypeOK
<1>3. CASE ReplayWriteFails(i)
  BY <1>1, <1>3 DEF ReplayWriteFails, Rollback, TypeOK
<1>4. CASE ReplayAnswerLost(i)
  BY <1>1, <1>4 DEF ReplayAnswerLost, Rollback, Copied, TypeOK
<1>5. CASE ReplayDelete(i)
  BY <1>5 DEF ReplayDelete, TypeOK
<1> QED BY <1>2, <1>3, <1>4, <1>5

LEMMA TypingStep == TInv /\ [Next]_vars => TInv'
<1> SUFFICES ASSUME TInv, [Next]_vars PROVE TInv'
  OBVIOUS
<1> USE BatchAssumption, ProcessAssumption
<1>1. TypeOK /\ Bounded(DOMAIN batches)
  BY DEF TInv
<1>e. DOMAIN EmptyTable = {} /\ EmptyTable \in [{} -> Batch]
  BY DEF EmptyTable
<1>2. ASSUME TypeOK', batches' = batches PROVE TInv'
  BY <1>1, <1>2 DEF TInv
<1>3. ASSUME NEW t \in Thread, Collect(t) PROVE TInv'
  BY <1>1, <1>2, <1>3, TypingInsert
<1>4. ASSUME NEW t \in Thread, Insert(t) PROVE TInv'
  <2>1. CASE Enqueue(t)
    <3>1. PICK n \in DOMAIN batches' \ DOMAIN batches :
             /\ n \in Nat \ {0}
             /\ \A i \in DOMAIN batches : i < n
             /\ DOMAIN batches' \subseteq DOMAIN batches \cup {n}
      BY <1>1, <2>1, EnqueueEffect
    <3>2. /\ batches' \in [DOMAIN batches' -> Batch] /\ evicted' \subseteq Batch
          /\ excess' \in BOOLEAN /\ faults' \in 0..MaxFaults
      BY <1>1, <2>1, EnqueueEffect
    <3>3. DOMAIN batches' \subseteq Nat \ {0}
      BY <1>1, <3>1 DEF TypeOK
    <3>4. \A i \in DOMAIN batches' : i <= n
      BY <1>1, <3>1 DEF TypeOK
    <3>5. TypeOK'
      BY <1>1, <2>1, <3>2, <3>3 DEF Enqueue, Return, TypeOK
    <3> QED BY <3>1, <3>4, <3>5 DEF TInv, Bounded
  <2> QED BY <1>1, <1>2, <1>4, <2>1, TypingInsert DEF Insert
<1>5. CASE Replay
  <2>1. CASE ReplayRead
    <3>1. /\ DOMAIN snap' \subseteq DOMAIN batches
          /\ snap' \in [DOMAIN snap' -> Batch]
      BY <1>1, <2>1, ReadEffect
    <3>2. TypeOK'
      BY <1>1, <2>1, <3>1 DEF ReplayRead, TypeOK
    <3> QED BY <1>2, <2>1, <3>2 DEF ReplayRead
  <2>2. CASE ReplayCommit
    <3>1. /\ DOMAIN batches' \subseteq DOMAIN batches
          /\ batches' \in [DOMAIN batches' -> Batch]
      BY <1>1, <2>2, CommitEffect
    <3>2. TypeOK'
      BY <1>1, <1>e, <2>2, <3>1 DEF ReplayCommit, TypeOK
    <3> QED BY <1>1, <3>1, <3>2 DEF TInv, Bounded
  <2>3. CASE ReplayDeleteFails
    BY <1>1, <1>2, <1>e, <2>3 DEF ReplayDeleteFails, Rollback, TypeOK
  <2> QED BY <1>1, <1>2, <1>5, <2>1, <2>2, <2>3, TypingReplay DEF Replay
<1>6. CASE Restart
  BY <1>1, <1>2, <1>6, <1>e DEF Restart, TypeOK
<1>7. CASE PgDown
  BY <1>1, <1>2, <1>7 DEF PgDown, TypeOK
<1>8. CASE PgUp
  BY <1>1, <1>2, <1>8 DEF PgUp, TypeOK
<1>9. CASE UNCHANGED vars
  BY <1>1, <1>2, <1>9 DEF vars, TypeOK
<1> QED BY <1>3, <1>4, <1>5, <1>6, <1>7, <1>8, <1>9 DEF Next

\* Every reachable state is type-correct, for every set of batches, limit and
\* number of goroutines.
THEOREM TypeCorrect == Spec => []TypeOK
<1>1. TInv => TypeOK
  BY DEF TInv
<1> QED BY <1>1, TypingInit, TypingStep, PTL DEF Spec

-----------------------------------------------------------------------------
(* No batch is lost.  ReplayInv is what makes NotLost inductive, which is  *)
(* the part of NoSilentLoss without the number of copies.                  *)

NotLost ==
  \A b \in Batch :
    /\ report[b] = "stored" => copies[b] > 0
    /\ report[b] = "buffered" => b \in Spooled \cup evicted \/ copies[b] > 0

IInv ==
  /\ TInv
  /\ NotLost
  /\ SnapshotIdsNotReused
  /\ SpooledOnce
  /\ ReplayInv

LEMMA InvInit == Init => IInv
<1> SUFFICES ASSUME Init PROVE IInv
  OBVIOUS
<1>1. DOMAIN batches = {} /\ DOMAIN snap = {} /\ done = {}
  BY DEF Init, EmptyTable
<1>2. \A t \in Thread : cur[t] = NoBatch
  BY DEF Init
<1>3. SpooledOnce
  BY <1>1 DEF SpooledOnce, Spooled
<1>4. SnapshotIdsNotReused
  BY <1>1 DEF SnapshotIdsNotReused
<1>5. ReplayInv
  BY <1>1, <1>2, BatchAssumption, ProcessAssumption DEF Init, ReplayInv, Pending
<1>6. NotLost
  BY DEF Init, NotLost
<1> QED BY TypingInit, <1>3, <1>4, <1>5, <1>6 DEF IInv

\* Copies are never forgotten.
LEMMA CopiedGrows ==
  ASSUME TypeOK, NEW b \in Batch
  PROVE  /\ Copied(b)[b] > 0
         /\ \A c \in Batch : copies[c] > 0 => Copied(b)[c] > 0
  BY DEF Copied, TypeOK

\* InsertBatch up to the spool: the table, the snapshot and the transaction
\* are as they were.
LEMMA InvInsert ==
  ASSUME IInv, TypeOK', NEW t \in Thread,
         \/ Collect(t) \/ CopyStored(t) \/ CopyFails(t)
         \/ CopyAnswerLost(t) \/ EnqueueFails(t)
  PROVE  NotLost' /\ SnapshotIdsNotReused' /\ SpooledOnce' /\ ReplayInv'
<1> USE BatchAssumption, ProcessAssumption
<1>1. TypeOK /\ NotLost /\ SnapshotIdsNotReused /\ SpooledOnce /\ ReplayInv
  BY DEF IInv, TInv
<1>2. ASSUME NEW b \in Batch, RejectInvalid(t, b)
      PROVE NotLost' /\ SnapshotIdsNotReused' /\ SpooledOnce' /\ ReplayInv'
  <2>1. UNCHANGED <<batches, pc, cur, snap, done, copies, evicted>>
    BY <1>2 DEF RejectInvalid
  <2>2. report' = [report EXCEPT ![b] = "spool_overflow"] /\ report[b] = "none"
    BY <1>2 DEF RejectInvalid, Fresh
  <2>3. \A i \in DOMAIN batches : batches[i] # b /\ batches[i] \in Batch
    BY <1>1, <2>2 DEF ReplayInv, TypeOK
  <2>4. NotLost'
    BY <1>1, <2>1, <2>2 DEF NotLost, Spooled, TypeOK
  <2>5. SnapshotIdsNotReused' /\ SpooledOnce'
    BY <1>1, <2>1 DEF SnapshotIdsNotReused, SpooledOnce, Spooled
  <2>6. ReplayInv'
    BY <1>1, <2>1, <2>2, <2>3 DEF ReplayInv, TypeOK, Pending, IsNext
  <2> QED BY <2>4, <2>5, <2>6
<1>3. ASSUME NEW b \in Batch, StartInsert(t, b)
      PROVE NotLost' /\ SnapshotIdsNotReused' /\ SpooledOnce' /\ ReplayInv'
  <2>1. /\ UNCHANGED <<batches, snap, done, copies, evicted, report>>
        /\ pc' = [pc EXCEPT ![t] = "copy"]
        /\ cur' = [cur EXCEPT ![t] = b]
    BY <1>3 DEF StartInsert
  <2>2. b \notin Invalid /\ report[b] = "none" /\ \A u \in Thread : cur[u] # b
    BY <1>3 DEF StartInsert, Fresh
  <2>3. b \notin Spooled
    BY <1>1, <2>2 DEF ReplayInv, Spooled
  <2>4. NotLost' /\ SnapshotIdsNotReused'
    BY <1>1, <2>1 DEF NotLost, SnapshotIdsNotReused, Spooled
  <2>5. SpooledOnce'
    BY <1>1, <2>1, <2>3 DEF SpooledOnce, Spooled, TypeOK
  <2>6. ReplayInv'
    BY <1>1, <2>1, <2>2 DEF ReplayInv, TypeOK, Pending, IsNext
  <2> QED BY <2>4, <2>5, <2>6
<1>4. CASE CopyStored(t) \/ EnqueueFails(t)
  <2>1. PICK s \in {"stored", "spool_overflow"} :
          /\ report' = [report EXCEPT ![cur[t]] = s]
          /\ s = "stored" => copies'[cur[t]] > 0
    BY <1>1, <1>4, CopiedGrows DEF CopyStored, EnqueueFails, Return, TypeOK
  <2>2. /\ UNCHANGED <<batches, snap, done, evicted>>
        /\ pc' = [pc EXCEPT ![t] = "idle"]
        /\ cur' = [cur EXCEPT ![t] = NoBatch]
    BY <1>4 DEF CopyStored, EnqueueFails, Return
  <2>3. cur[t] \in Batch /\ cur[t] \notin Spooled
    BY <1>1, <1>4 DEF TypeOK, SpooledOnce, CopyStored, EnqueueFails
  <2>4. \A c \in Batch : copies[c] > 0 => copies'[c] > 0
    BY <1>1, <1>4, <2>3, CopiedGrows DEF CopyStored, EnqueueFails
  <2>5. NotLost'
    BY <1>1, <2>1, <2>2, <2>3, <2>4 DEF NotLost, Spooled, TypeOK
  <2>6. SnapshotIdsNotReused'
    BY <1>1, <2>2 DEF SnapshotIdsNotReused
  <2>7. NoBatch \notin Spooled
    BY <1>1 DEF TypeOK, Spooled
  <2>8. SpooledOnce'
    BY <1>1, <2>2, <2>7 DEF SpooledOnce, Spooled, TypeOK
  <2>9. ReplayInv'
    <3>1. \A i \in DOMAIN snap : snap[i] \in Batch
      BY <1>1 DEF TypeOK
    <3>2. \A i \in DOMAIN batches : report'[batches[i]] = report[batches[i]]
      BY <1>1, <2>1, <2>3 DEF Spooled, TypeOK
    <3> QED BY <1>1, <2>2, <2>4, <3>1, <3>2 DEF ReplayInv, TypeOK, Pending, IsNext
  <2> QED BY <2>5, <2>6, <2>8, <2>9
<1>5. CASE CopyFails(t) \/ CopyAnswerLost(t)
  <2>1. /\ UNCHANGED <<batches, cur, snap, done, report, evicted>>
        /\ pc' = [pc EXCEPT ![t] = "enqueue"]
    BY <1>5 DEF CopyFails, CopyAnswerLost
  <2>2. cur[t] \in Batch
    BY <1>1, <1>5 DEF TypeOK, CopyFails, CopyAnswerLost
  <2>3. \A c \in Batch : copies[c] > 0 => copies'[c] > 0
    BY <1>1, <1>5, <2>2, CopiedGrows DEF CopyFails, CopyAnswerLost
  <2>4. NotLost' /\ SnapshotIdsNotReused' /\ SpooledOnce'
    BY <1>1, <2>1, <2>3
    DEF NotLost, SnapshotIdsNotReused, SpooledOnce, Spooled
  <2>5. ReplayInv'
    <3>1. \A i \in DOMAIN snap : snap[i] \in Batch
      BY <1>1 DEF TypeOK
    <3> QED BY <1>1, <2>1, <2>3, <3>1 DEF ReplayInv, TypeOK, Pending, IsNext
  <2> QED BY <2>4, <2>5
<1> QED BY <1>2, <1>3, <1>4, <1>5 DEF Collect

\* Enqueue, also while Replay holds a snapshot: the new row survives and lies
\* above every id Replay may still delete.
LEMMA InvEnqueue ==
  ASSUME IInv, NEW t \in Thread, Enqueue(t)
  PROVE  NotLost' /\ SnapshotIdsNotReused' /\ SpooledOnce' /\ ReplayInv'
<1> USE BatchAssumption, ProcessAssumption
<1>1. /\ TypeOK /\ Bounded(DOMAIN batches)
      /\ NotLost /\ SnapshotIdsNotReused /\ SpooledOnce /\ ReplayInv
  BY DEF IInv, TInv
<1>2. /\ UNCHANGED <<snap, done, copies>>
      /\ report' = [report EXCEPT ![cur[t]] = "buffered"]
      /\ cur' = [cur EXCEPT ![t] = NoBatch]
      /\ pc' = [pc EXCEPT ![t] = "idle"]
      /\ pc[t] = "enqueue"
  BY DEF Enqueue, Return
<1>3. /\ cur[t] \in Batch
      /\ evicted \subseteq evicted'
      /\ \A i \in DOMAIN batches \ DOMAIN batches' : batches[i] \in evicted'
      /\ batches' \in [DOMAIN batches' -> Batch]
  BY <1>1, EnqueueEffect
<1>4. PICK n \in DOMAIN batches' \ DOMAIN batches :
         /\ n \in Nat \ {0}
         /\ \A i \in DOMAIN batches : i < n
         /\ DOMAIN batches' \subseteq DOMAIN batches \cup {n}
         /\ batches'[n] = cur[t]
         /\ \A i \in DOMAIN batches' \ {n} : batches'[i] = batches[i]
  BY <1>1, EnqueueEffect
<1>5. cur[t] \notin Spooled
  BY <1>1 DEF SpooledOnce
<1>6. \A i \in DOMAIN snap : i \in Nat /\ i < n
  <2> SUFFICES ASSUME NEW i \in DOMAIN snap PROVE i \in Nat /\ i < n
    OBVIOUS
  <2>1. PICK j \in DOMAIN batches : i <= j
    BY <1>1 DEF ReplayInv
  <2>2. i \in Nat /\ j \in Nat /\ j < n
    BY <1>1, <1>4 DEF TypeOK
  <2> QED BY <2>1, <2>2, <1>4
<1>7. \A i \in DOMAIN batches' :
         \/ i = n
         \/ i # n /\ i \in DOMAIN batches /\ batches'[i] = batches[i]
  BY <1>4
<1>8. NotLost'
  <2> SUFFICES ASSUME NEW b \in Batch
               PROVE  /\ report'[b] = "stored" => copies'[b] > 0
                      /\ report'[b] = "buffered" =>
                           b \in Spooled' \cup evicted' \/ copies'[b] > 0
    BY DEF NotLost
  <2>1. CASE b = cur[t]
    <3>1. report'[b] = "buffered"
      BY <1>1, <1>2, <2>1 DEF TypeOK
    <3>2. b \in Spooled'
      BY <1>4, <2>1 DEF Spooled
    <3> QED BY <3>1, <3>2
  <2>2. CASE b # cur[t]
    <3>1. report'[b] = report[b] /\ copies'[b] = copies[b]
      BY <1>1, <1>2, <2>2 DEF TypeOK
    <3>2. b \in Spooled => b \in Spooled' \cup evicted'
      <4> SUFFICES ASSUME NEW i \in DOMAIN batches, b = batches[i]
                   PROVE  b \in Spooled' \cup evicted'
        BY DEF Spooled
      <4>1. CASE i \in DOMAIN batches'
        BY <1>4, <4>1 DEF Spooled
      <4>2. CASE i \notin DOMAIN batches'
        BY <1>3, <4>2
      <4> QED BY <4>1, <4>2
    <3> QED BY <1>1, <1>3, <3>1, <3>2 DEF NotLost
  <2> QED BY <2>1, <2>2
<1>9. SnapshotIdsNotReused'
  <2> SUFFICES ASSUME NEW i \in DOMAIN snap, i \in DOMAIN batches'
               PROVE  batches'[i] = snap[i]
    BY <1>2 DEF SnapshotIdsNotReused
  <2>1. i # n
    BY <1>6, <1>4
  <2> QED BY <1>1, <1>7, <2>1 DEF SnapshotIdsNotReused
<1>10. SpooledOnce'
  <2>1. ASSUME NEW i \in DOMAIN batches', NEW j \in DOMAIN batches',
               batches'[i] = batches'[j]
        PROVE  i = j
    <3>1. \A k \in DOMAIN batches : batches[k] # cur[t]
      BY <1>5 DEF Spooled
    <3> QED BY <1>1, <1>4, <1>7, <2>1, <3>1 DEF SpooledOnce
  <2>2. ASSUME NEW u \in Thread PROVE cur'[u] \notin Spooled'
    <3>1. \A x \in Spooled' : x \in Spooled \/ x = cur[t]
      BY <1>4, <1>7 DEF Spooled
    <3>2. cur'[u] # cur[t]
      BY <1>1, <1>2, <1>3 DEF ReplayInv, TypeOK
    <3>3. NoBatch \notin Spooled
      BY <1>1 DEF TypeOK, Spooled
    <3>4. cur'[u] \notin Spooled
      BY <1>1, <1>2, <3>3 DEF SpooledOnce, TypeOK
    <3> QED BY <3>1, <3>2, <3>4
  <2> QED BY <2>1, <2>2 DEF SpooledOnce
<1>11. ReplayInv'
  <2>1. pc'[Main] = "delete" => pc[Main] = "delete"
    BY <1>1, <1>2 DEF TypeOK
  <2>2. \A i \in DOMAIN snap : \E j \in DOMAIN batches' : i <= j
    BY <1>4, <1>6
  <2>3. \A i \in DOMAIN batches' : /\ batches'[i] \notin Invalid
                                   /\ report'[batches'[i]] = "buffered"
    <3> SUFFICES ASSUME NEW i \in DOMAIN batches'
                 PROVE  /\ batches'[i] \notin Invalid
                        /\ report'[batches'[i]] = "buffered"
      OBVIOUS
    <3>1. CASE i = n
      BY <1>1, <1>2, <1>3, <1>4, <3>1 DEF ReplayInv, TypeOK
    <3>2. CASE i # n
      BY <1>1, <1>2, <1>3, <1>7, <3>2 DEF ReplayInv, TypeOK
    <3> QED BY <3>1, <3>2
  <2>4. \A u \in Thread : cur'[u] \notin Invalid
    BY <1>1, <1>2 DEF ReplayInv, TypeOK
  <2>5. \A u, v \in Thread : cur'[u] = cur'[v] /\ cur'[u] # NoBatch => u = v
    BY <1>1, <1>2 DEF ReplayInv, TypeOK
  <2> QED BY <1>1, <1>2, <2>1, <2>2, <2>3, <2>4, <2>5 DEF ReplayInv, Pending, IsNext
<1> QED BY <1>8, <1>9, <1>10, <1>11

\* A failed Replay forgets its snapshot and undoes its deletes; the copies it
\* wrote stay.
LEMMA InvRollback ==
  ASSUME IInv, Rollback, UNCHANGED <<batches, cur, report, evicted>>,
         \A c \in Batch : copies[c] > 0 => copies'[c] > 0
  PROVE  NotLost' /\ SnapshotIdsNotReused' /\ SpooledOnce' /\ ReplayInv'
<1> USE BatchAssumption, ProcessAssumption
<1>1. TypeOK /\ NotLost /\ SnapshotIdsNotReused /\ SpooledOnce /\ ReplayInv
  BY DEF IInv, TInv
<1>2. DOMAIN snap' = {} /\ done' = {} /\ pc'[Main] = "idle"
  BY <1>1 DEF Rollback, EmptyTable, TypeOK
<1>3. NotLost' /\ SpooledOnce'
  BY <1>1 DEF NotLost, SpooledOnce, Spooled
<1>4. SnapshotIdsNotReused'
  BY <1>2 DEF SnapshotIdsNotReused
<1>5. ReplayInv'
  BY <1>1, <1>2 DEF ReplayInv
<1> QED BY <1>3, <1>4, <1>5

\* Replay up to its COMMIT leaves the table alone; only the writer changes
\* what PostgreSQL has.
LEMMA InvReplaySteps ==
  ASSUME IInv, TypeOK', NEW i \in DOMAIN snap,
         \/ ReplayWrite(i) \/ ReplayWriteFails(i) \/ ReplayAnswerLost(i)
         \/ ReplayDelete(i)
  PROVE  NotLost' /\ SnapshotIdsNotReused' /\ SpooledOnce' /\ ReplayInv'
<1> USE BatchAssumption, ProcessAssumption
<1>1. TypeOK /\ NotLost /\ SnapshotIdsNotReused /\ SpooledOnce /\ ReplayInv
  BY DEF IInv, TInv
<1>2. UNCHANGED <<batches, cur, report, evicted>>
  BY DEF ReplayWrite, ReplayWriteFails, ReplayAnswerLost, ReplayDelete
<1>3. snap[i] \in Batch /\ snap[i] \notin Invalid
  BY <1>1 DEF TypeOK, ReplayInv
<1>4. \A c \in Batch : copies[c] > 0 => copies'[c] > 0
  BY <1>1, <1>3, CopiedGrows
  DEF ReplayWrite, ReplayWriteFails, ReplayAnswerLost, ReplayDelete
<1>5. NotLost' /\ SpooledOnce'
  BY <1>1, <1>2, <1>4 DEF NotLost, SpooledOnce, Spooled
<1>6. \A k \in DOMAIN snap : snap[k] \in Batch
  BY <1>1 DEF TypeOK
<1>7. CASE ReplayWrite(i)
  <2>1. /\ UNCHANGED <<snap, done>>
        /\ pc[Main] = "write"
        /\ copies' = Copied(snap[i])
        /\ IsNext(i)
    BY <1>3, <1>7 DEF ReplayWrite
  <2>2. \A k \in Pending : IsNext(k) => k = i
    BY <1>1, <2>1 DEF TypeOK, IsNext, Pending
  <2>3. copies'[snap[i]] > 0
    BY <1>1, <1>3, <2>1, CopiedGrows
  <2>4. SnapshotIdsNotReused'
    BY <1>1, <1>2, <2>1 DEF SnapshotIdsNotReused
  <2>5. \A k \in Pending' : IsNext(k)' => copies'[snap'[k]] > 0
    BY <2>1, <2>2, <2>3 DEF Pending, IsNext
  <2>6. \A k \in done' : copies'[snap'[k]] > 0
    BY <1>1, <1>4, <1>6, <2>1 DEF TypeOK, ReplayInv
  <2>7. ReplayInv'
    BY <1>1, <1>2, <2>1, <2>5, <2>6 DEF ReplayInv
  <2> QED BY <1>5, <2>4, <2>7
<1>8. CASE ReplayDelete(i)
  <2>1. /\ UNCHANGED <<snap, copies>>
        /\ done' = done \cup {i}
        /\ pc[Main] = "delete"
        /\ pc'[Main] = "write"
        /\ IsNext(i)
    BY <1>1, <1>8 DEF ReplayDelete, TypeOK
  <2>2. copies[snap[i]] > 0
    BY <1>1, <2>1 DEF ReplayInv, IsNext
  <2>3. SnapshotIdsNotReused'
    BY <1>1, <1>2, <2>1 DEF SnapshotIdsNotReused
  <2>4. ReplayInv'
    BY <1>1, <1>2, <2>1, <2>2 DEF ReplayInv
  <2> QED BY <1>5, <2>3, <2>4
<1>9. CASE ReplayWriteFails(i) \/ ReplayAnswerLost(i)
  BY <1>2, <1>4, <1>9, InvRollback DEF ReplayWriteFails, ReplayAnswerLost
<1> QED BY <1>7, <1>8, <1>9

\* The SELECT copies rows of the table, none of them invalid.
LEMMA InvReplayRead ==
  ASSUME IInv, ReplayRead
  PROVE  NotLost' /\ SnapshotIdsNotReused' /\ SpooledOnce' /\ ReplayInv'
<1> USE ProcessAssumption
<1>1. TypeOK /\ NotLost /\ SnapshotIdsNotReused /\ SpooledOnce /\ ReplayInv
  BY DEF IInv, TInv
<1>2. UNCHANGED <<batches, cur, copies, report, evicted>> /\ done' = {}
  BY DEF ReplayRead
<1>3. pc'[Main] = "write"
  BY <1>1 DEF ReplayRead, TypeOK
<1>4. /\ DOMAIN snap' \subseteq DOMAIN batches
      /\ \A i \in DOMAIN snap' : snap'[i] = batches[i]
  BY <1>1, ReadEffect
<1>5. \A i \in DOMAIN batches : i \in Nat
  BY <1>1 DEF TypeOK
<1>6. ReplayInv'
  <2>1. \A i \in DOMAIN snap' : snap'[i] \notin Invalid /\ \E j \in DOMAIN batches : i <= j
    BY <1>1, <1>4, <1>5 DEF ReplayInv
  <2> QED BY <1>1, <1>2, <1>3, <2>1 DEF ReplayInv
<1>7. SnapshotIdsNotReused'
  BY <1>2, <1>4 DEF SnapshotIdsNotReused
<1>8. NotLost' /\ SpooledOnce'
  BY <1>1, <1>2 DEF NotLost, SpooledOnce, Spooled
<1> QED BY <1>6, <1>7, <1>8

\* COMMIT removes by id: SnapshotIdsNotReused makes the rows it removes the
\* ones that were written.
LEMMA InvReplayCommit ==
  ASSUME IInv, ReplayCommit
  PROVE  NotLost' /\ SnapshotIdsNotReused' /\ SpooledOnce' /\ ReplayInv'
<1> USE ProcessAssumption
<1>1. TypeOK /\ NotLost /\ SnapshotIdsNotReused /\ SpooledOnce /\ ReplayInv
  BY DEF IInv, TInv
<1>2. /\ UNCHANGED <<cur, copies, report, evicted>>
      /\ DOMAIN snap' = {} /\ done' = {} /\ pc'[Main] = "idle"
  BY <1>1 DEF ReplayCommit, EmptyTable, TypeOK
<1>3. /\ DOMAIN batches' = DOMAIN batches \ done
      /\ \A i \in DOMAIN batches' : batches'[i] = batches[i]
  BY <1>1, CommitEffect
<1>4. \A i \in DOMAIN batches \ DOMAIN batches' : copies[batches[i]] > 0
  BY <1>1, <1>3 DEF TypeOK, ReplayInv, SnapshotIdsNotReused
<1>5. NotLost'
  <2>1. \A b \in Spooled : b \in Spooled' \/ copies[b] > 0
    BY <1>3, <1>4 DEF Spooled
  <2> QED BY <1>1, <1>2, <2>1 DEF NotLost
<1>6. SnapshotIdsNotReused'
  BY <1>2 DEF SnapshotIdsNotReused
<1>7. SpooledOnce'
  BY <1>1, <1>2, <1>3 DEF SpooledOnce, Spooled
<1>8. ReplayInv'
  BY <1>1, <1>2, <1>3 DEF ReplayInv
<1> QED BY <1>5, <1>6, <1>7, <1>8

\* A restart forgets the snapshot and what the goroutines held, not the table.
LEMMA InvRestart ==
  ASSUME IInv, Restart
  PROVE  NotLost' /\ SnapshotIdsNotReused' /\ SpooledOnce' /\ ReplayInv'
<1> USE BatchAssumption, ProcessAssumption
<1>1. TypeOK /\ NotLost /\ SnapshotIdsNotReused /\ SpooledOnce /\ ReplayInv
  BY DEF IInv, TInv
<1>2. /\ UNCHANGED <<batches, copies, evicted>>
      /\ DOMAIN snap' = {} /\ done' = {} /\ pc'[Main] = "idle"
      /\ \A t \in Thread : cur'[t] = NoBatch
      /\ \A b \in Batch : report'[b] = report[b]
                          \/ (report'[b] = "lost" /\ \E t \in Thread : cur[t] = b)
  BY DEF Restart, EmptyTable
<1>3. \A i \in DOMAIN batches : batches[i] \in Batch
  BY <1>1 DEF TypeOK
<1>4. \A i \in DOMAIN batches : \A t \in Thread : cur[t] # batches[i]
  BY <1>1 DEF SpooledOnce, Spooled
<1>5. NotLost'
  BY <1>1, <1>2 DEF NotLost, Spooled
<1>6. SnapshotIdsNotReused'
  BY <1>2 DEF SnapshotIdsNotReused
<1>7. SpooledOnce'
  BY <1>1, <1>2, <1>3 DEF SpooledOnce, Spooled
<1>8. ReplayInv'
  BY <1>1, <1>2, <1>3, <1>4 DEF ReplayInv
<1> QED BY <1>5, <1>6, <1>7, <1>8

LEMMA InvStep == IInv /\ [Next]_vars => IInv'
<1> SUFFICES ASSUME IInv, [Next]_vars PROVE IInv'
  OBVIOUS
<1>1. TInv' /\ TypeOK'
  BY TypingStep DEF IInv, TInv
<1>2. SUFFICES NotLost' /\ SnapshotIdsNotReused' /\ SpooledOnce' /\ ReplayInv'
  BY <1>1 DEF IInv
<1>3. ASSUME NEW t \in Thread, Collect(t) \/ Insert(t)
      PROVE  NotLost' /\ SnapshotIdsNotReused' /\ SpooledOnce' /\ ReplayInv'
  BY <1>1, <1>3, InvInsert, InvEnqueue DEF Insert
<1>4. CASE Replay
  <2>1. CASE ReplayDeleteFails
    BY <2>1, InvRollback DEF ReplayDeleteFails
  <2> QED BY <1>1, <1>4, <2>1, InvReplaySteps, InvReplayRead, InvReplayCommit
          DEF Replay
<1>5. CASE Restart
  BY <1>5, InvRestart
<1>6. CASE PgDown \/ PgUp \/ UNCHANGED vars
  <2>1. UNCHANGED <<batches, pc, cur, snap, done, copies, report, evicted>>
    BY <1>6 DEF PgDown, PgUp, vars
  <2> QED BY <2>1 DEF IInv, NotLost, SnapshotIdsNotReused, SpooledOnce,
             ReplayInv, Spooled, Pending, IsNext
<1> QED BY <1>3, <1>4, <1>5, <1>6 DEF Next

\* The ids Replay deletes are still the rows it read.
THEOREM SnapshotIsNotReused == Spec => []SnapshotIdsNotReused
<1>1. IInv => SnapshotIdsNotReused
  BY DEF IInv
<1> QED BY <1>1, InvInit, InvStep, PTL DEF Spec

\* A batch the spool accepted is in it once and is offered by no goroutine.
THEOREM NothingIsSpooledTwice == Spec => []SpooledOnce
<1>1. IInv => SpooledOnce
  BY DEF IInv
<1> QED BY <1>1, InvInit, InvStep, PTL DEF Spec

\* Every id Replay has deleted or is about to delete is that of a batch
\* PostgreSQL has, and no two goroutines hold the same batch.
THEOREM ReplayDeletesWhatItWrote == Spec => []ReplayInv
<1>1. IInv => ReplayInv
  BY DEF IInv
<1> QED BY <1>1, InvInit, InvStep, PTL DEF Spec

-----------------------------------------------------------------------------
(* The size limit.                                                         *)

Cells(t, ids) == UNION {{i} \X (1..Size[t[i]]) : i \in ids}

\* The bytes of finitely many rows are finitely many.
LEMMA CellsFinite ==
  ASSUME NEW t, NEW ids, ids \subseteq Nat, Bounded(ids),
         \A i \in ids : Size[t[i]] \in Nat
  PROVE  IsFiniteSet(Cells(t, ids)) /\ Cardinality(Cells(t, ids)) \in Nat
<1> DEFINE f == [i \in ids |-> {i} \X (1..Size[t[i]])]
           rows == {{i} \X (1..Size[t[i]]) : i \in ids}
<1>1. IsFiniteSet(ids)
  BY FS_BoundedSetOfNaturals DEF Bounded
<1>2. f \in Surjection(ids, rows)
  BY DEF Surjection
<1>3. IsFiniteSet(rows)
  <2> HIDE DEF f, rows
  <2> QED BY <1>1, <1>2, FS_Surjection
<1>4. ASSUME NEW r \in rows PROVE IsFiniteSet(r)
  <2>1. PICK i \in ids : r = {i} \X (1..Size[t[i]])
    OBVIOUS
  <2>2. IsFiniteSet({i})
    BY FS_Singleton
  <2>3. IsFiniteSet(1..Size[t[i]])
    <3>1. 1 \in Int /\ Size[t[i]] \in Int
      OBVIOUS
    <3> QED BY <3>1, FS_Interval
  <2> QED BY <2>1, <2>2, <2>3, FS_Product
<1>5. IsFiniteSet(UNION rows)
  <2> HIDE DEF rows
  <2> QED BY <1>3, <1>4, FS_UNION
<1> QED BY <1>5, FS_CardinalityType DEF Cells

\* Fewer rows hold no more bytes.
LEMMA BytesShrink ==
  ASSUME NEW t, NEW u, NEW ids, NEW few, ids \subseteq Nat, Bounded(ids),
         \A i \in ids : Size[t[i]] \in Nat,
         few \subseteq ids, \A i \in few : u[i] = t[i]
  PROVE  /\ Bytes(u, few) \in Nat
         /\ Bytes(t, ids) \in Nat
         /\ Bytes(u, few) <= Bytes(t, ids)
<1>1. IsFiniteSet(Cells(t, ids)) /\ Cardinality(Cells(t, ids)) \in Nat
  BY CellsFinite
<1>2. Cells(u, few) \subseteq Cells(t, ids)
  BY DEF Cells
<1>3. /\ IsFiniteSet(Cells(u, few))
      /\ Cardinality(Cells(u, few)) <= Cardinality(Cells(t, ids))
  BY <1>1, <1>2, FS_Subset
<1>4. Cardinality(Cells(u, few)) \in Nat
  BY <1>3, FS_CardinalityType
<1> QED BY <1>1, <1>3, <1>4 DEF Bytes, Cells

\* One more row adds at most its own bytes.
LEMMA BytesOneMore ==
  ASSUME NEW t, NEW u, NEW ids, NEW n, ids \subseteq Nat, Bounded(ids),
         \A i \in ids : Size[t[i]] \in Nat /\ u[i] = t[i],
         Size[u[n]] \in Nat
  PROVE  Bytes(u, ids \cup {n}) <= Bytes(t, ids) + Size[u[n]]
<1> DEFINE A == Cells(t, ids)
           B == Cells(u, {n})
<1>1. IsFiniteSet(A) /\ Cardinality(A) \in Nat
  BY CellsFinite
<1>2. B = {n} \X (1..Size[u[n]])
  BY DEF Cells
<1>3. IsFiniteSet(B) /\ Cardinality(B) = Size[u[n]]
  <2>1. IsFiniteSet({n}) /\ IsFiniteSet(1..Size[u[n]])
    <3>1. 1 \in Int /\ Size[u[n]] \in Int
      OBVIOUS
    <3> QED BY <3>1, FS_Interval, FS_Singleton
  <2>2. IsFiniteSet(B)
    <3>1. IsFiniteSet({n} \X (1..Size[u[n]]))
      BY <2>1, FS_Product
    <3> HIDE DEF B
    <3> QED BY <1>2, <3>1
  <2>3. Bytes(u, {n}) = Size[u[n]]
    BY BytesOfOneRow
  <2> QED BY <2>2, <2>3 DEF Bytes, Cells
<1>4. Cells(u, ids \cup {n}) = A \cup B
  BY DEF Cells
<1> HIDE DEF A, B
<1>5. Cardinality(A \cup B) = Cardinality(A) + Cardinality(B) - Cardinality(A \cap B)
  BY <1>1, <1>3, FS_Union
<1>6. Cardinality(A \cap B) \in Nat
  BY <1>1, FS_Intersection, FS_CardinalityType
<1>7. Cardinality(A \cup B) <= Cardinality(A) + Size[u[n]]
  BY <1>1, <1>3, <1>5, <1>6
<1> QED BY <1>4, <1>7 DEF Bytes, Cells, A

\* The spool is within the limit after every step of every goroutine, unless
\* the last eviction stopped at an error or the limit was lowered since.
CapInv == IInv /\ SpoolWithinCap

LEMMA CapStep == CapInv /\ [Next]_vars => CapInv'
<1> SUFFICES ASSUME CapInv, [Next]_vars PROVE CapInv'
  OBVIOUS
<1>1. IInv' /\ IInv
  BY InvStep DEF CapInv
<1>2. TypeOK /\ TypeOK' /\ Bounded(DOMAIN batches)
  BY <1>1 DEF IInv, TInv
<1>3. SUFFICES SpoolWithinCap'
  BY <1>1 DEF CapInv
<1>4. CASE UNCHANGED <<batches, cap, excess>>
  BY <1>4 DEF CapInv, SpoolWithinCap, Bytes
<1>5. CASE \E t \in Thread : Enqueue(t)
  <2>1. ASSUME NEW t \in Thread, Enqueue(t) PROVE cap' = cap
    BY <2>1 DEF Enqueue
  <2> QED BY <1>2, <1>5, <2>1, EnqueueEffect DEF SpoolWithinCap
<1>6. CASE ReplayCommit
  <2>1. /\ DOMAIN batches' \subseteq DOMAIN batches
        /\ \A i \in DOMAIN batches' : batches'[i] = batches[i]
    BY <1>2, <1>6, CommitEffect
  <2>2. /\ DOMAIN batches \subseteq Nat
        /\ \A i \in DOMAIN batches : Size[batches[i]] \in Nat
    BY <1>2, BatchAssumption DEF TypeOK
  <2>3. /\ Bytes(batches', DOMAIN batches') \in Nat
        /\ Bytes(batches, DOMAIN batches) \in Nat
        /\ Bytes(batches', DOMAIN batches') <= Bytes(batches, DOMAIN batches)
    BY <1>2, <2>1, <2>2, BytesShrink
  <2>4. cap \in Nat
    BY <1>2, ProcessAssumption DEF TypeOK
  <2>5. UNCHANGED <<cap, excess>>
    BY <1>6 DEF ReplayCommit
  <2> QED BY <2>3, <2>4, <2>5 DEF CapInv, SpoolWithinCap
<1>7. CASE Restart
  <2>1. batches' = batches /\ excess' = (excess \/ cap' < cap)
    BY <1>7 DEF Restart
  <2>2. cap \in Nat /\ cap' \in Nat
    BY <1>2, ProcessAssumption DEF TypeOK
  <2>3. Bytes(batches, DOMAIN batches) \in Nat
    <3>1. /\ DOMAIN batches \subseteq Nat
          /\ \A i \in DOMAIN batches : Size[batches[i]] \in Nat
      BY <1>2, BatchAssumption DEF TypeOK
    <3> QED BY <1>2, <3>1, BytesShrink
  <2>4. ~excess' => ~excess /\ cap <= cap'
    <3>1. ~excess' => ~excess /\ ~(cap' < cap)
      BY Zenon, <2>1
    <3> QED BY <2>2, <3>1
  <2>5. Bytes(batches', DOMAIN batches') = Bytes(batches, DOMAIN batches)
    BY <2>1
  <2> QED BY <2>2, <2>3, <2>4, <2>5 DEF CapInv, SpoolWithinCap
<1>8. \/ UNCHANGED <<batches, cap, excess>>
      \/ \E t \in Thread : Enqueue(t)
      \/ ReplayCommit
      \/ Restart
  BY DEF Next, Collect, RejectInvalid, StartInsert, Insert, CopyStored, CopyFails,
         CopyAnswerLost, EnqueueFails, Replay, ReplayRead, ReplayWrite,
         ReplayWriteFails, ReplayAnswerLost, ReplayDelete, ReplayDeleteFails,
         PgDown, PgUp, vars
<1> QED BY <1>4, <1>5, <1>6, <1>7, <1>8

\* LimitHolds: for any sizes, goroutines and limits, one per process start, the
\* spool is above the limit of the running process only while the last eviction
\* is one that an SQLite error stopped, or one under a larger limit.
THEOREM LimitHolds == Spec => []SpoolWithinCap
<1>1. Init => CapInv
  <2> SUFFICES ASSUME Init PROVE CapInv
    OBVIOUS
  <2>1. DOMAIN batches = {} /\ cap \in Nat
    BY ProcessAssumption DEF Init, EmptyTable
  <2>2. Bytes(batches, {}) = 0
    <3>1. Cells(batches, {}) = {}
      BY DEF Cells
    <3> QED BY <3>1, FS_EmptySet DEF Bytes, Cells
  <2>3. SpoolWithinCap
    BY <2>1, <2>2 DEF SpoolWithinCap
  <2> QED BY InvInit, <2>3 DEF CapInv
<1>2. CapInv /\ [Next]_vars => CapInv'
  BY CapStep
<1>3. CapInv => SpoolWithinCap
  BY DEF CapInv
<1> QED BY <1>1, <1>2, <1>3, PTL DEF Spec

\* Enqueue drops a row only when that row, the younger ones and the new one
\* are above the limit together.
LEMMA EvictionStep ==
  ASSUME TypeOK, Bounded(DOMAIN batches), NEW t \in Thread, Enqueue(t),
         NEW i \in DOMAIN batches \ DOMAIN batches'
  PROVE  Bytes(batches, From(DOMAIN batches, i))
           + Bytes(batches', DOMAIN batches' \ DOMAIN batches) > cap
<1> DEFINE n == NextId(DOMAIN batches)
           full == WithRow(batches, cur[t])
           fit == Survivors(full, cap)
           young == From(DOMAIN batches, i)
<1>1. n \in Nat \ {0} /\ \A j \in DOMAIN batches : j < n
  BY NextIdIsAbove DEF TypeOK
<1>2. n \notin DOMAIN batches /\ DOMAIN batches \subseteq Nat
  BY <1>1 DEF TypeOK
<1>3. /\ DOMAIN full = DOMAIN batches \cup {n}
      /\ \A j \in DOMAIN batches : full[j] = batches[j]
      /\ full[n] = cur[t]
  BY <1>2 DEF WithRow
<1>s. cur[t] \in Batch /\ Size[cur[t]] <= cap
  <2>1. Size[cur[t]] <= cap
    BY Zenon DEF Enqueue
  <2>2. cur[t] \in Batch
    BY DEF Enqueue, TypeOK
  <2> QED BY <2>1, <2>2
<1>f. full = WithRow(batches, cur[t])
  OBVIOUS
<1> HIDE DEF n, full
<1>5. Size[full[n]] \in Nat /\ Size[full[n]] <= cap /\ cap \in Nat
  BY <1>3, <1>s, BatchAssumption, ProcessAssumption DEF TypeOK
<1>6. DOMAIN full \subseteq Nat /\ n \in DOMAIN full /\ \A j \in DOMAIN full : j <= n
  BY <1>1, <1>2, <1>3
<1> HIDE DEF fit
<1>t. /\ n \in fit /\ fit \subseteq DOMAIN full
      /\ \A j \in fit, k \in DOMAIN full : j <= k => k \in fit
      /\ \A j \in DOMAIN full \ fit : ~(Bytes(full, From(DOMAIN full, j)) <= cap)
  BY <1>5, <1>6, SurvivorsFit DEF fit
<1>4. PICK kept \in SUBSET DOMAIN full : batches' = Restrict(full, kept) /\ fit \subseteq kept
  BY <1>f, <1>6, <1>t, EnqueueOutcome DEF fit
<1>7. /\ n \in kept /\ kept \subseteq DOMAIN full
      /\ \A j \in DOMAIN full \ kept : ~(Bytes(full, From(DOMAIN full, j)) <= cap)
  BY <1>4, <1>t
<1>8. DOMAIN batches' = kept /\ \A j \in kept : batches'[j] = full[j]
  BY <1>4 DEF Restrict
<1>9. ~(Bytes(full, From(DOMAIN full, i)) <= cap)
  BY <1>3, <1>7, <1>8
<1>10. From(DOMAIN full, i) = young \cup {n}
  BY <1>1, <1>2, <1>3 DEF From
<1>11. DOMAIN batches' \ DOMAIN batches = {n}
  BY <1>2, <1>3, <1>7, <1>8
<1>12. Bytes(batches', {n}) = Size[full[n]]
  <2>1. batches'[n] = full[n]
    BY <1>7, <1>8
  <2>2. Size[batches'[n]] \in Nat
    BY <1>5, <2>1
  <2>3. Bytes(batches', {n}) = Size[batches'[n]]
    BY <2>2, BytesOfOneRow
  <2> QED BY <2>1, <2>3
<1>13. \A j \in young : Size[batches[j]] \in Nat /\ full[j] = batches[j]
  BY <1>3, BatchAssumption DEF TypeOK, From
<1>14. young \subseteq Nat /\ Bounded(young)
  BY <1>2 DEF Bounded, From
<1> HIDE DEF young
<1>15. Bytes(full, young \cup {n}) <= Bytes(batches, young) + Size[full[n]]
  BY <1>5, <1>13, <1>14, BytesOneMore
<1>16. Bytes(batches, young) \in Nat
  BY <1>13, <1>14, BytesShrink
<1>17. Bytes(full, young \cup {n}) \in Nat
  <2>1. /\ young \cup {n} \subseteq Nat
        /\ \A j \in young \cup {n} : Size[full[j]] \in Nat
    BY <1>1, <1>5, <1>13, <1>14
  <2>2. Bounded(young \cup {n})
    BY <1>1, <1>2 DEF Bounded, young, From
  <2> QED BY <2>1, <2>2, BytesShrink
<1>18. Bytes(full, young \cup {n}) > cap
  BY <1>5, <1>9, <1>10, <1>17
<1>19. Bytes(batches, young) + Size[full[n]] > cap
  BY <1>5, <1>15, <1>16, <1>17, <1>18
<1>20. Bytes(batches, young) + Bytes(batches', DOMAIN batches' \ DOMAIN batches) > cap
  BY <1>11, <1>12, <1>19
<1> QED BY <1>20 DEF young

\* Only Enqueue evicts, and it evicts no row that could have stayed.
THEOREM EvictionIsMinimal == Spec => EvictionMinimal
<1> DEFINE Minimal ==
      \A i \in DOMAIN batches \ DOMAIN batches' :
        evicted' # evicted =>
          Bytes(batches, From(DOMAIN batches, i))
            + Bytes(batches', DOMAIN batches' \ DOMAIN batches) > cap
<1>1. TInv /\ [Next]_vars => [Minimal]_vars
  <2> SUFFICES ASSUME TInv, [Next]_vars PROVE Minimal \/ UNCHANGED vars
    OBVIOUS
  <2>1. CASE \E t \in Thread : Enqueue(t)
    BY <2>1, EvictionStep DEF TInv
  <2>2. CASE evicted' = evicted
    BY <2>2
  <2>3. evicted' = evicted \/ \E t \in Thread : Enqueue(t)
    BY DEF Next, Collect, RejectInvalid, StartInsert, Insert, CopyStored, CopyFails,
           CopyAnswerLost, EnqueueFails, Replay, ReplayRead, ReplayWrite,
           ReplayWriteFails, ReplayAnswerLost, ReplayDelete, ReplayDeleteFails,
           ReplayCommit, Restart, PgDown, PgUp, vars
  <2> QED BY <2>1, <2>2, <2>3
<1> QED BY <1>1, TypingInit, TypingStep, PTL DEF Spec, EvictionMinimal

\* An Enqueue that succeeds with every statement of its eviction brings the
\* spool within the limit of the running process, for any limits, however far
\* above it a restart or an eviction that stopped at an error had left it.
THEOREM EnqueueBringsWithinLimit == Spec => EnqueueRestoresLimit
<1> DEFINE Restored == DOMAIN batches' \ DOMAIN batches # {} /\ faults' = faults =>
                         Bytes(batches', DOMAIN batches') <= cap
<1>1. TInv /\ [Next]_vars => [Restored]_vars
  <2> SUFFICES ASSUME TInv, [Next]_vars PROVE Restored \/ UNCHANGED vars
    OBVIOUS
  <2>1. CASE \E t \in Thread : Enqueue(t)
    BY <2>1, EnqueueEffect DEF TInv
  <2>2. CASE DOMAIN batches' \subseteq DOMAIN batches
    BY <2>2
  <2>3. CASE ReplayCommit
    BY <2>2, <2>3, CommitEffect DEF TInv
  <2>4. batches' = batches \/ ReplayCommit \/ \E t \in Thread : Enqueue(t)
    BY DEF Next, Collect, RejectInvalid, StartInsert, Insert, CopyStored, CopyFails,
           CopyAnswerLost, EnqueueFails, Replay, ReplayRead, ReplayWrite,
           ReplayWriteFails, ReplayAnswerLost, ReplayDelete, ReplayDeleteFails,
           Restart, PgDown, PgUp, vars
  <2> QED BY <2>1, <2>2, <2>3, <2>4
<1> QED BY <1>1, TypingInit, TypingStep, PTL DEF Spec, EnqueueRestoresLimit

-----------------------------------------------------------------------------
(* The write path implements BatchQueue.  Two facts join its variables: an *)
(* evicted batch does not come back, and Replay's snapshot is the front of *)
(* the table, up to what was evicted since.                                *)

FrontInv ==
  /\ \A t \in Thread : cur[t] # NoBatch => report[cur[t]] = "none"
  /\ \A b \in evicted : report[b] = "buffered" /\ b \notin Spooled
  /\ \A i \in DOMAIN snap : snap[i] \in evicted \/ i \in DOMAIN batches
  /\ \A i \in DOMAIN snap, j \in DOMAIN batches : j <= i => j \in DOMAIN snap

QInv == IInv /\ FrontInv

\* The rows Replay reads are the oldest ones.
LEMMA OldestIsFront ==
  ASSUME NEW ids, ids \subseteq Nat, Bounded(ids),
         NEW i \in Oldest(ids), NEW j \in ids, j <= i
  PROVE  j \in Oldest(ids)
<1> DEFINE below(k) == {x \in ids : x < k}
<1>1. IsFiniteSet(below(i))
  <2>1. IsFiniteSet(ids)
    BY FS_BoundedSetOfNaturals DEF Bounded
  <2> QED BY <2>1, FS_Subset
<1>2. below(j) \subseteq below(i)
  <2>1. i \in Nat /\ j \in Nat /\ \A x \in ids : x \in Nat
    BY DEF Oldest
  <2>2. ASSUME NEW x \in ids, x < j PROVE x < i
    BY <2>1, <2>2
  <2> QED BY <2>2
<1>3. IsFiniteSet(below(j)) /\ Cardinality(below(j)) <= Cardinality(below(i))
  BY <1>1, <1>2, FS_Subset
<1>4. Cardinality(below(j)) \in Nat /\ Cardinality(below(i)) \in Nat
  BY <1>1, <1>3, FS_CardinalityType
<1>5. Cardinality(below(i)) < Limit /\ Limit \in Nat
  BY ProcessAssumption DEF Oldest
<1>6. Cardinality(below(j)) < Limit
  BY <1>3, <1>4, <1>5
<1> QED BY <1>6 DEF Oldest

LEMMA FrontInit == Init => FrontInv
<1> SUFFICES ASSUME Init PROVE FrontInv
  OBVIOUS
<1>1. DOMAIN snap = {} /\ evicted = {} /\ \A t \in Thread : cur[t] = NoBatch
  BY DEF Init, EmptyTable
<1> QED BY <1>1 DEF FrontInv

\* A goroutine takes a batch nobody has reported on; a batch has one report.
LEMMA FrontInsert ==
  ASSUME QInv, TypeOK', NEW t \in Thread,
         \/ Collect(t) \/ CopyStored(t) \/ CopyFails(t)
         \/ CopyAnswerLost(t) \/ EnqueueFails(t)
  PROVE  FrontInv'
<1> USE BatchAssumption
<1>1. TypeOK /\ ReplayInv /\ FrontInv
  BY DEF QInv, IInv, TInv
<1>2. UNCHANGED <<batches, snap, evicted>>
  BY DEF Collect, RejectInvalid, StartInsert, CopyStored, CopyFails, CopyAnswerLost, EnqueueFails
<1>3. SUFFICES /\ \A u \in Thread : cur'[u] # NoBatch => report'[cur'[u]] = "none"
               /\ \A b \in Batch : report[b] = "buffered" => report'[b] = "buffered"
  BY <1>1, <1>2 DEF FrontInv, Spooled, TypeOK
<1>4. ASSUME NEW b \in Batch, RejectInvalid(t, b) PROVE <1>3!1
  <2>1. report[b] = "none" /\ (\A u \in Thread : cur[u] # b) /\ cur' = cur
        /\ report' = [report EXCEPT ![b] = "spool_overflow"]
    BY <1>4 DEF RejectInvalid, Fresh
  <2> QED BY <1>1, <2>1 DEF FrontInv, TypeOK
<1>5. ASSUME NEW b \in Batch, StartInsert(t, b) PROVE <1>3!1
  <2>1. report[b] = "none" /\ report' = report /\ cur' = [cur EXCEPT ![t] = b]
    BY <1>5 DEF StartInsert, Fresh
  <2> QED BY <1>1, <2>1 DEF FrontInv, TypeOK
<1>6. CASE CopyFails(t) \/ CopyAnswerLost(t)
  BY <1>1, <1>6 DEF FrontInv, CopyFails, CopyAnswerLost
<1>7. CASE CopyStored(t) \/ EnqueueFails(t)
  <2>1. PICK s \in {"stored", "spool_overflow"} : Return(t, s)
    BY <1>7 DEF CopyStored, EnqueueFails
  <2>2. cur[t] \in Batch /\ report[cur[t]] = "none" /\ \A u \in Thread \ {t} : cur[u] # cur[t]
    <3>1. cur[t] # NoBatch
      BY <1>1, <1>7 DEF CopyStored, EnqueueFails, TypeOK
    <3> QED BY <1>1, <3>1 DEF FrontInv, ReplayInv, TypeOK
  <2> QED BY <1>1, <2>1, <2>2 DEF Return, FrontInv, TypeOK
<1> QED BY <1>4, <1>5, <1>6, <1>7 DEF Collect

LEMMA FrontEnqueue ==
  ASSUME QInv, NEW t \in Thread, Enqueue(t)
  PROVE  FrontInv'
<1> USE BatchAssumption
<1>1. TypeOK /\ SpooledOnce /\ ReplayInv /\ SnapshotIdsNotReused /\ FrontInv /\ Bounded(DOMAIN batches)
  BY DEF QInv, IInv, TInv
<1>2. PICK n \in DOMAIN batches' \ DOMAIN batches :
        /\ n \in Nat \ {0}
        /\ \A i \in DOMAIN batches : i < n
        /\ DOMAIN batches' \subseteq DOMAIN batches \cup {n}
        /\ batches'[n] = cur[t]
        /\ \A i \in DOMAIN batches' \ {n} : batches'[i] = batches[i]
  BY <1>1, EnqueueEffect
<1>3. /\ cur[t] \in Batch
      /\ evicted' = evicted \cup {batches[i] : i \in DOMAIN batches \ DOMAIN batches'}
  BY <1>1, EnqueueEffect
<1>4. /\ snap' = snap
      /\ report' = [report EXCEPT ![cur[t]] = "buffered"]
      /\ cur' = [cur EXCEPT ![t] = NoBatch]
  BY DEF Enqueue, Return
<1>5. report[cur[t]] = "none" /\ \A u \in Thread \ {t} : cur[u] # cur[t]
  BY <1>1, <1>3 DEF FrontInv, ReplayInv
<1>6. \A u \in Thread : cur'[u] # NoBatch => report'[cur'[u]] = "none"
  BY <1>1, <1>3, <1>4, <1>5 DEF FrontInv, TypeOK
<1>7. ASSUME NEW b \in evicted' PROVE report'[b] = "buffered" /\ b \notin Spooled'
  <2>1. CASE b \in evicted
    <3>1. report[b] = "buffered" /\ b \notin Spooled /\ b \in Batch
      BY <1>1, <2>1 DEF FrontInv, TypeOK
    <3>2. b # cur[t]
      BY <1>5, <3>1
    <3> QED BY <1>1, <1>2, <1>4, <3>1, <3>2 DEF Spooled, TypeOK
  <2>2. CASE b \notin evicted
    <3>1. PICK i \in DOMAIN batches \ DOMAIN batches' : b = batches[i]
      BY <1>3, <2>2
    <3>2. b # cur[t] /\ b \in Batch /\ report[b] = "buffered"
      BY <1>1, <3>1 DEF SpooledOnce, Spooled, ReplayInv, TypeOK
    <3>3. \A j \in DOMAIN batches' \ {n} : batches'[j] # b
      BY <1>1, <1>2, <3>1 DEF SpooledOnce
    <3> QED BY <1>1, <1>2, <1>4, <3>2, <3>3 DEF Spooled, TypeOK
  <2> QED BY <2>1, <2>2
<1>8. \A i \in DOMAIN snap : snap[i] \in evicted' \/ i \in DOMAIN batches'
  BY <1>1, <1>3 DEF FrontInv, SnapshotIdsNotReused
<1>9. ASSUME NEW i \in DOMAIN snap, NEW j \in DOMAIN batches', j <= i
      PROVE  j \in DOMAIN snap
  <2>1. PICK k \in DOMAIN batches : i <= k
    BY <1>1 DEF ReplayInv
  <2>2. i \in Nat /\ k \in Nat /\ k < n
    BY <1>1, <1>2, <2>1 DEF TypeOK
  <2>3. j # n
    BY <1>2, <1>9, <2>1, <2>2
  <2> QED BY <1>1, <1>2, <1>9, <2>3 DEF FrontInv
<1> QED BY <1>4, <1>6, <1>7, <1>8, <1>9 DEF FrontInv

LEMMA FrontReplay ==
  ASSUME QInv, Replay
  PROVE  FrontInv'
<1>1. TypeOK /\ FrontInv /\ Bounded(DOMAIN batches)
  BY DEF QInv, IInv, TInv
<1>2. UNCHANGED <<cur, report, evicted>>
  BY DEF Replay, ReplayRead, ReplayWrite, ReplayWriteFails, ReplayAnswerLost,
         ReplayDelete, ReplayDeleteFails, ReplayCommit
<1>3. CASE ReplayRead
  <2>1. snap' = Restrict(batches, Oldest(DOMAIN batches)) /\ batches' = batches
    BY <1>3 DEF ReplayRead
  <2>2. DOMAIN snap' = Oldest(DOMAIN batches) /\ Oldest(DOMAIN batches) \subseteq DOMAIN batches
    BY <2>1 DEF Restrict, Oldest
  <2>3. \A i \in DOMAIN snap', j \in DOMAIN batches : j <= i => j \in DOMAIN snap'
    BY <1>1, <2>2, OldestIsFront DEF TypeOK
  <2> QED BY <1>1, <1>2, <2>1, <2>2, <2>3 DEF FrontInv, Spooled
<1>4. CASE ReplayCommit
  <2>1. /\ DOMAIN batches' \subseteq DOMAIN batches
        /\ \A i \in DOMAIN batches' : batches'[i] = batches[i]
    BY <1>1, <1>4, CommitEffect
  <2>2. DOMAIN snap' = {}
    BY <1>4 DEF ReplayCommit, EmptyTable
  <2> QED BY <1>1, <1>2, <2>1, <2>2 DEF FrontInv, Spooled
<1>5. CASE batches' = batches /\ (snap' = snap \/ DOMAIN snap' = {})
  BY <1>1, <1>2, <1>5 DEF FrontInv, Spooled
<1>6. ReplayRead \/ ReplayCommit \/ (batches' = batches /\ (snap' = snap \/ DOMAIN snap' = {}))
  BY DEF Replay, ReplayWrite, ReplayWriteFails, ReplayAnswerLost,
         ReplayDelete, ReplayDeleteFails, Rollback, EmptyTable
<1> QED BY <1>3, <1>4, <1>5, <1>6

LEMMA QInvStep == QInv /\ [Next]_vars => QInv'
<1> SUFFICES ASSUME QInv, [Next]_vars PROVE QInv'
  OBVIOUS
<1>1. IInv'
  BY InvStep DEF QInv
<1>2. TypeOK /\ TypeOK' /\ FrontInv
  BY <1>1 DEF QInv, IInv, TInv
<1>3. SUFFICES FrontInv'
  BY <1>1 DEF QInv
<1>4. ASSUME NEW t \in Thread, Collect(t) \/ Insert(t) PROVE FrontInv'
  BY <1>2, <1>4, FrontInsert, FrontEnqueue DEF Insert
<1>5. CASE Replay
  BY <1>5, FrontReplay
<1>6. CASE Restart
  <2>1. /\ UNCHANGED <<batches, evicted>> /\ DOMAIN snap' = {}
        /\ \A t \in Thread : cur'[t] = NoBatch
        /\ \A b \in Batch : report'[b] = report[b] \/ \E t \in Thread : cur[t] = b
    BY <1>6 DEF Restart, EmptyTable
  <2>2. \A b \in evicted : b \in Batch /\ b # NoBatch /\ report[b] = "buffered"
    BY <1>2, BatchAssumption DEF FrontInv, TypeOK
  <2>3. \A b \in evicted : report'[b] = "buffered"
    BY <1>2, <2>1, <2>2 DEF FrontInv
  <2> QED BY <1>2, <2>1, <2>3 DEF FrontInv, Spooled
<1>7. CASE PgDown \/ PgUp \/ UNCHANGED vars
  <2>1. UNCHANGED <<batches, cur, snap, report, evicted>>
    BY <1>7 DEF PgDown, PgUp, vars
  <2> QED BY <1>2, <2>1 DEF FrontInv, Spooled
<1> QED BY <1>4, <1>5, <1>6, <1>7 DEF Next

-----------------------------------------------------------------------------
(* How often a batch is in PostgreSQL.  A goroutine writes a batch nobody    *)
(* has written, once; Replay writes what was buffered.                       *)

CopiesInv ==
  /\ \A t \in Thread : pc[t] = "copy" => copies[cur[t]] = 0
  /\ \A b \in Fresh : copies[b] = 0
  /\ \A b \in Batch : /\ report[b] = "stored" => copies[b] = 1
                      /\ copies[b] > 1 => report[b] = "buffered"

LEMMA CopiesInsert ==
  ASSUME QInv, TypeOK', CopiesInv, NEW t \in Thread, Collect(t) \/ Insert(t)
  PROVE  CopiesInv'
<1> USE BatchAssumption
<1>1. TypeOK /\ ReplayInv /\ FrontInv
  BY DEF QInv, IInv, TInv
<1>2. \A b \in Batch : copies[b] \in 0..2
  BY <1>1 DEF TypeOK
<1>3. ASSUME NEW b \in Batch, RejectInvalid(t, b) PROVE CopiesInv'
  <2>1. /\ UNCHANGED <<pc, cur, copies>> /\ b \in Fresh
        /\ report' = [report EXCEPT ![b] = "spool_overflow"]
    BY <1>3 DEF RejectInvalid
  <2>2. Fresh' \subseteq Fresh /\ copies[b] = 0
    BY <1>1, <2>1 DEF Fresh, TypeOK, CopiesInv
  <2>3. \A c \in Batch \ {b} : report'[c] = report[c]
    BY <1>1, <2>1 DEF TypeOK
  <2>4. report'[b] = "spool_overflow"
    BY <1>1, <2>1 DEF TypeOK
  <2> QED BY <2>1, <2>2, <2>3, <2>4 DEF CopiesInv
<1>4. ASSUME NEW b \in Batch, StartInsert(t, b) PROVE CopiesInv'
  <2>1. /\ UNCHANGED <<report, copies>> /\ b \in Fresh
        /\ pc' = [pc EXCEPT ![t] = "copy"] /\ cur' = [cur EXCEPT ![t] = b]
        /\ pc[t] = "idle"
    BY <1>4 DEF StartInsert
  <2>2. cur[t] = NoBatch
    BY <1>1, <2>1 DEF TypeOK
  <2>3. Fresh' \subseteq Fresh
    <3> SUFFICES ASSUME NEW c \in Fresh' PROVE c \in Fresh
      OBVIOUS
    <3>1. c \in Batch /\ report[c] = "none" /\ \A u \in Thread : cur'[u] # c
      BY <2>1 DEF Fresh
    <3>2. \A u \in Thread : cur[u] # c
      BY <1>1, <2>1, <2>2, <3>1 DEF TypeOK
    <3> QED BY <3>1, <3>2 DEF Fresh
  <2>4. \A u \in Thread : pc'[u] = "copy" => copies'[cur'[u]] = 0
    <3>1. copies[b] = 0
      BY <2>1 DEF CopiesInv
    <3>2. \A u \in Thread \ {t} : pc'[u] = pc[u] /\ cur'[u] = cur[u]
      BY <1>1, <2>1 DEF TypeOK
    <3>3. cur'[t] = b
      BY <1>1, <2>1 DEF TypeOK
    <3> QED BY <2>1, <3>1, <3>2, <3>3 DEF CopiesInv
  <2> QED BY <2>1, <2>3, <2>4 DEF CopiesInv
<1>5. ASSUME CopyStored(t) \/ CopyFails(t) \/ CopyAnswerLost(t) \/ Enqueue(t) \/ EnqueueFails(t)
      PROVE  CopiesInv'
  <2>1. pc[t] \in {"copy", "enqueue"}
    BY <1>5 DEF CopyStored, CopyFails, CopyAnswerLost, Enqueue, EnqueueFails
  <2>2. /\ cur[t] \in Batch /\ report[cur[t]] = "none"
        /\ \A u \in Thread \ {t} : cur[u] # cur[t]
    <3>1. cur[t] # NoBatch
      BY <1>1, <2>1 DEF TypeOK
    <3> QED BY <1>1, <3>1 DEF FrontInv, ReplayInv, TypeOK
  <2>3. PICK b \in Batch : b = cur[t]
    BY <2>2
  <2>4. /\ \A c \in Batch \ {b} : copies'[c] = copies[c] /\ report'[c] = report[c]
        /\ copies'[b] \in {0, 1}
        /\ \/ pc[t] = "copy" /\ pc'[t] = "enqueue" /\ cur'[t] = b /\ report'[b] = "none"
           \/ /\ pc'[t] = "idle" /\ cur'[t] = NoBatch
              /\ report'[b] # "none" /\ (report'[b] = "stored" => copies'[b] = 1)
    <3>1. copies[b] \in {0, 1}
      BY <1>2, <2>2, <2>3 DEF CopiesInv
    <3>2. CASE CopyStored(t)
      BY <1>1, <2>3, <3>2 DEF CopyStored, Return, Copied, CopiesInv, TypeOK
    <3>3. CASE CopyFails(t)
      BY <1>1, <2>2, <2>3, <3>1, <3>3 DEF CopyFails, TypeOK
    <3>4. CASE CopyAnswerLost(t)
      BY <1>1, <2>2, <2>3, <3>4 DEF CopyAnswerLost, Copied, CopiesInv, TypeOK
    <3>5. CASE Enqueue(t)
      BY <1>1, <2>3, <3>1, <3>5 DEF Enqueue, Return, TypeOK
    <3>6. CASE EnqueueFails(t)
      BY <1>1, <2>3, <3>1, <3>6 DEF EnqueueFails, Return, TypeOK
    <3> QED BY <1>5, <3>2, <3>3, <3>4, <3>5, <3>6
  <2>5. \A u \in Thread \ {t} : pc'[u] = pc[u] /\ cur'[u] = cur[u]
    <3>1. pc' = [pc EXCEPT ![t] = pc'[t]] /\ cur' = [cur EXCEPT ![t] = cur'[t]]
      BY <1>1, <1>5 DEF CopyStored, CopyFails, CopyAnswerLost, Enqueue, EnqueueFails, Return, TypeOK
    <3> QED BY <1>1, <3>1 DEF TypeOK
  <2>6. \A u \in Thread : pc'[u] = "copy" => copies'[cur'[u]] = 0
    <3> SUFFICES ASSUME NEW u \in Thread, pc'[u] = "copy" PROVE copies'[cur'[u]] = 0
      OBVIOUS
    <3>1. u # t
      BY <2>4
    <3>2. cur[u] \in Batch \ {b}
      BY <1>1, <2>2, <2>3, <2>5, <3>1 DEF TypeOK
    <3> QED BY <2>4, <2>5, <3>1, <3>2 DEF CopiesInv
  <2>7. \A c \in Fresh' : copies'[c] = 0
    <3> SUFFICES ASSUME NEW c \in Fresh' PROVE copies'[c] = 0
      OBVIOUS
    <3>1. c \in Batch /\ report'[c] = "none" /\ \A u \in Thread : cur'[u] # c
      BY DEF Fresh
    <3>2. c # b
      BY <2>4, <3>1
    <3>3. \A u \in Thread : cur[u] # c
      BY <2>3, <2>5, <3>1, <3>2
    <3> QED BY <2>4, <3>1, <3>2, <3>3 DEF CopiesInv, Fresh
  <2> QED BY <2>4, <2>6, <2>7 DEF CopiesInv
<1> QED BY <1>3, <1>4, <1>5 DEF Collect, Insert

\* What Replay writes was buffered, so it is not what a goroutine holds.
LEMMA CopiesReplay ==
  ASSUME QInv, CopiesInv, Replay
  PROVE  CopiesInv'
<1> USE BatchAssumption, ProcessAssumption
<1>1. TypeOK /\ ReplayInv /\ SnapshotIdsNotReused /\ FrontInv
  BY DEF QInv, IInv, TInv
<1>2. \A i \in DOMAIN snap : snap[i] \in Batch /\ report[snap[i]] = "buffered"
  BY <1>1 DEF TypeOK, ReplayInv, SnapshotIdsNotReused, FrontInv
<1>3. UNCHANGED <<cur, report>> /\ \A t \in Thread : pc'[t] = "copy" => pc[t] = "copy"
  BY <1>1 DEF Replay, ReplayRead, ReplayWrite, ReplayWriteFails, ReplayAnswerLost, ReplayDelete,
              ReplayDeleteFails, ReplayCommit, Rollback, TypeOK
<1>4. \A b \in Batch : report[b] # "buffered" => copies'[b] = copies[b]
  <2>1. ASSUME NEW i \in DOMAIN snap, copies' = Copied(snap[i]) PROVE <1>4
    BY <1>1, <1>2, <2>1 DEF Copied, TypeOK
  <2>2. UNCHANGED copies \/ \E i \in DOMAIN snap : copies' = Copied(snap[i])
    BY DEF Replay, ReplayRead, ReplayWrite, ReplayWriteFails, ReplayAnswerLost, ReplayDelete,
           ReplayDeleteFails, ReplayCommit
  <2> QED BY <2>1, <2>2
<1>5. \A t \in Thread : pc[t] = "copy" => cur[t] \in Batch /\ report[cur[t]] = "none"
  BY <1>1 DEF TypeOK, FrontInv
<1>6. Fresh' = Fresh /\ \A b \in Fresh : b \in Batch /\ report[b] = "none"
  BY <1>3 DEF Fresh
<1>7. \A t \in Thread : pc'[t] = "copy" => copies'[cur'[t]] = 0
  BY <1>3, <1>4, <1>5 DEF CopiesInv
<1>8. \A b \in Fresh' : copies'[b] = 0
  BY <1>4, <1>6 DEF CopiesInv
<1>9. \A b \in Batch : /\ report'[b] = "stored" => copies'[b] = 1
                       /\ copies'[b] > 1 => report'[b] = "buffered"
  BY <1>3, <1>4 DEF CopiesInv
<1> QED BY <1>7, <1>8, <1>9 DEF CopiesInv

LEMMA CopiesStep == QInv /\ CopiesInv /\ [Next]_vars => CopiesInv'
<1> SUFFICES ASSUME QInv, CopiesInv, [Next]_vars PROVE CopiesInv'
  OBVIOUS
<1>1. TypeOK' /\ TypeOK /\ FrontInv
  BY QInvStep DEF QInv, IInv, TInv
<1>2. CASE Restart
  <2>1. /\ UNCHANGED copies /\ \A t \in Thread : pc'[t] = "idle"
        /\ \A b \in Batch : IF \E t \in Thread : cur[t] = b
                            THEN report'[b] = "lost" ELSE report'[b] = report[b]
    BY <1>2 DEF Restart
  <2>2. Fresh' \subseteq Fresh
    BY <2>1 DEF Fresh
  <2>3. \A b \in Batch : (\E t \in Thread : cur[t] = b) => report[b] = "none"
    BY <1>1, BatchAssumption DEF FrontInv
  <2>4. \A b \in Batch : /\ report'[b] = "stored" => report[b] = "stored"
                         /\ report[b] = "buffered" => report'[b] = "buffered"
    BY <2>1, <2>3
  <2> QED BY <2>1, <2>2, <2>4 DEF CopiesInv
<1>3. CASE PgDown \/ PgUp \/ UNCHANGED vars
  <2>1. UNCHANGED <<pc, cur, report, copies>>
    BY <1>3 DEF PgDown, PgUp, vars
  <2> QED BY <2>1 DEF CopiesInv, Fresh
<1> QED BY <1>1, <1>2, <1>3, CopiesInsert, CopiesReplay DEF Next

\* For any batches, goroutines, limits, lost answers, outages and restarts: a
\* batch reported stored is in PostgreSQL once; a batch reported buffered is in
\* the spool until it is in PostgreSQL or was dropped at the size limit; and no
\* other than a buffered one is in PostgreSQL twice.
THEOREM NothingIsLost == Spec => []NoSilentLoss
<1>1. Init => QInv /\ CopiesInv
  <2> SUFFICES ASSUME Init PROVE QInv /\ CopiesInv
    OBVIOUS
  <2>1. CopiesInv
    BY DEF Init, CopiesInv, Fresh
  <2> QED BY <2>1, InvInit, FrontInit DEF QInv
<1>2. QInv /\ [Next]_vars => QInv'
  BY QInvStep
<1>3. QInv /\ CopiesInv /\ [Next]_vars => CopiesInv'
  BY CopiesStep
<1>4. QInv /\ CopiesInv => NoSilentLoss
  BY DEF QInv, IInv, NotLost, CopiesInv, NoSilentLoss
<1> QED BY <1>1, <1>2, <1>3, <1>4, PTL DEF Spec

\* What Replay has written of its snapshot, or is about to delete.
Writes == {i \in DOMAIN snap : i \in done \/ (pc[Main] = "delete" /\ IsNext(i))}

\* A batch PostgreSQL refuses from Replay is not among what Replay has written,
\* and a buffered one is still in the spool or was evicted, even if the rows are
\* in PostgreSQL, written by InsertBatch without an answer.
UnreplayableInv ==
  /\ \A i \in Writes : snap[i] \notin Unreplayable
  /\ \A b \in Unreplayable : report[b] = "buffered" => b \in Spooled \cup evicted

\* ReplayIsAllOrNothing: a row leaves the spool at the size limit, or with every
\* row its Replay read, each of which is in PostgreSQL.
THEOREM ReplayIsAllOrNothing ==
  Spec => [][\A i \in DOMAIN batches \ DOMAIN batches' :
               \/ batches[i] \in evicted'
               \/ \A j \in DOMAIN snap : copies[snap[j]] > 0 /\ j \notin DOMAIN batches']_vars
<1> DEFINE Whole == \A i \in DOMAIN batches \ DOMAIN batches' :
                      \/ batches[i] \in evicted'
                      \/ \A j \in DOMAIN snap : copies[snap[j]] > 0 /\ j \notin DOMAIN batches'
<1>1. IInv /\ [Next]_vars => [Whole]_vars
  <2> SUFFICES ASSUME IInv, [Next]_vars, NEW i \in DOMAIN batches, i \notin DOMAIN batches',
                      batches[i] \notin evicted', NEW j \in DOMAIN snap
               PROVE  copies[snap[j]] > 0 /\ j \notin DOMAIN batches'
    OBVIOUS
  <2>1. CASE ReplayCommit
    <3>1. j \in done /\ batches' = Restrict(batches, DOMAIN batches \ done)
      BY <2>1 DEF ReplayCommit, Pending
    <3>2. j \notin DOMAIN batches'
      BY <3>1 DEF Restrict
    <3> QED BY <3>1, <3>2 DEF IInv, ReplayInv
  <2>2. ASSUME NEW t \in Thread, Enqueue(t) PROVE FALSE
    <3>1. TypeOK /\ Bounded(DOMAIN batches)
      BY DEF IInv, TInv
    <3>2. evicted' = evicted \cup {batches[k] : k \in DOMAIN batches \ DOMAIN batches'}
      BY <2>2, <3>1, EnqueueEffect
    <3> QED BY <3>2
  <2>3. ReplayCommit \/ (\E t \in Thread : Enqueue(t)) \/ batches' = batches
    BY DEF Next, Collect, Insert, Replay, RejectInvalid, StartInsert, CopyStored, CopyFails,
           CopyAnswerLost, EnqueueFails, ReplayRead, ReplayWrite, ReplayWriteFails,
           ReplayAnswerLost, ReplayDelete, ReplayDeleteFails, Restart, PgDown, PgUp, vars
  <2> QED BY <2>1, <2>2, <2>3
<1>2. Spec => [][Whole]_vars
  <2> HIDE DEF Whole
  <2> QED BY <1>1, InvInit, InvStep, PTL DEF Spec
<1> QED BY <1>2

LEMMA UnreplayableStep == IInv /\ UnreplayableInv /\ [Next]_vars => UnreplayableInv'
<1> SUFFICES ASSUME IInv, UnreplayableInv, [Next]_vars PROVE UnreplayableInv'
  OBVIOUS
<1> USE BatchAssumption, ProcessAssumption
<1>1. TypeOK /\ Bounded(DOMAIN batches) /\ SnapshotIdsNotReused /\ SpooledOnce /\ ReplayInv
  BY DEF IInv, TInv
<1>2. \A i \in DOMAIN snap : i \in Nat /\ snap[i] \notin Invalid
  BY <1>1 DEF ReplayInv, TypeOK
<1>3. \A i \in Writes' : snap'[i] \notin Unreplayable
  <2>1. CASE /\ UNCHANGED <<snap, done>>
             /\ pc'[Main] = "delete" => pc[Main] = "delete"
    BY <2>1 DEF UnreplayableInv, Writes, IsNext, Pending
  <2>2. ASSUME NEW t \in Thread, Collect(t) \/ Insert(t) PROVE <1>3
    <3>1. UNCHANGED <<snap, done>>
      BY <2>2 DEF Collect, RejectInvalid, StartInsert, Insert, CopyStored, CopyFails,
                  CopyAnswerLost, Enqueue, EnqueueFails
    <3>2. UNCHANGED pc \/ \E v \in {"copy", "enqueue", "idle"} : pc' = [pc EXCEPT ![t] = v]
      BY <2>2 DEF Collect, RejectInvalid, StartInsert, Insert, CopyStored, CopyFails,
                  CopyAnswerLost, Enqueue, EnqueueFails, Return
    <3>3. pc'[Main] = "delete" => pc[Main] = "delete"
      BY <1>1, <3>2 DEF TypeOK
    <3> QED BY <2>1, <3>1, <3>3
  <2>3. CASE DOMAIN snap' = {}
    BY <2>3 DEF Writes
  <2>4. CASE \/ ReplayDeleteFails \/ ReplayCommit \/ Restart
             \/ \E i \in DOMAIN snap : ReplayWriteFails(i) \/ ReplayAnswerLost(i)
    BY <2>3, <2>4 DEF ReplayWriteFails, ReplayAnswerLost, ReplayDeleteFails, ReplayCommit,
                      Restart, Rollback, EmptyTable
  <2>5. CASE ReplayRead
    <3>1. done' = {} /\ pc'[Main] = "write"
      BY <1>1, <2>5 DEF ReplayRead, TypeOK
    <3> QED BY <3>1 DEF Writes
  <2>6. ASSUME NEW i \in DOMAIN snap, ReplayWrite(i) PROVE <1>3
    <3>1. UNCHANGED <<snap, done>> /\ IsNext(i) /\ snap[i] \notin Unreplayable
      BY <1>2, <2>6 DEF ReplayWrite
    <3>2. \A j : IsNext(j) => j = i
      BY <1>2, <3>1 DEF IsNext, Pending
    <3>3. \A j \in Writes' : j \in DOMAIN snap /\ (j \in done \/ IsNext(j))
      BY <3>1 DEF Writes, IsNext, Pending
    <3> QED BY <3>1, <3>2, <3>3 DEF UnreplayableInv, Writes
  <2>7. ASSUME NEW i \in DOMAIN snap, ReplayDelete(i) PROVE <1>3
    <3>1. /\ UNCHANGED snap /\ done' = done \cup {i} /\ i \in Writes
          /\ pc'[Main] = "write"
      BY <1>1, <2>7 DEF ReplayDelete, Writes, TypeOK
    <3>2. Writes' \subseteq Writes
      BY <3>1 DEF Writes
    <3> QED BY <3>1, <3>2 DEF UnreplayableInv
  <2>8. CASE PgDown \/ PgUp \/ UNCHANGED vars
    BY <2>1, <2>8 DEF PgDown, PgUp, vars
  <2> QED BY <2>2, <2>4, <2>5, <2>6, <2>7, <2>8 DEF Next, Replay
<1>4. ASSUME NEW b \in Unreplayable, report'[b] = "buffered" PROVE b \in Spooled' \cup evicted'
  <2>1. CASE UNCHANGED <<batches, evicted>> /\ report[b] = "buffered"
    BY <2>1 DEF UnreplayableInv, Spooled
  <2>2. ASSUME NEW t \in Thread, Enqueue(t) PROVE b \in Spooled' \cup evicted'
    <3>1. /\ cur[t] \in Spooled'
          /\ \A c \in Spooled : c \in Spooled' \cup evicted'
          /\ evicted \subseteq evicted'
      <4>1. PICK n \in DOMAIN batches' \ DOMAIN batches :
               /\ batches'[n] = cur[t]
               /\ \A i \in DOMAIN batches' \ {n} : batches'[i] = batches[i]
        BY <1>1, <2>2, EnqueueEffect
      <4>2. evicted' = evicted \cup {batches[i] : i \in DOMAIN batches \ DOMAIN batches'}
        BY <1>1, <2>2, EnqueueEffect
      <4> QED BY <4>1, <4>2 DEF Spooled
    <3>2. b = cur[t] \/ report[b] = "buffered"
      BY <1>1, <1>4, <2>2 DEF Enqueue, Return, TypeOK
    <3> QED BY <3>1, <3>2 DEF UnreplayableInv
  <2>3. ASSUME NEW t \in Thread,
               \/ Collect(t) \/ CopyStored(t) \/ CopyFails(t) \/ CopyAnswerLost(t) \/ EnqueueFails(t)
        PROVE  UNCHANGED <<batches, evicted>> /\ report[b] = "buffered"
    <3>1. UNCHANGED <<batches, evicted>>
      BY <2>3 DEF Collect, RejectInvalid, StartInsert, CopyStored, CopyFails, CopyAnswerLost,
                  EnqueueFails
    <3>2. UNCHANGED report \/ \E c \in Batch : \E v \in {"stored", "spool_overflow"} :
                                report' = [report EXCEPT ![c] = v]
      BY <1>1, <2>3 DEF Collect, RejectInvalid, StartInsert, CopyStored, CopyFails,
                        CopyAnswerLost, EnqueueFails, Return, TypeOK
    <3> QED BY <1>1, <1>4, <3>1, <3>2 DEF TypeOK
  <2>4. CASE ReplayCommit
    <3>1. UNCHANGED <<report, evicted>>
      BY <2>4 DEF ReplayCommit
    <3>2. PICK c \in {b} : c \in Spooled \cup evicted
      BY <1>4, <3>1 DEF UnreplayableInv
    <3>3. ASSUME NEW i \in DOMAIN batches, batches[i] = b PROVE b \in Spooled'
      <4>1. i \notin done
        BY <1>1, <3>3 DEF UnreplayableInv, Writes, SnapshotIdsNotReused, TypeOK
      <4>2. i \in DOMAIN batches' /\ batches'[i] = b
        BY <1>1, <2>4, <3>3, <4>1, CommitEffect
      <4> QED BY <4>2 DEF Spooled
    <3> QED BY <3>1, <3>2, <3>3 DEF Spooled
  <2>5. CASE \/ ReplayRead \/ ReplayDeleteFails \/ PgDown \/ PgUp \/ UNCHANGED vars
             \/ \E i \in DOMAIN snap : \/ ReplayWrite(i) \/ ReplayWriteFails(i)
                                       \/ ReplayAnswerLost(i) \/ ReplayDelete(i)
    BY <1>4, <2>1, <2>5 DEF ReplayRead, ReplayDeleteFails, ReplayWrite, ReplayWriteFails,
                            ReplayAnswerLost, ReplayDelete, PgDown, PgUp, vars
  <2>6. CASE Restart
    <3>1. UNCHANGED <<batches, evicted>> /\ (report'[b] = report[b] \/ report'[b] = "lost")
      BY <2>6 DEF Restart
    <3> QED BY <1>4, <2>1, <3>1
  <2> QED BY <2>1, <2>2, <2>3, <2>4, <2>5, <2>6 DEF Next, Insert, Replay
<1> QED BY <1>3, <1>4 DEF UnreplayableInv

\* UnreplayableStopsReplay: for any window of Replay and any order of outages,
\* lost answers and restarts, a buffered batch that PostgreSQL refuses from
\* Replay leaves the spool at the size limit only; and as long as it is among
\* the rows a Replay read, no row leaves the spool in any other way, not the
\* ones before it either, which the Replay has written.
THEOREM UnreplayableStopsReplay ==
  Spec => /\ []\A b \in Unreplayable : report[b] = "buffered" => b \in Spooled \cup evicted
          /\ [][\A i \in DOMAIN batches \ DOMAIN batches' :
                  batches[i] \in evicted' \/ \A j \in DOMAIN snap : snap[j] \notin Unreplayable]_vars
<1> DEFINE Kept == \A b \in Unreplayable : report[b] = "buffered" => b \in Spooled \cup evicted
           Stuck == \A i \in DOMAIN batches \ DOMAIN batches' :
                      batches[i] \in evicted' \/ \A j \in DOMAIN snap : snap[j] \notin Unreplayable
<1>1. Init => IInv /\ UnreplayableInv
  <2>1. Init => UnreplayableInv
    BY BatchAssumption DEF Init, UnreplayableInv, Writes, EmptyTable
  <2> QED BY <2>1, InvInit
<1>2. IInv /\ [Next]_vars => IInv'
  BY InvStep
<1>3. IInv /\ UnreplayableInv /\ [Next]_vars => UnreplayableInv'
  BY UnreplayableStep
<1>4. UnreplayableInv => Kept
  BY DEF UnreplayableInv
<1>5. IInv /\ UnreplayableInv /\ [Next]_vars => [Stuck]_vars
  <2> SUFFICES ASSUME IInv, UnreplayableInv, [Next]_vars,
                      NEW i \in DOMAIN batches \ DOMAIN batches', batches[i] \notin evicted',
                      NEW j \in DOMAIN snap
               PROVE  snap[j] \notin Unreplayable
    OBVIOUS
  <2>1. TypeOK /\ Bounded(DOMAIN batches)
    BY DEF IInv, TInv
  <2>2. ASSUME NEW t \in Thread PROVE ~Enqueue(t)
    BY <2>1, EnqueueEffect
  <2>3. ReplayCommit
    BY <2>2 DEF Next, Collect, Insert, Replay, RejectInvalid, StartInsert, CopyStored, CopyFails,
           CopyAnswerLost, EnqueueFails, ReplayRead, ReplayWrite, ReplayWriteFails,
           ReplayAnswerLost, ReplayDelete, ReplayDeleteFails, Restart, PgDown, PgUp, vars
  <2>4. j \in done
    BY <2>3 DEF ReplayCommit, Pending
  <2> QED BY <2>4 DEF UnreplayableInv, Writes
<1>6. Spec => []Kept
  <2> HIDE DEF Kept
  <2> QED BY <1>1, <1>2, <1>3, <1>4, PTL DEF Spec
<1>7. Spec => [][Stuck]_vars
  <2> HIDE DEF Stuck
  <2> QED BY <1>1, <1>2, <1>3, <1>5, PTL DEF Spec
<1> QED BY <1>6, <1>7

-----------------------------------------------------------------------------
(* Every step is a step of the queue.                                      *)

\* A batch the goroutine or Replay sends is not acknowledged yet.
LEMMA SendMaps ==
  ASSUME TypeOK, NEW b \in Batch, b \notin Acked,
         copies' = Copied(b), UNCHANGED <<batches, evicted>>,
         \A c \in Batch : report'[c] = "buffered" <=> report[c] = "buffered"
  PROVE  Q!Send(b)
<1>1. Spooled' = Spooled /\ SpoolOrder' = SpoolOrder /\ Acked' = Acked
  BY DEF Spooled, SpoolOrder, Acked
<1>2. InPostgres' = InPostgres \cup {b}
  BY DEF InPostgres, Copied, TypeOK
<1> QED BY <1>1, <1>2 DEF Q!Send

\* Neither the table nor what was sent, buffered or evicted changes.
LEMMA Stutters ==
  ASSUME UNCHANGED <<batches, evicted, copies>>,
         \A c \in Batch : report'[c] = "buffered" <=> report[c] = "buffered"
  PROVE  UNCHANGED Q!qvars
<1>1. /\ Spooled' = Spooled /\ SpoolOrder' = SpoolOrder
      /\ Acked' = Acked /\ InPostgres' = InPostgres
  BY DEF Spooled, SpoolOrder, Acked, InPostgres
<1> QED BY <1>1 DEF Q!qvars

\* InsertBatch up to the spool sends its batch or does nothing.
LEMMA InsertMaps ==
  ASSUME QInv, NEW t \in Thread,
         \/ Collect(t) \/ CopyStored(t) \/ CopyFails(t)
         \/ CopyAnswerLost(t) \/ EnqueueFails(t)
  PROVE  [Q!QNext]_Q!qvars
<1> USE BatchAssumption
<1>1. TypeOK /\ FrontInv
  BY DEF QInv, IInv, TInv
<1>2. UNCHANGED <<batches, evicted>>
  BY DEF Collect, RejectInvalid, StartInsert, CopyStored, CopyFails, CopyAnswerLost, EnqueueFails
<1>3. CASE Collect(t)
  <2>1. copies' = copies /\ \A c \in Batch : report'[c] = "buffered" <=> report[c] = "buffered"
    BY <1>1, <1>3 DEF Collect, RejectInvalid, StartInsert, Fresh, TypeOK
  <2> QED BY <1>2, <2>1, Stutters
<1>4. CASE ~Collect(t)
  <2>1. cur[t] \in Batch /\ report[cur[t]] = "none"
    BY <1>1, <1>4 DEF CopyStored, CopyFails, CopyAnswerLost, EnqueueFails, FrontInv, TypeOK
  <2>2. \A c \in Batch : report'[c] = "buffered" <=> report[c] = "buffered"
    BY <1>1, <1>4, <2>1 DEF CopyStored, CopyFails, CopyAnswerLost, EnqueueFails, Return, TypeOK
  <2>3. CASE copies' = copies
    BY <1>2, <2>2, <2>3, Stutters
  <2>4. CASE copies' = Copied(cur[t])
    <3>1. cur[t] \notin Acked
      BY <2>1 DEF Acked
    <3>2. Q!Send(cur[t])
      BY <1>1, <1>2, <2>1, <2>2, <2>4, <3>1, SendMaps
    <3> QED BY <2>1, <3>2 DEF Q!QNext
  <2>5. copies' = copies \/ copies' = Copied(cur[t])
    BY <1>4 DEF CopyStored, CopyFails, CopyAnswerLost, EnqueueFails
  <2> QED BY <2>3, <2>4, <2>5
<1> QED BY <1>3, <1>4

\* Rows that leave the table with every older row are the front of the queue.
LEMMA FrontLeaves ==
  ASSUME TypeOK, SpooledOnce, NEW ids, ids \subseteq DOMAIN batches,
         \A i \in DOMAIN batches, j \in ids : i <= j => i \in ids
  PROVE  Q!IsFront({batches[i] : i \in ids})
<1> DEFINE D == {batches[i] : i \in ids}
<1>1. D \subseteq Spooled
  BY DEF Spooled
<1>2. ASSUME NEW b \in Spooled, NEW d \in D, <<b, d>> \in SpoolOrder
      PROVE  b \in D
  <2>1. PICK i, j \in DOMAIN batches : i < j /\ <<b, d>> = <<batches[i], batches[j]>>
    BY <1>2 DEF SpoolOrder
  <2>2. b = batches[i] /\ d = batches[j] /\ i \in Nat /\ j \in Nat
    BY <2>1 DEF TypeOK
  <2>3. j \in ids
    BY <2>2 DEF SpooledOnce
  <2>4. i \in ids
    BY <2>1, <2>2, <2>3
  <2> QED BY <2>2, <2>4
<1> QED BY <1>1, <1>2 DEF Q!IsFront

LEMMA EnqueueMaps ==
  ASSUME QInv, NEW t \in Thread, Enqueue(t)
  PROVE  Q!QNext
<1> USE BatchAssumption
<1>1. TypeOK /\ SpooledOnce /\ FrontInv /\ Bounded(DOMAIN batches)
  BY DEF QInv, IInv, TInv
<1> DEFINE gone == DOMAIN batches \ DOMAIN batches'
           D == {batches[i] : i \in gone}
           b == cur[t]
<1>2. PICK n \in DOMAIN batches' \ DOMAIN batches :
        /\ n \in Nat \ {0}
        /\ \A i \in DOMAIN batches : i < n
        /\ DOMAIN batches' \subseteq DOMAIN batches \cup {n}
        /\ batches'[n] = b
        /\ \A i \in DOMAIN batches' \ {n} : batches'[i] = batches[i]
  BY <1>1, EnqueueEffect
<1>3. /\ b \in Batch
      /\ evicted' = evicted \cup D
      /\ \A i \in DOMAIN batches', j \in DOMAIN batches : i <= j => j \in DOMAIN batches'
  BY <1>1, EnqueueEffect
<1>4. copies' = copies /\ report' = [report EXCEPT ![b] = "buffered"]
  BY DEF Enqueue, Return
<1>5. report[b] = "none" /\ b \notin Spooled /\ b \notin evicted /\ b \notin Acked
  BY <1>1, <1>3 DEF FrontInv, SpooledOnce, Acked
<1> HIDE DEF b
<1>6. Q!IsFront(D)
  <2>1. \A i \in DOMAIN batches, j \in gone : i <= j => i \in gone
    BY <1>3
  <2> HIDE DEF gone
  <2> QED BY <1>1, <2>1, FrontLeaves DEF gone
<1>7. D \subseteq Spooled
  BY DEF Spooled
<1>8. \A i \in DOMAIN batches : batches[i] \in D <=> i \notin DOMAIN batches'
  BY <1>1 DEF SpooledOnce
<1>9. Spooled' = (Spooled \ D) \cup {b}
  <2>1. ASSUME NEW i \in DOMAIN batches' PROVE batches'[i] \in (Spooled \ D) \cup {b}
    BY <1>2, <1>8 DEF Spooled
  <2>2. ASSUME NEW i \in DOMAIN batches, batches[i] \notin D PROVE batches[i] \in Spooled'
    <3>1. i \in DOMAIN batches' /\ i # n
      BY <1>2, <1>8, <2>2
    <3> QED BY <1>2, <3>1 DEF Spooled
  <2> QED BY <1>2, <2>1, <2>2 DEF Spooled
<1> HIDE DEF D
<1>10. SpoolOrder' = (SpoolOrder \cup (Spooled \X {b})) \cap (Spooled' \X Spooled')
  <2>1. ASSUME NEW p \in SpoolOrder'
        PROVE  p \in (SpoolOrder \cup (Spooled \X {b})) \cap (Spooled' \X Spooled')
    <3>1. PICK i, j \in DOMAIN batches' : i < j /\ p = <<batches'[i], batches'[j]>>
      BY <2>1 DEF SpoolOrder
    <3>2. p \in Spooled' \X Spooled'
      BY <2>1 DEF SpoolOrder
    <3>3. i # n
      BY <1>1, <1>2, <3>1 DEF TypeOK
    <3>4. i \in DOMAIN batches /\ batches'[i] = batches[i] /\ batches[i] \in Spooled
      BY <1>2, <3>3 DEF Spooled
    <3>5. CASE j = n
      BY <1>2, <3>1, <3>2, <3>4, <3>5
    <3>6. CASE j # n
      <4>1. j \in DOMAIN batches /\ batches'[j] = batches[j] /\ batches[j] \in Spooled
        BY <1>2, <3>6 DEF Spooled
      <4>2. p \in SpoolOrder
        BY <3>1, <3>4, <4>1 DEF SpoolOrder
      <4> QED BY <3>2, <4>2
    <3> QED BY <3>5, <3>6
  <2>2. ASSUME NEW p \in SpoolOrder, p \in Spooled' \X Spooled' PROVE p \in SpoolOrder'
    <3>1. PICK i, j \in DOMAIN batches : i < j /\ p = <<batches[i], batches[j]>>
      BY DEF SpoolOrder
    <3>2. batches[i] \in Spooled' /\ batches[j] \in Spooled' /\ batches[i] # b /\ batches[j] # b
      BY <1>5, <2>2, <3>1 DEF Spooled
    <3>3. i \in DOMAIN batches' /\ j \in DOMAIN batches'
      BY <1>8, <1>9, <3>2
    <3>4. batches'[i] = batches[i] /\ batches'[j] = batches[j]
      BY <1>2, <3>3
    <3> QED BY <2>2, <3>1, <3>3, <3>4 DEF SpoolOrder
  <2>3. ASSUME NEW p \in Spooled \X {b}, p \in Spooled' \X Spooled' PROVE p \in SpoolOrder'
    <3>1. PICK i \in DOMAIN batches : p = <<batches[i], b>>
      BY DEF Spooled
    <3>2. batches[i] \in Spooled' /\ batches[i] # b
      BY <1>5, <2>3, <3>1 DEF Spooled
    <3>3. i \in DOMAIN batches' /\ i < n /\ batches'[i] = batches[i]
      BY <1>2, <1>8, <1>9, <3>2
    <3> QED BY <1>2, <2>3, <3>1, <3>3 DEF SpoolOrder
  <2> QED BY <2>1, <2>2, <2>3
<1>11. InPostgres' = InPostgres
  BY <1>4 DEF InPostgres
<1>12. Acked' = Acked
  BY <1>1, <1>3, <1>4, <1>5, <1>7, <1>9 DEF Acked, TypeOK
<1>13. Q!Put(b, D)
  BY <1>3, <1>5, <1>6, <1>9, <1>10, <1>11, <1>12 DEF Q!Put
<1> QED BY <1>3, <1>7, <1>13 DEF Q!QNext

\* Replay's COMMIT acknowledges the batches it removes: they were sent.
LEMMA CommitMaps ==
  ASSUME QInv, ReplayCommit
  PROVE  Q!QNext
<1>1. TypeOK /\ SpooledOnce /\ SnapshotIdsNotReused /\ ReplayInv /\ FrontInv
  BY DEF QInv, IInv, TInv
<1> DEFINE gone == DOMAIN batches \cap done
           D == {batches[i] : i \in gone}
<1>2. /\ DOMAIN batches' = DOMAIN batches \ done
      /\ \A i \in DOMAIN batches' : batches'[i] = batches[i]
  BY <1>1, CommitEffect
<1>3. done = DOMAIN snap /\ UNCHANGED <<copies, report, evicted>>
  BY <1>1 DEF ReplayCommit, Pending, TypeOK
<1>4. Q!IsFront(D)
  <2>1. gone \subseteq DOMAIN batches /\ \A i \in DOMAIN batches, j \in gone : i <= j => i \in gone
    BY <1>1, <1>3 DEF FrontInv
  <2> HIDE DEF gone
  <2> QED BY <1>1, <2>1, FrontLeaves
<1>5. D \subseteq InPostgres
  BY <1>1, <1>3 DEF InPostgres, ReplayInv, SnapshotIdsNotReused, TypeOK
<1>6. \A i \in DOMAIN batches : batches[i] \in D <=> i \notin DOMAIN batches'
  BY <1>1, <1>2 DEF SpooledOnce
<1>7. /\ D \subseteq Spooled
      /\ \A c \in D : c \in Batch /\ report[c] = "buffered" /\ c \notin evicted
  BY <1>1 DEF Spooled, ReplayInv, FrontInv, TypeOK
<1> HIDE DEF D, gone
<1>8. Spooled' = Spooled \ D
  BY <1>2, <1>6 DEF Spooled
<1>9. SpoolOrder' = SpoolOrder \cap (Spooled' \X Spooled')
  <2>1. ASSUME NEW p \in SpoolOrder' PROVE p \in SpoolOrder \cap (Spooled' \X Spooled')
    <3>1. PICK i, j \in DOMAIN batches' : i < j /\ p = <<batches'[i], batches'[j]>>
      BY <2>1 DEF SpoolOrder
    <3>2. /\ i \in DOMAIN batches /\ j \in DOMAIN batches
          /\ p = <<batches[i], batches[j]>> /\ p \in Spooled \X Spooled
      BY <1>2, <3>1 DEF Spooled
    <3> QED BY <2>1, <3>1, <3>2 DEF SpoolOrder
  <2>2. ASSUME NEW p \in SpoolOrder, p \in Spooled' \X Spooled' PROVE p \in SpoolOrder'
    <3>1. PICK i, j \in DOMAIN batches : i < j /\ p = <<batches[i], batches[j]>>
      BY DEF SpoolOrder
    <3>2. i \in DOMAIN batches' /\ j \in DOMAIN batches'
      BY <1>6, <1>8, <2>2, <3>1
    <3> QED BY <1>2, <2>2, <3>1, <3>2 DEF SpoolOrder
  <2> QED BY <2>1, <2>2
<1>10. Acked' = Acked \cup D /\ InPostgres' = InPostgres
  BY <1>3, <1>7, <1>8 DEF Acked, InPostgres
<1>11. Q!Ack(D)
  BY <1>3, <1>4, <1>5, <1>8, <1>9, <1>10 DEF Q!Ack
<1> QED BY <1>7, <1>11 DEF Q!QNext

\* Replay up to its COMMIT sends batches of the queue or does nothing.
LEMMA ReplayMaps ==
  ASSUME QInv, Replay
  PROVE  [Q!QNext]_Q!qvars
<1>1. TypeOK /\ SnapshotIdsNotReused /\ FrontInv
  BY DEF QInv, IInv, TInv
<1>2. ASSUME NEW i \in DOMAIN snap, copies' = Copied(snap[i]),
             UNCHANGED <<batches, report, evicted>>
      PROVE  Q!QNext
  <2>1. snap[i] \in Batch /\ snap[i] \in Spooled \cup evicted
    BY <1>1 DEF TypeOK, FrontInv, SnapshotIdsNotReused, Spooled
  <2>2. snap[i] \notin Acked
    BY <2>1 DEF Acked
  <2>3. Q!Send(snap[i])
    BY <1>1, <1>2, <2>1, <2>2, SendMaps
  <2> QED BY <2>1, <2>3 DEF Q!QNext
<1>3. CASE UNCHANGED <<batches, copies, report, evicted>>
  BY <1>3, Stutters
<1>4. CASE ReplayCommit
  BY <1>4, CommitMaps
<1>5. \/ ReplayCommit \/ UNCHANGED <<batches, copies, report, evicted>>
      \/ \E i \in DOMAIN snap : copies' = Copied(snap[i]) /\ UNCHANGED <<batches, report, evicted>>
  BY DEF Replay, ReplayRead, ReplayWrite, ReplayWriteFails, ReplayAnswerLost,
         ReplayDelete, ReplayDeleteFails
<1> QED BY <1>2, <1>3, <1>4, <1>5

LEMMA QStep == QInv /\ [Next]_vars => [Q!QNext]_Q!qvars
<1> SUFFICES ASSUME QInv, [Next]_vars PROVE [Q!QNext]_Q!qvars
  OBVIOUS
<1>1. TypeOK /\ FrontInv
  BY DEF QInv, IInv, TInv
<1>2. ASSUME NEW t \in Thread, Collect(t) \/ Insert(t) PROVE [Q!QNext]_Q!qvars
  BY <1>2, InsertMaps, EnqueueMaps DEF Insert
<1>3. CASE Replay
  BY <1>3, ReplayMaps
<1>4. CASE Restart
  <2>1. UNCHANGED <<batches, copies, evicted>>
    BY <1>4 DEF Restart
  <2>2. ASSUME NEW c \in Batch PROVE report'[c] = "buffered" <=> report[c] = "buffered"
    <3>1. report'[c] = IF \E t \in Thread : cur[t] = c THEN "lost" ELSE report[c]
      BY <1>4 DEF Restart
    <3> QED BY <1>1, <3>1, BatchAssumption DEF FrontInv
  <2> QED BY <2>1, <2>2, Stutters
<1>5. CASE PgDown \/ PgUp \/ UNCHANGED vars
  <2>1. UNCHANGED <<batches, copies, report, evicted>>
    BY <1>5 DEF PgDown, PgUp, vars
  <2> QED BY <2>1, Stutters
<1> QED BY <1>2, <1>3, <1>4, <1>5 DEF Next

\* Every behaviour of the write path, with any number of goroutines, limits,
\* faults and restarts, is one of the queue BatchQueue describes.
THEOREM SpoolIsAQueue == Spec => ImplementsBatchQueue
<1>1. Init => QInv
  BY InvInit, FrontInit DEF QInv
<1>2. Init => Q!QInit
  <2> SUFFICES ASSUME Init PROVE Q!QInit
    OBVIOUS
  <2>1. Spooled = {} /\ SpoolOrder = {} /\ evicted = {}
    BY DEF Init, EmptyTable, Spooled, SpoolOrder
  <2>2. Acked = {} /\ InPostgres = {}
    BY DEF Init, Acked, InPostgres
  <2> QED BY <2>1, <2>2 DEF Q!QInit
<1>3. QInv /\ [Next]_vars => QInv'
  BY QInvStep
<1>4. QInv /\ [Next]_vars => [Q!QNext]_Q!qvars
  BY QStep
<1> QED BY <1>1, <1>2, <1>3, <1>4, PTL DEF Spec, ImplementsBatchQueue, Q!QSpec
=============================================================================
