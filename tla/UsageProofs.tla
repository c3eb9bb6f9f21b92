---------------------------- MODULE UsageProofs ----------------------------
(* Proofs about UsageSink, for every set of records and every capacity, and     *)
(* about the sink with the rows re-keyed and the dashboard reading them         *)
(* (UsageAccounting, UsageReport), for every set of tokens and keys, any length *)
(* of an hour and a day, and any periods shown.                                 *)
EXTENDS UsageReport, FiniteSetTheorems, TLAPS

(* The inductive invariant: besides what is claimed, the places a record can    *)
(* wait in are pairwise disjoint, so that moving entries between them and into  *)
(* the table keeps every record in one place.                                   *)
MemoryDisjoint ==
    /\ queued \intersect Merged = {}
    /\ (queued \union Merged) \intersect Taken = {}
    /\ DisjointEntries(batch)
    /\ \A k, l \in DOMAIN overflow :
            k = l \/ overflow[k].of \intersect overflow[l].of = {}

WorkerOK ==
    /\ worker \in {"take", "wait", "done"} => batch = {}
    /\ worker = "done" => NothingPending /\ stopped

IInv ==
    /\ TypeOK
    /\ WorkerOK
    /\ AcceptedAccounted
    /\ MemoryDisjoint
    /\ CountedOnce

----------------------------------------------------------------------------
(* Bounds and shape.                                                            *)

LEMMA TypeInit == Init => TypeOK
<1> SUFFICES ASSUME Init PROVE TypeOK
  OBVIOUS
<1>1. DOMAIN overflow = {} /\ queued = {}
  BY DEF Init
<1>2. IsFiniteSet({}) /\ Cardinality({}) <= QueueCapacity
  BY FS_EmptySet, CapacityAssumption
<1>3. result \in [Records -> {"none", "ok", "stopped", "full"}]
  BY DEF Init
<1> QED BY <1>1, <1>2, <1>3 DEF Init, TypeOK, WorkerStates

LEMMA TypeStep == TypeOK /\ [Next]_vars => TypeOK'
<1> SUFFICES ASSUME TypeOK, [Next]_vars PROVE TypeOK'
  OBVIOUS
<1> USE DEF TypeOK, WorkerStates
<1>a. Wake => worker' \in WorkerStates
  BY DEF Wake
<1>b. ASSUME NEW r \in Records, NEW x \in {"ok", "stopped", "full"}, Return(r, x)
      PROVE  result' \in [Records -> {"none", "ok", "stopped", "full"}]
  BY <1>b DEF Return
<1>c. ASSUME NEW key \in Buckets, NEW e, PutOverflow(key, e),
             key \in DOMAIN overflow \/ HasOverflowRoom
      PROVE  /\ DOMAIN overflow' \subseteq Buckets
             /\ IsFiniteSet(DOMAIN overflow')
             /\ Cardinality(DOMAIN overflow') <= QueueCapacity
  <2>1. DOMAIN overflow' = DOMAIN overflow \union {key}
    BY <1>c DEF PutOverflow
  <2>2. CASE key \in DOMAIN overflow
    BY <2>1, <2>2
  <2>3. CASE key \notin DOMAIN overflow
    <3>1. /\ IsFiniteSet(DOMAIN overflow')
          /\ Cardinality(DOMAIN overflow') = Cardinality(DOMAIN overflow) + 1
      BY <2>1, <2>3, FS_AddElement
    <3> QED BY <3>1, <2>1, <2>3, <1>c, FS_CardinalityType, CapacityAssumption
            DEF HasOverflowRoom
  <2> QED BY <2>2, <2>3
<1>1. ASSUME NEW r \in Records, Record(r) PROVE TypeOK'
  <2>1. CASE RecordStopped(r)
    BY <2>1, <1>b DEF RecordStopped, mem
  <2>2. CASE RecordFull(r)
    BY <2>2, <1>b DEF RecordFull, mem
  <2>3. CASE RecordQueued(r)
    <3>1. /\ IsFiniteSet(queued')
          /\ Cardinality(queued') <= Cardinality(queued) + 1
      <4>1. queued' = queued \union {r}
        BY <2>3 DEF RecordQueued
      <4>2. Cardinality(queued) \in Nat
        BY FS_CardinalityType
      <4>3. CASE r \in queued
        BY <4>1, <4>2, <4>3
      <4>4. CASE r \notin queued
        <5>1. /\ IsFiniteSet(queued \union {r})
              /\ Cardinality(queued \union {r}) = Cardinality(queued) + 1
          BY <4>4, FS_AddElement
        <5> QED BY <5>1, <4>1, <4>2
      <4> QED BY <4>3, <4>4
    <3>2. Cardinality(queued') <= QueueCapacity
      BY <3>1, <2>3, FS_CardinalityType, CapacityAssumption
      DEF RecordQueued, HasQueueRoom
    <3> QED BY <3>1, <3>2, <2>3, <1>a, <1>b DEF RecordQueued
  <2>4. CASE RecordMerged(r)
    BY <2>4, <1>a, <1>b, <1>c DEF RecordMerged, Buckets
  <2>5. CASE RecordOverflowed(r)
    BY <2>5, <1>a, <1>b, <1>c DEF RecordOverflowed, Buckets
  <2> QED BY <1>1, <2>1, <2>2, <2>3, <2>4, <2>5 DEF Record
<1>2. CASE Stop
  BY <1>2, <1>a DEF Stop, mem
<1>3. CASE TakeWaits \/ TakeReturns \/ InsertBatchFails
  BY <1>3 DEF TakeWaits, TakeReturns, InsertBatchFails, Rollback, mem
<1>4. CASE TakeBatch
  <2>1. DOMAIN overflow' = {} /\ queued' = {}
    BY <1>4 DEF TakeBatch
  <2>2. IsFiniteSet({}) /\ Cardinality({}) <= QueueCapacity
    BY FS_EmptySet, CapacityAssumption
  <2> QED BY <1>4, <2>1, <2>2 DEF TakeBatch
<1>5. CASE InsertSingle \/ InsertBatchCommits
  BY <1>5 DEF InsertSingle, InsertBatchCommits
<1>6. CASE InsertFallback
  BY <1>6 DEF InsertFallback
<1>7. CASE UNCHANGED vars
  BY <1>7 DEF vars, mem
<1> QED BY <1>1, <1>2, <1>3, <1>4, <1>5, <1>6, <1>7 DEF Next, Worker

\* The shape of the state and the two memory bounds hold throughout.
THEOREM TypeCorrect == Spec => []TypeOK
  BY TypeInit, TypeStep, PTL DEF Spec

----------------------------------------------------------------------------
(* What a set of entries counts.                                                *)

LEMMA OfAllEmpty == OfAll({}) = {}
  BY DEF OfAll

LEMMA OfAllUnion ==
  ASSUME NEW A, NEW B
  PROVE  OfAll(A \union B) = OfAll(A) \union OfAll(B)
  BY DEF OfAll

LEMMA OfAllSingle ==
  ASSUME NEW e
  PROVE  OfAll({e}) = e.of
  BY DEF OfAll

LEMMA OfAllEntries ==
  ASSUME NEW R
  PROVE  OfAll({Entry(r) : r \in R}) = R
<1>1. \A r \in R : Entry(r).of = {r}
  BY DEF Entry
<1>2. ASSUME NEW x \in R PROVE x \in OfAll({Entry(r) : r \in R})
  BY <1>1 DEF OfAll
<1>3. ASSUME NEW x \in OfAll({Entry(r) : r \in R}) PROVE x \in R
  BY <1>1, <1>3 DEF OfAll
<1> QED BY <1>2, <1>3

LEMMA OfAllRows ==
  ASSUME NEW E, NEW stmt
  PROVE  OfAll({execInsertUsage(e, stmt) : e \in E}) = OfAll(E)
<1> DEFINE Row(e) == execInsertUsage(e, stmt)
<1>1. \A e : Row(e).of = e.of
  BY DEF execInsertUsage
<1> HIDE DEF Row
<1>2. OfAll({Row(e) : e \in E}) = OfAll(E)
  <2>1. ASSUME NEW x \in OfAll(E) PROVE x \in OfAll({Row(e) : e \in E})
    BY <1>1, <2>1 DEF OfAll
  <2>2. ASSUME NEW x \in OfAll({Row(e) : e \in E}) PROVE x \in OfAll(E)
    BY <1>1, <2>2 DEF OfAll
  <2> QED BY <2>1, <2>2
<1> QED BY <1>2 DEF Row

LEMMA OfAllMinus ==
  ASSUME NEW E, NEW e \in E, DisjointEntries(E)
  PROVE  OfAll(E \ {e}) = OfAll(E) \ e.of
<1>1. ASSUME NEW x \in OfAll(E \ {e}) PROVE x \in OfAll(E) \ e.of
  BY <1>1 DEF OfAll, DisjointEntries
<1>2. ASSUME NEW x \in OfAll(E) \ e.of PROVE x \in OfAll(E \ {e})
  BY <1>2 DEF OfAll
<1> QED BY <1>1, <1>2

\* New rows that count nothing the table counts yet keep rows disjoint.
LEMMA DisjointUnion ==
  ASSUME NEW A, NEW B, DisjointEntries(A), DisjointEntries(B),
         OfAll(A) \intersect OfAll(B) = {}
  PROVE  DisjointEntries(A \union B)
  BY DEF OfAll, DisjointEntries

LEMMA DisjointRows ==
  ASSUME NEW E, NEW stmt, DisjointEntries(E)
  PROVE  DisjointEntries({execInsertUsage(e, stmt) : e \in E})
  BY DEF DisjointEntries, execInsertUsage

\* Both ways into the overflow map add exactly the new record to what it counts.
LEMMA PutAdds ==
  ASSUME NEW r, NEW key, NEW e, PutOverflow(key, e),
         \/ key \in DOMAIN overflow /\ e.of = overflow[key].of \union {r}
         \/ key \notin DOMAIN overflow /\ e.of = {r}
  PROVE  Merged' = Merged \union {r}
<1>1. /\ DOMAIN overflow' = DOMAIN overflow \union {key}
      /\ \A k \in DOMAIN overflow' :
            overflow'[k] = IF k = key THEN e ELSE overflow[k]
  BY DEF PutOverflow
<1>2. \A x : x \in Merged' <=> \E k \in DOMAIN overflow' : x \in overflow'[k].of
  BY DEF Merged, Overflowed, OfAll
<1>3. \A x : x \in Merged <=> \E k \in DOMAIN overflow : x \in overflow[k].of
  BY DEF Merged, Overflowed, OfAll
<1>4. ASSUME NEW x \in Merged' PROVE x \in Merged \union {r}
  BY <1>1, <1>2, <1>3, <1>4
<1>5. ASSUME NEW x \in Merged \union {r} PROVE x \in Merged'
  <2>1. CASE x = r
    <3>1. key \in DOMAIN overflow' /\ overflow'[key] = e /\ r \in e.of
      BY <1>1
    <3> QED BY <3>1, <2>1, <1>2
  <2>2. CASE x \in Merged
    <3>1. PICK k \in DOMAIN overflow : x \in overflow[k].of
      BY <2>2, <1>3
    <3>2. k \in DOMAIN overflow' /\ x \in overflow'[k].of
      BY <3>1, <1>1
    <3> QED BY <3>2, <1>2
  <2> QED BY <2>1, <2>2, <1>5
<1> QED BY <1>4, <1>5

----------------------------------------------------------------------------
(* The inductive step, one lemma per kind of action.                            *)

\* Record(r) returned without accepting: nothing but result[r] changes.
LEMMA RefusedStep ==
  ASSUME IInv, NEW r \in Records, NEW x \in {"stopped", "full"},
         result[r] = "none", Return(r, x),
         UNCHANGED <<mem, stopped, worker, rows, dropped>>
  PROVE  WorkerOK' /\ AcceptedAccounted' /\ MemoryDisjoint' /\ CountedOnce'
<1> USE DEF IInv, TypeOK, mem
<1>1. Accepted' = Accepted
  BY DEF Accepted, Return
<1>2. /\ Merged' = Merged /\ Taken' = Taken /\ Stored' = Stored
  BY DEF Merged, Overflowed, Taken, Stored, OfAll
<1> QED BY <1>1, <1>2 DEF WorkerOK, NothingPending, AcceptedAccounted,
              MemoryDisjoint, CountedOnce, DisjointEntries

\* Record(r) accepted r into the queue or the overflow map.
LEMMA AcceptedStep ==
  ASSUME IInv, NEW r \in Records, result[r] = "none", ~stopped, Return(r, "ok"),
         Wake, UNCHANGED <<stopped, batch, rows, dropped>>,
         \/ queued' = queued \union {r} /\ UNCHANGED overflow
         \/ /\ UNCHANGED queued
            /\ \E key, e : /\ PutOverflow(key, e)
                           /\ \/ /\ key \in DOMAIN overflow
                                 /\ e.of = overflow[key].of \union {r}
                              \/ key \notin DOMAIN overflow /\ e.of = {r}
  PROVE  WorkerOK' /\ AcceptedAccounted' /\ MemoryDisjoint' /\ CountedOnce'
<1> USE DEF IInv, TypeOK
<1>1. Accepted' = Accepted \union {r}
  BY DEF Accepted, Return
<1>2. Taken' = Taken /\ Stored' = Stored
  BY DEF Taken, Stored, OfAll
<1>3. r \notin queued \union Merged \union Taken \union Stored \union dropped
  BY DEF AcceptedAccounted, Accepted
<1>4. WorkerOK'
  BY DEF WorkerOK, Wake, WorkerStates
<1>5. CASE queued' = queued \union {r} /\ UNCHANGED overflow
  <2>1. Merged' = Merged
    BY <1>5 DEF Merged, Overflowed, OfAll
  <2>2. AcceptedAccounted'
    BY <1>1, <1>2, <1>5, <2>1 DEF AcceptedAccounted
  <2>3. CountedOnce'
    BY <1>2, <1>3, <1>5, <2>1 DEF CountedOnce, DisjointEntries
  <2>4. MemoryDisjoint'
    BY <1>2, <1>3, <1>5, <2>1 DEF MemoryDisjoint, DisjointEntries
  <2> QED BY <2>2, <2>3, <2>4, <1>4
<1>6. CASE /\ UNCHANGED queued
           /\ \E key, e : /\ PutOverflow(key, e)
                          /\ \/ /\ key \in DOMAIN overflow
                                /\ e.of = overflow[key].of \union {r}
                             \/ key \notin DOMAIN overflow /\ e.of = {r}
  <2>1. PICK key, e : /\ PutOverflow(key, e)
                      /\ \/ /\ key \in DOMAIN overflow
                            /\ e.of = overflow[key].of \union {r}
                         \/ key \notin DOMAIN overflow /\ e.of = {r}
    BY <1>6
  <2>2. Merged' = Merged \union {r}
    BY <2>1, PutAdds
  <2>3. AcceptedAccounted'
    BY <1>1, <1>2, <1>6, <2>2 DEF AcceptedAccounted
  <2>4. CountedOnce'
    BY <1>2, <1>3, <1>6, <2>2 DEF CountedOnce, DisjointEntries
  <2>5. /\ queued' \intersect Merged' = {}
        /\ (queued' \union Merged') \intersect Taken' = {}
        /\ DisjointEntries(batch)'
    BY <1>2, <1>3, <1>6, <2>2 DEF MemoryDisjoint, DisjointEntries
  <2>6. ASSUME NEW k \in DOMAIN overflow', NEW l \in DOMAIN overflow', k # l
        PROVE  overflow'[k].of \intersect overflow'[l].of = {}
    <3>1. /\ k \in DOMAIN overflow \union {key}
          /\ l \in DOMAIN overflow \union {key}
          /\ overflow'[k] = IF k = key THEN e ELSE overflow[k]
          /\ overflow'[l] = IF l = key THEN e ELSE overflow[l]
      BY <2>1 DEF PutOverflow
    <3>2. \A m \in DOMAIN overflow : r \notin overflow[m].of
      BY <1>3 DEF Merged, Overflowed, OfAll
    <3>3. \A m, n \in DOMAIN overflow :
              m = n \/ overflow[m].of \intersect overflow[n].of = {}
      BY DEF MemoryDisjoint
    <3> QED BY <2>1, <2>6, <3>1, <3>2, <3>3
  <2> QED BY <2>3, <2>4, <2>5, <2>6, <1>4 DEF MemoryDisjoint
<1> QED BY <1>5, <1>6

\* The worker moved everything in memory into its batch.
LEMMA TakeStep ==
  ASSUME IInv, TakeBatch
  PROVE  WorkerOK' /\ AcceptedAccounted' /\ MemoryDisjoint' /\ CountedOnce'
<1> USE DEF IInv, TypeOK, TakeBatch, Pending
<1> DEFINE Q == {Entry(r) : r \in queued}
<1>1. Accepted' = Accepted /\ Stored' = Stored
  BY DEF Accepted, Stored, OfAll
<1>2. Merged' = {}
  BY DEF Merged, Overflowed, OfAll
<1>3. Taken' = queued \union Merged
  <2>1. batch' = Q \union Overflowed
    OBVIOUS
  <2>2. OfAll(Q) = queued
    BY OfAllEntries
  <2> HIDE DEF Q
  <2> QED BY <2>1, <2>2, OfAllUnion DEF Taken, Merged
<1>4. Taken = {}
  BY OfAllEmpty DEF WorkerOK, Taken
<1>5. DisjointEntries(batch')
  <2>1. OfAll(Q) \intersect OfAll(Overflowed) = {}
    BY OfAllEntries DEF MemoryDisjoint, Merged
  <2>2. DisjointEntries(Q)
    <3>1. ASSUME NEW r, NEW s PROVE Entry(r) = Entry(s) \/ Entry(r).of \intersect Entry(s).of = {}
      BY DEF Entry
    <3> QED BY <3>1 DEF DisjointEntries
  <2>3. DisjointEntries(Overflowed)
    BY DEF DisjointEntries, Overflowed, MemoryDisjoint
  <2> QED BY <2>1, <2>2, <2>3, DisjointUnion
<1>6. WorkerOK'
  BY DEF WorkerOK
<1>7. AcceptedAccounted'
  BY <1>1, <1>2, <1>3, <1>4 DEF AcceptedAccounted
<1>8. MemoryDisjoint'
  <2>1. DOMAIN overflow' = {} /\ queued' = {}
    OBVIOUS
  <2> QED BY <2>1, <1>2, <1>5 DEF MemoryDisjoint, DisjointEntries
<1>9. CountedOnce'
  BY <1>1, <1>2, <1>3 DEF CountedOnce, DisjointEntries
<1> QED BY <1>6, <1>7, <1>8, <1>9

\* Entries left the batch for the table or for the log.
LEMMA SettledStep ==
  ASSUME IInv, NEW E \in SUBSET batch, NEW stmt,
         batch' = batch \ E,
         \/ rows' = rows \union {execInsertUsage(e, stmt) : e \in E} /\ UNCHANGED dropped
         \/ dropped' = dropped \union OfAll(E) /\ UNCHANGED rows,
         worker' \in {"take", "wait", "done"} => batch' = {},
         worker' # "done",
         UNCHANGED <<queued, overflow, stopped, result>>
  PROVE  WorkerOK' /\ AcceptedAccounted' /\ MemoryDisjoint' /\ CountedOnce'
<1> USE DEF IInv, TypeOK
<1> DEFINE R == {execInsertUsage(e, stmt) : e \in E}
<1>0. OfAll(R) = OfAll(E) /\ (DisjointEntries(E) => DisjointEntries(R))
  BY OfAllRows, DisjointRows
<1>a. \/ rows' = rows \union R /\ UNCHANGED dropped
      \/ dropped' = dropped \union OfAll(E) /\ UNCHANGED rows
  OBVIOUS
<1> HIDE DEF R
<1>1. Accepted' = Accepted /\ Merged' = Merged
  BY DEF Accepted, Merged, Overflowed, OfAll
<1>2. Taken = Taken' \union OfAll(E)
  <2>1. batch = batch' \union E
    OBVIOUS
  <2> QED BY <2>1, OfAllUnion DEF Taken
<1>3. Taken' \intersect OfAll(E) = {}
  BY DEF Taken, OfAll, MemoryDisjoint, DisjointEntries
<1>4. Stored' \union dropped' = (Stored \union dropped) \union OfAll(E)
  BY <1>0, <1>a, OfAllUnion DEF Stored
<1>5. OfAll(E) \intersect (Stored \union dropped) = {}
  BY <1>2 DEF CountedOnce
<1>6. DisjointEntries(rows')
  <2>1. DisjointEntries(E)
    BY DEF MemoryDisjoint, DisjointEntries
  <2>2. CASE rows' = rows \union R
    <3>1. OfAll(rows) \intersect OfAll(R) = {}
      BY <1>0, <1>5 DEF Stored
    <3> QED BY <1>0, <3>1, <2>1, <2>2, DisjointUnion DEF CountedOnce
  <2>3. CASE UNCHANGED rows
    BY <2>3 DEF CountedOnce
  <2> QED BY <1>a, <2>2, <2>3
<1>7. Stored' \intersect dropped' = {}
  <2>1. CASE rows' = rows \union R /\ UNCHANGED dropped
    <3>1. Stored' = Stored \union OfAll(E)
      BY <1>0, <2>1, OfAllUnion DEF Stored
    <3> QED BY <3>1, <2>1, <1>5 DEF CountedOnce
  <2>2. CASE dropped' = dropped \union OfAll(E) /\ UNCHANGED rows
    BY <2>2, <1>5 DEF CountedOnce, Stored
  <2> QED BY <1>a, <2>1, <2>2
<1>8. WorkerOK'
  BY DEF WorkerOK
<1>9. AcceptedAccounted'
  BY <1>1, <1>2, <1>4 DEF AcceptedAccounted
<1>10. MemoryDisjoint'
  BY <1>1, <1>2 DEF MemoryDisjoint, DisjointEntries
<1>11. CountedOnce'
  <2>1. (queued \union Merged \union Taken') \intersect (Stored' \union dropped') = {}
    BY <1>2, <1>3, <1>4 DEF CountedOnce, MemoryDisjoint
  <2> QED BY <2>1, <1>1, <1>6, <1>7 DEF CountedOnce, DisjointEntries
<1> QED BY <1>8, <1>9, <1>10, <1>11

----------------------------------------------------------------------------
(* The invariant and what follows from it.                                      *)

LEMMA IInvInit == Init => IInv
<1> SUFFICES ASSUME Init PROVE IInv
  OBVIOUS
<1>1. TypeOK
  BY TypeInit
<1>2. /\ queued = {} /\ batch = {} /\ rows = {} /\ dropped = {}
      /\ DOMAIN overflow = {} /\ worker = "take"
      /\ result = [r \in Records |-> "none"]
  BY DEF Init
<1>3. Merged = {} /\ Taken = {} /\ Stored = {}
  BY <1>2 DEF Merged, Overflowed, Taken, Stored, OfAll
<1>4. Accepted = {}
  BY <1>2 DEF Accepted
<1> QED BY <1>1, <1>2, <1>3, <1>4 DEF IInv, WorkerOK, AcceptedAccounted,
           MemoryDisjoint, CountedOnce, DisjointEntries

LEMMA IInvStep == IInv /\ [Next]_vars => IInv'
<1> SUFFICES ASSUME IInv, [Next]_vars PROVE IInv'
  OBVIOUS
<1>0. TypeOK'
  BY TypeStep DEF IInv
<1> SUFFICES WorkerOK' /\ AcceptedAccounted' /\ MemoryDisjoint' /\ CountedOnce'
  BY <1>0 DEF IInv
<1>1. ASSUME NEW r \in Records, Record(r)
      PROVE  WorkerOK' /\ AcceptedAccounted' /\ MemoryDisjoint' /\ CountedOnce'
  <2> USE <1>1 DEF Record
  <2>1. CASE RecordStopped(r)
    BY <2>1, RefusedStep DEF RecordStopped
  <2>2. CASE RecordFull(r)
    BY <2>2, RefusedStep DEF RecordFull
  <2>3. CASE RecordQueued(r)
    BY <2>3, AcceptedStep DEF RecordQueued, Accepting
  <2> DEFINE key == usageOverflowBucket(r)
  <2>4. CASE RecordMerged(r)
    <3> DEFINE e == mergeUsageRecord(overflow[key], r, key.hour)
    <3>1. e.of = overflow[key].of \union {r}
      BY DEF mergeUsageRecord
    <3>2. PutOverflow(key, e) /\ key \in DOMAIN overflow
      BY <2>4 DEF RecordMerged
    <3> HIDE DEF key, e
    <3> QED BY <2>4, <3>1, <3>2, AcceptedStep DEF RecordMerged, Accepting
  <2>5. CASE RecordOverflowed(r)
    <3> DEFINE e == [Entry(r) EXCEPT !.time = key.hour]
    <3>1. e.of = {r}
      BY DEF Entry
    <3>2. PutOverflow(key, e) /\ key \notin DOMAIN overflow
      BY <2>5 DEF RecordOverflowed
    <3> HIDE DEF key, e
    <3> QED BY <2>5, <3>1, <3>2, AcceptedStep DEF RecordOverflowed, Accepting
  <2> QED BY <2>1, <2>2, <2>3, <2>4, <2>5
<1>2. ASSUME \/ Stop \/ TakeWaits \/ TakeReturns \/ InsertBatchFails \/ UNCHANGED vars
      PROVE  WorkerOK' /\ AcceptedAccounted' /\ MemoryDisjoint' /\ CountedOnce'
  <2>1. UNCHANGED <<queued, overflow, batch, rows, result, dropped>>
    BY <1>2 DEF Stop, TakeWaits, TakeReturns, InsertBatchFails, Rollback, mem, vars
  <2>2. /\ Accepted' = Accepted /\ Merged' = Merged
        /\ Taken' = Taken /\ Stored' = Stored
    BY <2>1 DEF Accepted, Merged, Overflowed, Taken, Stored, OfAll
  <2>3. AcceptedAccounted' /\ MemoryDisjoint' /\ CountedOnce'
    BY <2>1, <2>2 DEF IInv, AcceptedAccounted, MemoryDisjoint, CountedOnce,
                      DisjointEntries
  <2>4. WorkerOK'
    BY <1>2, <2>1 DEF IInv, TypeOK, WorkerOK, WorkerStates, NothingPending, MayReturn,
       Wake, Stop, TakeWaits, TakeReturns, InsertBatchFails, Rollback, vars
  <2> QED BY <2>3, <2>4
<1>3. CASE TakeBatch
  BY <1>3, TakeStep
<1>4. CASE InsertSingle
  <2>1. PICK e \in batch : batch = {e} /\ insertUsage(e)
    BY <1>4 DEF InsertSingle
  <2>2. OfAll({e}) = e.of /\ {execInsertUsage(f, "single") : f \in {e}} =
                                {execInsertUsage(e, "single")}
    BY OfAllSingle
  <2> QED BY <1>4, <2>1, <2>2, SettledStep DEF InsertSingle, insertUsage
<1>5. CASE InsertBatchCommits
  BY <1>5, SettledStep DEF InsertBatchCommits
<1>6. CASE InsertFallback
  <2>1. PICK e \in batch : insertUsage(e) /\ batch' = batch \ {e}
    BY <1>6 DEF InsertFallback
  <2>2. OfAll({e}) = e.of /\ {execInsertUsage(f, "single") : f \in {e}} =
                                {execInsertUsage(e, "single")}
    BY OfAllSingle
  <2> QED BY <1>6, <2>1, <2>2, SettledStep DEF InsertFallback, insertUsage
<1> QED BY <1>1, <1>2, <1>3, <1>4, <1>5, <1>6 DEF Next, Worker

LEMMA Invariance == Spec => []IInv
  BY IInvInit, IInvStep, PTL DEF Spec

\* Whatever is recorded, refused, merged, rolled back or retried one by one,
\* every accepted record is always in one of the places the sink knows.
THEOREM NothingSilentlyLost == Spec => []AcceptedAccounted
  BY Invariance, PTL DEF IInv

\* No record is ever counted by two rows, nor counted and also given up.
THEOREM NothingCountedTwice == Spec => []CountedOnce
  BY Invariance, PTL DEF IInv

LEMMA IInvDrains == IInv => StopDrains
<1> SUFFICES ASSUME IInv, worker = "done" PROVE Accepted = Stored \union dropped
  BY DEF StopDrains
<1>1. queued = {} /\ DOMAIN overflow = {} /\ batch = {}
  BY DEF IInv, WorkerOK, NothingPending
<1>2. Merged = {} /\ Taken = {}
  BY <1>1 DEF Merged, Overflowed, Taken, OfAll
<1> QED BY <1>2, <1>1 DEF IInv, AcceptedAccounted

\* When the worker has returned, nothing accepted is left in memory.
THEOREM DrainedAtStop == Spec => []StopDrains
  BY IInvDrains, Invariance, PTL

----------------------------------------------------------------------------
(* Coalescing.                                                                  *)

LEMMA TruncateTwice ==
  ASSUME NEW t \in Nat
  PROVE  /\ TruncateHour(t) \in Nat
         /\ TruncateHour(TruncateHour(t)) = TruncateHour(t)
  BY HourAssumption DEF TruncateHour

\* How entry e stands for record r on its way to the table: same account, token
\* and shape, and the record's own time or the start of its hour.
Whole(e, r) ==
    /\ e.account = r.account /\ e.token = r.token /\ e.shape = r.shape
    /\ e.time \in {r.time, TruncateHour(r.time)}

\* Agreement on the account too, which only re-keying changes.
RowsAgree == \A w \in rows : \A r \in w.of : Agrees(w, r) /\ w.account = r.account

(* An overflow entry carries the dimensions of its key, and every record in it  *)
(* has that key; entries in the batch stand for their records already.          *)
DimInv ==
    /\ \A k \in DOMAIN overflow :
        /\ overflow[k].account = k.account
        /\ overflow[k].token = k.token
        /\ overflow[k].shape = k.shape
        /\ overflow[k].time = k.hour
        /\ \A r \in overflow[k].of : r \in Records /\ usageOverflowBucket(r) = k
    /\ \A e \in batch : \A r \in e.of : r \in Records /\ Whole(e, r)

\* What a step adds to the table.
NewRowsWhole ==
    \A w \in rows' \ rows : \A r \in w.of : r \in Records /\ Whole(w, r)

LEMMA WholeAgrees ==
  ASSUME NEW e, NEW r \in Records, Whole(e, r)
  PROVE  Agrees(e, r) /\ e.account = r.account
<1>1. TruncateHour(TruncateHour(r.time)) = TruncateHour(r.time)
  BY TruncateTwice, RecordsAssumption
<1> QED BY <1>1 DEF Whole, Agrees

LEMMA EntryWhole ==
  ASSUME NEW r
  PROVE  Entry(r).of = {r} /\ Whole(Entry(r), r)
  BY DEF Entry, Whole

LEMMA RowWhole ==
  ASSUME NEW e, NEW stmt, \A r \in e.of : r \in Records /\ Whole(e, r)
  PROVE  LET w == execInsertUsage(e, stmt)
         IN  \A r \in w.of : r \in Records /\ Whole(w, r)
  BY DEF execInsertUsage, Whole

LEMMA BucketFields ==
  ASSUME NEW r
  PROVE  LET k == usageOverflowBucket(r)
         IN  /\ k.account = r.account /\ k.token = r.token
             /\ k.shape = r.shape /\ k.hour = TruncateHour(r.time)
  BY DEF usageOverflowBucket

\* Merged entries stand for every record they count.
LEMMA OverflowWhole ==
  ASSUME DimInv, NEW k \in DOMAIN overflow, NEW r \in overflow[k].of
  PROVE  r \in Records /\ Whole(overflow[k], r)
<1>1. r \in Records /\ k = usageOverflowBucket(r)
  BY DEF DimInv
<1> QED BY <1>1, BucketFields DEF DimInv, Whole

LEMMA DimInit == Init => DimInv
<1> SUFFICES ASSUME Init PROVE DimInv
  OBVIOUS
<1>1. DOMAIN overflow = {} /\ batch = {}
  BY DEF Init
<1> QED BY <1>1 DEF DimInv

LEMMA DimStep == TypeOK /\ DimInv /\ [Next]_vars => DimInv' /\ NewRowsWhole
<1> SUFFICES ASSUME TypeOK, DimInv, [Next]_vars PROVE DimInv' /\ NewRowsWhole
  OBVIOUS
<1>0. UNCHANGED rows => NewRowsWhole
  BY DEF NewRowsWhole
<1>a. ASSUME NEW r \in Records, NEW e, PutOverflow(usageOverflowBucket(r), e),
             e.account = r.account, e.token = r.token, e.shape = r.shape,
             e.time = TruncateHour(r.time),
             \A q \in e.of : q \in Records /\ usageOverflowBucket(q) = usageOverflowBucket(r),
             UNCHANGED <<batch, rows>>
      PROVE  DimInv' /\ NewRowsWhole
  <2> DEFINE key == usageOverflowBucket(r)
  <2>1. /\ DOMAIN overflow' = DOMAIN overflow \union {key}
        /\ \A k \in DOMAIN overflow' :
              overflow'[k] = IF k = key THEN e ELSE overflow[k]
    BY <1>a DEF PutOverflow
  <2>2. /\ key.account = r.account /\ key.token = r.token
        /\ key.shape = r.shape /\ key.hour = TruncateHour(r.time)
    BY BucketFields
  <2> HIDE DEF key
  <2>3. \A q \in e.of : q \in Records /\ usageOverflowBucket(q) = key
    BY <1>a DEF key
  <2> QED BY <1>0, <1>a, <2>1, <2>2, <2>3 DEF DimInv, Whole
<1>b. ASSUME NEW e \in batch, insertUsage(e)
      PROVE  NewRowsWhole
  BY <1>b, RowWhole DEF insertUsage, DimInv, NewRowsWhole
<1>1. ASSUME NEW r \in Records, Record(r) PROVE DimInv' /\ NewRowsWhole
  <2>1. CASE RecordStopped(r) \/ RecordFull(r) \/ RecordQueued(r)
    BY <1>0, <2>1 DEF RecordStopped, RecordFull, RecordQueued, mem, DimInv, Whole
  <2>2. CASE RecordMerged(r)
    <3> DEFINE key == usageOverflowBucket(r)
               e == mergeUsageRecord(overflow[key], r, key.hour)
    <3>1. /\ e.account = overflow[key].account /\ e.token = overflow[key].token
          /\ e.shape = overflow[key].shape /\ e.time = key.hour
          /\ e.of = overflow[key].of \union {r}
      BY DEF mergeUsageRecord
    <3>2. key \in DOMAIN overflow /\ PutOverflow(key, e) /\ UNCHANGED <<batch, rows>>
      BY <2>2 DEF RecordMerged
    <3>3. /\ key.account = r.account /\ key.token = r.token
          /\ key.shape = r.shape /\ key.hour = TruncateHour(r.time)
      BY BucketFields
    <3> HIDE DEF e
    <3>4. \A q \in e.of : q \in Records /\ usageOverflowBucket(q) = key
      BY <3>1, <3>2 DEF DimInv
    <3> QED BY <1>a, <3>1, <3>2, <3>3, <3>4 DEF DimInv
  <2>3. CASE RecordOverflowed(r)
    <3> DEFINE key == usageOverflowBucket(r)
               e == [Entry(r) EXCEPT !.time = key.hour]
    <3>1. /\ e.account = r.account /\ e.token = r.token
          /\ e.shape = r.shape /\ e.time = TruncateHour(r.time) /\ e.of = {r}
      BY BucketFields DEF Entry
    <3>2. PutOverflow(key, e) /\ UNCHANGED <<batch, rows>>
      BY <2>3 DEF RecordOverflowed
    <3> HIDE DEF e
    <3> QED BY <1>a, <3>1, <3>2
  <2> QED BY <1>1, <2>1, <2>2, <2>3 DEF Record
<1>2. CASE Stop \/ TakeWaits \/ TakeReturns \/ InsertBatchFails \/ UNCHANGED vars
  BY <1>0, <1>2 DEF Stop, TakeWaits, TakeReturns, InsertBatchFails, Rollback, mem, vars,
                    DimInv, Whole
<1>3. CASE TakeBatch
  <2>1. \A e \in batch' : \A r \in e.of : r \in Records /\ Whole(e, r)
    <3>1. batch' = {Entry(r) : r \in queued} \union Overflowed
      BY <1>3 DEF TakeBatch, Pending
    <3>2. ASSUME NEW e \in Overflowed, NEW r \in e.of PROVE r \in Records /\ Whole(e, r)
      <4>1. PICK k \in DOMAIN overflow : e = overflow[k]
        BY DEF Overflowed
      <4> QED BY <4>1, <3>2, OverflowWhole
    <3>3. ASSUME NEW e \in {Entry(r) : r \in queued}, NEW r \in e.of
          PROVE  r \in Records /\ Whole(e, r)
      <4>1. PICK q \in queued : e = Entry(q)
        OBVIOUS
      <4>2. r = q
        BY <4>1, <3>3, EntryWhole
      <4> QED BY <4>1, <4>2, EntryWhole DEF TypeOK
    <3> QED BY <3>1, <3>2, <3>3
  <2>2. DOMAIN overflow' = {} /\ UNCHANGED rows
    BY <1>3 DEF TakeBatch
  <2> QED BY <1>0, <2>1, <2>2 DEF DimInv, Whole
<1>4. CASE InsertSingle
  <2>1. /\ UNCHANGED overflow /\ batch' = {}
        /\ \E e \in batch : insertUsage(e)
    BY <1>4 DEF InsertSingle
  <2> QED BY <2>1, <1>b DEF DimInv
<1>5. CASE InsertFallback
  <2>1. /\ UNCHANGED overflow
        /\ \E e \in batch : insertUsage(e) /\ batch' = batch \ {e}
    BY <1>5 DEF InsertFallback
  <2> QED BY <2>1, <1>b DEF DimInv, Whole
<1>6. CASE InsertBatchCommits
  <2>1. /\ UNCHANGED overflow /\ batch' = {}
        /\ rows' = rows \union {execInsertUsage(e, "batch") : e \in batch}
    BY <1>6 DEF InsertBatchCommits
  <2>2. ASSUME NEW w \in rows' \ rows, NEW r \in w.of PROVE r \in Records /\ Whole(w, r)
    <3>1. PICK e \in batch : w = execInsertUsage(e, "batch")
      BY <2>1
    <3> QED BY <3>1, <2>2, RowWhole DEF DimInv
  <2> QED BY <2>1, <2>2 DEF DimInv, NewRowsWhole
<1> QED BY <1>1, <1>2, <1>3, <1>4, <1>5, <1>6 DEF Next, Worker

\* What is in memory agrees with the records it counts.
LEMMA MemoryAgrees ==
  ASSUME DimInv, NEW e \in Overflowed \union batch, NEW r \in e.of
  PROVE  Agrees(e, r) /\ e.account = r.account
<1>1. CASE e \in Overflowed
  <2>1. PICK k \in DOMAIN overflow : e = overflow[k]
    BY <1>1 DEF Overflowed
  <2> QED BY <2>1, OverflowWhole, WholeAgrees
<1>2. CASE e \in batch
  BY <1>2, WholeAgrees DEF DimInv
<1> QED BY <1>1, <1>2

\* Without re-keying a row never mixes accounts, tokens, paths, statuses or hours:
\* what the dashboard groups by is right for each record the row counts.
THEOREM RowsKeepDimensions == Spec => [](DimensionsPreserved /\ RowsAgree)
<1>1. Init => DimInv /\ RowsAgree
  BY DimInit DEF Init, RowsAgree
<1>2. TypeOK /\ DimInv /\ RowsAgree /\ [Next]_vars => DimInv' /\ RowsAgree'
  <2> SUFFICES ASSUME TypeOK, DimInv, RowsAgree, [Next]_vars PROVE DimInv' /\ RowsAgree'
    OBVIOUS
  <2>1. DimInv' /\ NewRowsWhole
    BY DimStep
  <2>2. ASSUME NEW w \in rows', NEW r \in w.of PROVE Agrees(w, r) /\ w.account = r.account
    BY <2>1, <2>2, WholeAgrees DEF RowsAgree, NewRowsWhole
  <2> QED BY <2>1, <2>2 DEF RowsAgree, Agrees
<1>3. DimInv /\ RowsAgree => DimensionsPreserved
  BY MemoryAgrees DEF RowsAgree, DimensionsPreserved
<1> QED BY <1>1, <1>2, <1>3, TypeCorrect, PTL DEF Spec

----------------------------------------------------------------------------
(* Every step of the sink is a step of the ledger.                              *)

Fates == [r \in Records |-> Fate(r)]

\* A step that leaves results, rows and dropped alone leaves the fates alone.
LEMMA FatesUnchanged ==
  ASSUME UNCHANGED <<result, rows, dropped>>
  PROVE  Fates' = Fates
<1>1. Stored' = Stored
  BY DEF Stored, OfAll
<1> QED BY <1>1 DEF Fates, Fate

LEMMA FatesReturn ==
  ASSUME IInv, NEW r \in Records, result[r] = "none", NEW x \in {"ok", "stopped", "full"},
         Return(r, x), UNCHANGED <<rows, dropped>>
  PROVE  /\ Fates[r] = "new"
         /\ Fates' = [Fates EXCEPT ![r] = IF x = "ok" THEN "pending" ELSE "refused"]
<1>1. Stored' = Stored
  BY DEF Stored, OfAll
<1>2. result' = [result EXCEPT ![r] = x] /\ result \in [Records -> {"none", "ok", "stopped", "full"}]
  BY DEF Return, IInv, TypeOK
<1>3. r \notin Stored /\ r \notin dropped
  BY DEF IInv, AcceptedAccounted, Accepted
<1>4. Fate(r) = "new"
  BY DEF Fate
<1>5. Fate(r)' = IF x = "ok" THEN "pending" ELSE "refused"
  BY <1>1, <1>2, <1>3 DEF Fate
<1>6. ASSUME NEW q \in Records, q # r PROVE Fate(q)' = Fate(q)
  BY <1>1, <1>2, <1>6 DEF Fate
<1> QED BY <1>4, <1>5, <1>6 DEF Fates

\* Entries that reach the table or the log settle the records they count.
LEMMA FatesSettle ==
  ASSUME IInv, NEW E \in SUBSET batch, UNCHANGED <<result, stopped>>,
         \/ Stored' = Stored \union OfAll(E) /\ UNCHANGED dropped
         \/ dropped' = dropped \union OfAll(E) /\ Stored' = Stored
  PROVE  [Ledger!Next]_<<Fates, stopped>>
<1> DEFINE R == OfAll(E)
<1>1. R \subseteq Accepted /\ R \intersect (Stored \union dropped) = {}
  <2>1. R \subseteq Taken
    BY DEF OfAll, Taken
  <2> QED BY <2>1 DEF IInv, AcceptedAccounted, CountedOnce
<1>2. R \subseteq Records /\ \A r \in R : Fate(r) = "pending"
  BY <1>1 DEF Accepted, Fate
<1> HIDE DEF R
<1>3. PICK outcome \in {"counted", "lost"} :
        \A r \in Records : Fate(r)' = IF r \in R THEN outcome ELSE Fate(r)
  <2>1. CASE Stored' = Stored \union R /\ UNCHANGED dropped
    <3>1. \A r \in Records : Fate(r)' = IF r \in R THEN "counted" ELSE Fate(r)
      BY <1>1, <2>1 DEF Fate, Accepted
    <3> QED BY <3>1
  <2>2. CASE dropped' = dropped \union R /\ Stored' = Stored
    <3>1. \A r \in Records : Fate(r)' = IF r \in R THEN "lost" ELSE Fate(r)
      BY <1>1, <2>2 DEF Fate, Accepted
    <3> QED BY <3>1
  <2> QED BY <2>1, <2>2 DEF R
<1>4. Fates' = [r \in Records |-> IF r \in R THEN outcome ELSE Fates[r]]
  BY <1>3 DEF Fates
<1>5. CASE R = {}
  BY <1>4, <1>5 DEF Fates
<1>6. CASE R # {}
  <2>1. Ledger!Settle(R, outcome)
    BY <1>2, <1>4, <1>6 DEF Ledger!Settle, Fates
  <2>2. PICK r \in R : TRUE
    BY <1>6
  <2>3. Ledger!SettleSome(r)
    BY <1>2, <2>1, <2>2 DEF Ledger!SettleSome
  <2> QED BY <1>2, <2>2, <2>3 DEF Ledger!Next
<1> QED BY <1>5, <1>6

LEMMA LedgerStep == IInv /\ [Next]_vars => [Ledger!Next]_<<Fates, stopped>>
<1> SUFFICES ASSUME IInv, [Next]_vars PROVE [Ledger!Next]_<<Fates, stopped>>
  OBVIOUS
<1>1. ASSUME NEW r \in Records, Record(r) PROVE Ledger!Next
  <2>1. CASE RecordStopped(r) \/ RecordFull(r)
    <3>1. /\ Fates[r] = "new" /\ UNCHANGED stopped
          /\ Fates' = [Fates EXCEPT ![r] = "refused"]
      BY <1>1, <2>1, FatesReturn DEF Record, RecordStopped, RecordFull
    <3>2. Ledger!Refuse(r)
      BY <3>1 DEF Ledger!Refuse, Fates
    <3> QED BY <3>2 DEF Ledger!Next
  <2>2. CASE RecordQueued(r) \/ RecordMerged(r) \/ RecordOverflowed(r)
    <3>1. /\ Fates[r] = "new" /\ UNCHANGED stopped /\ ~stopped
          /\ Fates' = [Fates EXCEPT ![r] = "pending"]
      BY <1>1, <2>2, FatesReturn DEF Record, RecordQueued, RecordMerged, RecordOverflowed, Accepting
    <3>2. Ledger!Accept(r)
      BY <3>1 DEF Ledger!Accept, Fates
    <3> QED BY <3>2 DEF Ledger!Next
  <2> QED BY <1>1, <2>1, <2>2 DEF Record
<1>2. CASE Stop
  <2>1. UNCHANGED <<result, rows, dropped>> /\ stopped'
    BY <1>2 DEF Stop
  <2> QED BY <2>1, FatesUnchanged DEF Ledger!Next, Ledger!Close, Fates, Stop
<1>3. CASE TakeWaits \/ TakeReturns \/ TakeBatch \/ InsertBatchFails \/ UNCHANGED vars
  <2>1. UNCHANGED <<result, rows, dropped, stopped>>
    BY <1>3 DEF TakeWaits, TakeReturns, TakeBatch, InsertBatchFails, Rollback, vars
  <2> QED BY <2>1, FatesUnchanged
<1>a. ASSUME NEW e \in batch, insertUsage(e), UNCHANGED <<result, stopped>>
      PROVE  [Ledger!Next]_<<Fates, stopped>>
  <2>1. OfAll({e}) = e.of
    BY OfAllSingle
  <2>2. OfAll({execInsertUsage(e, "single")}) = e.of
    <3>1. execInsertUsage(e, "single").of = e.of
      BY DEF execInsertUsage
    <3> QED BY <3>1, OfAllSingle
  <2>3. \/ Stored' = Stored \union OfAll({e}) /\ UNCHANGED dropped
        \/ dropped' = dropped \union OfAll({e}) /\ Stored' = Stored
    BY <1>a, <2>1, <2>2, OfAllUnion DEF insertUsage, Stored
  <2> QED BY <1>a, <2>3, FatesSettle
<1>4. CASE InsertSingle
  BY <1>4, <1>a DEF InsertSingle
<1>5. CASE InsertFallback
  BY <1>5, <1>a DEF InsertFallback
<1>6. CASE InsertBatchCommits
  <2> DEFINE R == {execInsertUsage(e, "batch") : e \in batch}
  <2>1. OfAll(R) = OfAll(batch)
    BY OfAllRows
  <2>2. rows' = rows \union R /\ UNCHANGED <<result, dropped, stopped>>
    BY <1>6 DEF InsertBatchCommits
  <2> HIDE DEF R
  <2>3. Stored' = Stored \union OfAll(batch)
    BY <2>1, <2>2, OfAllUnion DEF Stored
  <2> QED BY <2>2, <2>3, FatesSettle
<1> QED BY <1>1, <1>2, <1>3, <1>4, <1>5, <1>6 DEF Next, Worker

LEMMA LedgerInit == Init => Ledger!Init
<1> SUFFICES ASSUME Init PROVE Ledger!Init
  OBVIOUS
<1>1. \A r \in Records : Fate(r) = "new"
  BY DEF Init, Fate
<1> QED BY <1>1 DEF Init, Ledger!Init

\* The sink implements the ledger's safety: a record's fate only moves from new
\* to refused or pending, and from pending to counted or lost, for good.
THEOREM SinkImplementsLedger == Spec => Ledger!Init /\ [][Ledger!Next]_Ledger!vars
<1>1. IInv /\ [Next]_vars => [Ledger!Next]_Ledger!vars
  BY LedgerStep DEF Ledger!vars, Fates
<1> QED BY <1>1, LedgerInit, Invariance, PTL DEF Spec

----------------------------------------------------------------------------
(* The sink while the syncer re-keys the stored rows.  A row's account is then  *)
(* no longer the account of its records, only a key their token has had; the    *)
(* fields of a row are needed to know what an update of one of them leaves.     *)
RowFields == {"account", "token", "shape", "time", "of", "stmt"}

\* A stored row stands for its records, under a key their token has had.
StandsFor(w, r) ==
    /\ w.token = r.token /\ w.shape = r.shape
    /\ w.time \in {r.time, TruncateHour(r.time)}
    /\ w.account \in Known(r.token)

RowsInv ==
    \A w \in rows :
        /\ DOMAIN w = RowFields
        /\ \A r \in w.of : r \in Records /\ StandsFor(w, r)

AllKeys == UNION {Keys(t) : t \in Tokens}

KeysInv ==
    /\ known \in [Tokens -> Seq(AllKeys)]
    /\ \A t \in Tokens : known[t] # <<>>
    /\ \A p \in rekeys : p[1] \in Tokens /\ p[2] \in Known(p[1])
    /\ \A r \in Accepted : r.account \in Known(r.token)

AInv == IInv /\ DimInv /\ RowsInv /\ KeysInv

LEMMA RowsHaveFields ==
  ASSUME [Next]_vars
  PROVE  \A w \in rows' \ rows : DOMAIN w = RowFields
<1>1. ASSUME NEW e, NEW stmt PROVE DOMAIN execInsertUsage(e, stmt) = RowFields
  BY DEF execInsertUsage, RowFields
<1>2. ASSUME NEW e, insertUsage(e) PROVE \A w \in rows' \ rows : DOMAIN w = RowFields
  BY <1>1, <1>2 DEF insertUsage
<1>3. ASSUME NEW r \in Records, Record(r) PROVE UNCHANGED rows
  BY <1>3 DEF Record, RecordStopped, RecordQueued, RecordMerged, RecordOverflowed,
              RecordFull
<1>4. CASE InsertBatchCommits
  <2>1. rows' = rows \union {execInsertUsage(e, "batch") : e \in batch}
    BY <1>4 DEF InsertBatchCommits
  <2> QED BY <1>1, <2>1
<1>5. CASE InsertSingle \/ InsertFallback
  BY <1>2, <1>5 DEF InsertSingle, InsertFallback
<1>6. CASE Stop \/ TakeWaits \/ TakeReturns \/ TakeBatch \/ InsertBatchFails \/ UNCHANGED vars
  BY <1>6 DEF Stop, TakeWaits, TakeReturns, TakeBatch, InsertBatchFails, Rollback, vars
<1> QED BY <1>3, <1>4, <1>5, <1>6 DEF Next, Worker

\* A step of the sink, with no record accepted under a key its token never had.
LEMMA SinkKeeps ==
  ASSUME AInv, [Next]_vars, UNCHANGED <<known, rekeys>>,
         \A r \in Accepted' : r.account \in Known(r.token)
  PROVE  AInv'
<1>1. IInv'
  BY IInvStep DEF AInv
<1>2. DimInv' /\ NewRowsWhole
  BY DimStep DEF AInv, IInv
<1>3. \A t : Known(t)' = Known(t)
  BY DEF Known
<1>4. RowsInv'
  <2>1. ASSUME NEW w \in rows', NEW r \in w.of PROVE r \in Records /\ StandsFor(w, r)'
    <3>1. CASE w \in rows
      BY <1>3, <2>1, <3>1 DEF AInv, RowsInv, StandsFor
    <3>2. CASE w \notin rows
      <4>1. r \in Records /\ Whole(w, r)
        BY <1>2, <2>1, <3>2 DEF NewRowsWhole
      <4>2. r \in Accepted'
        BY <1>1, <2>1 DEF IInv, AcceptedAccounted, Stored, OfAll
      <4> QED BY <1>3, <4>1, <4>2 DEF Whole, StandsFor
    <3> QED BY <3>1, <3>2
  <2>2. ASSUME NEW w \in rows' PROVE DOMAIN w = RowFields
    BY <2>2, RowsHaveFields DEF AInv, RowsInv
  <2> QED BY <2>1, <2>2 DEF RowsInv
<1>5. KeysInv'
  BY <1>3 DEF AInv, KeysInv
<1> QED BY <1>1, <1>2, <1>4, <1>5 DEF AInv

\* The UPDATE changes the account of a row and nothing else of it.
LEMMA RekeyedRow ==
  ASSUME NEW w, DOMAIN w = RowFields, NEW k
  PROVE  LET v == [w EXCEPT !.account = k]
         IN  /\ DOMAIN v = RowFields /\ v.account = k
             /\ v.token = w.token /\ v.shape = w.shape
             /\ v.time = w.time /\ v.of = w.of /\ v.stmt = w.stmt
  BY DEF RowFields

LEMMA RekeyKeeps ==
  ASSUME AInv, NEW t \in Tokens, NEW k, RekeyRuns(t, k)
  PROVE  AInv' /\ Stored' = Stored
<1> DEFINE Rekeyed(w) == IF w.token = t THEN [w EXCEPT !.account = k] ELSE w
<1>1. rows' = {Rekeyed(w) : w \in rows}
  BY DEF RekeyRuns, RekeyTokenUsage
<1>2. UNCHANGED <<queued, overflow, batch, stopped, worker, result, dropped, known>>
  BY DEF RekeyRuns, mem
<1>3. k \in Known(t)
  BY DEF RekeyRuns, AInv, KeysInv
<1>4. ASSUME NEW w \in rows
      PROVE  /\ DOMAIN Rekeyed(w) = RowFields /\ Rekeyed(w).of = w.of
             /\ Rekeyed(w).token = w.token /\ Rekeyed(w).shape = w.shape
             /\ Rekeyed(w).time = w.time
             /\ Rekeyed(w).account = IF w.token = t THEN k ELSE w.account
  BY RekeyedRow DEF AInv, RowsInv
<1> HIDE DEF Rekeyed
<1>5. Stored' = Stored
  <2>1. ASSUME NEW x \in Stored PROVE x \in Stored'
    <3>1. PICK w \in rows : x \in w.of
      BY DEF Stored, OfAll
    <3> QED BY <1>1, <1>4, <3>1 DEF Stored, OfAll
  <2>2. ASSUME NEW x \in Stored' PROVE x \in Stored
    <3>1. PICK w \in rows : x \in Rekeyed(w).of
      BY <1>1 DEF Stored, OfAll
    <3> QED BY <1>4, <3>1 DEF Stored, OfAll
  <2> QED BY <2>1, <2>2
<1>6. DisjointEntries(rows)'
  <2>1. ASSUME NEW v \in rows, NEW w \in rows
        PROVE  Rekeyed(v) = Rekeyed(w) \/ Rekeyed(v).of \intersect Rekeyed(w).of = {}
    BY <1>4 DEF AInv, IInv, CountedOnce, DisjointEntries
  <2> QED BY <1>1, <2>1 DEF DisjointEntries
<1>7. Accepted' = Accepted /\ Merged' = Merged /\ Taken' = Taken
  BY <1>2 DEF Accepted, Merged, Overflowed, Taken, OfAll
<1>8. TypeOK' /\ WorkerOK' /\ MemoryDisjoint'
  BY <1>2, <1>7 DEF AInv, IInv, TypeOK, WorkerOK, NothingPending, MemoryDisjoint,
                    DisjointEntries
<1>9. AcceptedAccounted' /\ CountedOnce'
  BY <1>2, <1>5, <1>6, <1>7 DEF AInv, IInv, AcceptedAccounted, CountedOnce
<1>10. DimInv'
  BY <1>2 DEF AInv, DimInv, Whole
<1>11. \A s : Known(s)' = Known(s)
  BY <1>2 DEF Known
<1>12. RowsInv'
  <2>1. ASSUME NEW w \in rows, NEW r \in Rekeyed(w).of
        PROVE  r \in Records /\ StandsFor(Rekeyed(w), r)
    <3>1. r \in Records /\ StandsFor(w, r)
      BY <1>4, <2>1 DEF AInv, RowsInv
    <3> QED BY <1>3, <1>4, <3>1 DEF StandsFor
  <2> QED BY <1>1, <1>4, <1>11, <2>1 DEF RowsInv, StandsFor
<1>13. KeysInv'
  <2>1. rekeys' \subseteq rekeys
    BY DEF RekeyRuns
  <2> QED BY <1>2, <1>7, <1>11, <2>1 DEF AInv, KeysInv
<1> QED BY <1>5, <1>8, <1>9, <1>10, <1>12, <1>13 DEF AInv, IInv

\* Learning a key forgets none.
LEMMA KeyAdded ==
  ASSUME AInv, NEW t \in Tokens, LearnKey(t)
  PROVE  /\ known' \in [Tokens -> Seq(AllKeys)]
         /\ \A s \in Tokens : known'[s] # <<>> /\ Known(s) \subseteq Known(s)'
<1>1. PICK k \in LaterKeys[t] : known' = [known EXCEPT ![t] = <<k>> \o known[t]]
  BY DEF LearnKey
<1>2. k \in AllKeys
  BY DEF AllKeys, Keys
<1>3. known \in [Tokens -> Seq(AllKeys)]
  BY DEF AInv, KeysInv
<1> DEFINE longer == <<k>> \o known[t]
<1>4. /\ longer \in Seq(AllKeys) /\ longer # <<>>
      /\ \A i \in DOMAIN known[t] : i + 1 \in DOMAIN longer /\ longer[i + 1] = known[t][i]
  <2>1. known[t] \in Seq(AllKeys) /\ <<k>> \in Seq(AllKeys) /\ Len(<<k>>) = 1
    BY <1>2, <1>3
  <2>2. longer \in Seq(AllKeys) /\ Len(longer) = Len(known[t]) + 1
    BY <2>1
  <2> QED BY <2>1, <2>2
<1> HIDE DEF longer
<1>5. known' = [known EXCEPT ![t] = longer]
  BY <1>1 DEF longer
<1>6. known' \in [Tokens -> Seq(AllKeys)]
  BY <1>3, <1>4, <1>5
<1>7. ASSUME NEW s \in Tokens PROVE known'[s] # <<>> /\ Known(s) \subseteq Known(s)'
  <2>1. CASE s = t
    <3>1. known'[s] = longer
      BY <1>3, <1>5, <2>1
    <3> QED BY <1>4, <2>1, <3>1 DEF Known
  <2>2. CASE s # t
    <3>1. known'[s] = known[s]
      BY <1>3, <1>5, <2>2
    <3> QED BY <3>1 DEF Known, AInv, KeysInv
  <2> QED BY <2>1, <2>2
<1> QED BY <1>6, <1>7

LEMMA LearnKeeps ==
  ASSUME AInv, NEW t \in Tokens, LearnKey(t)
  PROVE  AInv'
<1>1. UNCHANGED vars /\ UNCHANGED rekeys
  BY DEF LearnKey
<1>2. IInv' /\ DimInv'
  BY <1>1, IInvStep, DimStep DEF AInv, IInv
<1>3. \A r \in Records : Known(r.token) \subseteq Known(r.token)'
  BY KeyAdded, RecordTokens
<1>4. RowsInv'
  BY <1>1, <1>3 DEF AInv, RowsInv, StandsFor, vars
<1>5. Accepted' = Accepted
  BY <1>1 DEF Accepted, vars
<1>6. KeysInv'
  BY <1>1, <1>3, <1>5, KeyAdded DEF AInv, KeysInv, Accepted
<1> QED BY <1>2, <1>4, <1>6 DEF AInv

LEMMA CurrentKeyKnown ==
  ASSUME KeysInv, NEW t \in Tokens
  PROVE  CurrentKey(t) \in Known(t)
<1>1. known[t] \in Seq(AllKeys) /\ known[t] # <<>>
  BY DEF KeysInv
<1>2. 1 \in DOMAIN known[t]
  BY <1>1
<1> QED BY <1>2 DEF CurrentKey, Known

LEMMA AInvInit == AInit => AInv
<1> SUFFICES ASSUME AInit PROVE AInv
  OBVIOUS
<1>1. IInv /\ DimInv
  BY IInvInit, DimInit DEF AInit
<1>2. rows = {} /\ rekeys = {} /\ Accepted = {}
  BY DEF AInit, Init, Accepted
<1>3. known = [t \in Tokens |-> <<InitialKey[t]>>]
  BY DEF AInit
<1>4. \A t \in Tokens : InitialKey[t] \in AllKeys
  BY DEF AllKeys, Keys
<1>5. KeysInv
  BY <1>2, <1>3, <1>4 DEF KeysInv
<1> QED BY <1>1, <1>2, <1>5 DEF AInv, RowsInv

LEMMA AInvStep == AInv /\ [ANext]_allVars => AInv'
<1> SUFFICES ASSUME AInv, [ANext]_allVars PROVE AInv'
  OBVIOUS
<1>a. \A r \in Accepted : r.account \in Known(r.token)
  BY DEF AInv, KeysInv
<1>1. ASSUME NEW r \in Records, RecordTokenUsage(r) PROVE AInv'
  <2>1. Next /\ UNCHANGED <<known, rekeys>> /\ r.account \in Known(r.token)
    BY <1>1 DEF RecordTokenUsage, Next
  <2>2. Accepted' \subseteq Accepted \union {r}
    <3>1. \E x : Return(r, x)
      BY <1>1 DEF RecordTokenUsage, Record, RecordStopped, RecordQueued, RecordMerged,
                  RecordOverflowed, RecordFull
    <3> QED BY <3>1 DEF Return, Accepted, AInv, IInv, TypeOK
  <2> QED BY <1>a, <2>1, <2>2, SinkKeeps
<1>2. ASSUME SinkWorker \/ SinkStop PROVE AInv'
  <2>1. Next /\ UNCHANGED <<known, rekeys>>
    BY <1>2 DEF SinkWorker, SinkStop, Next
  <2>2. UNCHANGED result
    BY <1>2 DEF SinkWorker, SinkStop, Worker, Stop, TakeWaits, TakeReturns, TakeBatch,
                InsertSingle, InsertBatchCommits, InsertBatchFails, InsertFallback
  <2>3. Accepted' = Accepted
    BY <2>2 DEF Accepted
  <2> QED BY <1>a, <2>1, <2>3, SinkKeeps
<1>3. ASSUME NEW t \in Tokens, LearnKey(t) PROVE AInv'
  BY <1>3, LearnKeeps
<1>b. ASSUME UNCHANGED <<vars, known>>, \A p \in rekeys' : p[1] \in Tokens /\ p[2] \in Known(p[1])
      PROVE  AInv'
  <2>1. IInv' /\ DimInv'
    BY <1>b, IInvStep, DimStep DEF AInv, IInv
  <2>2. \A t : Known(t)' = Known(t)
    BY <1>b DEF Known
  <2>3. RowsInv'
    BY <1>b, <2>2 DEF AInv, RowsInv, StandsFor, vars
  <2>4. Accepted' = Accepted
    BY <1>b DEF Accepted, vars
  <2>5. KeysInv'
    BY <1>b, <2>2, <2>4 DEF AInv, KeysInv
  <2> QED BY <2>1, <2>3, <2>5 DEF AInv
<1>4. ASSUME NEW t \in Tokens, RekeyBegins(t) PROVE AInv'
  <2>1. CurrentKey(t) \in Known(t)
    BY CurrentKeyKnown DEF AInv
  <2> QED BY <1>4, <1>b, <2>1 DEF RekeyBegins, AInv, KeysInv
<1>5. ASSUME NEW t \in Tokens, NEW k, RekeyRuns(t, k) PROVE AInv'
  BY <1>5, RekeyKeeps
<1>6. ASSUME NEW t \in Tokens, NEW k, RekeyFails(t, k) PROVE AInv'
  BY <1>6, <1>b DEF RekeyFails, AInv, KeysInv
<1>7. CASE UNCHANGED allVars
  <2>1. UNCHANGED <<vars, known, rekeys>>
    BY <1>7 DEF allVars
  <2> QED BY <1>b, <2>1 DEF AInv, KeysInv
<1> QED BY <1>1, <1>2, <1>3, <1>4, <1>5, <1>6, <1>7 DEF ANext

LEMMA AccountingInvariance == ASpec => []AInv
  BY AInvInit, AInvStep, PTL DEF ASpec

\* Re-keying, begun under one key and run while requests record under another,
\* loses no record and counts none twice; the sink drains as it does alone.
THEOREM AccountedThroughRekeying ==
  ASpec => [](TypeOK /\ AcceptedAccounted /\ CountedOnce /\ StopDrains)
<1>1. AInv => TypeOK /\ AcceptedAccounted /\ CountedOnce /\ StopDrains
  BY IInvDrains DEF AInv, IInv
<1> QED BY <1>1, AccountingInvariance, PTL

\* Nor does it make a row speak of another token, path, status or hour.
THEOREM DimensionsKeptThroughRekeying == ASpec => []DimensionsPreserved
<1>1. AInv => DimensionsPreserved
  <2> SUFFICES ASSUME AInv PROVE DimensionsPreserved
    OBVIOUS
  <2>1. ASSUME NEW w \in rows, NEW r \in w.of PROVE Agrees(w, r)
    <3>1. r \in Records /\ StandsFor(w, r)
      BY <2>1 DEF AInv, RowsInv
    <3>2. TruncateHour(TruncateHour(r.time)) = TruncateHour(r.time)
      BY <3>1, TruncateTwice, RecordsAssumption
    <3> QED BY <3>1, <3>2 DEF StandsFor, Agrees
  <2> QED BY <2>1, MemoryAgrees DEF AInv, DimensionsPreserved
<1> QED BY <1>1, AccountingInvariance, PTL

\* A line of the page shows only usage of tokens that have been known by its key,
\* and no usage shows on two lines, whatever keys were learned in whatever order.
THEOREM LinesShowOwnUsage == ASpec => []AccountsShowOwnUsage
<1>1. AInv => AccountsShowOwnUsage
  <2> SUFFICES ASSUME AInv PROVE AccountsShowOwnUsage
    OBVIOUS
  <2> DEFINE shown == accountSummaries(rows, ActiveAccounts)
  <2>1. ASSUME NEW key \in ActiveAccounts
        PROVE  shown[key] = OfAll({w \in rows : w.account = key})
    BY DEF accountSummaries
  <2> HIDE DEF shown
  <2>2. ASSUME NEW key \in ActiveAccounts, NEW r \in shown[key]
        PROVE  key \in Known(r.token)
    <3>1. PICK w \in rows : w.account = key /\ r \in w.of
      BY <2>1, <2>2 DEF OfAll
    <3> QED BY <3>1 DEF AInv, RowsInv, StandsFor
  <2>3. ASSUME NEW key \in ActiveAccounts, NEW other \in ActiveAccounts \ {key},
               NEW r \in shown[key] \intersect shown[other]
        PROVE  FALSE
    <3>1. PICK w \in rows : w.account = key /\ r \in w.of
      BY <2>1, <2>3 DEF OfAll
    <3>2. PICK v \in rows : v.account = other /\ r \in v.of
      BY <2>1, <2>3 DEF OfAll
    <3> QED BY <3>1, <3>2, <2>3 DEF AInv, IInv, CountedOnce, DisjointEntries
  <2>4. ASSUME NEW key \in ActiveAccounts, NEW other \in ActiveAccounts \ {key}
        PROVE  shown[key] \intersect shown[other] = {}
    BY <2>3
  <2> QED BY <2>2, <2>4 DEF AccountsShowOwnUsage, shown
<1> QED BY <1>1, AccountingInvariance, PTL

----------------------------------------------------------------------------
(* Hours and days.                                                              *)

LEMMA Times ==
  ASSUME NEW a \in Nat, NEW b \in Nat, NEW c \in Nat, a <= b
  PROVE  a * c <= b * c
<1>1. (b - a) * c >= 0
  OBVIOUS
<1> QED BY <1>1

LEMMA Quotient ==
  ASSUME NEW x \in Nat, NEW d \in Nat \ {0}
  PROVE  /\ x \div d \in Nat
         /\ (x \div d) * d <= x
         /\ x < (x \div d) * d + d
  OBVIOUS

\* A number is in the q-th span of length d exactly when its quotient is q.
LEMMA QuotientIs ==
  ASSUME NEW x \in Nat, NEW d \in Nat \ {0}, NEW q \in Nat, q * d <= x, x < q * d + d
  PROVE  x \div d = q
<1> DEFINE p == x \div d
<1>1. p \in Nat /\ p * d <= x /\ x < p * d + d
  BY Quotient
<1> HIDE DEF p
<1>2. CASE p < q
  <2>1. (p + 1) * d <= q * d
    BY <1>1, <1>2, Times
  <2>2. (p + 1) * d = p * d + d
    BY <1>1
  <2> QED BY <1>1, <2>1, <2>2
<1>3. CASE q < p
  <2>1. (q + 1) * d <= p * d
    BY <1>1, <1>3, Times
  <2>2. (q + 1) * d = q * d + d
    OBVIOUS
  <2> QED BY <1>1, <2>1, <2>2
<1> QED BY <1>1, <1>2, <1>3 DEF p

\* A time is on or after the start of a day exactly when its day is.
LEMMA SinceDay ==
  ASSUME NEW x \in Nat, NEW day \in Nat
  PROVE  x >= day * Day <=> DayOf(x) >= day
<1> DEFINE q == DayOf(x)
<1>0. Day \in Nat \ {0}
  BY DayAssumption
<1>1. q \in Nat /\ q * Day <= x /\ x < q * Day + Day
  BY <1>0, Quotient DEF DayOf
<1> SUFFICES x >= day * Day <=> q >= day
  OBVIOUS
<1> HIDE DEF q
<1>2. CASE q >= day
  <2>1. day * Day <= q * Day
    BY <1>0, <1>1, <1>2, Times
  <2>2. day * Day \in Nat /\ q * Day \in Nat
    BY <1>0, <1>1
  <2> QED BY <1>1, <1>2, <2>1, <2>2
<1>3. CASE q < day
  <2>1. (q + 1) * Day <= day * Day
    BY <1>0, <1>1, <1>3, Times
  <2>2. (q + 1) * Day = q * Day + Day /\ q * Day \in Nat /\ day * Day \in Nat
    BY <1>0, <1>1
  <2> QED BY <1>0, <1>1, <1>3, <2>1, <2>2
<1> QED BY <1>1, <1>2, <1>3

\* The start of an hour is not after it, in the same hour, and on the same day,
\* for a day is a whole number of hours.
LEMMA HourStart ==
  ASSUME NEW x \in Nat
  PROVE  /\ TruncateHour(x) \in Nat
         /\ TruncateHour(x) <= x
         /\ DayOf(TruncateHour(x)) = DayOf(x)
<1> DEFINE h == x \div Hour
           y == h * Hour
           n == Day \div Hour
           q == DayOf(x)
<1>0. Hour \in Nat \ {0} /\ Day \in Nat \ {0}
  BY HourAssumption, DayAssumption
<1>1. h \in Nat /\ y <= x /\ x < y + Hour
  BY <1>0, Quotient
<1>2. n \in Nat /\ Day = n * Hour
  BY <1>0, DayAssumption
<1>3. q \in Nat /\ q * Day <= x /\ x < q * Day + Day
  BY <1>0, Quotient DEF DayOf
<1>4. y \in Nat
  BY <1>0, <1>1
<1>y. y = h * Hour
  OBVIOUS
<1> HIDE DEF h, y, n, q
<1>5. q * Day = (q * n) * Hour /\ q * n \in Nat
  BY <1>0, <1>2, <1>3
<1>6. q * n <= h
  <2> SUFFICES ASSUME h < q * n PROVE FALSE
    BY <1>1, <1>5
  <2>1. (h + 1) * Hour <= (q * n) * Hour
    BY <1>0, <1>1, <1>5, Times
  <2>2. (h + 1) * Hour = y + Hour
    BY <1>0, <1>1, <1>y
  <2> QED BY <1>0, <1>1, <1>3, <1>4, <1>5, <2>1, <2>2
<1>7. q * Day <= y
  BY <1>0, <1>1, <1>5, <1>6, <1>y, Times
<1>8. y \div Day = q
  BY <1>0, <1>1, <1>3, <1>4, <1>7, QuotientIs
<1> QED BY <1>1, <1>4, <1>8 DEF TruncateHour, DayOf, h, y, q

\* A row's time is that of its records but for the part of an hour.
LEMMA RowTime ==
  ASSUME AInv, NEW w \in rows, NEW r \in w.of
  PROVE  /\ r \in Records /\ r.time \in Nat /\ w.time \in Nat
         /\ w.time \in {r.time, TruncateHour(r.time)}
         /\ w.time <= r.time
         /\ DayOf(w.time) = DayOf(r.time)
<1>1. r \in Records /\ w.time \in {r.time, TruncateHour(r.time)}
  BY DEF AInv, RowsInv, StandsFor
<1>2. r.time \in Nat
  BY <1>1, RecordsAssumption
<1> QED BY <1>1, <1>2, HourStart

\* The usage counted on a day is the stored usage of that day.
LEMMA CountedOnDay ==
  ASSUME AInv, NEW day
  PROVE  CountedOn(rows, day) = {r \in Stored : DayOf(r.time) = day}
<1>1. ASSUME NEW r \in CountedOn(rows, day)
      PROVE  r \in Stored /\ DayOf(r.time) = day
  <2>1. PICK w \in rows : DayOf(w.time) = day /\ r \in w.of
    BY <1>1 DEF CountedOn, OfAll
  <2> QED BY <2>1, RowTime DEF Stored, OfAll
<1>2. ASSUME NEW r \in Stored, DayOf(r.time) = day
      PROVE  r \in CountedOn(rows, day)
  <2>1. PICK w \in rows : r \in w.of
    BY DEF Stored, OfAll
  <2>2. DayOf(w.time) = day
    BY <1>2, <2>1, RowTime
  <2> QED BY <2>1, <2>2 DEF CountedOn, OfAll
<1> QED BY <1>1, <1>2

\* Of the query over the longest span, a period's last days are its own.
LEMMA TrendDay ==
  ASSUME NEW now \in ReportTimes, NEW days \in Spans, NEW i \in 1..days
  PROVE  Trend(rows, now, days)[i] = CountedOn(rows, DayOf(now) - days + i)
<1> DEFINE longest == LongestSpan
           today == DayOf(now)
           buckets == [j \in 1..longest |-> CountedOn(rows, today - longest + j)]
<1>1. longest \in Spans /\ days <= longest
  BY SpansAssumption DEF LongestSpan
<1>2. longest \in Nat /\ days \in Nat \ {0} /\ i \in Nat
  BY <1>1, SpansAssumption
<1>3. today \in Nat
  BY DayAssumption, ReportTimesAssumption, Quotient DEF DayOf
<1>4. DailyUsageBuckets(rows, now, LongestSpan) = buckets
  BY DEF DailyUsageBuckets
<1> DEFINE first == longest - days + 1
<1>5. Trend(rows, now, days) = SubSeq(buckets, Len(buckets) - days + 1, Len(buckets))
  BY <1>4 DEF Trend
<1> HIDE DEF longest, today
<1>6. DOMAIN buckets = 1..longest /\ Len(buckets) = longest
  BY <1>2
<1>7. first \in Nat /\ first + i - 1 \in 1..longest /\ i \in 1..(longest - first + 1)
  BY <1>1, <1>2
<1>8. SubSeq(buckets, first, longest)[i] = buckets[first + i - 1]
  BY <1>2, <1>7
<1>9. buckets[first + i - 1] = CountedOn(rows, today - longest + (first + i - 1))
  BY <1>7
<1>10. today - longest + (first + i - 1) = today - days + i
  BY <1>1, <1>2, <1>3
<1> QED BY <1>5, <1>6, <1>8, <1>9, <1>10 DEF today

\* The day's figure and each bar of every chart count the stored usage of that
\* day, all of it and no other, although rows were coalesced, for any length of an
\* hour that divides the day and any periods.
THEOREM DaysAreExact == ASpec => []DaysExact
<1>1. AInv => DaysExact
  <2> SUFFICES ASSUME AInv, NEW now \in ReportTimes
      PROVE  /\ GlobalPeriodTotals(rows, now).daily = MadeSince(DayStart(now))
             /\ \A days \in Spans : \A i \in 1..days :
                   Trend(rows, now, days)[i] =
                       {r \in Stored : DayOf(r.time) = DayOf(now) - days + i}
    BY DEF DaysExact
  <2>1. DayOf(now) \in Nat
    BY DayAssumption, ReportTimesAssumption, Quotient DEF DayOf
  <2>2. CountedSince(rows, DayStart(now)) = MadeSince(DayStart(now))
    <3> DEFINE cutoff == DayStart(now)
    <3>1. ASSUME NEW w \in rows, NEW r \in w.of
          PROVE  w.time >= cutoff <=> r.time >= cutoff
      BY <3>1, <2>1, RowTime, SinceDay DEF DayStart
    <3> HIDE DEF cutoff
    <3>2. ASSUME NEW r \in CountedSince(rows, cutoff) PROVE r \in MadeSince(cutoff)
      <4>1. PICK w \in rows : w.time >= cutoff /\ r \in w.of
        BY <3>2 DEF CountedSince, OfAll
      <4> QED BY <3>1, <4>1 DEF MadeSince, Stored, OfAll
    <3>3. ASSUME NEW r \in MadeSince(cutoff) PROVE r \in CountedSince(rows, cutoff)
      <4>1. PICK w \in rows : r \in w.of
        BY DEF MadeSince, Stored, OfAll
      <4>2. w.time >= cutoff
        BY <3>1, <4>1 DEF MadeSince
      <4> QED BY <4>1, <4>2 DEF CountedSince, OfAll
    <3> QED BY <3>2, <3>3 DEF cutoff
  <2>3. ASSUME NEW days \in Spans, NEW i \in 1..days
        PROVE  Trend(rows, now, days)[i] =
                   {r \in Stored : DayOf(r.time) = DayOf(now) - days + i}
    BY TrendDay, CountedOnDay
  <2> QED BY <2>2, <2>3 DEF GlobalPeriodTotals
<1> QED BY <1>1, AccountingInvariance, PTL

\* A period cut out at a time of day shows nothing older, and misses only what was
\* coalesced into the hour in which it starts.
THEOREM PeriodsAreClose == ASpec => []PeriodsWithinAnHour
<1>1. AInv => PeriodsWithinAnHour
  <2> SUFFICES ASSUME AInv, NEW now \in ReportTimes, NEW days \in Spans
      PROVE  LET cutoff == now - days * Day
                 shown == GlobalPeriodTotals(rows, now).recent[days]
             IN /\ shown \subseteq MadeSince(cutoff)
                /\ \A r \in MadeSince(cutoff) \ shown : TruncateHour(r.time) < cutoff
    BY DEF PeriodsWithinAnHour
  <2> DEFINE cutoff == now - days * Day
             shown == GlobalPeriodTotals(rows, now).recent[days]
  <2>1. shown = CountedSince(rows, cutoff)
    BY DEF GlobalPeriodTotals
  <2>2. cutoff \in Int
    BY DayAssumption, SpansAssumption, ReportTimesAssumption
  <2> HIDE DEF cutoff, shown
  <2>3. ASSUME NEW r \in shown PROVE r \in MadeSince(cutoff)
    <3>1. PICK w \in rows : w.time >= cutoff /\ r \in w.of
      BY <2>1, <2>3 DEF CountedSince, OfAll
    <3>2. r.time >= cutoff
      BY <2>2, <3>1, RowTime
    <3> QED BY <3>1, <3>2 DEF MadeSince, Stored, OfAll
  <2>4. ASSUME NEW r \in MadeSince(cutoff) \ shown PROVE TruncateHour(r.time) < cutoff
    <3>1. PICK w \in rows : r \in w.of
      BY <2>4 DEF MadeSince, Stored, OfAll
    <3>2. w.time \in Nat /\ ~(w.time >= cutoff)
      BY <2>1, <2>4, <3>1, RowTime DEF CountedSince, OfAll
    <3>3. w.time = TruncateHour(r.time)
      BY <2>4, <3>1, <3>2, RowTime DEF MadeSince
    <3> QED BY <2>2, <3>2, <3>3
  <2> QED BY <2>3, <2>4 DEF cutoff, shown
<1> QED BY <1>1, AccountingInvariance, PTL

\* Re-keying is no step of the ledger: the sink still implements its safety.
THEOREM LedgerKeptThroughRekeying == ASpec => Ledger!Init /\ [][Ledger!Next]_Ledger!vars
<1>1. AInit => Ledger!Init
  BY LedgerInit DEF AInit
<1>2. AInv /\ [ANext]_allVars => [Ledger!Next]_<<Fates, stopped>>
  <2> SUFFICES ASSUME AInv, [ANext]_allVars PROVE [Ledger!Next]_<<Fates, stopped>>
    OBVIOUS
  <2>1. CASE [Next]_vars
    BY <2>1, LedgerStep DEF AInv
  <2>2. ASSUME NEW t \in Tokens, NEW k, RekeyRuns(t, k)
        PROVE  [Ledger!Next]_<<Fates, stopped>>
    <3>1. Stored' = Stored /\ UNCHANGED <<result, dropped, stopped>>
      BY <2>2, RekeyKeeps DEF RekeyRuns
    <3>2. Fates' = Fates
      BY <3>1 DEF Fates, Fate
    <3> QED BY <3>1, <3>2
  <2>3. [Next]_vars \/ \E t \in Tokens, k \in UNION {Keys(s) : s \in Tokens} : RekeyRuns(t, k)
    BY DEF ANext, RecordTokenUsage, SinkWorker, SinkStop, LearnKey, RekeyBegins, RekeyFails,
           Next, allVars
  <2> QED BY <2>1, <2>2, <2>3
<1>3. AInv /\ [ANext]_allVars => [Ledger!Next]_Ledger!vars
  BY <1>2 DEF Ledger!vars, Fates
<1> QED BY <1>1, <1>3, AccountingInvariance, PTL DEF ASpec
=============================================================================
