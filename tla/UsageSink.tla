----------------------------- MODULE UsageSink -----------------------------
(* UsageSink (usage_sink.go) and the inserts of UsageDB (usage_db.go): request  *)
(* goroutines hand usage records to a bounded queue; when it is full, records   *)
(* are merged into a bounded map of hourly buckets; one worker goroutine takes  *)
(* everything at once, inserts it in a transaction, and falls back to one       *)
(* insert per record when the transaction fails.                                *)
(*                                                                              *)
(* A record's token counts are abstracted to the record itself: a row carries   *)
(* the set of the records it counts ("of"), so a sum of counts is right exactly *)
(* when these sets are disjoint and their union is what was accepted.  The      *)
(* worker drains the whole queue each time, so its order is never observed and  *)
(* the queue is a set.                                                          *)
EXTENDS Naturals, FiniteSets

CONSTANTS
    Records,            \* UsageRecord values, one per call of Record; distinct
    QueueCapacity,      \* queueCapacity and overflowCapacity
    Hour                \* length of an hour on the records' clock

ASSUME CapacityAssumption == QueueCapacity \in Nat \ {0}
ASSUME HourAssumption == Hour \in Nat \ {0}
ASSUME RecordsAssumption == \A r \in Records : r.time \in Nat

VARIABLES
    queued,             \* s.queued
    overflow,           \* s.overflow: bucket key -> merged entry
    stopped,            \* s.stopped
    worker,             \* where the goroutine started by Run is
    batch,              \* the entries it took and has not dealt with yet
    rows,               \* usage_events
    result,             \* result[r]: what Record(r) returned, "none" before
    dropped             \* records whose insert failed: only a log line is left

mem == <<queued, overflow, batch>>
vars == <<queued, overflow, stopped, worker, batch, rows, result, dropped>>

Entry(r) ==
    [account |-> r.account, token |-> r.token, shape |-> r.shape,
     time |-> r.time, of |-> {r}]

OfAll(E) == UNION {e.of : e \in E}
Overflowed == {overflow[k] : k \in DOMAIN overflow}

\* Where an accepted record can be.
Queued   == queued
Merged   == OfAll(Overflowed)
Taken    == OfAll(batch)
Stored   == OfAll(rows)
Accepted == {r \in Records : result[r] = "ok"}

----------------------------------------------------------------------------
TruncateHour(time) == (time \div Hour) * Hour

\* Mutant: a bucket per account, whichever of its logins made the usage.
BucketPerAccount(r) ==
    [account |-> r.account, token |-> r.account, shape |-> r.shape,
     hour |-> TruncateHour(r.time)]

\* path, status code and the stream flag are the record's "shape".
usageOverflowBucket(r) ==
    [account |-> r.account, token |-> r.token, shape |-> r.shape,
     hour |-> TruncateHour(r.time)]

\* Mutant: the bucket gets the time of the last record merged.
MergeAtRecordTime(base, r, hour) ==
    [account |-> base.account, token |-> base.token, shape |-> base.shape,
     time |-> r.time, of |-> base.of \union {r}]

mergeUsageRecord(base, r, hour) ==
    [account |-> base.account, token |-> base.token, shape |-> base.shape,
     time |-> hour, of |-> base.of \union {r}]

\* Mutant: the capacity is passed by one.
HasRoomForOneMore == Cardinality(queued) <= QueueCapacity

HasQueueRoom == Cardinality(queued) < QueueCapacity
HasOverflowRoom == Cardinality(DOMAIN overflow) < QueueCapacity

\* Mutant: s.stopped is set but never tested.
AlwaysAccepting == TRUE

Accepting == ~stopped

\* Mutant: nobody signals the condition variable.
NoWake == UNCHANGED worker

\* cond.Signal and cond.Broadcast: only the worker ever waits.
Wake == worker' = IF worker = "wait" THEN "take" ELSE worker

Return(r, res) == result' = [result EXCEPT ![r] = res]

Init ==
    /\ queued = {}
    /\ overflow = [k \in {} |-> {}]
    /\ stopped = FALSE
    /\ worker = "take"
    /\ batch = {}
    /\ rows = {}
    /\ result = [r \in Records |-> "none"]
    /\ dropped = {}

----------------------------------------------------------------------------
(* Record, whole under s.mu: five ways out.                                     *)

RecordStopped(r) ==
    /\ ~Accepting
    /\ Return(r, "stopped")
    /\ UNCHANGED <<mem, stopped, worker, rows, dropped>>

RecordQueued(r) ==
    /\ Accepting
    /\ HasQueueRoom
    /\ queued' = queued \union {r}
    /\ Wake
    /\ Return(r, "ok")
    /\ UNCHANGED <<overflow, stopped, batch, rows, dropped>>

PutOverflow(key, entry) ==
    overflow' = [k \in DOMAIN overflow \union {key} |->
                    IF k = key THEN entry ELSE overflow[k]]

RecordMerged(r) ==
    LET key == usageOverflowBucket(r) IN
    /\ Accepting
    /\ ~HasQueueRoom
    /\ key \in DOMAIN overflow
    /\ PutOverflow(key, mergeUsageRecord(overflow[key], r, key.hour))
    /\ Wake
    /\ Return(r, "ok")
    /\ UNCHANGED <<queued, stopped, batch, rows, dropped>>

RecordOverflowed(r) ==
    LET key == usageOverflowBucket(r) IN
    /\ Accepting
    /\ ~HasQueueRoom
    /\ key \notin DOMAIN overflow
    /\ HasOverflowRoom
    /\ PutOverflow(key, [Entry(r) EXCEPT !.time = key.hour])
    /\ Wake
    /\ Return(r, "ok")
    /\ UNCHANGED <<queued, stopped, batch, rows, dropped>>

RecordFull(r) ==
    /\ Accepting
    /\ ~HasQueueRoom
    /\ usageOverflowBucket(r) \notin DOMAIN overflow
    /\ ~HasOverflowRoom
    /\ Return(r, "full")
    /\ UNCHANGED <<mem, stopped, worker, rows, dropped>>

Record(r) ==
    /\ result[r] = "none"
    /\ \/ RecordStopped(r)
       \/ RecordQueued(r)
       \/ RecordMerged(r)
       \/ RecordOverflowed(r)
       \/ RecordFull(r)

Stop ==
    /\ ~stopped
    /\ stopped' = TRUE
    /\ Wake
    /\ UNCHANGED <<mem, rows, result, dropped>>

----------------------------------------------------------------------------
(* The worker.                                                                  *)

NothingPending == queued = {} /\ DOMAIN overflow = {}
\* Mutant: a stopped sink returns at once.
MayReturnUndrained == stopped

MayReturn == NothingPending /\ stopped

\* takeBatch finds nothing and waits on the condition variable.
TakeWaits ==
    /\ worker = "take"
    /\ NothingPending
    /\ ~stopped
    /\ worker' = "wait"
    /\ UNCHANGED <<mem, stopped, rows, result, dropped>>

\* takeBatch returns false and the goroutine ends.
TakeReturns ==
    /\ worker = "take"
    /\ MayReturn
    /\ worker' = "done"
    /\ UNCHANGED <<mem, stopped, rows, result, dropped>>

\* Mutant: the overflow map is cleared without being read.
QueuedOnly == {Entry(r) : r \in queued}

Pending == {Entry(r) : r \in queued} \union Overflowed

TakeBatch ==
    /\ worker = "take"
    /\ ~NothingPending
    /\ batch' = Pending
    /\ queued' = {}
    /\ overflow' = [k \in {} |-> {}]
    /\ worker' = "insert"
    /\ UNCHANGED <<stopped, rows, result, dropped>>

\* A row: an entry and the kind of statement that stored it.  The statement
\* stands for the row id: an entry passes each kind of insert at most once.
execInsertUsage(e, stmt) ==
    [account |-> e.account, token |-> e.token, shape |-> e.shape,
     time |-> e.time, of |-> e.of, stmt |-> stmt]

\* insertUsage: one statement outside a transaction, an error is only logged.
insertUsage(e) ==
    \/ /\ rows' = rows \union {execInsertUsage(e, "single")}
       /\ UNCHANGED dropped
    \/ /\ dropped' = dropped \union e.of
       /\ UNCHANGED rows

InsertSingle ==
    /\ worker = "insert"
    /\ \E e \in batch : batch = {e} /\ insertUsage(e)
    /\ batch' = {}
    /\ worker' = "take"
    /\ UNCHANGED <<queued, overflow, stopped, result>>

InsertBatchCommits ==
    /\ worker = "insert"
    /\ ~ \E e \in batch : batch = {e}
    /\ rows' = rows \union {execInsertUsage(e, "batch") : e \in batch}
    /\ batch' = {}
    /\ worker' = "take"
    /\ UNCHANGED <<queued, overflow, stopped, result, dropped>>

\* Mutant: what was inserted before the failing statement stays.
NoRollback ==
    \E E \in SUBSET batch : rows' = rows \union {execInsertUsage(e, "batch") : e \in E}

\* The deferred rollback undoes what the transaction had inserted.
Rollback == UNCHANGED rows

\* Begin, a statement or the commit failed.
InsertBatchFails ==
    /\ worker = "insert"
    /\ ~ \E e \in batch : batch = {e}
    /\ Rollback
    /\ worker' = "fallback"
    /\ UNCHANGED <<mem, stopped, result, dropped>>

InsertFallback ==
    /\ worker = "fallback"
    /\ \E e \in batch :
        /\ insertUsage(e)
        /\ batch' = batch \ {e}
    /\ worker' = IF batch' = {} THEN "take" ELSE "fallback"
    /\ UNCHANGED <<queued, overflow, stopped, result>>

Worker ==
    \/ TakeWaits
    \/ TakeReturns
    \/ TakeBatch
    \/ InsertSingle
    \/ InsertBatchCommits
    \/ InsertBatchFails
    \/ InsertFallback

Next ==
    \/ \E r \in Records : Record(r)
    \/ Stop
    \/ Worker

\* The goroutine is scheduled and every insert returns: SQLite is local, has
\* one connection and a busy timeout.  Nobody is obliged to record or to stop.
Fairness == WF_vars(Worker)

Spec == Init /\ [][Next]_vars /\ Fairness

----------------------------------------------------------------------------
WorkerStates == {"take", "wait", "insert", "fallback", "done"}
Buckets == {usageOverflowBucket(r) : r \in Records}

\* The shape of the state, and the memory bounds the sink exists for: neither the
\* queue nor the overflow map ever grows past its capacity.
TypeOK ==
    /\ queued \subseteq Records
    /\ IsFiniteSet(queued) /\ Cardinality(queued) <= QueueCapacity
    /\ DOMAIN overflow \subseteq Buckets
    /\ IsFiniteSet(DOMAIN overflow)
    /\ Cardinality(DOMAIN overflow) <= QueueCapacity
    /\ stopped \in BOOLEAN
    /\ worker \in WorkerStates
    /\ result \in [Records -> {"none", "ok", "stopped", "full"}]

\* Every record Record() accepted is in the queue, in an overflow bucket, with
\* the worker, in the table, or was given up by a failed insert: no path of
\* takeBatch, the transaction and its fallback loses one silently, and nothing
\* the sink refused is ever counted.
AcceptedAccounted ==
    Accepted = queued \union Merged \union Taken \union Stored \union dropped

DisjointEntries(E) ==
    \A e \in E, f \in E : e = f \/ e.of \intersect f.of = {}

\* No usage is counted twice: a record is counted by at most one row, no row
\* counts a record reported lost, and what is still in memory is in no row --
\* also after a transaction failed half way and its records went one by one.
CountedOnce ==
    /\ DisjointEntries(rows)
    /\ Stored \intersect dropped = {}
    /\ (queued \union Merged \union Taken) \intersect (Stored \union dropped) = {}

Agrees(e, r) ==
    /\ e.token = r.token
    /\ e.shape = r.shape
    /\ TruncateHour(e.time) = TruncateHour(r.time)

\* usage_sink.go:142 "preserve request dimensions while coalescing token counts
\* into an hourly bucket": all that is merged, on its way or in the table agrees
\* with each record it counts on token, path, status and stream flag and on the
\* hour, and until the table's rows are re-keyed on the account as well.
DimensionsPreserved ==
    /\ \A e \in Overflowed \union batch \union rows : \A r \in e.of : Agrees(e, r)
    /\ \A e \in Overflowed \union batch : \A r \in e.of : e.account = r.account

\* When the worker has returned, so that Wait lets the database be closed,
\* nothing the sink accepted is left in memory.
StopDrains == worker = "done" => Accepted = Stored \union dropped

\* Once Stop was called the worker drains and returns: closeRuntime's Wait ends.
StopTerminates == stopped ~> (worker = "done")

\* What became of a record, as the ledger sees it.
Fate(r) ==
    CASE result[r] = "none" -> "new"
      [] result[r] \in {"stopped", "full"} -> "refused"
      [] result[r] = "ok" /\ r \in Stored -> "counted"
      [] result[r] = "ok" /\ r \in dropped -> "lost"
      [] OTHER -> "pending"

Ledger == INSTANCE UsageLedger WITH
    fate <- [r \in Records |-> Fate(r)], closed <- stopped

\* The sink implements the ledger, its liveness included: an accepted record is
\* settled in the end, also when nothing further is recorded (no lost wake-up).
ImplementsLedger == Ledger!Spec
=============================================================================
