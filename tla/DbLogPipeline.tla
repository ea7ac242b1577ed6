---------------------------- MODULE DbLogPipeline ----------------------------
(***************************************************************************)
(* The database log handler of one worker process (app/core/log_handler.py *)
(* and the lifespan of app/main.py that starts and stops it).  Requests    *)
(* call emit, which puts a record on a bounded queue and never waits; one  *)
(* background task moves records from the queue to its buffer and commits  *)
(* the buffer in batches; the shutdown cancels the task at any of its      *)
(* awaits.  Records are numbered in the order in which they are logged.    *)
(***************************************************************************)
EXTENDS Naturals, Sequences, SequencesExt

CONSTANTS
  MaxRecords,   \* bound: how many records are ever logged
  Level,        \* levelno of each record
  Suppressed,   \* records of a logger in _SUPPRESS_PREFIXES
  Malformed,    \* records whose formatting raises (arguments that do not fit)
  Unstorable,   \* records no INSERT accepts (an over-long X-Request-ID)
  QueueSize,    \* maxsize of _log_queue
  Batch         \* BATCH

ASSUME RecordsAssumption ==
  /\ MaxRecords \in Nat
  /\ Level \in [1 .. MaxRecords -> Nat]
  /\ Suppressed \subseteq 1 .. MaxRecords
  /\ Malformed \subseteq 1 .. MaxRecords /\ Unstorable \subseteq 1 .. MaxRecords

ASSUME SizesAssumption == QueueSize \in Nat \ {0} /\ Batch \in Nat \ {0}

VARIABLES
  logged,       \* how many records have been logged
  queue,        \* _log_queue
  buffer,       \* the task's buffer
  task,         \* where the task waits
  rows,         \* system_logs, in the order of the INSERTs of the task's loop
  lastRows,     \* the rows inserted by the flush of a cancelled task
  unformatted,  \* records emit dropped because formatting them raised
  overflow,     \* records emit dropped because the queue was full
  lost          \* records dropped with a batch that could not be committed

vars == <<logged, queue, buffer, task, rows, lastRows, unformatted, overflow, lost>>

INFO == 20

\* The handler has level INFO and leaves the loggers in _SUPPRESS_PREFIXES alone.
Taken(r) == Level[r] >= INFO /\ r \notin Suppressed

Storable(batch) == ToSet(batch) \cap Unstorable = {}

-----------------------------------------------------------------------------
(* AsyncDBHandler.emit. *)

\* Mutant of Emit: the queue has no maxsize.
EmitUnbounded ==
  /\ logged < MaxRecords
  /\ logged' = logged + 1
  /\ LET r == logged + 1 IN
     /\ queue' = IF Taken(r) /\ r \notin Malformed THEN Append(queue, r) ELSE queue
     /\ unformatted' = IF Taken(r) /\ r \in Malformed THEN unformatted \union {r} ELSE unformatted
  /\ UNCHANGED <<buffer, task, rows, lastRows, overflow, lost>>

\* A record that the handler takes on ends in the queue, or is dropped without
\* a word: its formatting raised, or the queue is full.
Emit ==
  /\ logged < MaxRecords
  /\ logged' = logged + 1
  /\ LET r == logged + 1
         fits == r \notin Malformed
         full == Len(queue) = QueueSize IN
     /\ queue' = IF Taken(r) /\ fits /\ ~full THEN Append(queue, r) ELSE queue
     /\ overflow' = IF Taken(r) /\ fits /\ full THEN overflow \union {r} ELSE overflow
     /\ unformatted' = IF Taken(r) /\ ~fits THEN unformatted \union {r} ELSE unformatted
  /\ UNCHANGED <<buffer, task, rows, lastRows, lost>>

-----------------------------------------------------------------------------
(* _db_log_worker. *)

\* Mutant of Collect: the deadline passes when the record has left the queue.
CollectTimesOut ==
  /\ task = "collect" /\ Len(buffer) < Batch /\ queue # <<>>
  /\ buffer' \in {buffer, Append(buffer, Head(queue))}
  /\ queue' = Tail(queue)
  /\ UNCHANGED <<logged, task, rows, lastRows, unformatted, overflow, lost>>

\* queue.get answers within the deadline.
Collect ==
  /\ task = "collect" /\ Len(buffer) < Batch /\ queue # <<>>
  /\ buffer' = Append(buffer, Head(queue))
  /\ queue' = Tail(queue)
  /\ UNCHANGED <<logged, task, rows, lastRows, unformatted, overflow, lost>>

\* The batch is full, or FLUSH_EVERY has passed since the last flush.
BeginCommit ==
  /\ task = "collect" /\ buffer # <<>>
  /\ task' = "commit"
  /\ UNCHANGED <<logged, queue, buffer, rows, lastRows, unformatted, overflow, lost>>

\* Mutant of Committed: the buffer is not cleared.
CommittedKeepsBuffer ==
  /\ task = "commit" /\ Storable(buffer)
  /\ rows' = rows \o buffer
  /\ task' = "collect"
  /\ UNCHANGED <<logged, queue, buffer, lastRows, unformatted, overflow, lost>>

Committed ==
  /\ task = "commit" /\ Storable(buffer)
  /\ rows' = rows \o buffer
  /\ buffer' = <<>>
  /\ task' = "collect"
  /\ UNCHANGED <<logged, queue, lastRows, unformatted, overflow, lost>>

\* Mutant of CommitFails: the batch is kept and tried again.
CommitFailsRetries ==
  /\ task = "commit"
  /\ task' \in {"collect", "sleep"}
  /\ UNCHANGED <<logged, queue, buffer, rows, lastRows, unformatted, overflow, lost>>

\* The batch is dropped; if the rollback or the session fails too, the task
\* sleeps before it goes on.
CommitFails ==
  /\ task = "commit"
  /\ lost' = lost \union ToSet(buffer)
  /\ buffer' = <<>>
  /\ task' \in {"collect", "sleep"}
  /\ UNCHANGED <<logged, queue, rows, lastRows, unformatted, overflow>>

Wake ==
  /\ task = "sleep"
  /\ task' = "collect"
  /\ UNCHANGED <<logged, queue, buffer, rows, lastRows, unformatted, overflow, lost>>

-----------------------------------------------------------------------------
(* stop_db_log_worker: the task is cancelled at its await. *)

Cancel ==
  /\ task \in {"collect", "sleep"}
  /\ task' = IF buffer = <<>> THEN "stopped" ELSE "flush"
  /\ UNCHANGED <<logged, queue, buffer, rows, lastRows, unformatted, overflow, lost>>

\* The database may have carried out the COMMIT that the task no longer
\* waits for; the buffer still holds the batch.
CancelCommit ==
  /\ task = "commit"
  /\ rows' \in {rows} \union (IF Storable(buffer) THEN {rows \o buffer} ELSE {})
  /\ task' = "flush"
  /\ UNCHANGED <<logged, queue, buffer, lastRows, unformatted, overflow, lost>>

Flush ==
  /\ task = "flush" /\ Storable(buffer)
  /\ lastRows' = buffer
  /\ buffer' = <<>>
  /\ task' = "stopped"
  /\ UNCHANGED <<logged, queue, rows, unformatted, overflow, lost>>

FlushFails ==
  /\ task = "flush"
  /\ lost' = lost \union ToSet(buffer)
  /\ buffer' = <<>>
  /\ task' = "stopped"
  /\ UNCHANGED <<logged, queue, rows, lastRows, unformatted, overflow>>

-----------------------------------------------------------------------------
Init ==
  /\ logged = 0
  /\ queue = <<>> /\ buffer = <<>>
  /\ task = "collect"
  /\ rows = <<>> /\ lastRows = <<>>
  /\ unformatted = {} /\ overflow = {} /\ lost = {}

Loop == Collect \/ BeginCommit \/ Committed \/ CommitFails \/ Wake

Shutdown == Flush \/ FlushFails

Next == Emit \/ Loop \/ Cancel \/ CancelCommit \/ Shutdown

Spec == Init /\ [][Next]_vars

\* The event loop goes on running the task; nobody has to log or to stop it.
FairSpec == Spec /\ WF_vars(Loop \/ Shutdown)

-----------------------------------------------------------------------------
Records == 1 .. MaxRecords

\* Every variable holds a value of its type, and the queue its bounded length.
TypeOK ==
  /\ logged \in 0 .. MaxRecords
  /\ queue \in Seq(Records) /\ Len(queue) <= QueueSize
  /\ buffer \in Seq(Records) /\ Len(buffer) <= Batch
  /\ task \in {"collect", "commit", "sleep", "flush", "stopped"}
  /\ rows \in Seq(Records) /\ lastRows \in Seq(Records)
  /\ unformatted \subseteq Records /\ overflow \subseteq Records /\ lost \subseteq Records

Increasing(s) == \A i, j \in 1 .. Len(s) : i < j => s[i] < s[j]

\* Records reach the table in the order in which they were logged and none
\* overtakes one that still waits: what the loop inserted, then the buffer,
\* then the queue, is one strictly increasing sequence.  The exception is the
\* batch of a commit that was cancelled after it had gone through, which is
\* both in the table and in the buffer.
LoggedOrder ==
  \/ Increasing(rows \o lastRows \o buffer \o queue)
  \/ /\ task \in {"flush", "stopped"}
     /\ Increasing(rows \o queue)
     /\ \E k \in 1 .. Len(rows) : SubSeq(rows, k, Len(rows)) \in {buffer, lastRows}

\* What is still in the queue when the task has ended, or gets there later.
Stranded == IF task = "stopped" THEN ToSet(queue) ELSE {}

\* The books balance: a record that the handler took on waits for a task that
\* will read it, or is in the table, or went in one of the four ways in which
\* the code loses records: its formatting raised, the queue was full, its batch
\* failed, or the task ended before it had read it.  No record is in two of
\* these places, but for the batch of a cancelled commit, whose rows may be
\* doubled or also be given up.
RecordsAccounted ==
  LET underWay == (ToSet(queue) \ Stranded) \union ToSet(buffer)
      stored == ToSet(rows) \union ToSet(lastRows)
      read == ToSet(buffer) \union stored \union lost IN
  /\ {r \in 1 .. logged : Taken(r)} =
       underWay \union stored \union unformatted \union overflow \union lost \union Stranded
  /\ ToSet(queue) \cap read = {}
  /\ unformatted \cap overflow = {}
  /\ (unformatted \union overflow) \cap (ToSet(queue) \union read) = {}
  /\ task \notin {"flush", "stopped"} =>
       ToSet(buffer) \cap (stored \union lost) = {} /\ stored \cap lost = {}

\* Only a batch that failed, or one that met a failing record, is given up: a
\* record behind a record that no INSERT accepts is not held up by it for ever.
EventuallySettled ==
  \A r \in Records : r \in ToSet(queue) ~> (r \notin ToSet(queue) \union ToSet(buffer) \/ task = "stopped")

Phase == CASE task = "flush" -> "closing" [] task = "stopped" -> "closed" [] OTHER -> "open"

\* What a task that has ended leaves in the queue is as good as dropped.
Log == INSTANCE LossyLog WITH Records <- Records,
         waiting <- IF task = "stopped" THEN <<>> ELSE buffer \o queue,
         table <- rows \o lastRows,
         dropped <- unformatted \union overflow \union lost \union Stranded,
         phase <- Phase

\* The handler, its task and the shutdown together are a log that loses records
\* only at the door, a batch at a time from the front, or with its closing, and
\* that doubles no more than the batch of the commit it was cancelled in.
KeepsItsPromise == Log!Spec

=============================================================================
