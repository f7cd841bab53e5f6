------------------------------- MODULE RunLog -------------------------------
(***************************************************************************)
(* The log of one execution of a cron job, from the tracing event in the   *)
(* handler to the rows in the database: the capture layer                  *)
(* (src/src/cron/log_capture.rs), the bounded broadcast channel between    *)
(* them, the batching sink RunLogSink and the receive and drain loops of   *)
(* execute_with_logging (src/src/cron/worker.rs).                          *)
(*                                                                         *)
(* The handler, the other users of the channel and the execution task run  *)
(* concurrently.  A write to the database may fail; the sink then keeps    *)
(* the batch.  Text, levels and timestamps are left out: a line is its     *)
(* kind and, for a line of the handler, its capture number.                *)
(***************************************************************************)
EXTENDS Integers, Sequences, FiniteSets

CONSTANTS
  MaxLogPerRun,   \* MAX_LOG_PER_RUN
  BatchSize,      \* LOG_BATCH_SIZE
  MaxPending,     \* MAX_PENDING_LOGS
  ChannelSize,    \* capacity of the broadcast channel (lib.rs)
  MaxCaptured,    \* bound: lines the handler emits
  MaxForeign,     \* bound: events of other executions on the channel
  MaxWriteErrors  \* bound: failed batch inserts

ASSUME LimitsAssumption ==
  /\ MaxLogPerRun \in Nat \ {0}
  /\ BatchSize \in Nat \ {0}
  /\ MaxPending \in Nat
  /\ BatchSize <= MaxPending
  /\ ChannelSize \in Nat \ {0}

ASSUME BoundsAssumption ==
  /\ MaxCaptured \in Nat
  /\ MaxForeign \in Nat
  /\ MaxWriteErrors \in Nat

VARIABLES
  phase,       \* where the execution task is
  handler,     \* "idle", "running", "ok" or "err"
  captured,    \* capture numbers handed out by the span's counter
  chan,        \* broadcast events this execution has not received yet
  lost,        \* events overwritten before this execution received them
  enabled,     \* RunLogSink.enabled: the run row exists
  seq,         \* RunLogSink.seq
  logCount,    \* RunLogSink.log_count
  truncated,   \* RunLogSink.truncated
  pending,     \* RunLogSink.pending
  logs,        \* rows of cron_job_logs of this run, in insertion order
  run,         \* row of cron_job_runs
  foreign,     \* events of other executions so far
  writeErrors  \* failed batch inserts so far

sinkVars == <<seq, logCount, truncated, pending, logs, writeErrors>>
busVars  == <<captured, chan, lost, foreign>>
vars == <<phase, handler, captured, chan, lost, enabled, seq, logCount,
          truncated, pending, logs, run, foreign, writeErrors>>

(***************************************************************************)
(* Types.  A broadcast event is reduced to the capture number of a log     *)
(* line of this run, or 0 for any event the sink ignores: a line of        *)
(* another run, a run_started or a run_ended.                              *)
(***************************************************************************)
Line   == [kind : {"log", "notice", "failure"}, cap : Nat]
LogRow == [seq : Nat, kind : {"log", "notice", "failure"}, cap : Nat]

HandlerLine(c) == [kind |-> "log", cap |-> c]
NoticeLine     == [kind |-> "notice", cap |-> 0]
FailureLine    == [kind |-> "failure", cap |-> 0]

NoRun == [status |-> "absent", logCount |-> 0, truncated |-> FALSE]

Status == {"absent", "running", "success", "failed"}

TypeOK ==
  /\ phase \in {"register", "receive", "drain", "close", "finish", "done"}
  /\ handler \in {"idle", "running", "ok", "err"}
  /\ captured \in Nat
  /\ chan \in Seq(Nat)
  /\ lost \in Nat
  /\ enabled \in BOOLEAN
  /\ seq \in Nat
  /\ logCount \in Nat
  /\ truncated \in BOOLEAN
  /\ pending \in Seq(Line)
  /\ logs \in Seq(LogRow)
  /\ run \in [status : Status, logCount : Nat, truncated : BOOLEAN]
  /\ foreign \in Nat
  /\ writeErrors \in Nat

Init ==
  /\ phase = "register"
  /\ handler = "idle"
  /\ captured = 0
  /\ chan = <<>>
  /\ lost = 0
  /\ enabled = FALSE
  /\ seq = 0
  /\ logCount = 0
  /\ truncated = FALSE
  /\ pending = <<>>
  /\ logs = <<>>
  /\ run = NoRun
  /\ foreign = 0
  /\ writeErrors = 0

(***************************************************************************)
(* Broadcast::send: never blocks; a full channel overwrites its oldest     *)
(* event, which the receiver later learns of as Lagged.                    *)
(***************************************************************************)
Send(e) ==
  IF Len(chan) < ChannelSize
  THEN /\ chan' = Append(chan, e)
       /\ UNCHANGED lost
  ELSE /\ chan' = Append(Tail(chan), e)
       /\ lost' = lost + 1

-----------------------------------------------------------------------------
(***************************************************************************)
(* The sink.  p and t are the buffer and the truncation flag as the caller *)
(* of flush leaves them.                                                   *)
(***************************************************************************)

\* The positions of p whose lines count towards log_count.
Counted(p) == {i \in 1 .. Len(p) : p[i].kind # "notice"}

\* The rows flush builds from the buffer: numbered from seq + 1 on.
RowsOf(p) ==
  [i \in 1 .. Len(p) |->
     [seq |-> seq + i, kind |-> p[i].kind, cap |-> p[i].cap]]

\* Mutant: no cap on a buffer that cannot be written.
NewestUncapped(p) == p

\* A failed flush keeps the newest MAX_PENDING_LOGS lines.
Newest(p) ==
  IF Len(p) > MaxPending THEN SubSeq(p, Len(p) - MaxPending + 1, Len(p)) ELSE p

\* Mutant: the batch stays in the buffer after it was written.
PersistKeepingBatch(p, t) ==
  /\ logs' = logs \o RowsOf(p)
  /\ seq' = seq + Len(p)
  /\ logCount' = logCount + Cardinality(Counted(p))
  /\ pending' = p
  /\ truncated' = t
  /\ UNCHANGED writeErrors

Persist(p, t) ==
  /\ logs' = logs \o RowsOf(p)
  /\ seq' = seq + Len(p)
  /\ logCount' = logCount + Cardinality(Counted(p))
  /\ pending' = <<>>
  /\ truncated' = t
  /\ UNCHANGED writeErrors

\* Mutant: the numbers of a batch that was not written are used up.
RetainAdvancing(p, t) ==
  /\ writeErrors < MaxWriteErrors
  /\ writeErrors' = writeErrors + 1
  /\ pending' = Newest(p)
  /\ truncated' = (t \/ Len(p) > MaxPending)
  /\ seq' = seq + Len(p)
  /\ UNCHANGED <<logs, logCount>>

\* Mutant: a batch that was not written is forgotten.
RetainNothing(p, t) ==
  /\ writeErrors < MaxWriteErrors
  /\ writeErrors' = writeErrors + 1
  /\ pending' = <<>>
  /\ truncated' = t
  /\ UNCHANGED <<logs, seq, logCount>>

Retain(p, t) ==
  /\ writeErrors < MaxWriteErrors
  /\ writeErrors' = writeErrors + 1
  /\ pending' = Newest(p)
  /\ truncated' = (t \/ Len(p) > MaxPending)
  /\ UNCHANGED <<logs, seq, logCount>>

Hold(p, t) ==
  /\ pending' = p
  /\ truncated' = t
  /\ UNCHANGED <<seq, logCount, logs, writeErrors>>

\* RunLogSink::flush.
Flush(p, t) ==
  IF enabled /\ Len(p) > 0
  THEN Persist(p, t) \/ Retain(p, t)
  ELSE Hold(p, t)

\* What append and note_lost do after a push.
FlushIfFull(p, t) ==
  IF Len(p) >= BatchSize THEN Flush(p, t) ELSE Hold(p, t)

\* RunLogSink::consume and append on the log line with capture number c.
AppendLine(c) ==
  IF logCount >= MaxLogPerRun
  THEN IF truncated
       THEN UNCHANGED sinkVars
       ELSE Hold(Append(pending, NoticeLine), TRUE)
  ELSE FlushIfFull(Append(pending, HandlerLine(c)), truncated)

Consume(e) ==
  IF enabled /\ e # 0 THEN AppendLine(e) ELSE UNCHANGED sinkVars

\* Mutant: every lag is announced.
NoteEveryLoss ==
  IF enabled
  THEN FlushIfFull(Append(pending, NoticeLine), TRUE)
  ELSE UNCHANGED sinkVars

\* RunLogSink::note_lost.
NoteLost ==
  IF enabled /\ ~truncated
  THEN FlushIfFull(Append(pending, NoticeLine), TRUE)
  ELSE UNCHANGED sinkVars

-----------------------------------------------------------------------------
(***************************************************************************)
(* The execution task.                                                     *)
(***************************************************************************)

\* insert_run, run_started (an event of its own on the channel this task
\* already subscribed to), then the handler task is spawned.
RegisterRun ==
  /\ phase = "register"
  /\ \/ /\ enabled' = TRUE
        /\ run' = [NoRun EXCEPT !.status = "running"]
     \/ UNCHANGED <<enabled, run>>
  /\ Send(0)
  /\ phase' = "receive"
  /\ handler' = "running"
  /\ UNCHANGED <<captured, foreign, sinkVars>>

\* recv and try_recv: first the number of overwritten events, if any, then
\* the oldest event that is left.
ReceiveLag ==
  /\ phase \in {"receive", "drain"}
  /\ lost > 0
  /\ lost' = 0
  /\ NoteLost
  /\ UNCHANGED <<phase, handler, captured, chan, enabled, run, foreign>>

ReceiveEvent ==
  /\ phase \in {"receive", "drain"}
  /\ lost = 0
  /\ chan # <<>>
  /\ chan' = Tail(chan)
  /\ Consume(Head(chan))
  /\ UNCHANGED <<phase, handler, captured, lost, enabled, run, foreign>>

\* The 100 ms branch of the select.
IdleFlush ==
  /\ phase = "receive"
  /\ pending # <<>>
  /\ Flush(pending, truncated)
  /\ UNCHANGED <<phase, handler, busVars, enabled, run>>

\* Mutant: only a handler that returned Ok wakes the task.
OkHandlerDone ==
  /\ phase = "receive"
  /\ handler = "ok"
  /\ phase' = "drain"
  /\ UNCHANGED <<handler, busVars, enabled, sinkVars, run>>

\* done_rx.changed(): also taken when the handler panicked.
HandlerDone ==
  /\ phase = "receive"
  /\ handler \in {"ok", "err"}
  /\ phase' = "drain"
  /\ UNCHANGED <<handler, busVars, enabled, sinkVars, run>>

\* Mutant: the loop ends without the drain.
DrainNothing ==
  /\ phase = "drain"
  /\ phase' = "close"
  /\ UNCHANGED <<handler, busVars, enabled, sinkVars, run>>

DrainEmpty ==
  /\ phase = "drain"
  /\ lost = 0
  /\ chan = <<>>
  /\ phase' = "close"
  /\ UNCHANGED <<handler, busVars, enabled, sinkVars, run>>

\* append_failure for a failed handler, then the last flush.
CloseSink ==
  /\ phase = "close"
  /\ Flush(IF enabled /\ handler = "err"
             THEN Append(pending, FailureLine) ELSE pending, truncated)
  /\ phase' = "finish"
  /\ UNCHANGED <<handler, busVars, enabled, run>>

\* finish_run, which may fail and then leaves the row as it is.
FinishRun ==
  /\ phase = "finish"
  /\ \/ /\ enabled
        /\ run.status = "running"
        /\ run' = [status    |-> IF handler = "ok" THEN "success" ELSE "failed",
                   logCount  |-> logCount,
                   truncated |-> truncated]
     \/ UNCHANGED run
  /\ phase' = "done"
  /\ UNCHANGED <<handler, busVars, enabled, sinkVars>>

-----------------------------------------------------------------------------
(***************************************************************************)
(* The handler and everybody else on the channel.                          *)
(***************************************************************************)

\* JobLogLayer::on_event inside the run's span.
HandlerLogs ==
  /\ handler = "running"
  /\ captured < MaxCaptured
  /\ captured' = captured + 1
  /\ Send(captured + 1)
  /\ UNCHANGED <<phase, handler, enabled, sinkVars, run, foreign>>

\* The handler returns, or panics: both wake the execution task.
HandlerEnds ==
  /\ handler = "running"
  /\ handler' \in {"ok", "err"}
  /\ UNCHANGED <<phase, busVars, enabled, sinkVars, run>>

\* Another execution logs, starts or ends.
ForeignEvent ==
  /\ phase # "done"
  /\ foreign < MaxForeign
  /\ foreign' = foreign + 1
  /\ Send(0)
  /\ UNCHANGED <<phase, handler, captured, enabled, sinkVars, run>>

TaskStep ==
  \/ RegisterRun \/ ReceiveLag \/ ReceiveEvent \/ IdleFlush
  \/ HandlerDone \/ DrainEmpty \/ CloseSink \/ FinishRun

Next == TaskStep \/ HandlerLogs \/ HandlerEnds \/ ForeignEvent

Spec == Init /\ [][Next]_vars

(***************************************************************************)
(* The runtime keeps polling the execution task, and the handler           *)
(* eventually returns or panics: the code has no timeout on it, so that    *)
(* is an assumption on the registered handlers.                            *)
(***************************************************************************)
FairSpec == Spec /\ WF_vars(TaskStep) /\ WF_vars(HandlerEnds)

-----------------------------------------------------------------------------
(***************************************************************************)
(* Properties.                                                             *)
(***************************************************************************)

\* The positions of s that hold a line of the handler.
HandlerLines(s) == {i \in 1 .. Len(s) : s[i].kind = "log"}

\* Failed inserts, drops and retries leave no gap and no duplicate in the
\* sequence numbers of the persisted rows (RunLogSink::flush).
RowsNumberedInOrder ==
  /\ seq = Len(logs)
  /\ \A i \in 1 .. Len(logs) : logs[i].seq = i

\* As long as nothing was reported as lost, the number under which a line
\* is stored is the number under which it was broadcast, which is what lets
\* an SSE client drop the lines it already has from the snapshot.
SeqIsCaptureSeqUntilTruncated ==
  ~truncated => \A i \in HandlerLines(logs) : logs[i].cap = logs[i].seq

\* A line the handler emitted is missing after the drain only if the run is
\* marked truncated or the last flush failed.
NoUnreportedLoss ==
  (/\ phase \in {"finish", "done"}
   /\ enabled
   /\ ~truncated
   /\ pending = <<>>)
     => {logs[i].cap : i \in HandlerLines(logs)} = 1 .. captured

\* The buffer stays bounded through any outage of the database: the cap of
\* flush, and the notice that append pushes without flushing.
PendingBounded == Len(pending) <= MaxPending + 1

\* What a reader of the table is told, however the limit, the lag, failed
\* inserts and retries combine: at most one notice; a log_count that is the
\* number of the other rows; and the limit as append really keeps it, which
\* compares the flushed count only, so that a full buffer may come on top,
\* a full batch when no insert fails.
StoredLinesAccounted ==
  LET Stored  == Cardinality(HandlerLines(logs))
      Notices == {i \in 1 .. Len(logs) : logs[i].kind = "notice"}
      Waiting == {i \in 1 .. Len(pending) : pending[i].kind = "notice"}
  IN  /\ Cardinality(Notices) + Cardinality(Waiting) <= 1
      /\ logCount = Len(logs) - Cardinality(Notices)
      /\ Stored <= MaxLogPerRun + IF writeErrors = 0 THEN BatchSize - 1 ELSE MaxPending

\* A run that could not be registered leaves no rows, and the rows of one
\* that was grow at the end, in the order of emission, until its outcome is
\* recorded: the log refines the record of RunRecord.tla.
Record == INSTANCE RunRecord WITH lines <- logs, status <- run.status

RefinesRunRecord == Record!RecordSpec

\* Every execution gets to the end of execute_with_logging, however its
\* handler ends and whatever the channel and the database did meanwhile.
EveryExecutionCloses == <>(phase = "done")
=============================================================================
