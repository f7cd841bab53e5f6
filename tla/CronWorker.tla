----------------------------- MODULE CronWorker -----------------------------
(***************************************************************************)
(* The worker pool of the cron jobs (src/src/cron/worker.rs): the bounded  *)
(* queue, the dispatch loop and its semaphore, the executions and what     *)
(* they write to the run history (src/src/cron/log_repository.rs), with    *)
(* shutdown, crash and restart (src/src/lib.rs).                           *)
(*                                                                         *)
(* Invocations are numbered in the order in which they are triggered.      *)
(* Each await on the database is a step of its own, and may fail.  What a  *)
(* run logs is reduced to whether the database holds rows of it; the log   *)
(* itself is the subject of RunLog.tla.                                    *)
(***************************************************************************)
EXTENDS Naturals, Sequences, FiniteSets

CONSTANTS
  Jobs,            \* names of the jobs
  MaxConcurrent,   \* permits of the semaphore
  QueueSize,       \* capacity of the invocation channel
  Keep,            \* MAX_RUNS_KEPT
  MaxInvocations,  \* bound: invocations triggered
  MaxErrors,       \* bound: failing database operations
  MaxStops,        \* bound: shutdowns and crashes
  MaxAgings        \* bound: times at which six hours have passed

ASSUME WorkerAssumption ==
  /\ Jobs # {}
  /\ MaxConcurrent \in Nat \ {0}
  /\ QueueSize \in Nat \ {0}
  /\ Keep \in Nat \ {0}
  /\ {MaxInvocations, MaxErrors, MaxStops, MaxAgings} \subseteq Nat

Invocations == 1 .. MaxInvocations

VARIABLES
  process,    \* "up", "stopping", "draining", "returned", "down", "booting"
  timedOut,   \* the shutdown gave up waiting
  triggered,  \* invocations so far
  job,        \* the job of each invocation, chosen at the start for them all
  senders,    \* callers waiting for room in the queue, oldest first
  queue,      \* the invocation channel
  held,       \* what the dispatch loop has received but not spawned, or 0
  dispatcher, \* "polled", "suspended" or "gone"
  permits,    \* free permits of the semaphore
  phase,      \* where each invocation is
  outcome,    \* what the handler returned
  started,    \* started_at of each execution, 0 before
  persisted,  \* run_persisted of each execution
  doomed,     \* the run ids an execution's prune has selected
  cutoff,     \* the started_at an execution's prune compares with
  runs,       \* cron_job_runs: status, or "none" where there is no row
  logs,       \* executions of which cron_job_logs holds rows
  clock,      \* the latest started_at
  aged,       \* what started until then did so more than six hours ago
  errors, stops, agings

poolVars  == <<process, timedOut, dispatcher, stops>>
queueVars == <<triggered, job, senders, queue, held>>
execVars  == <<outcome, started, persisted, doomed, cutoff>>
dbVars    == <<runs, logs>>
timeVars  == <<clock, aged, agings>>
vars == <<process, timedOut, triggered, job, senders, queue, held, dispatcher,
          permits, phase, outcome, started, persisted, doomed, cutoff, runs,
          logs, clock, aged, errors, stops, agings>>

RunStatus == {"running", "success", "failed"}

Phases == {"new", "accepted", "spawned", "insert", "handler", "close", "finish",
           "reclaim", "select", "ids", "delete", "end", "done", "dropped",
           "killed"}

\* The execution task exists and holds its permit.
ExecPhases == {"spawned", "insert", "handler", "close", "finish", "reclaim",
               "select", "ids", "delete", "end"}

TypeOK ==
  /\ process \in {"up", "stopping", "draining", "returned", "down", "booting"}
  /\ timedOut \in BOOLEAN
  /\ triggered \in 0 .. MaxInvocations
  /\ job \in [Invocations -> Jobs]
  /\ senders \in Seq(Invocations)
  /\ queue \in Seq(Invocations)
  /\ held \in 0 .. MaxInvocations
  /\ dispatcher \in {"polled", "suspended", "gone"}
  /\ permits \in 0 .. MaxConcurrent
  /\ phase \in [Invocations -> Phases]
  /\ outcome \in [Invocations -> {"none", "ok", "err"}]
  /\ started \in [Invocations -> Nat]
  /\ persisted \in [Invocations -> BOOLEAN]
  /\ doomed \in [Invocations -> SUBSET Invocations]
  /\ cutoff \in [Invocations -> Nat]
  /\ runs \in [Invocations -> RunStatus \cup {"none"}]
  /\ logs \in SUBSET Invocations
  /\ clock \in Nat
  /\ aged \in Nat
  /\ {errors, stops, agings} \subseteq Nat

Init ==
  /\ process = "up"
  /\ timedOut = FALSE
  /\ triggered = 0
  /\ job \in [Invocations -> Jobs]
  /\ senders = <<>>
  /\ queue = <<>>
  /\ held = 0
  /\ dispatcher = "suspended"
  /\ permits = MaxConcurrent
  /\ phase = [i \in Invocations |-> "new"]
  /\ outcome = [i \in Invocations |-> "none"]
  /\ started = [i \in Invocations |-> 0]
  /\ persisted = [i \in Invocations |-> FALSE]
  /\ doomed = [i \in Invocations |-> {}]
  /\ cutoff = [i \in Invocations |-> 0]
  /\ runs = [i \in Invocations |-> "none"]
  /\ logs = {}
  /\ clock = 0
  /\ aged = 0
  /\ errors = 0
  /\ stops = 0
  /\ agings = 0

Running == {i \in Invocations : phase[i] \in ExecPhases}

\* A database operation fails.
DbError ==
  /\ errors < MaxErrors
  /\ errors' = errors + 1

-----------------------------------------------------------------------------
(***************************************************************************)
(* The queue.  A tick of the scheduler or a run-now request sends its      *)
(* invocation, and waits in the order of arrival while the queue is full.  *)
(***************************************************************************)
Trigger ==
  /\ process \in {"up", "stopping", "draining"}
  /\ dispatcher # "gone"
  /\ triggered < MaxInvocations
  /\ triggered' = triggered + 1
  /\ senders' = Append(senders, triggered + 1)
  /\ phase' = [phase EXCEPT ![triggered + 1] = "accepted"]
  /\ UNCHANGED <<poolVars, job, queue, held, permits, execVars, dbVars,
                 timeVars, errors>>

Enqueue ==
  /\ senders # <<>>
  /\ Len(queue) < QueueSize
  /\ queue' = Append(queue, Head(senders))
  /\ senders' = Tail(senders)
  /\ UNCHANGED <<poolVars, triggered, job, held, permits, phase, execVars,
                 dbVars, timeVars, errors>>

(***************************************************************************)
(* The dispatch loop.  It runs until it has to wait, for an invocation or  *)
(* for a permit; only while it waits can JoinHandle::abort end it.  A      *)
(* queued acquire_many has precedence for every permit released.           *)
(***************************************************************************)
MayAcquire == permits > 0 /\ process # "draining"

Wake ==
  /\ dispatcher = "suspended"
  /\ process = "up"
  /\ IF held = 0 THEN queue # <<>> ELSE MayAcquire
  /\ dispatcher' = "polled"
  /\ UNCHANGED <<process, timedOut, stops, queueVars, permits, phase,
                 execVars, dbVars, timeVars, errors>>

Receive ==
  /\ dispatcher = "polled"
  /\ held = 0
  /\ queue # <<>>
  /\ held' = Head(queue)
  /\ queue' = Tail(queue)
  /\ UNCHANGED <<poolVars, triggered, job, senders, permits, phase, execVars,
                 dbVars, timeVars, errors>>

\* Mutant: the permit is not moved into the spawned task.
DispatchWithoutPermit ==
  /\ dispatcher = "polled"
  /\ held # 0
  /\ MayAcquire
  /\ phase' = [phase EXCEPT ![held] = "spawned"]
  /\ held' = 0
  /\ UNCHANGED <<poolVars, triggered, job, senders, queue, permits, execVars,
                 dbVars, timeVars, errors>>

Dispatch ==
  /\ dispatcher = "polled"
  /\ held # 0
  /\ MayAcquire
  /\ permits' = permits - 1
  /\ phase' = [phase EXCEPT ![held] = "spawned"]
  /\ held' = 0
  /\ UNCHANGED <<poolVars, triggered, job, senders, queue, execVars, dbVars,
                 timeVars, errors>>

Suspend ==
  /\ dispatcher = "polled"
  /\ IF held = 0 THEN queue = <<>> ELSE ~MayAcquire
  /\ dispatcher' = "suspended"
  /\ UNCHANGED <<process, timedOut, stops, queueVars, permits, phase,
                 execVars, dbVars, timeVars, errors>>

\* Whatever was accepted and not spawned is lost with the loop.
Unspawned(ph) ==
  [i \in Invocations |-> IF ph[i] = "accepted" THEN "dropped" ELSE ph[i]]

\* The abort of WorkerHandle::shutdown takes effect.
Cancel ==
  /\ dispatcher = "suspended"
  /\ process \in {"stopping", "draining", "returned"}
  /\ dispatcher' = "gone"
  /\ senders' = <<>>
  /\ queue' = <<>>
  /\ held' = 0
  /\ phase' = Unspawned(phase)
  /\ UNCHANGED <<process, timedOut, stops, triggered, job, permits, execVars,
                 dbVars, timeVars, errors>>

-----------------------------------------------------------------------------
(***************************************************************************)
(* One execution: execute_with_logging.                                    *)
(***************************************************************************)
Goto(i, from, to) ==
  /\ phase[i] = from
  /\ phase' = [phase EXCEPT ![i] = to]
  /\ UNCHANGED <<poolVars, queueVars>>

Start(i) ==
  /\ Goto(i, "spawned", "insert")
  /\ clock' = clock + 1
  /\ started' = [started EXCEPT ![i] = clock + 1]
  /\ UNCHANGED <<permits, outcome, persisted, doomed, cutoff, dbVars, aged,
                 agings, errors>>

InsertRun(i) ==
  /\ Goto(i, "insert", "handler")
  /\ \/ /\ runs' = [runs EXCEPT ![i] = "running"]
        /\ persisted' = [persisted EXCEPT ![i] = TRUE]
        /\ UNCHANGED errors
     \/ DbError /\ UNCHANGED <<runs, persisted>>
  /\ UNCHANGED <<permits, outcome, started, doomed, cutoff, logs, timeVars>>

\* RunLogSink::flush inserts rows while the handler runs.
WriteLogs(i) ==
  /\ phase[i] = "handler"
  /\ persisted[i]
  /\ logs' = logs \cup {i}
  /\ UNCHANGED <<poolVars, queueVars, permits, phase, execVars, runs,
                 timeVars, errors>>

\* The handler returns or panics.
HandlerEnds(i) ==
  /\ Goto(i, "handler", "close")
  /\ \E o \in {"ok", "err"} : outcome' = [outcome EXCEPT ![i] = o]
  /\ UNCHANGED <<permits, started, persisted, doomed, cutoff, dbVars,
                 timeVars, errors>>

\* The last flush, if anything is pending and the insert succeeds.
CloseLog(i) ==
  /\ Goto(i, "close", IF persisted[i] THEN "finish" ELSE "end")
  /\ \/ persisted[i] /\ logs' = logs \cup {i}
     \/ UNCHANGED logs
  /\ UNCHANGED <<permits, execVars, runs, timeVars, errors>>

Outcome(i) == IF outcome[i] = "ok" THEN "success" ELSE "failed"

\* finish_run only closes a row that is still running.
FinishRun(i) ==
  /\ Goto(i, "finish", "reclaim")
  /\ \/ /\ runs' = IF runs[i] = "running" THEN [runs EXCEPT ![i] = Outcome(i)]
                                          ELSE runs
        /\ UNCHANGED errors
     \/ DbError /\ UNCHANGED runs
  /\ UNCHANGED <<permits, execVars, logs, timeVars>>

(***************************************************************************)
(* prune_old_runs: four awaits, and other executions go on between them.   *)
(***************************************************************************)
RowsOf(j) == {q \in Invocations : runs[q] # "none" /\ job[q] = j}

\* A failing statement ends the prune.
PruneFails(i, from) ==
  /\ Goto(i, from, "end")
  /\ DbError
  /\ UNCHANGED <<permits, execVars, dbVars, timeVars>>

\* Rows running for more than six hours are closed as failed.
Reclaim(i) ==
  \/ /\ Goto(i, "reclaim", "select")
     /\ runs' = [q \in Invocations |->
                   IF /\ q \in RowsOf(job[i])
                      /\ runs[q] = "running"
                      /\ started[q] <= aged
                   THEN "failed" ELSE runs[q]]
     /\ UNCHANGED <<permits, execVars, logs, timeVars, errors>>
  \/ PruneFails(i, "reclaim")

\* started_at of the Keep-th newest row, when there are more than Keep.
NewerThan(q) == {p \in RowsOf(job[q]) : started[p] > started[q]}

\* Mutant: the query is limited to keep rows, so there never are more.
SelectNothing(i) ==
  \/ /\ Goto(i, "select", "end")
     /\ UNCHANGED <<permits, execVars, dbVars, timeVars, errors>>
  \/ PruneFails(i, "select")

SelectCutoff(i) ==
  \/ /\ phase[i] = "select"
     /\ IF Cardinality(RowsOf(job[i])) <= Keep
        THEN Goto(i, "select", "end") /\ UNCHANGED cutoff
        ELSE /\ Goto(i, "select", "ids")
             /\ \E q \in RowsOf(job[i]) :
                  /\ Cardinality(NewerThan(q)) = Keep - 1
                  /\ cutoff' = [cutoff EXCEPT ![i] = started[q]]
     /\ UNCHANGED <<permits, outcome, started, persisted, doomed, dbVars,
                    timeVars, errors>>
  \/ PruneFails(i, "select")

\* Mutant: the row at the cutoff is not spared.
OldRows(i) == {q \in RowsOf(job[i]) : started[q] <= cutoff[i]}

OlderRows(i) == {q \in RowsOf(job[i]) : started[q] < cutoff[i]}

SelectIds(i) ==
  \/ /\ Goto(i, "ids", IF OlderRows(i) = {} THEN "end" ELSE "delete")
     /\ doomed' = [doomed EXCEPT ![i] = OlderRows(i)]
     /\ UNCHANGED <<permits, outcome, started, persisted, cutoff, dbVars,
                    timeVars, errors>>
  \/ PruneFails(i, "ids")

\* Mutant: only the run rows are deleted.
DeleteRuns(i) ==
  \/ /\ Goto(i, "delete", "end")
     /\ runs' = [q \in Invocations |-> IF q \in doomed[i] THEN "none" ELSE runs[q]]
     /\ UNCHANGED <<permits, execVars, logs, timeVars, errors>>
  \/ PruneFails(i, "delete")

\* One transaction deletes the logs and the rows.
DeleteSelected(i) ==
  \/ /\ Goto(i, "delete", "end")
     /\ logs' = logs \ doomed[i]
     /\ runs' = [q \in Invocations |-> IF q \in doomed[i] THEN "none" ELSE runs[q]]
     /\ UNCHANGED <<permits, execVars, timeVars, errors>>
  \/ PruneFails(i, "delete")

\* The local variables of tasks that are gone.
Forget(tasks) ==
  /\ outcome' = [i \in Invocations |-> IF i \in tasks THEN "none" ELSE outcome[i]]
  /\ doomed'  = [i \in Invocations |-> IF i \in tasks THEN {} ELSE doomed[i]]
  /\ cutoff'  = [i \in Invocations |-> IF i \in tasks THEN 0 ELSE cutoff[i]]
  /\ UNCHANGED <<started, persisted>>

\* Mutant: an execution that failed keeps its permit.
EndRunLeaking(i) ==
  /\ Goto(i, "end", "done")
  /\ permits' = IF outcome[i] = "ok" THEN permits + 1 ELSE permits
  /\ Forget({i})
  /\ UNCHANGED <<dbVars, timeVars, errors>>

\* run_ended, the notification and on_run_finished; then the permit is
\* released.
EndRun(i) ==
  /\ Goto(i, "end", "done")
  /\ permits' = permits + 1
  /\ Forget({i})
  /\ UNCHANGED <<dbVars, timeVars, errors>>

ExecStep(i) ==
  \/ Start(i) \/ InsertRun(i) \/ WriteLogs(i) \/ HandlerEnds(i) \/ CloseLog(i)
  \/ FinishRun(i) \/ Reclaim(i) \/ SelectCutoff(i) \/ SelectIds(i)
  \/ DeleteSelected(i) \/ EndRun(i)

-----------------------------------------------------------------------------
(***************************************************************************)
(* Shutdown, crash and restart.                                            *)
(***************************************************************************)
\* The signal arrives: the scheduler is stopped and shutdown aborts the
\* dispatch loop.
Stop ==
  /\ process = "up"
  /\ stops < MaxStops
  /\ stops' = stops + 1
  /\ process' = "stopping"
  /\ UNCHANGED <<timedOut, dispatcher, queueVars, permits, phase, execVars,
                 dbVars, timeVars, errors>>

\* acquire_many is polled for the first time.
Drain ==
  /\ process = "stopping"
  /\ process' = IF permits = MaxConcurrent THEN "returned" ELSE "draining"
  /\ UNCHANGED <<timedOut, stops, dispatcher, queueVars, permits, phase,
                 execVars, dbVars, timeVars, errors>>

Drained ==
  /\ process = "draining"
  /\ permits = MaxConcurrent
  /\ process' = "returned"
  /\ UNCHANGED <<timedOut, stops, dispatcher, queueVars, permits, phase,
                 execVars, dbVars, timeVars, errors>>

\* Mutant: the wait is not bounded by the timeout.
DrainTimesOutLate ==
  /\ process = "draining"
  /\ Running = {}
  /\ process' = "returned"
  /\ timedOut' = TRUE
  /\ UNCHANGED <<stops, dispatcher, queueVars, permits, phase, execVars,
                 dbVars, timeVars, errors>>

DrainTimesOut ==
  /\ process = "draining"
  /\ process' = "returned"
  /\ timedOut' = TRUE
  /\ UNCHANGED <<stops, dispatcher, queueVars, permits, phase, execVars,
                 dbVars, timeVars, errors>>

\* The end of the process takes every task with it.
Die ==
  /\ process' = "down"
  /\ dispatcher' = "gone"
  /\ senders' = <<>>
  /\ queue' = <<>>
  /\ held' = 0
  /\ permits' = MaxConcurrent
  /\ phase' = [i \in Invocations |->
                 IF phase[i] \in ExecPhases THEN "killed" ELSE Unspawned(phase)[i]]
  /\ timedOut' = FALSE
  /\ Forget(Running)
  /\ UNCHANGED <<triggered, job, dbVars, timeVars, errors>>

Exit == process = "returned" /\ Die /\ UNCHANGED stops

Crash ==
  /\ process \in {"up", "stopping", "draining", "booting"}
  /\ stops < MaxStops
  /\ stops' = stops + 1
  /\ Die

\* Mutant: the restart does not look for interrupted runs.
BootWithoutMark ==
  /\ process = "down"
  /\ process' = "booting"
  /\ UNCHANGED <<timedOut, stops, dispatcher, queueVars, permits, phase,
                 execVars, dbVars, timeVars, errors>>

\* init: mark_interrupted_runs_failed, whose error is ignored.
BootMark ==
  /\ process = "down"
  /\ process' = "booting"
  /\ \/ /\ runs' = [q \in Invocations |->
                      IF runs[q] = "running" THEN "failed" ELSE runs[q]]
        /\ UNCHANGED errors
     \/ DbError /\ UNCHANGED runs
  /\ UNCHANGED <<timedOut, stops, dispatcher, queueVars, permits, phase,
                 execVars, logs, timeVars>>

\* init: delete_orphan_logs, whose error is only logged; then the worker
\* starts.
BootClean ==
  /\ process = "booting"
  /\ process' = "up"
  /\ dispatcher' = "suspended"
  /\ \/ logs' = {q \in logs : runs[q] # "none"} /\ UNCHANGED errors
     \/ DbError /\ UNCHANGED logs
  /\ UNCHANGED <<timedOut, stops, queueVars, permits, phase, execVars, runs,
                 timeVars>>

\* The threshold of the reclaim passes what has started so far.
SixHoursPass ==
  /\ agings < MaxAgings
  /\ aged < clock
  /\ agings' = agings + 1
  /\ aged' = clock
  /\ UNCHANGED <<poolVars, queueVars, permits, phase, execVars, dbVars, clock,
                 errors>>

DispatchStep == Enqueue \/ Wake \/ Receive \/ Dispatch \/ Suspend \/ Cancel
ShutdownStep == Drain \/ Drained \/ DrainTimesOut \/ Exit
BootStep     == BootMark \/ BootClean

Next ==
  \/ Trigger \/ DispatchStep
  \/ \E i \in Invocations : ExecStep(i)
  \/ Stop \/ ShutdownStep \/ Crash \/ BootStep \/ SixHoursPass

Spec == Init /\ [][Next]_vars

(***************************************************************************)
(* The runtime polls every task that can go on, the timer included.  That  *)
(* a handler returns is not assumed.                                       *)
(***************************************************************************)
Advance(i) ==
  \/ Start(i) \/ InsertRun(i) \/ CloseLog(i) \/ FinishRun(i) \/ Reclaim(i)
  \/ SelectCutoff(i) \/ SelectIds(i) \/ DeleteSelected(i) \/ EndRun(i)

FairSpec ==
  /\ Spec
  /\ WF_vars(DispatchStep) /\ WF_vars(ShutdownStep) /\ WF_vars(BootStep)
  /\ \A i \in Invocations : WF_vars(Advance(i))

-----------------------------------------------------------------------------
(***************************************************************************)
(* Properties.                                                             *)
(***************************************************************************)

\* A permit is free or belongs to exactly one execution, through failing
\* handlers, failing writes, shutdown and restart: at most MaxConcurrent
\* executions at a time, and none is lost for good.
PermitsConserved == permits + Cardinality(Running) = MaxConcurrent

\* What has no row any more is told apart from what never had one.
RowStatus(i) ==
  IF runs[i] = "none" /\ persisted[i] THEN "dropped" ELSE runs[i]

\* The history of executions that run, overlap, get stuck, are reclaimed,
\* pruned by each other and cut off by crashes is the history of RunHistory:
\* one outcome each, never rewritten, and nothing dropped before Keep later
\* executions of its job are listed.
History == INSTANCE RunHistory
  WITH Runs <- Invocations, status <- [i \in Invocations |-> RowStatus(i)],
       owner <- job, started <- started

RefinesRunHistory == History!HistorySpec

\* A run is listed as running only while its execution can still close it,
\* also after a restart, as long as no write failed.
RunningIsLive ==
  (errors = 0 /\ process # "down")
    => \A i \in Invocations :
         runs[i] = "running" => phase[i] \in {"handler", "close", "finish"}

\* Overlapping executions prune for each other: of the executions that came
\* to their end at most Keep per job are listed, as long as no write failed.
HistoryBounded ==
  errors = 0 =>
    \A j \in Jobs :
      Cardinality({i \in RowsOf(j) : phase[i] = "done"}) <= Keep

\* Executions whose logs outlived their row.
Orphans == {i \in logs : runs[i] = "none"}

\* Log rows without a run row only come from a flush of an execution that
\* goes on after its row was pruned: never from one that could not be
\* registered, and never from the prune itself.
OrphansAreFlushes ==
  [][\A i \in Orphans' \ Orphans : runs' = runs /\ RowStatus(i) = "dropped"]_vars

\* As long as handlers return, every accepted invocation is executed, unless
\* the process ends first.
HandlersReturn == \A i \in Invocations : []<>(phase[i] # "handler")

EveryInvocationServed ==
  HandlersReturn => \A i \in Invocations :
    phase[i] = "accepted" ~> phase[i] \in {"done", "killed", "dropped"}

\* Shutdown ends, even with handlers that never return.
ShutdownEnds == process = "stopping" ~> process = "down"
=============================================================================
