----------------------------- MODULE LogStream ------------------------------
(***************************************************************************)
(* The live log of a job in the browser: the executions of the job that    *)
(* broadcast and store their lines (src/src/cron/worker.rs), the SSE route *)
(* that replays a snapshot and then forwards the broadcast                 *)
(* (src/src/routes/cron_jobs.rs) and the hook that merges the two          *)
(* (src/web/src/hooks/use-cron-job-logs.ts).                               *)
(*                                                                         *)
(* Three actors meet in one view: what the sink has stored, what the       *)
(* stream still has to deliver, and a full reload that is under way.       *)
(* A line is its capture number, which it is broadcast with; its row gets  *)
(* the next number of the sink.  The two part where the sink drops lines   *)
(* or stores a notice of its own.  Events of other jobs pass the stream's  *)
(* filter unseen and matter only in that they can make a reader lag.       *)
(***************************************************************************)
EXTENDS Naturals, Sequences, FiniteSets, SequencesExt, Functions

CONSTANTS
  NumRuns,      \* executions of the job, numbered by started_at
  Failing,      \* those of them whose handler fails
  MaxRows,      \* MAX_LOG_PER_RUN: lines a sink stores of an execution
  MaxPending,   \* MAX_PENDING_LOGS: rows it keeps while it cannot store them
  MaxLines,     \* bound: lines the handlers log
  MaxFaults,    \* bound: lags of a reader of the broadcast and failing
                \* database operations, together
  MaxConnects   \* bound: connections of the stream

ASSUME StreamAssumption ==
  /\ {NumRuns, MaxRows, MaxPending, MaxLines, MaxFaults, MaxConnects} \subseteq Nat
  /\ Failing \subseteq 1 .. NumRuns

Runs == 1 .. NumRuns

VARIABLES
  phase,      \* where each execution is
  captured,   \* lines the handler of each execution has logged
  taken,      \* how many of them its sink has received or lost
  pending,    \* the rows its sink has not stored yet; 0 is a line of its own
  truncated,  \* executions whose sink has dropped lines
  rows,       \* cron_job_logs: row i has seq i
  status,     \* cron_job_runs: "none", "running" or "ended"
  conn,       \* "closed", "subscribed", "listed" or "open"
  found,      \* the run the route found executing
  initial,    \* the first event of the stream, until the client handles it
  ring,       \* events of the job the stream has yet to deliver
  lagged,     \* the stream's receiver was overrun
  view,       \* currentRun, logs and ended of the hook
  ref,        \* stateRef: currentRun as of the last rendering
  fetch,      \* the reload of each run's rows
  blind,      \* lines, and 0 for the end of a run, this connection cannot deliver
  faults, connects

sinkVars == <<taken, pending, truncated>>
runVars  == <<phase, captured, sinkVars, rows, status>>
linkVars == <<conn, found, initial, ring, lagged, connects>>
hookVars == <<view, ref, fetch>>
vars == <<phase, captured, sinkVars, rows, status, conn, found, initial, ring,
          lagged, view, ref, fetch, blind, faults, connects>>

Lines   == Nat
Entries == [run : Runs, seq : Nat, line : Lines]
Events  == [kind : {"log", "run_started", "run_ended"}, run : Runs, seq : Lines]

\* What list_logs returns for a run.
Stored(r) ==
  [i \in DOMAIN rows[r] |-> [run |-> r, seq |-> i, line |-> rows[r][i]]]

NoView   == [run |-> 0, logs |-> <<>>, ended |-> FALSE]
Idle     == [kind |-> "idle", run |-> 0, logs |-> <<>>]
Nothing  == [kind |-> "none", run |-> 0, logs |-> <<>>]
NoFetch  == [state |-> "none", logs |-> <<>>]

Shown  == {e.line : e \in Range(view.logs)}
InRing == {<<ring[i].run, ring[i].seq>> : i \in DOMAIN ring}

TypeOK ==
  /\ phase \in [Runs -> {"new", "inserted", "running", "drained", "finished",
                         "ended"}]
  /\ captured \in [Runs -> Lines]
  /\ taken \in [Runs -> Lines]
  /\ pending \in [Runs -> Seq(Lines)]
  /\ truncated \in SUBSET Runs
  /\ rows \in [Runs -> Seq(Lines)]
  /\ status \in [Runs -> {"none", "running", "ended"}]
  /\ conn \in {"closed", "subscribed", "listed", "open"}
  /\ found \in Runs \cup {0}
  /\ initial \in [kind : {"none", "idle", "snapshot"}, run : Runs \cup {0},
                  logs : Seq(Entries)]
  /\ ring \in Seq(Events)
  /\ lagged \in BOOLEAN
  /\ view \in [run : Runs \cup {0}, logs : Seq(Entries), ended : BOOLEAN]
  /\ ref \in Runs \cup {0}
  /\ fetch \in [Runs -> [state : {"none", "asked", "read"},
                         logs : Seq(Entries)]]
  /\ blind \in SUBSET (Runs \X Lines)
  /\ {faults, connects} \subseteq Nat

Init ==
  /\ phase = [r \in Runs |-> "new"]
  /\ captured = [r \in Runs |-> 0]
  /\ taken = [r \in Runs |-> 0]
  /\ pending = [r \in Runs |-> <<>>]
  /\ truncated = {}
  /\ rows = [r \in Runs |-> <<>>]
  /\ status = [r \in Runs |-> "none"]
  /\ conn = "closed"
  /\ found = 0
  /\ initial = Nothing
  /\ ring = <<>>
  /\ lagged = FALSE
  /\ view = NoView
  /\ ref = 0
  /\ fetch = [r \in Runs |-> NoFetch]
  /\ blind = {}
  /\ faults = 0
  /\ connects = 0

\* A reader lags or a database operation fails.
Fault ==
  /\ faults < MaxFaults
  /\ faults' = faults + 1

\* Broadcast::send: an event reaches the stream once it has subscribed.
Broadcast(kind, r, n) ==
  ring' = IF conn = "closed" THEN ring
          ELSE Append(ring, [kind |-> kind, run |-> r, seq |-> n])

-----------------------------------------------------------------------------
(***************************************************************************)
(* The executions.                                                         *)
(***************************************************************************)

\* insert_run; a failure leaves the run without a row.
InsertRun(r) ==
  /\ phase[r] = "new"
  /\ \A q \in 1 .. r - 1 : phase[q] # "new"
  /\ \/ /\ status' = [status EXCEPT ![r] = "running"]
        /\ UNCHANGED faults
     \/ /\ Fault
        /\ UNCHANGED status
  /\ phase' = [phase EXCEPT ![r] = "inserted"]
  /\ UNCHANGED <<captured, sinkVars, rows, linkVars, hookVars, blind>>

AnnounceStart(r) ==
  /\ phase[r] = "inserted"
  /\ phase' = [phase EXCEPT ![r] = "running"]
  /\ Broadcast("run_started", r, 0)
  /\ UNCHANGED <<captured, sinkVars, rows, status, conn, found, initial, lagged,
                 connects, hookVars, blind, faults>>

\* JobLogLayer::on_event.
HandlerLogs(r) ==
  /\ phase[r] = "running"
  /\ SumFunction(captured) < MaxLines
  /\ captured' = [captured EXCEPT ![r] = @ + 1]
  /\ Broadcast("log", r, captured[r] + 1)
  /\ UNCHANGED <<phase, sinkVars, rows, status, conn, found, initial, lagged,
                 connects, hookVars, blind, faults>>

\* log_count: the lines that are stored.
LogCount(r) == Cardinality({i \in DOMAIN rows[r] : rows[r][i] # 0})

\* RunLogSink::note_lost and the limit in append: only the first time, a
\* notice takes the place of what is dropped.
Drop(r) ==
  /\ pending' = IF r \in truncated THEN pending ELSE [pending EXCEPT ![r] = Append(@, 0)]
  /\ truncated' = truncated \cup {r}

\* RunLogSink::append, from the receive loop or the final drain.
Receive(r) ==
  /\ phase[r] = "running"
  /\ status[r] # "none"
  /\ taken[r] < captured[r]
  /\ taken' = [taken EXCEPT ![r] = @ + 1]
  /\ \/ /\ LogCount(r) < MaxRows
        /\ pending' = [pending EXCEPT ![r] = Append(@, taken'[r])]
        /\ UNCHANGED truncated
     \/ LogCount(r) >= MaxRows /\ Drop(r)
  /\ UNCHANGED <<phase, captured, rows, status, linkVars, hookVars, blind, faults>>

\* Lines were overwritten before the sink received them.
SinkLags(r) ==
  /\ phase[r] = "running"
  /\ status[r] # "none"
  /\ Fault
  /\ \E n \in taken[r] + 1 .. captured[r] : taken' = [taken EXCEPT ![r] = n]
  /\ Drop(r)
  /\ UNCHANGED <<phase, captured, rows, status, linkVars, hookVars, blind>>

\* RunLogSink::flush; a failure keeps what is pending, up to MaxPending.
Flush(r) ==
  /\ phase[r] = "running"
  /\ pending[r] # <<>>
  /\ \/ /\ rows' = [rows EXCEPT ![r] = @ \o pending[r]]
        /\ pending' = [pending EXCEPT ![r] = <<>>]
        /\ UNCHANGED <<truncated, faults>>
     \/ /\ Fault
        /\ LET excess == Len(pending[r]) - MaxPending IN
           IF excess > 0
           THEN /\ pending' = [pending EXCEPT ![r] = SubSeq(@, excess + 1, Len(@))]
                /\ truncated' = truncated \cup {r}
           ELSE UNCHANGED <<pending, truncated>>
        /\ UNCHANGED rows
  /\ UNCHANGED <<phase, captured, taken, status, linkVars, hookVars, blind>>

\* The handler has ended and the channel is drained: the sink adds the reason
\* of a failure, flushes for the last time and is gone.
Drain(r) ==
  /\ phase[r] = "running"
  /\ phase' = [phase EXCEPT ![r] = "drained"]
  /\ taken' = [taken EXCEPT ![r] = 0]
  /\ pending' = [pending EXCEPT ![r] = <<>>]
  /\ truncated' = truncated \ {r}
  /\ LET last == pending[r] \o IF r \in Failing THEN <<0>> ELSE <<>> IN
     \/ /\ status[r] # "none" /\ taken[r] = captured[r]
        /\ rows' = [rows EXCEPT ![r] = @ \o last]
        /\ UNCHANGED faults
     \/ /\ status[r] # "none" /\ taken[r] = captured[r]
        /\ last # <<>> /\ Fault
        /\ UNCHANGED rows
     \/ /\ status[r] = "none"
        /\ UNCHANGED <<rows, faults>>
  /\ UNCHANGED <<captured, status, linkVars, hookVars, blind>>

\* finish_run, which may fail and then leaves the row as it is.
FinishRow(r) ==
  \/ /\ status' = IF status[r] = "none" THEN status
                  ELSE [status EXCEPT ![r] = "ended"]
     /\ UNCHANGED faults
  \/ /\ status[r] # "none"
     /\ Fault
     /\ UNCHANGED status

\* Mutant: the end is announced before it is stored.
CloseRunAnnouncing(r) ==
  /\ \/ /\ phase[r] = "drained"
        /\ phase' = [phase EXCEPT ![r] = "finished"]
        /\ Broadcast("run_ended", r, 0)
        /\ UNCHANGED <<status, faults>>
     \/ /\ phase[r] = "finished"
        /\ phase' = [phase EXCEPT ![r] = "ended"]
        /\ FinishRow(r)
        /\ UNCHANGED ring
  /\ UNCHANGED <<captured, sinkVars, rows, conn, found, initial, lagged, connects,
                 hookVars, blind>>

\* The row first, then run_ended.
CloseRun(r) ==
  /\ \/ /\ phase[r] = "drained"
        /\ phase' = [phase EXCEPT ![r] = "finished"]
        /\ FinishRow(r)
        /\ UNCHANGED ring
     \/ /\ phase[r] = "finished"
        /\ phase' = [phase EXCEPT ![r] = "ended"]
        /\ Broadcast("run_ended", r, 0)
        /\ UNCHANGED <<status, faults>>
  /\ UNCHANGED <<captured, sinkVars, rows, conn, found, initial, lagged, connects,
                 hookVars, blind>>

-----------------------------------------------------------------------------
(***************************************************************************)
(* The route: subscribe, look for a run that is executing, read its rows.  *)
(***************************************************************************)

\* A connection of the hook, the first one or, some time after onerror has
\* closed a stream, the next: whatever that stream had left is lost.
Connect ==
  /\ connects < MaxConnects
  /\ connects' = connects + 1
  /\ conn' = "subscribed"
  /\ found' = 0
  /\ initial' = Nothing
  /\ ring' = <<>>
  /\ lagged' = FALSE
  /\ blind' = {}
  /\ UNCHANGED <<runVars, hookVars, faults>>

Recorded == {r \in Runs : status[r] # "none"}

\* list_runs(name, 1): the newest run, if it is executing.
ListRuns ==
  /\ conn = "subscribed"
  /\ \/ \E r \in Recorded :
          /\ \A q \in Recorded : q <= r
          /\ status[r] = "running"
          /\ found' = r
          /\ conn' = "listed"
          /\ UNCHANGED <<initial, faults>>
     \/ /\ \A r \in Recorded : (\A q \in Recorded : q <= r) => status[r] = "ended"
        /\ initial' = Idle
        /\ conn' = "open"
        /\ UNCHANGED <<found, faults>>
     \/ /\ Fault
        /\ initial' = Idle
        /\ conn' = "open"
        /\ UNCHANGED found
  /\ UNCHANGED <<runVars, ring, lagged, connects, hookVars, blind>>

\* Lines of run r that are neither in logs nor in the ring.
Missed(r, logs) ==
  {<<r, n>> : n \in 1 .. captured[r]} \ (InRing \cup {<<r, e.line>> : e \in Range(logs)})

Snapshot(logs) ==
  /\ initial' = [kind |-> "snapshot", run |-> found, logs |-> logs]
  /\ blind' = Missed(found, logs) \cup (blind \cap {<<found, 0>>})
  /\ found' = 0

\* Mutant: the route subscribes after it has read the rows.
ListLogsFirst ==
  /\ conn = "listed"
  /\ conn' = "open"
  /\ Snapshot(Stored(found))
  /\ ring' = <<>>
  /\ UNCHANGED <<runVars, lagged, connects, hookVars, faults>>

\* list_logs; its failure counts as an empty log.
ListLogs ==
  /\ conn = "listed"
  /\ conn' = "open"
  /\ \/ /\ Snapshot(Stored(found))
        /\ UNCHANGED faults
     \/ /\ Fault
        /\ Snapshot(<<>>)
  /\ UNCHANGED <<runVars, ring, lagged, connects, hookVars>>

\* The oldest k events the stream has not read are overwritten.
StreamLags ==
  /\ conn # "closed"
  /\ Fault
  /\ \E k \in DOMAIN ring :
       /\ ring' = SubSeq(ring, k + 1, Len(ring))
       /\ blind' = blind \cup {<<ring[i].run, ring[i].seq>> :
                     i \in {j \in 1 .. k : ring[j].kind # "run_started"}}
  /\ lagged' = TRUE
  /\ UNCHANGED <<runVars, conn, found, initial, connects, hookVars>>

-----------------------------------------------------------------------------
(***************************************************************************)
(* The hook.                                                               *)
(***************************************************************************)

\* The "snapshot" and "idle" events.
HandleInitial ==
  /\ conn = "open"
  /\ initial # Nothing
  /\ view' = [run |-> initial.run, logs |-> initial.logs, ended |-> FALSE]
  /\ initial' = Nothing
  /\ UNCHANGED <<runVars, conn, found, ring, lagged, connects, ref, fetch,
                 blind, faults>>

LastSeq == IF view.logs = <<>> THEN 0 ELSE Last(view.logs).seq

Entry(e) == [run |-> e.run, seq |-> e.seq, line |-> e.seq]

\* The "log" event.
Show(e) ==
  view' = IF view.run = e.run /\ LastSeq < e.seq
          THEN [view EXCEPT !.logs = Append(@, Entry(e))] ELSE view

HandleEvent ==
  /\ conn = "open"
  /\ initial = Nothing
  /\ ~lagged
  /\ ring # <<>>
  /\ ring' = Tail(ring)
  /\ LET e == Head(ring) IN
       \/ /\ e.kind = "log"
          /\ Show(e)
          /\ UNCHANGED blind
       \/ /\ e.kind = "run_started"
          /\ view' = [run |-> e.run, logs |-> <<>>, ended |-> FALSE]
          /\ blind' = {}
       \/ /\ e.kind = "run_ended"
          /\ view' = [view EXCEPT !.ended = @ \/ view.run = e.run]
          /\ UNCHANGED blind
  /\ UNCHANGED <<runVars, conn, found, initial, lagged, connects, ref, fetch,
                 faults>>

\* The "reset" event: reload the rows of the current run, or share the
\* reload that is under way.
HandleReset ==
  /\ conn = "open"
  /\ initial = Nothing
  /\ lagged
  /\ lagged' = FALSE
  /\ fetch' = IF ref # 0 /\ fetch[ref] = NoFetch
              THEN [fetch EXCEPT ![ref].state = "asked"] ELSE fetch
  /\ UNCHANGED <<runVars, conn, found, initial, ring, connects, view, ref,
                 blind, faults>>

\* list_run_logs; an unknown run or an error rejects the promise.
ListRunLogs(r) ==
  /\ fetch[r].state = "asked"
  /\ \/ /\ status[r] # "none"
        /\ fetch' = [fetch EXCEPT ![r] = [state |-> "read", logs |-> Stored(r)]]
     \/ fetch' = [fetch EXCEPT ![r] = NoFetch]
  /\ UNCHANGED <<runVars, linkVars, view, ref, blind, faults>>

UpTo(entries, e) == {d \in entries : d.seq <= e.seq}

\* The entries in the order of their numbers.
BySeq(entries) ==
  [i \in 1 .. Cardinality(entries) |->
     CHOOSE e \in entries : Cardinality(UpTo(entries, e)) = i]

\* The rows that came back, with what is shown in place of rows of the same
\* number.
Merged(logs) ==
  LET kept == Range(view.logs)
      new  == {e \in Range(logs) : \A k \in kept : k.seq # e.seq}
  IN  BySeq(kept \cup new)

\* Mutant: whatever run is shown by now.
MergeIntoAny(r) ==
  /\ fetch[r].state = "read"
  /\ fetch' = [fetch EXCEPT ![r] = NoFetch]
  /\ view' = [view EXCEPT !.logs = Merged(fetch[r].logs)]
  /\ UNCHANGED <<runVars, linkVars, ref, blind, faults>>

\* Mutant: the rows replace what is shown.
MergeReplacing(r) ==
  /\ fetch[r].state = "read"
  /\ fetch' = [fetch EXCEPT ![r] = NoFetch]
  /\ view' = IF view.run = r
             THEN [view EXCEPT !.logs = fetch[r].logs] ELSE view
  /\ UNCHANGED <<runVars, linkVars, ref, blind, faults>>

Merge(r) ==
  /\ fetch[r].state = "read"
  /\ fetch' = [fetch EXCEPT ![r] = NoFetch]
  /\ view' = IF view.run = r
             THEN [view EXCEPT !.logs = Merged(fetch[r].logs)] ELSE view
  /\ UNCHANGED <<runVars, linkVars, ref, blind, faults>>

\* stateRef is written while rendering, after the state was set.
Render ==
  /\ ref # view.run
  /\ ref' = view.run
  /\ UNCHANGED <<runVars, linkVars, view, fetch, blind, faults>>

-----------------------------------------------------------------------------
Next ==
  \/ \E r \in Runs :
       \/ InsertRun(r)
       \/ AnnounceStart(r)
       \/ HandlerLogs(r)
       \/ Receive(r)
       \/ SinkLags(r)
       \/ Flush(r)
       \/ Drain(r)
       \/ CloseRun(r)
       \/ ListRunLogs(r)
       \/ Merge(r)
  \/ Connect
  \/ ListRuns
  \/ ListLogs
  \/ StreamLags
  \/ HandleInitial
  \/ HandleEvent
  \/ HandleReset
  \/ Render

Spec == Init /\ [][Next]_vars

-----------------------------------------------------------------------------
(***************************************************************************)
(* Properties.                                                             *)
(***************************************************************************)

\* The stream is connected and its first event was handled.
Following == conn = "open" /\ initial = Nothing

\* The hook shows lines of one run only, each number once and in order,
\* whatever a snapshot, the stream and a reload deliver (the checks on
\* run_id and seq in the handlers of "log" and "reset").
ShownInOrder ==
  /\ \A i \in DOMAIN view.logs : view.logs[i].run = view.run
  /\ \A i, j \in DOMAIN view.logs : i < j => view.logs[i].seq < view.logs[j].seq

\* From here on the stored rows of a run no longer carry the numbers its
\* lines were broadcast with: row i, at n or before it, is another line.
Displaced(r, n) == \E i \in DOMAIN rows[r] : i <= n /\ rows[r][i] # i

\* Subscribing before reading the snapshot leaves no window: every line of
\* the shown run is shown, on its way, or was not stored yet when a snapshot
\* was taken or overwritten in the channel (the comment on the subscription
\* in stream_job_logs).  From the first row on that a notice or dropped lines
\* have displaced, the hook can take a live line for one it already has.
NoWindow ==
  Following /\ view.run # 0 =>
    \A n \in 1 .. captured[view.run] :
      \/ n \in Shown
      \/ <<view.run, n>> \in InRing \cup blind
      \/ Displaced(view.run, n)

\* A stream that has delivered everything does not show as executing a run
\* that has ended, unless its end was overwritten in the channel or never
\* stored (the comment on finish_run and run_ended in
\* execute_with_logging).
EndIsShown ==
  Following /\ ring = <<>> /\ view.run # 0 =>
    \/ view.ended
    \/ phase[view.run] # "ended"
    \/ status[view.run] = "running"
    \/ <<view.run, 0>> \in blind

\* A reload never takes away a line that arrived in the meantime (the
\* comment in the handler of "reset").
ReloadOnlyAdds ==
  [][UNCHANGED linkVars => Range(view.logs) \subseteq Range(view'.logs)]_vars

=============================================================================
