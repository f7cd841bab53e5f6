----------------------------- MODULE RunHistory -----------------------------
(***************************************************************************)
(* What the execution history of the cron jobs promises to whoever lists   *)
(* it: an execution appears once, as running; it gets one outcome, which   *)
(* is never rewritten; and it only disappears when enough executions of    *)
(* the same job that started later are still listed.                       *)
(*                                                                         *)
(* CronWorker.tla models how the worker, the pruning after each execution, *)
(* crashes and restarts keep that promise.                                 *)
(***************************************************************************)
EXTENDS Naturals, FiniteSets

CONSTANTS
  Runs,   \* identities of executions
  Keep    \* executions of a job that are never dropped

VARIABLES
  status,   \* "none", "running", "success", "failed" or "dropped"
  owner,    \* the job of an execution
  started   \* when an execution started, 0 before that

hvars == <<status, owner, started>>

Listed(st) == {r \in Runs : st[r] \in {"running", "success", "failed"}}

\* The listed executions of r's job that started after r.
Later(st, r) ==
  {q \in Listed(st) : owner[q] = owner[r] /\ started[q] > started[r]}

HistoryInit == \A r \in Runs : status[r] = "none" /\ started[r] = 0

\* One execution enters the history, once: what was dropped stays dropped.
Enter ==
  \E r \in Runs :
    /\ status[r] = "none"
    /\ started[r] > 0
    /\ status' = [status EXCEPT ![r] = "running"]
    /\ UNCHANGED <<owner, started>>

\* Running executions get their outcome.
Close ==
  /\ \A r \in Runs :
       \/ status'[r] = status[r]
       \/ status[r] = "running" /\ status'[r] \in {"success", "failed"}
  /\ UNCHANGED <<owner, started>>

\* Executions are dropped, each older than Keep that stay.
Drop ==
  /\ \A r \in Runs :
       \/ status'[r] = status[r]
       \/ /\ r \in Listed(status)
          /\ status'[r] = "dropped"
          /\ Cardinality(Later(status', r)) >= Keep
  /\ UNCHANGED <<owner, started>>

\* An execution is submitted or starts, outside the history.
Prepare ==
  /\ UNCHANGED status
  /\ \A r \in Listed(status) : owner'[r] = owner[r] /\ started'[r] = started[r]

HistoryNext == Enter \/ Close \/ Drop \/ Prepare

HistorySpec == HistoryInit /\ [][HistoryNext]_hvars
=============================================================================
