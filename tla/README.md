# Formal models of selfhosted-template

This directory holds TLA+ models of the server in `src/src` and of the two
pieces of the frontend that keep state of their own, the live log hook and the
notification dialog. The
models are checked with TLC on small instances; the theorems in the `*Proofs`
modules are proved with TLAPS for every value of the constants. Every operator
that models code is tied to the lines it stands for in `PROJECT.json` (`map`).

Paths below are relative to the repository (`src/cron/worker.rs` is the file the
models' comments call `src/src/cron/worker.rs`).

1. The system
2. What is hard about it
3. Modules and how they correspond to the code
4. Runs: what each checks, its bounds, what it shows
5. Fairness
6. Proofs
7. Where the code and its documentation disagree
8. What is not modelled
9. Plan

## 1. The system

A single process: an axum server over SQLite, a cron scheduler library, a
worker pool for the jobs, a broadcast channel that carries log lines to
browsers, and an embedded React frontend. Everything runs on the tokio runtime,
so two operations interleave at every `await`.

| Component | State it keeps | Operations | Correct when |
|---|---|---|---|
| Execution pool, `cron/worker.rs` | bounded invocation queue, semaphore, one task per execution | enqueue, dispatch, execute, shut down, recover at the start | at most N executions, no permit lost, accepted work is executed, shutdown ends, a run is listed as running only while it runs |
| Log capture and sink, `cron/log_capture.rs`, `cron/worker.rs` | line counter per span, broadcast ring, buffer, sequence number, counters | capture, broadcast, receive, lag, batch, flush, retry, truncate, drain, close | stored lines are in order without gap or duplicate, loss is visible, buffer and log are bounded |
| Log repository, `cron/log_repository.rs` | tables `cron_job_runs`, `cron_job_logs` | insert and finish a run, insert lines, prune, reclaim, mark interrupted, clean orphans | one outcome per run, never rewritten; history is bounded; lines belong to a run |
| Scheduler, `cron/scheduler.rs` | map of loaded jobs; triggers inside the library | load, update, delete, rebuild all, rename titles, run now, move the plan | table, map and triggers agree; one trigger per job |
| Job repository, `cron/repository.rs` | table `cron_jobs` | save, soft delete, restore, move the plan | a deleted row is left alone |
| Job routes, `routes/cron_jobs.rs` | the modification lock | update, delete, run, list, stream | an answer tells what happened |
| Live log view, `routes/cron_jobs.rs` and `web/src/hooks/use-cron-job-logs.ts` | receiver of the broadcast, what is shown, a reload in flight | connect, snapshot, forward, lag, reset, merge | lines in order, of one run, none missing between snapshot and stream |
| Schedule parser, `cron/parser.rs` | none | parse, next run | - |
| Settings, `routes/settings.rs`, `app_settings.rs` | table `settings` and a cache of it | update timezone, language, custom keys | cache, table and triggers agree |
| Accounts and sessions, `auth/mod.rs`, `routes/auth.rs` | tables `user` and `session` | init, log in, log out, change password, authenticate | one user; a login ends for a reason and when it should |
| Application registration, `notification/register.rs` | one slot in memory | begin, poll | credentials belong to their session, arrive once, Feishu is asked at its pace |
| Notification channel, `notification/*.rs`, `routes/notification.rs` | one row with a sealed secret and the last result | save, test, notify, record | configuration and result are written independently and whole; a secret that is kept stays |
| Notification dialog, `NotificationDialog.tsx`, `use-notification.ts` | form, switch, query cache, the save under way | type, scan, save, switch, test, refetch | the switch changes nothing else; what was typed stays |
| Start and stop, `lib.rs`, `main.rs` | - | migrate, seed, load, recover, start, drain | every process comes to serve; interrupted runs are closed before new ones start |
| Database, `db.rs`, and seeds, `app_settings.rs`, `cron/seed.rs` | schema, recorded versions, seed rows | create, migrate, seed | whoever serves has the complete schema; seeds overwrite nothing |
| Secrets, notes, log files, HTTP plumbing, frontend | see section 8 | | |

Interactions:

- A trigger fires inside the scheduler library, or `run` is requested. Both send
  a `JobInvocation` through a bounded channel to the dispatcher, which takes a
  permit and spawns `execute_with_logging`.
- The handler logs through `tracing`. The capture layer numbers the line in the
  span of the execution and broadcasts it. The execution task itself is one of
  the receivers and stores the lines; the open event streams are the others.
- At its end an execution stores the outcome, prunes the history of its job,
  broadcasts `run_ended` and calls `on_run_finished`, which moves the plan
  (`next_run_at`) of the job's row.
- Requests edit a job in the table first and in the scheduler second, under a
  lock, and undo the first when the second fails. Changes of the timezone and
  the language go through the same map and the same rows without the lock.
- A failed execution sends a notification with the channel's configuration and
  records the result in its row; the dialog and other browsers save and test the
  same row, and a scan brings the credentials (`Registration`).
- A process boots over whatever file it finds, while another may still serve or
  boot.
- The browser reads a snapshot, then follows the broadcast, and reloads the
  rows when the stream reports a lag.

## 2. What is hard about it

The list at the source lines is `hazards` in `PROJECT.json`; each names the
properties that cover it or says why none does. In short:

- *Two stores of one truth.* A job is a row, an entry of the map and a trigger in
  the library; the timezone is a row and a cache; a log is rows and a broadcast
  stream; a run is a row and a task. Nothing spans both halves of a pair
  atomically, each half can fail alone, and a browser that hangs up drops the
  handler between them.
- *Reads that go stale.* Prune, rebuild, rename, poll, login and password change
  read, wait, and write.
- *Bounded everything.* The queue, the permits, the broadcast ring, the sink's
  buffer, the lines per run, the runs per job and the time to drain all have a
  limit, and something happens when it is met.
- *Files of any age.* The schema is brought up to date step by step by a process
  that may be cut off anywhere, and by two processes at once; the secrets in it
  may be sealed with another key.
- *Ends.* A handler may panic, hang or outlive the shutdown; the process may stop
  between any two statements.

## 3. Modules and how they correspond to the code

Composition: `RunLog` implements `RunRecord`, `CronWorker` implements
`RunHistory` and `NotificationChannel` implements `ChannelStore` (refinement by
`INSTANCE ... WITH`); `NotificationDialog` extends the channel and composes the
frontend with it. `RunLog`, `CronWorker` and
`LogStream` look at the same execution at three levels of detail: one execution
with its sink line by line; many executions with the log reduced to "there are
rows"; a few executions with a sink that has neither texts nor counters of its own, and
the browser in detail. `JobScheduler`, `Sessions` and `Registration` share no
state with them. `Startup` ends where `JobScheduler` begins.

Definitions commented *Mutant* are plausible mistakes in the code beside them;
no specification uses them. Substituting one for the definition it follows must
make its property fail (`mutants` in `PROJECT.json`), which is how the
properties are known to constrain the model.

### RunLog (abstract: RunRecord; proofs: RunLogProofs)

One execution: the handler task (`handler`, `captured`), the broadcast ring as
this execution's receiver sees it (`chan`, `lost`), the execution task (`phase`)
and its `RunLogSink` (`enabled`, `seq`, `logCount`, `truncated`, `pending`), and
what is in the database (`logs`, `run`).

| Action | Code |
|---|---|
| `RegisterRun` | `execute_with_logging` up to the spawn of the handler: `insert_run` may fail, then the sink is disabled |
| `HandlerLogs` | `JobLogLayer::on_event`, numbering and broadcast |
| `ForeignEvent` | any other execution on the same channel |
| `HandlerEnds` | the handler returns `Ok`, `Err`, or panics |
| `ReceiveEvent`, `ReceiveLag` | `recv`/`try_recv` with `consume` or `note_lost`, including the flush they trigger |
| `IdleFlush` | the 100 ms branch of the select |
| `HandlerDone`, `DrainEmpty` | leaving the receive loop, leaving the drain loop |
| `CloseSink`, `FinishRun` | `append_failure` and the last flush; `finish_run` |

`Flush` is `RunLogSink::flush`: a disabled sink or an empty buffer does nothing,
a successful insert numbers the rows from `seq`, a failed one keeps the newest
`MaxPending` lines. Text, level, timestamps and message trimming are left out: a
line is its kind (line of the handler, notice, failure) and its capture number.
One emitter per execution, as in every handler of the repository.

`RunRecord` is what a reader of the history relies on: nothing before the run is
registered, lines only added at the end and in capture order, nothing after the
outcome.

### CronWorker (abstract: RunHistory; proofs: CronWorkerProofs)

The pool: callers waiting for room (`senders`), `queue`, the dispatcher
(`dispatcher`, `held`), `permits`, and for each invocation the position in
`execute_with_logging` (`phase`) with its local variables (`outcome`,
`persisted`, `cutoff`, `doomed`). `runs` and `logs` are the tables, `process` is
the life of the process.

| Action | Code |
|---|---|
| `Trigger`, `Enqueue` | a tick or `run_job_now`; `Sender::send` on the bounded channel |
| `Wake`, `Receive`, `Dispatch`, `Suspend`, `Cancel` | the dispatch loop between its awaits; `Cancel` is the abort in `shutdown` taking effect |
| `Start` ... `EndRun` | `execute_with_logging`, one action per statement; `EndRun` is `run_ended`, the notification and `on_run_finished`, then the permit is dropped |
| `Reclaim`, `SelectCutoff`, `SelectIds`, `DeleteSelected` | the four awaits of `prune_old_runs` |
| `Stop`, `Drain`, `Drained`, `DrainTimesOut`, `Exit` | `WorkerHandle::shutdown` with its timeout, then the end of `run` |
| `Crash`, `BootMark`, `BootClean` | the process dies; `init` closes interrupted runs and deletes orphaned lines, ignoring or only logging errors |
| `SixHoursPass` | the age after which `Reclaim` takes a running row for stuck |

`RunHistory`: a run enters once as running, gets one outcome that is never
rewritten, and is dropped only if `Keep` later runs of its job stay.

The clock moves on with every start, so start times are distinct and in the order
of the starts; a wall clock that is set back between two starts is left out.

### JobScheduler (proofs: JobSchedulerProofs)

`row` is `cron_jobs`, `mem` the map of loaded jobs, `live` the triggers inside
the library, `dbZone`/`zone` the setting and its cache, `lock` the modification
lock. `pc` and `req` are, per request, where it is and its local variables; each
await on the database, the library or the map is a step.

| Actions | Code |
|---|---|
| `BeginEdit`, `FindJob`, `CheckUpdate`, `SaveDef`, `Rollback` | `update_job` in `routes/cron_jobs.rs` |
| `CheckDelete`, `SoftDelete`, `Restore` | `soft_delete_job` |
| `Apply`, `Unmap`, `Unschedule`, `Schedule`, `Map` | `update_job_in_memory`, `remove_job_from_scheduler`, `add_job_internal`, shared by edits and rebuilds |
| `BeginSetting`, `ReadSetting`, `StoreSetting`, `CacheSetting` | `update_setting` |
| `NamesDone`, `ReloadNext`, `Replan`, `WriteReplan` | `reload_all_jobs` |
| `SyncNext`, `PersistTitle` | `sync_titles_to_language` |
| `Tick`, `RunJobNow`, `RunEnds`, `WritePlan` | an execution as far as the plan is concerned: `on_run_finished` computes, then writes |
| `Disconnect`, `Down` | a dropped request; the end of the process |
| `Boot`, `BootFails` | a start that comes to serve, without the jobs in `skipped`; a start that an error ends (`load_from_db`) |

Abstractions: a plan is what it was computed from (expression, timezone, time)
instead of an instant; `title` stands for title, description and group, which
the code treats alike; map accesses without an await between them are one step.
A start serves nobody before it is through, so it is one step, with each of its
outcomes: a job that the scheduler refuses is logged and left out
(`cron/scheduler.rs:126`) and the process serves without it, which `skipped`
remembers; a query that fails ends the start, with some of the plans already
rewritten. A start also leaves out an `@every` job whose next run cannot be
represented (`:120`); the models do not have such an interval, which the update
that would store it refuses.
`HashMap` order is arbitrary (`\E` over the names left).
`set_enabled` and `add_job` have no caller outside tests and are left out.

### LogStream (proofs: LogStreamProofs)

Executions of one job (`phase`, `captured`, `status`) with their sinks (`taken`,
`pending`, `truncated`) and their `rows`, the stream route (`conn`, `found`, `initial`, `ring`, `lagged`) and the hook (`view`,
`ref` for `stateRef`, `fetch` for the reloads in flight).

| Actions | Code |
|---|---|
| `InsertRun`, `AnnounceStart`, `HandlerLogs`, `CloseRun` | the execution, in the order of its statements and broadcasts |
| `Receive`, `SinkLags`, `Flush`, `Drain` | `append` with its limit, `note_lost`, `flush` with the cap of the buffer, and the last flush with the reason of a failure |
| `Connect`, `ListRuns`, `ListLogs` | `stream_job_logs`: subscribe, newest run, its rows |
| `StreamLags` | the ring overruns this receiver: the next thing it gets is `reset` |
| `HandleInitial`, `HandleEvent`, `HandleReset`, `ListRunLogs`, `Merge`, `Render` | the event handlers of the hook, the reload request, the merge by number, and the render that updates `stateRef` |

A row holds the capture number of its line, or 0 for a notice or the reason of a
failure; its own number is its place. The two differ from the first row on that
the limit, an overflow or a lag has displaced (`Displaced`), while the broadcast
goes on under the capture numbers. A flush is allowed whenever something is
pending, which includes the timer and the full batch. `blind` is history: what
this connection can no longer deliver. A dropped connection appears as the
next `Connect`. Executions are listed in the order in which their rows were
inserted.

### Registration (proofs: RegistrationProofs)

`slot` is `RegistrationSlot`; a session's number stands for its device code and
for the application that code yields. `poll` is, per caller, where it is around
the HTTP call, which is made without the mutex. `Poll` is the first half of
`poll` in `notification/register.rs` (unknown, expired, cached, or claim the
turn), `Upstream`/`UpstreamFails` the call, `Apply` the second half with
`Session::apply`; `Begin` replaces the slot. Feishu (`AskForCode`, `Scan`,
`Replies`) is external and modelled from what `parse_poll_body` accepts: any
status while a code waits and after its approval or denial, credentials only
after the approval and once. Time is
in ticks of five seconds, the amount by which `slow_down` widens the interval.
`asked` and `backoffs` are history variables for the properties.

### Sessions (TLC: MCSessions; proofs: SessionsProofs)

`user` and `session` are the tables, `cookie` what each browser holds, `call`
where its request is. One action per statement of `init` (`CreateUser`,
`ReadBack`), `login` (`Login`, `LoginRead`), `create_session`
(`CreateSession`), `logout`, the middleware (`Request`, `Authenticate`) and
`change_password` (`Check`, `Verify`, `WritePassword`, `RevokeOthers`). A
password stands for its hash; validation of names and passwords and cookie
attributes are left out. `Disconnect` drops a request at any await, which is
also what a crash does to it, as nothing else of this component is in memory.
`version`, `kept`, `halfDone` and the fields `seen` and `late` of a session row
are history: which password a login was checked against, which session made the
last change, and whether some change stopped before revoking.

### NotificationChannel (abstract: ChannelStore; proofs: NotificationProofs)

`row` is the one row of `notification_channel` with what its column `config` was
sealed with, `key` the `SECRET_KEY` of the process, `call` what each request or
notification under way holds in its local variables.

| Action | Code |
|---|---|
| `SaveRead`, `SaveWrite`, `Refuse` | `save_channel` around its two statements, and the read after it in `update_feishu` |
| `TestRead`, `NotifyRead` | `send_test`; `load_active_config` for a failed job |
| `Send`, `Record` | `feishu::send`; `record_send_result` |
| `Collect` | the client takes the answer, or the task of a notification ends |
| `Restart` | the process ends anywhere and starts with some `SECRET_KEY` |

An application's secret is named like the application, so that a pair that does
not belong together can be told; the receiver is data. `Readable` is `decrypt`:
plain text always, sealed text with its own key only, and what cannot be read
counts as not configured. `overtaken` and `kept` are history.

`ChannelStore` is two registers, the configuration and the result of the last
message: a save replaces the one whole, a message the other, nothing goes away.

### NotificationDialog (TLC: MCNotification; proofs: NotificationProofs)

`shown` is the response in the query cache, `form` and `enable` the fields,
`editing` the edit mode, `saving` the mutation under way. `Filled` is the effect
on `[channel]`: a response that differs from the cached one fills the form.
`Type`, `FlipInForm`, `Edit`, `LeaveEdit`, `ScanSucceeds` are the user,
`SaveForm`, `SaveSwitch`, `Saved`, `SaveFailed`, `Test`, `Tested` the mutations
with their success and error handlers (a switch that fails goes back from where
the user had put it, `saving.next`), `Refetch` the query. `OtherClient` is
another browser or a failed job. The user waits for the answer to a save before
he edits on, except for a scan that succeeds meanwhile.

### Startup (proofs: StartupProofs)

`schema`, `versions`, `settings` and `job` are the file; `step`, `at`, `missing`
and `stale` where each process is in its boot; `cache` its `AppSettings`.

| Action | Code |
|---|---|
| `Start`, `Create` | `connect`; the `CREATE TABLE IF NOT EXISTS` statements |
| `LookFor`, `Begin`, `Apply` | `ensure_columns` column by column; `ensure_migration` up to its first write; its writes and the commit |
| `FindSetting`, `InsertSetting`, `Load` | `seed_rows` in its two statements per key; `load_from_db` |
| `FindJob`, `AddJob` | `ensure_job` |
| `StoreSetting`, `CacheSetting`, `DeleteJob` | requests while the process serves |
| `Signal`, `Drained`, `Crash` | the signal, the end of the drain or its limit, and the end of the process at any point, a failing statement included |

Every version is applied by the statements of its own migration. `Init` is an
empty file or what a program of the age of any version has left, which the
comments at `db.rs:163`, `:182` and `:214` tell (the unique index that version 3
used to add, an `is_deleted` that may or may not be there, the index that
version 6 replaces). `stale` is SQLite in WAL mode: a transaction that has read
and then writes fails if another connection has committed in between. A process
that fails to boot is started again (`restart: unless-stopped` in
`compose.yaml`). `Create` has five steps for the nine `CREATE TABLE` statements:
the four tables that no migration is about are created by one (`"other"`), and so
are those of the runs and of their lines, which only version 5 is about.

## 4. Runs

Every bound is a CONSTANT marked *bound* in its module and appears in the guard
of the action it limits. Because the bounds stop the models, deadlock is not an
error in any of these runs; that the system does not get stuck is stated as a
liveness property where its scheduling allows one.

### run_log

`MaxLogPerRun` 3, `BatchSize` 2, `MaxPending` 3, a ring of 2, up to 7 lines of
the handler, 1 foreign event, 4 failing inserts. The limits keep the order they
have in the code (the batch is smaller than the limit and than the cap of the
buffer), and 7 lines pass all of them: a lag, a full batch, retries up to the cap
and beyond it, the limit, and lines after the notice. 235 540 states.

- `RowsNumberedInOrder`: rows are numbered 1, 2, 3, ... through failures,
  retries and dropped batches.
- `SeqIsCaptureSeqUntilTruncated`: until something is lost, a line is stored
  under the number it was broadcast with, on which the browser's merge relies.
- `NoUnreportedLoss`: after the last flush went through, a run without the
  truncation flag has all lines.
- `PendingBounded`: the buffer never exceeds its cap by more than the notice.
- `StoredLinesAccounted`: `log_count` is the number of rows that are not notices,
  there is one notice at most, and what the limit really guarantees: it compares
  the flushed count, so up to a batch less one line more may be stored, and up to
  a full buffer more when inserts fail.
- `RefinesRunRecord`: the log is append-only, ordered and closed once.
- `EveryExecutionCloses`: the task ends whatever the handler, the ring and the
  database did (needs fairness, section 5).

### worker

One job, 2 invocations, 2 permits, a queue of 1, `Keep` 1, one failing database
operation, two stops or crashes, one passing of the six hours. Two executions
with `Keep` 1 overlap in every way in which one prunes, reclaims or is pruned by
the other; two stops give a crash during the restart after a crash. About 1.2
million states.

- `PermitsConserved`: free permits and running executions add up, always.
- `RunningIsLive`: without failing writes a row that says running belongs to an
  execution that can still close it, also after a restart.
- `HistoryBounded`: of the executions that finished, at most `Keep` per job stay
  when no write fails, though they prune concurrently.
- `OrphansAreFlushes`: lines without a run come only from a flush after the run
  was pruned, never from a failed registration or from a prune that deletes half.
- `RefinesRunHistory`: a run reclaimed as failed does not become successful when
  it finishes after all, an interrupted one is closed once, nothing recent is
  dropped.

All of them, and `TypeOK`, are proved in general.

### worker_live

One permit, a queue of 1, 3 invocations: one runs, one is in the queue or in the
dispatcher's hand, one waits for room. One failing operation, one stop or crash.
`EveryInvocationServed` (assuming that handlers return) and `ShutdownEnds`
(without that assumption), under `FairSpec`. 72 800 states.

### sched_edits

Two jobs, one of which has no handler, two edits or deletes, one failing
operation at any await or at a start, one end of the process with the restart, one
execution. 151 246 states.

- `Agreement`: between requests the table, the map and the triggers agree. A job
  that the last start could not add is the one exception, and even that is stated:
  it is in neither the map nor the scheduler, whatever happens to its row.
- `OneTrigger`: at no moment do two triggers of a job fire.
- `AnswersAreTrue`: an error leaves the definition as it was, a success has
  written all of it, in each of the rollback paths.

One failure is the strongest setting in which `Agreement` and `AnswersAreTrue` can
hold: the code rolls back by further writes, and a second failure in the rollback
cannot be undone. The proofs of the two need the same condition; `OneTrigger` is
proved with any number of failures and of clients that hang up.

### sched_settings

One job, two overlapping requests of any kind, timezone and language included,
two timezones, one failing operation, one client that hangs up, one execution.
1.0 million states. `EnabledEntriesFire`: what is listed as enabled has its trigger.
`DeletedRowsFrozen`: nobody but the delete that failed changes a deleted row.
`DeletedReturnsOnlyByReload`: a deleted job comes back into the map only through
a rebuild without the lock that had taken it out before (section 7), or where
the delete itself is undone. All three are proved in general.
`Agreement` does not survive these races; what is lost is described in section 7.

### log_stream

Two executions that may overlap, one of them failing, 2 lines together, 2
connections, one lag of either receiver or one failing database operation; the
requests that reload may fail at any time. Two lines are enough for one to be in
the snapshot and one on the stream, or one in a reload and one live. `MaxRows` and `MaxPending` are 1, so that the second line
may meet the limit and become a notice, or be stored beyond it when it was
received before the first was flushed, and so that one failing flush with both
pending drops the older. Lags and failures share one bound (`MaxFaults`), so that
each meets everything else; that they meet each other is left to the proofs, which
are for any number of both. 2.5 million states.

- `ShownInOrder`: lines of one run, each number once, ascending.
- `NoWindow`: each line captured by the shown run is shown, on its way, one of
  those the connection is known to be unable to deliver (`blind`), or at or after
  the first row that does not carry the number its line was broadcast with
  (`Displaced`; section 7).
- `EndIsShown`: when everything was delivered a run that ended is not shown as
  running, unless the event was overwritten or the outcome never stored.
- `ReloadOnlyAdds`: a reload takes away nothing that arrived meanwhile.

### registration

Two pollers, two registrations, an interval of one tick and a lifetime of three,
one restart. A session may be replaced or expire while two calls are under way,
and be slowed down. `CredentialsBelong`, `PollsAreSpaced`, `CredentialsKept`; all
three are proved in general.

### sessions

Two browsers, two names, two passwords, three logins, two password changes, one
expiring session, one failing statement; browsers, names and passwords are
symmetric. Three logins are needed for a session that changes the password, one
that must end and one that comes in between. 2.7 million states (up to
symmetry). All four properties are also proved.

- `OneUser`: overlapping `init` requests make one user.
- `OldLoginsEnd`: when no change is under way, each session knows the current
  password or made the last change; the exceptions (`late`, `halfDone`) are the
  two races of section 7.
- `LoginsEndForAReason`: expiry, own logout, or a change by another session.

### notification

One dialog and one other caller (another browser, a test or a failed job), two
applications (symmetric), plain text or one key, one message. Restarts, failing
statements and changes of the key are unbounded. Two callers make every race of
a pair; a third would only race the winner of the first two. One message is
recorded before, between or after the steps of the saves; a second would be
recorded in the same way, in a column no save writes. 1.1 million states (up to
symmetry).

- `RefinesChannelStore`: saves and results never write over each other, and of
  two first saves one fails instead of replacing the other.
- `KeptSecretStays`: a save with a blank secret leaves the stored one, readable,
  unless another save came between its read and its write.
- `SwitchKeepsCredentials`: the switch of the read-only panel, which sends a
  whole form, changes the switch only, unless the form is a draft left by a
  cancelled edit or shows an older application.

### boot

Two processes, one old and one new, that boot over the same file of any age, two
ends (a signal, a crash or a failing statement anywhere), two settings stored by
requests. Two ends are a crash during the boot after a crash, or both losers of
a race; two settings let two requests of a process overlap. 1.2 million states.

- `SchemaIsCurrent`: who has left `migrate` finds exactly the current schema.
- `CacheAgrees`: a serving process has cached what the table says, except for
  settings with an update still between the table and the cache, or overtaken by
  another.
- `SeedingOnlyAdds`: no boot touches a setting or brings a deleted job back.
- `BootEnds`: when ends cease, every process serves again and again (section 5).

### Runs that end in a counterexample

`sched_timezone` and `dialog` each check one sentence of a comment and find it
violated; section 7 tells the stories.

## 5. Fairness

Safety runs assume none. Fairness is stated in three modules:

- `RunLog`: weak fairness of `TaskStep`, since the runtime polls a task whose
  receiver, timer or watch channel is ready; and of `HandlerEnds`, which the
  code does not guarantee (there is no timeout on a handler) and which is
  therefore an assumption on the handlers that are registered. Nothing is
  assumed of the handler's lines or of other users of the ring.
- `CronWorker`: weak fairness of the dispatch loop, of the shutdown (the drain
  has a timer), of the restart, and of every statement of every execution.
  Handlers are *not* assumed to return: `HandlersReturn` is an antecedent of
  `EveryInvocationServed`, and `ShutdownEnds` holds without it. `Stop`, `Crash`,
  `Trigger` and the failure of an operation are never fair. Weak fairness
  suffices for the permit although executions compete for it, because the only
  taker is the one dispatch loop.
- `Startup`: weak fairness of `Boot(p)` for each process, because the runtime
  runs `init` and the container is restarted whenever it ends; and of
  `Drained(p)`, because the drain has a limit (`lib.rs:212`), which is assumed here
  and not modelled: `BootEnds` does not tell whether it works. Requests, signals and crashes are
  never fair. Weak fairness suffices although processes compete for the file: a
  transaction that loses fails at once, which is a step of the boot, and the
  number of versions to write only shrinks.

## 6. Proofs

All theorems hold for every value of the constants that satisfies the named
assumptions of the module (`LimitsAssumption`, `BoundsAssumption`,
`WorkerAssumption`, `SchedulerAssumption`, `RegistrationAssumption`,
`SessionsAssumption`, `ChannelAssumption`, `DialogAssumption`,
`StartupAssumption`, `StreamAssumption`), so for any number of actors and
for bounds as large as one likes. Five theorems of `JobSchedulerProofs` have
further conditions, which they state: three of them that there are only edits,
two of these for behaviours in which repairs are not broken off, and the other
two, which follow from those, that there is at most one failure.

**RunLogProofs.** Every branch of `flush`, `append` and `note_lost` is one of
three moves of the sink (`SinkMove`: hold, persist, retain), so each step lemma
is proved once per move instead of once per action.

- `TypeCorrect`; `RowsNumbered`, which is inductive with the types.
- `RunLogRefinesRunRecord` needs an order over the whole pipeline, `OrderInv`: a
  line moves from the ring to the buffer to the table, each of the three is
  ascending, and what is behind is smaller than what is ahead. Order of the table
  alone is not inductive, since the next row comes from the buffer. `RunInv` adds
  that a disabled sink has an empty table. The refinement itself is then one
  case per kind of step: register, add lines, record the outcome, or stutter.
- `SeqIsCaptureSeqHolds` and `NoUnreportedLossHolds` come from one invariant,
  `WholeInv`: until the run is truncated, position *i* of table and buffer
  together holds line *i* of the handler, and every later line is on the ring.
  Neither statement mentions the ring or the buffer, and without them neither is
  preserved by a receive or a flush.
- `PendingBoundedHolds` from `BufferInv`: only the notice of the limit is pushed
  without a flush, and only once.
- `StoredLinesAccountedHolds` from `AccountInv`. `append` compares `log_count`
  with the limit, and `log_count` knows the flushed lines only, so the table alone
  says nothing about the next row: what has to be bounded is `Load`, the lines in
  table and buffer together. It exceeds the limit by less than a batch as long as
  every insert succeeds, because a full batch is flushed at once, and by the rest
  of the buffer once one has failed (`Spare`, `Cap`). There is one notice of the
  limit because it is pushed with its flag, and one of a failure because it is
  written when the run is closed (`Unique`).

**CronWorkerProofs.** Everything the run `worker` checks. A step is classified
once, by what it does to the place of each execution (`StepsMove`) and to its row
(`RowsMove`), and the invariants are proved over these moves.

- `ServedInOrderHolds`: what the worker begins to execute was accepted, was never
  begun before, and is the oldest there is. `PoolInv` says only that the places are
  passed in order; `PlacedInv` adds that no accepted invocation has fallen out of
  all of them, be it in the loop's hand while it waits for a permit or with a caller
  while the queue is full. It is the safety half of `EveryInvocationServed`, for any
  number of invocations.
- `PermitsConservedHolds` and `TypeCorrect` from `PoolInv`: an invocation that has
  not been spawned is in one place only, because the senders, the queue and the
  dispatcher's hand are passed in the order of the numbers (`QueueInv`). Without
  that a dispatch could spawn what is already running. That there are never more
  free permits than the semaphore has is a consequence, not a type.
- `RunningIsLiveHolds` and `OrphansAreFlushesHolds` add `RowsInv`: only an
  execution that registered has a row, and start times are distinct.
- `WorkerRefinesRunHistory` needs to know that a prune drops nothing recent, long
  after it has read its cutoff. `PruneInv`: as long as it is under way, `Keep` rows
  are at least as new as its cutoff. Another prune keeps this up, since its own
  cutoff is either older or has `Keep` newer rows of its own.
- `HistoryBoundedHolds` is about what is left when all prunes are through, and no
  single prune is responsible for it: one may have selected before another
  execution came to its end. `BoundInv` counts what is left whichever of the
  prunes under way are ignored, with their executions: for *every* subset of them
  that is at most `Keep`, and each step moves one execution in or out of that
  subset.

**JobSchedulerProofs.** The invariants go from what a request is to what it knows.

- `Shape`: the local variables of a request, and which steps its kind can be at.
  `LockInv`: the modification lock belongs to the one edit under way. `FoundInv`:
  an edit that has found its row goes on to find it, since only the holder of the
  lock marks rows as deleted. `EditsExcludeEachOther`, `DeletedRowsFrozenHolds` and
  `DeletedReturnsOnlyByReloadHolds` follow from these.
- `TypeCorrect` needs `LocalsInv`: what a request writes into the table, the map
  and the scheduler it has read or merged several awaits before, so its local
  variables are typed with the rest. An update merges an expression that may not
  parse into a definition, and goes on only if it does. That the map holds jobs
  with a handler only is an invariant because whoever takes a job out or puts one
  in (`Rebuilding`) has found it there, a delete in the one case in which it goes
  on to the scheduler (`known`).
- `EnabledEntriesFireHolds` from `EntryInv`: an entry is in the map or with the one
  request that has taken it out, and no two of them have the same trigger, so
  whoever removes a trigger leaves the other entries theirs. The map alone says
  nothing of the kind, because a rebuild holds its entry outside of it while
  others come and go. `Fresh` is why triggers differ: a request adds a job once.
- `OneTriggerHolds`, if there are only edits, so that whoever rebuilds a job holds
  the lock: `TriggerInv` says where the trigger of a job is while its entry is out
  of the map. With rebuilds that do not take the lock a job may keep two (section
  7).
- `RepairsKeepAgreementHolds` and `RepairsKeepAnswersTrue`, if there are only
  edits: however many operations fail, clients hang up and processes end, table,
  map and scheduler agree between edits and answers are true, as long as no step
  does one of two things (`RepairsFinish`): fail while an edit puts back what it
  had replaced, or hang up while its job is being moved. With edits only, the
  code loses agreement in no other way while it serves: a rollback, a restore or
  a second attempt that fails is only logged (`routes/cron_jobs.rs:216`,
  `cron/scheduler.rs:501`, `:468`), and a future that is dropped repairs
  nothing. A start may leave jobs out (`cron/scheduler.rs:126`): of these
  `Agreement` claims that they stay out of map and scheduler, since every edit
  asks the map before it goes to the scheduler, not that they are loaded.
  `AgreeInv` states, for each place in an edit, what row, map and
  scheduler hold compared with the definition it has read and the one it wants,
  so each repair ends where the edit began.
- `AgreementHolds` and `AnswersAreTrueHolds`, what `sched_edits` checks, follow:
  whoever repairs has met a failure (`errors > 0` in `AgreeInv`), so where only one
  operation fails and no client hangs up, `RepairsFinish` holds of every step.

**RegistrationProofs.** `TypeCorrect`, `CredentialsBelongHolds`,
`PollsAreSpacedHolds`, `CredentialsKeptHolds`. The inductive invariant `IInv`
says that the slot's bookkeeping is the history: `last_poll_at` is when Feishu
was last asked about *this* session and its interval is the initial one plus the
backoffs it received. That is what `PollsAreSpaced` needs at the moment of a
poll, and it is an invariant because `apply` looks at the session's number again
and `begin` resets all of it together (`OnceBegun`: a number enters the slot
once). `CredentialsKept` then follows action by action.

**SessionsProofs.** `OneUserHolds`: the only statement that adds a user looks at
the table itself. `LoginsEndForAReasonHolds`: one case per action that deletes
rows. `TypeCorrect` needs that a request that got as far as a name has the name
of a user (`Known`), since sessions are stored under it. `OldLoginsEndHolds`
needs to say who is going to revoke a login that should be gone: with two
overlapping changes it is the later one only, whoever revokes first (`Revoked`).

**NotificationProofs.** `ChannelRefinesStore` maps each step of the channel to a
save, a record or a stutter; it needs that what a save is about to write is
complete (`WriteReady`) and that the row exists with a complete
configuration from the first save on. `KeptSecretStaysHolds` follows the secret
from the read to the write: as long as no other save wrote, row and call hold the
same one. `DialogUsesChannel` lifts both to the dialog, whose every step is a
step of the channel or leaves it alone; `DialogTypeCorrect`.
`SwitchKeepsCredentialsHolds`: a save by the switch with the form as it was loaded
has a blank secret, so it keeps the stored one, and nobody else turns the call of
the dialog into one that writes (`SwitchKeeps`).

**StartupProofs.** `SchemaInv` relates three things: what is recorded is a prefix
of the versions and everything they are for is in the file (`FileOK`); what a
process has passed is there (`Knows`), which stays true because nothing but
version 4 and 6 takes anything away; and a transaction that is not `stale` still
finds its version missing when it writes. `SchemaIsCurrentHolds` is its last
line. `CacheAgreesHolds` adds the settings a request has stored and not cached
yet. `SeedingOnlyAddsHolds` and `TypeCorrect` follow action by action.

**LogStreamProofs.** First the library: `BySeq` sorts a finite set of entries with
different numbers by their rank, and is proved to be a sequence of exactly these
entries in ascending order (`SortedBySeq`).

- `TypeCorrect` and `ShownInOrderHolds` from `StreamInv`: what is shown, what the
  snapshot brings and what a reload has read is each in order and of one run,
  because rows are numbered by their place and the hook compares run and number
  before it adds or merges anything.
- `ReloadOnlyAddsHolds`: a merge sorts a superset of what is shown.
- `RingForm` says what is on its way: the numbers of a run's lines ascend in the
  ring and none exceeds what was captured.
- `EndIsShownHolds` from `EndInv`: if a run is over, whoever may still come to
  show it (the route that has found it, the snapshot, the view, or a
  `run_started` on its way) is going to be told of its end, or its end was
  overwritten. `EndIsShown` itself speaks of an empty ring only.
- `NoWindowHolds` from two invariants. `LinesInv`: rows are only added, so what a
  snapshot or a reload has read is still the beginning of the table, line by line
  (`HasRead`), and a row found to be displaced stays so; and while the handler runs
  a sink has not more rows, stored and pending, than lines it has taken, nor taken
  more than were captured (`Accounted`), because a notice takes the place of at
  least one line. Hence nothing shown is numbered beyond what was captured: a new
  line is never taken for a known one. `WindowInv`: up to the first displaced row,
  each line is in the snapshot or the view, on its way, or in `blind`; behind a
  `run_started` on its way all lines of that run are too, which is why a view that
  starts empty misses none; and a line on its way with a number the view would take
  for known is known (`NoneSkipped`). The last is what the comparison with the
  largest number shown relies on: it would drop a line for good if a reload could
  leave a gap below.

Model-checked only: the liveness properties `EveryExecutionCloses`,
`EveryInvocationServed`, `ShutdownEnds` and `BootEnds`, since fairness and
`ENABLED` are beyond the prover. Every safety property that a passing run checks
is a theorem. The two properties that `sched_timezone` and `dialog` refute are, of
course, not.

## 7. Where the code and its documentation disagree

With a run that shows it (`findings` in `PROJECT.json`):

1. *A new timezone does not reach the triggers* (`sched_timezone`,
   `routes/settings.rs:130`). The rebuild reads the cached timezone, which is
   written after it.
2. *Testing a draft throws it away* (`dialog`, `NotificationDialog.tsx:87`). A
   successful test refetches the channel, whose send time has changed, and the
   effect on the response fills the form again.

Seen while modelling, without a run of their own:

- The last flush has no next round (`cron/worker.rs:282`): a failed batch is kept
  for the next flush (`:477`), but after the last one the sink is dropped, and
  the run is closed without the truncation flag. `NoUnreportedLoss` excepts it.
- A running execution can be pruned (`cron/log_repository.rs:266`), as pruning
  looks at the start time only; what it flushes afterwards has no run row until
  the next start cleans up (`OrphansAreFlushes`), though the comment at
  `cron/worker.rs:192` wants to avoid exactly such lines.
- A rebuild brings a deleted job back (`cron/scheduler.rs:266`): the rebuild after
  a timezone change does not take the modification lock, and a delete in between
  finds nothing to remove. The job stays listed and fires until the restart
  (`DeletedReturnsOnlyByReload`); the user guide (line 66) says it is gone.
- For the same reason two rebuilds that overlap, or a rebuild and an edit, may each
  add a trigger for a job before either puts its entry into the map
  (`cron/scheduler.rs:289`); the entry of the second overwrites the first, whose
  trigger nobody can remove any more: the job fires twice until the restart.
  `OneTrigger` is therefore stated where there are only edits.
- The limit of lines per run compares flushed lines only (`cron/worker.rs:402`),
  so a run may have up to `LOG_BATCH_SIZE` - 1 more than `MAX_LOG_PER_RUN`;
  `StoredLinesAccounted` states the real bound.
- The limit, an overflow of the buffer and a lag of the sink each cost lines, and
  the limit and the lag store a notice under the next number
  (`cron/worker.rs:402`, `:450`, `:511`), while the capture layer goes on
  broadcasting under its own (`cron/log_capture.rs:141`). From the first row that
  is displaced in this way on, one number means two lines: a viewer whose snapshot
  or reload holds the notice drops the live line of that number as already known
  (`use-cron-job-logs.ts:169`), and shows it at no later time either if it was not
  stored. `NoWindow` claims nothing from that row on (`Displaced`); up to it the
  stream is complete.
- A job that a start cannot add is logged and left out (`cron/scheduler.rs:126`),
  and the process serves. Its row is active, but the list of jobs, which comes from
  the map, does not show it, it does not fire, an update of it is refused (saying
  that it has no handler, `routes/cron_jobs.rs:138`, though it has one), and a
  delete marks its row only, until the next start. `Agreement`
  names these jobs (`skipped`).
- An execution that ends after its job was edited writes the plan of the old
  expression into the row (`cron/scheduler.rs:741`), where it stands until the job
  runs next. `DeletedRowsFrozen` speaks of deleted rows only.
- A dispatcher that is aborted while it is being polled may still spawn what it
  has just received (`cron/worker.rs:51`); the comment at `lib.rs:195` says
  nothing starts any more. The models keep this: `Cancel` only takes a suspended
  dispatcher.
- The title synchronisation writes back rows it has read (`cron/scheduler.rs:246`)
  over an edit made in between, and an edit of the title writes back the plan it
  has read (`routes/cron_jobs.rs:189`), though the user guide says (line 59)
  that it leaves the plan alone. The next execution repairs the plan, nothing
  repairs the edit.
- A browser that hangs up during an edit skips the rollback the comments promise
  (`routes/cron_jobs.rs:133`, `:211`). No property catches that the row then keeps
  a definition the map does not have: `Agreement` is checked without clients that
  hang up, and `EnabledEntriesFire` is about map and triggers.
- `init` creates the user before it makes the session (`routes/auth.rs:147`): if the
  second fails, the user is there and a repeated `init` is refused; only a login
  helps. No property is about it.
- Lines captured before a stream subscribes and flushed after its snapshot are in
  neither (`routes/cron_jobs.rs:362`, variable `blind`). A reload that fails is
  never repeated, and a `run_ended` that was overwritten leaves the view running
  (`use-cron-job-logs.ts:237`, `:210`).
- An older reply that arrives last puts a finished registration back to pending
  (`notification/register.rs:325` against the comment at `:291`), and a success
  that arrives after the expiry shows its credentials again.
- A login that was checked before a password change and stored after it stays
  (user guide, line 96), as do the other sessions if revoking them fails or the
  browser hangs up before it. Two overlapping changes end each other's sessions.
- Two overlapping updates of the same setting may reach the cache in the other
  order than the table (`routes/settings.rs:142`), although the comment at `:149`
  says the cache follows the table. `CacheAgrees` excepts them (`mixed`). It also excepts
  what is stored and not cached yet (`pending`), so a browser that hangs up between
  the two, which leaves the cache as it was until the next update or start, does
  not violate it.
- A cancelled edit leaves its draft in the form (`NotificationDialog.tsx:98`), and
  the switch of the read-only panel then saves it. A failed test does not refetch,
  so its result is shown late. A second browser that shows application A and
  saves with a blank secret after another one configured B stores A with the
  secret of B (`notification/mod.rs:178`). Results of sends that overlap are
  recorded in the order in which they end.
- A process that boots while another still serves closes the other's runs as
  interrupted (`cron/log_repository.rs:204`).

## 8. What is not modelled

- AES-GCM and masking in `crypto`, `response`, `i18n`, `static_assets`,
  `middleware`, `config`: functions or stateless plumbing.
- `notes`: single statements on independent rows. `logs_cleanup`: one loop over
  files by age.
- The grammar of schedules and the computation of the next run: pure, and
  planned (section 9). Daylight saving in the library's fixed offsets
  (`cron/scheduler.rs:592`) needs a calendar.
- The 100 ms timer of the flush is allowed to fire whenever something is
  pending, which only adds behaviours; that it may be postponed by a steady flow
  of lines would need a clock.
- Several tasks that log inside one execution: they number under a lock and
  broadcast outside it (`cron/log_capture.rs:171`). No handler does so today.
- Reading the environment.
- The frontend apart from the log hook and the notification dialog renders server
  state through a query cache.
- Recovery of runs with two processes at once: `CronWorker` restarts one process,
  `Startup` has two but no runs.

## 9. Plan

Done, in this order: `RunRecord`, `RunLog` and its proofs; `RunHistory`,
`CronWorker`; `JobScheduler`; `LogStream`; `Registration`, `Sessions`,
`NotificationChannel` with the dialog, and `Startup`, each with its proofs; the
proofs of `CronWorker`, of `JobScheduler` and of `LogStream`.

Next, the more important first:

1. Two processes in `CronWorker`, as in `Startup`.
2. The parser as functions against a reference definition over bounded
   schedules.
3. Several emitters in `RunLog`; several viewers are independent of each other
   and need no model.
