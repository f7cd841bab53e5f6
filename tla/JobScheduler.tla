---------------------------- MODULE JobScheduler ----------------------------
(***************************************************************************)
(* The definitions of the cron jobs and the three places that hold them:   *)
(* the table cron_jobs, the map of loaded jobs and the triggers of the     *)
(* scheduler library (src/src/cron/scheduler.rs).  Requests edit and       *)
(* delete jobs under the modification lock (src/src/routes/cron_jobs.rs);  *)
(* a change of the timezone or the language rebuilds or renames them       *)
(* without it (src/src/routes/settings.rs); executions move the plan.      *)
(*                                                                         *)
(* Each await of a request on the database, the scheduler or the map is a  *)
(* step of its own.  The plan (next_run_at) is modelled by what it was     *)
(* computed from: an expression, a timezone and a time.                    *)
(***************************************************************************)
EXTENDS Naturals, FiniteSets

CONSTANTS
  Jobs,        \* rows of cron_jobs
  Handled,     \* jobs whose handler is registered
  Exprs,       \* valid expressions
  EveryExprs,  \* those of the form @every
  Zones,       \* timezones
  Requests,    \* requests to the API, by number
  Kinds,       \* bound: which kinds of request come
  MaxErrors,   \* bound: failing database and scheduler operations
  MaxStops,    \* bound: ends of the process
  MaxCancels,  \* bound: clients that disconnect during their request
  MaxRuns      \* bound: executions

ASSUME SchedulerAssumption ==
  /\ Jobs # {}
  /\ Handled \subseteq Jobs
  /\ Exprs # {} /\ EveryExprs \subseteq Exprs
  /\ Zones # {}
  /\ Requests \subseteq Nat \ {0}
  /\ Kinds \subseteq {"update", "delete", "zone", "lang"}
  /\ {MaxErrors, MaxStops, MaxCancels, MaxRuns} \subseteq Nat

Langs  == {"zh", "en"}
Titles == Langs \cup {"custom"}   \* the default title in a language, or another

VARIABLES
  up,       \* the process serves requests
  skipped,  \* the active jobs with a handler that the last start did not load
  row,      \* cron_jobs
  mem,      \* the map of loaded jobs: its domain are the jobs in it
  live,     \* the triggers the scheduler library holds
  dbZone,   \* the row of the setting timezone
  zone,     \* the cached timezone
  lock,     \* the holder of the modification lock, if any
  pc,       \* where each request is
  req,      \* what each request holds in its local variables
  answer,   \* what each request was answered
  runs,     \* executions in flight
  fired,    \* executions so far
  now,      \* executions that have ended so far: the time
  errors, stops, cancels

startVars == <<up, skipped>>
rowVars   == <<row, dbZone>>
schedVars == <<mem, live>>
runVars   == <<runs, fired, now>>
reqVars   == <<pc, req, answer>>
vars == <<up, skipped, row, mem, live, dbZone, zone, lock, pc, req, answer, runs, fired,
          now, errors, stops, cancels>>

\* A trigger is identified by its job and by who created it: a request, or
\* the start of the process (0).
Triggers == [job : Jobs, by : Requests \cup {0}, expr : Exprs, zone : Zones]
Plans    == [expr : Exprs, zone : Zones, from : Nat]
Defs     == [title : Titles, expr : Exprs, enabled : BOOLEAN]
Rows     == [deleted : BOOLEAN, title : Titles, expr : Exprs,
             enabled : BOOLEAN, last : Nat, next : Plans]
Entries  == [title : Titles, expr : Exprs, enabled : BOOLEAN, trigger : Triggers]

Def(x) == [title |-> x.title, expr |-> x.expr, enabled |-> x.enabled]

\* What an update asks for: the fields it names.  "bad" is an expression
\* that cannot be parsed.
Changes ==
  {[title |-> "custom"]} \cup {[enabled |-> b] : b \in BOOLEAN}
    \cup {[expr |-> e] : e \in Exprs \cup {"bad"}}

Merged(change, def) ==
  [f \in DOMAIN def |-> IF f \in DOMAIN change THEN change[f] ELSE def[f]]

Busy == {"find", "loaded", "save", "softdelete", "apply", "unmap",
         "unschedule", "schedule", "map", "rollback", "restore", "read",
         "names", "persist", "replan", "writeplan", "store", "cache"}

AnyJob == CHOOSE j \in Jobs : TRUE

Quiet == \A r \in Requests : pc[r] \notin Busy

\* The local variables of a request before it starts and after it ends.
Blank == [kind |-> "none"]

\* Its local variables when it starts.
Locals(k, j) ==
  [kind |-> k,
   job |-> j,             \* the job it is about
   change |-> <<>>,       \* update: the fields of the request body
   value |-> zone,        \* settings: the new value
   model |-> row[j],      \* the row it has read
   next |-> row[j].next,  \* the plan it is going to write
   want |-> Def(row[j]),  \* the definition it is going to write or load
   back |-> Def(row[j]),  \* the definition of the entry it has read
   known |-> FALSE,       \* delete: the job was loaded
   taken |-> {},          \* the entry it has taken from the map, if any
   retry |-> FALSE,       \* it is loading the old definition again
   names |-> {},          \* settings: the jobs that are left
   failed |-> FALSE]      \* timezone: a job could not be rebuilt

TypeOK ==
  /\ up \in BOOLEAN
  /\ skipped \subseteq Handled
  /\ row \in [Jobs -> Rows]
  /\ DOMAIN mem \subseteq Handled /\ \A j \in DOMAIN mem : mem[j] \in Entries
  /\ live \subseteq Triggers
  /\ dbZone \in Zones
  /\ zone \in Zones
  /\ lock \subseteq Requests /\ \A r, s \in lock : r = s
  /\ pc \in [Requests -> Busy \cup {"new", "done", "lost"}]
  /\ answer \in [Requests -> {"none", "ok", "error"}]
  /\ runs \subseteq [id : Nat, job : Jobs, expr : Exprs, plan : SUBSET Plans, at : Nat]
  /\ {fired, now, errors, stops, cancels} \subseteq Nat

\* The map after a start that left out the jobs in skip.
Load(rows, z, skip) ==
  [j \in {h \in Handled \ skip : ~rows[h].deleted} |->
     [title |-> rows[j].title, expr |-> rows[j].expr, enabled |-> rows[j].enabled,
      trigger |-> [job |-> j, by |-> 0, expr |-> rows[j].expr, zone |-> z]]]

Triggered(entries) ==
  {entries[j].trigger : j \in {i \in DOMAIN entries : entries[i].enabled}}

\* The process has not started yet: Boot loads the jobs.
Init ==
  /\ up = FALSE
  /\ skipped = {}
  /\ dbZone \in Zones
  /\ zone = dbZone
  /\ row \in [Jobs -> {[deleted |-> FALSE, title |-> "zh", expr |-> e, enabled |-> TRUE,
                        last |-> 0, next |-> [expr |-> e, zone |-> zone, from |-> 0]] : e \in Exprs}]
  /\ mem = <<>>
  /\ live = {}
  /\ lock = {}
  /\ pc = [r \in Requests |-> "new"]
  /\ req = [r \in Requests |-> Blank]
  /\ answer = [r \in Requests |-> "none"]
  /\ runs = {}
  /\ fired = 0
  /\ now = 0
  /\ errors = 0
  /\ stops = 0
  /\ cancels = 0

\* A database or scheduler operation fails.
Failing ==
  /\ errors < MaxErrors
  /\ errors' = errors + 1

-----------------------------------------------------------------------------
(***************************************************************************)
(* How a request goes on.                                                  *)
(***************************************************************************)

\* On to the next await, with new values of local variables.
Goto(r, to, locals) ==
  /\ pc' = [pc EXCEPT ![r] = to]
  /\ req' = [req EXCEPT ![r] = Merged(locals, req[r])]
  /\ UNCHANGED <<answer, lock>>

\* The answer; the guard of the lock is dropped.
Answer(r, a) ==
  /\ pc' = [pc EXCEPT ![r] = "done"]
  /\ req' = [req EXCEPT ![r] = Blank]
  /\ answer' = [answer EXCEPT ![r] = a]
  /\ lock' = lock \ {r}

\* The request's part in the scheduler and the map succeeded or failed.
Succeed(r) ==
  \/ req[r].kind \in {"update", "delete"} /\ Answer(r, "ok")
  \/ req[r].kind = "lang" /\ Goto(r, "persist", <<>>)
  \/ req[r].kind = "zone" /\ Goto(r, "replan", <<>>)

Fail(r) ==
  \/ req[r].kind = "update" /\ Goto(r, "rollback", <<>>)
  \/ req[r].kind = "delete" /\ Goto(r, "restore", <<>>)
  \/ req[r].kind = "lang" /\ Goto(r, "names", <<>>)
  \/ req[r].kind = "zone" /\ Goto(r, "names", [failed |-> TRUE])

At(r, place) ==
  /\ pc[r] = place
  /\ UNCHANGED <<startVars, runVars, stops, cancels>>

(***************************************************************************)
(* update_job and delete_job.                                              *)
(***************************************************************************)
\* Mutant: the lock is not waited for.
BeginEditUnlocked(r) ==
  /\ At(r, "new") /\ up
  /\ lock' = lock \cup {r}
  /\ \/ /\ "update" \in Kinds
        /\ \E j \in Jobs, c \in Changes :
             req' = [req EXCEPT ![r] = [Locals("update", j) EXCEPT !.change = c]]
     \/ /\ "delete" \in Kinds
        /\ \E j \in Jobs : req' = [req EXCEPT ![r] = Locals("delete", j)]
  /\ pc' = [pc EXCEPT ![r] = "find"]
  /\ UNCHANGED <<rowVars, schedVars, zone, answer, errors>>

BeginEdit(r) ==
  /\ At(r, "new") /\ up
  /\ lock = {}
  /\ lock' = {r}
  /\ \/ /\ "update" \in Kinds
        /\ \E j \in Jobs, c \in Changes :
             req' = [req EXCEPT ![r] = [Locals("update", j) EXCEPT !.change = c]]
     \/ /\ "delete" \in Kinds
        /\ \E j \in Jobs : req' = [req EXCEPT ![r] = Locals("delete", j)]
  /\ pc' = [pc EXCEPT ![r] = "find"]
  /\ UNCHANGED <<rowVars, schedVars, zone, answer, errors>>

FindJob(r) ==
  /\ At(r, "find")
  /\ LET j == req[r].job IN
     \/ row[j].deleted /\ Answer(r, "error") /\ UNCHANGED errors
     \/ ~row[j].deleted /\ Goto(r, "loaded", [model |-> row[j]]) /\ UNCHANGED errors
     \/ Failing /\ Answer(r, "error")
  /\ UNCHANGED <<rowVars, schedVars, zone>>

\* update_job: an unloaded job and an invalid expression are refused; the
\* plan is computed anew only when the expression changes.
CheckUpdate(r) ==
  /\ At(r, "loaded") /\ req[r].kind = "update"
  /\ LET model == req[r].model
         want == Merged(req[r].change, Def(model))
     IN
     \/ /\ req[r].job \notin DOMAIN mem \/ want.expr = "bad"
        /\ Answer(r, "error")
     \/ /\ req[r].job \in DOMAIN mem /\ want.expr # "bad"
        /\ Goto(r, "save",
                [want |-> want,
                 next |-> IF want.expr = model.expr THEN model.next
                          ELSE [expr |-> want.expr, zone |-> zone, from |-> now]])
  /\ UNCHANGED <<rowVars, schedVars, zone, errors>>

\* update_job_full: nothing is written where the row is deleted.
WriteDef(j, def, last, next) ==
  row' = IF row[j].deleted THEN row
         ELSE [row EXCEPT ![j].title = def.title, ![j].expr = def.expr,
                          ![j].enabled = def.enabled, ![j].last = last, ![j].next = next]

SaveDef(r) ==
  /\ At(r, "save")
  /\ LET j == req[r].job IN
     \/ /\ WriteDef(j, req[r].want, req[r].model.last, req[r].next)
        /\ IF row[j].deleted THEN Answer(r, "error") ELSE Goto(r, "apply", <<>>)
        /\ UNCHANGED errors
     \/ Failing /\ Answer(r, "error") /\ UNCHANGED row
  /\ UNCHANGED <<dbZone, schedVars, zone>>

\* Mutant: the row keeps the new definition.
RollbackNothing(r) ==
  /\ At(r, "rollback")
  /\ Answer(r, "error")
  /\ UNCHANGED <<rowVars, schedVars, zone, errors>>

\* update_job: the scheduler refused, the row gets the old definition back.
Rollback(r) ==
  /\ At(r, "rollback")
  /\ Answer(r, "error")
  /\ \/ /\ WriteDef(req[r].job, Def(req[r].model), req[r].model.last, req[r].model.next)
        /\ UNCHANGED errors
     \/ Failing /\ UNCHANGED row
  /\ UNCHANGED <<dbZone, schedVars, zone>>

\* soft_delete_job; only a job that was loaded concerns the scheduler.
CheckDelete(r) ==
  /\ At(r, "loaded") /\ req[r].kind = "delete"
  /\ LET j == req[r].job IN
     \/ j \notin DOMAIN mem /\ Goto(r, "softdelete", [known |-> FALSE])
     \/ j \in DOMAIN mem /\ Goto(r, "softdelete", [known |-> TRUE, back |-> Def(mem[j])])
  /\ UNCHANGED <<rowVars, schedVars, zone, errors>>

SoftDelete(r) ==
  /\ At(r, "softdelete")
  /\ LET j == req[r].job IN
     \/ /\ row' = [row EXCEPT ![j].deleted = TRUE, ![j].enabled = FALSE]
        /\ IF req[r].known THEN Goto(r, "unmap", <<>>) ELSE Answer(r, "ok")
        /\ UNCHANGED errors
     \/ Failing /\ Answer(r, "error") /\ UNCHANGED row
  /\ UNCHANGED <<dbZone, schedVars, zone>>

\* Mutant: that soft_delete has also disabled the row is forgotten.
RestoreDisabled(r) ==
  /\ At(r, "restore")
  /\ Answer(r, "error")
  /\ \/ /\ row' = [row EXCEPT ![req[r].job].deleted = FALSE]
        /\ UNCHANGED errors
     \/ Failing /\ UNCHANGED row
  /\ UNCHANGED <<dbZone, schedVars, zone>>

Restore(r) ==
  /\ At(r, "restore")
  /\ Answer(r, "error")
  /\ \/ /\ row' = [row EXCEPT ![req[r].job].deleted = FALSE,
                              ![req[r].job].enabled = req[r].back.enabled]
        /\ UNCHANGED errors
     \/ Failing /\ UNCHANGED row
  /\ UNCHANGED <<dbZone, schedVars, zone>>

-----------------------------------------------------------------------------
(***************************************************************************)
(* The scheduler and the map: update_job_in_memory,                        *)
(* remove_job_from_scheduler and add_job_internal.                         *)
(***************************************************************************)

\* update_job_in_memory: what is only metadata is written in place.
Apply(r) ==
  /\ At(r, "apply")
  /\ LET j == req[r].job
         want == req[r].want
     IN
     \/ j \notin DOMAIN mem /\ Fail(r) /\ UNCHANGED mem
     \/ /\ j \in DOMAIN mem
        /\ IF mem[j].expr = want.expr /\ mem[j].enabled = want.enabled
           THEN mem' = [mem EXCEPT ![j].title = want.title] /\ Succeed(r)
           ELSE Goto(r, "unmap", [back |-> Def(mem[j])]) /\ UNCHANGED mem
  /\ UNCHANGED <<rowVars, live, zone, errors>>

\* What follows once the old entry is out of the way.
Removed(r, locals) ==
  IF req[r].kind = "delete" THEN Succeed(r) ELSE Goto(r, "schedule", locals)

\* remove_job_from_scheduler takes the entry out of the map ...
Unmap(r) ==
  /\ At(r, "unmap")
  /\ LET j == req[r].job IN
     /\ mem' = [i \in DOMAIN mem \ {j} |-> mem[i]]
     /\ IF j \in DOMAIN mem /\ mem[j].enabled
        THEN Goto(r, "unschedule", [taken |-> {mem[j]}])
        ELSE Removed(r, <<>>)
  /\ UNCHANGED <<rowVars, live, zone, errors>>

\* Mutant: the trigger is only paused.
UnscheduleNothing(r) ==
  /\ At(r, "unschedule")
  /\ Removed(r, [taken |-> {}])
  /\ UNCHANGED <<rowVars, schedVars, zone, errors>>

\* ... and then its trigger out of the scheduler; where that fails the entry
\* goes back.
Unschedule(r) ==
  /\ At(r, "unschedule")
  /\ \E entry \in req[r].taken :
     \/ /\ live' = live \ {entry.trigger}
        /\ Removed(r, [taken |-> {}])
        /\ UNCHANGED <<mem, errors>>
     \/ /\ Failing
        /\ mem' = [i \in DOMAIN mem \cup {req[r].job} |->
                     IF i = req[r].job THEN entry ELSE mem[i]]
        /\ Fail(r)
        /\ UNCHANGED live
  /\ UNCHANGED <<rowVars, zone>>

\* update_job_in_memory tries the old definition when the new one fails.
AddFails(r) ==
  IF req[r].kind = "zone" \/ req[r].retry THEN Fail(r)
  ELSE Goto(r, "schedule", [want |-> req[r].back, retry |-> TRUE])

\* add_job_internal creates a trigger in the cached timezone, and hands it to
\* the scheduler unless the job is disabled ...
Entry(r) ==
  [title |-> req[r].want.title, expr |-> req[r].want.expr, enabled |-> req[r].want.enabled,
   trigger |-> [job |-> req[r].job, by |-> r, expr |-> req[r].want.expr, zone |-> zone]]

\* Mutant: a trigger that the scheduler refuses is not noticed.
ScheduleAnyway(r) ==
  /\ At(r, "schedule")
  /\ Goto(r, "map", [taken |-> {Entry(r)}])
  /\ \/ /\ live' = IF Entry(r).enabled THEN live \cup {Entry(r).trigger} ELSE live
        /\ UNCHANGED errors
     \/ Failing /\ UNCHANGED live
  /\ UNCHANGED <<rowVars, mem, zone>>

Schedule(r) ==
  /\ At(r, "schedule")
  /\ \/ /\ live' = IF Entry(r).enabled THEN live \cup {Entry(r).trigger} ELSE live
        /\ Goto(r, "map", [taken |-> {Entry(r)}])
        /\ UNCHANGED errors
     \/ /\ Failing
        /\ Entry(r).enabled
        /\ AddFails(r)
        /\ UNCHANGED live
  /\ UNCHANGED <<rowVars, mem, zone>>

\* ... and puts the entry into the map, over what is there.
Map(r) ==
  /\ At(r, "map")
  /\ \E entry \in req[r].taken :
       mem' = [i \in DOMAIN mem \cup {req[r].job} |->
                 IF i = req[r].job THEN entry ELSE mem[i]]
  /\ IF req[r].retry THEN Fail(r) ELSE Succeed(r)
  /\ UNCHANGED <<rowVars, live, zone, errors>>

-----------------------------------------------------------------------------
(***************************************************************************)
(* update_setting: timezone and language.  Neither takes the lock.         *)
(***************************************************************************)
BeginSetting(r) ==
  /\ At(r, "new") /\ up
  /\ \/ \E z \in Zones : /\ "zone" \in Kinds
                        /\ req' = [req EXCEPT ![r] =
                                     [Locals("zone", AnyJob) EXCEPT !.value = z]]
     \/ \E l \in Langs : /\ "lang" \in Kinds
                        /\ req' = [req EXCEPT ![r] =
                                     [Locals("lang", AnyJob) EXCEPT !.value = l]]
  /\ pc' = [pc EXCEPT ![r] = "read"]
  /\ UNCHANGED <<rowVars, schedVars, zone, lock, answer, errors>>

\* A timezone that changes rebuilds every job first: reload_all_jobs.
ReadSetting(r) ==
  /\ At(r, "read")
  /\ \/ /\ IF req[r].kind = "zone" /\ req[r].value # dbZone
           THEN Goto(r, "names", [names |-> DOMAIN mem])
           ELSE Goto(r, "store", <<>>)
        /\ UNCHANGED errors
     \/ Failing /\ Answer(r, "error")
  /\ UNCHANGED <<rowVars, schedVars, zone>>

\* The loops of reload_all_jobs and sync_titles_to_language, over the names
\* read before: the end, ...
NamesDone(r) ==
  /\ At(r, "names")
  /\ req[r].names = {}
  /\ \/ req[r].kind = "lang" /\ Answer(r, "ok")
     \/ req[r].kind = "zone" /\ req[r].failed /\ Answer(r, "error")
     \/ req[r].kind = "zone" /\ ~req[r].failed /\ Goto(r, "store", <<>>)
  /\ UNCHANGED <<rowVars, schedVars, zone, errors>>

\* ... a job to rebuild, if it is still in the map, ...
ReloadNext(r) ==
  /\ At(r, "names") /\ req[r].kind = "zone"
  /\ \E j \in req[r].names :
       Goto(r, IF j \in DOMAIN mem THEN "unmap" ELSE "names",
            [names |-> req[r].names \ {j}, job |-> j,
             want |-> IF j \in DOMAIN mem THEN Def(mem[j]) ELSE req[r].want])
  /\ UNCHANGED <<rowVars, schedVars, zone, errors>>

\* ... a job to rename, if its title is the default of the other language.
SyncNext(r) ==
  /\ At(r, "names") /\ req[r].kind = "lang"
  /\ \E j \in req[r].names :
     LET skip == [names |-> req[r].names \ {j}] IN
     \/ /\ IF ~row[j].deleted /\ row[j].title \in Langs \ {req[r].value}
           THEN Goto(r, "apply",
                     [names |-> req[r].names \ {j}, job |-> j, model |-> row[j], retry |-> FALSE,
                      want |-> [Def(row[j]) EXCEPT !.title = req[r].value]])
           ELSE Goto(r, "names", skip)
        /\ UNCHANGED errors
     \/ Failing /\ Goto(r, "names", skip)
  /\ UNCHANGED <<rowVars, schedVars, zone>>

\* sync_titles_to_language writes the row it has read, with the new title.
PersistTitle(r) ==
  /\ At(r, "persist")
  /\ Goto(r, "names", <<>>)
  /\ LET model == req[r].model IN
     \/ /\ WriteDef(req[r].job, req[r].want, model.last, model.next)
        /\ UNCHANGED errors
     \/ Failing /\ UNCHANGED row
  /\ UNCHANGED <<dbZone, schedVars, zone>>

\* reload_all_jobs computes the plan of a cron job anew ...
Replan(r) ==
  /\ At(r, "replan")
  /\ LET j == req[r].job IN
     \/ /\ IF req[r].want.expr \in EveryExprs \/ row[j].deleted
           THEN Goto(r, "names", <<>>)
           ELSE Goto(r, "writeplan",
                     [model |-> row[j], next |-> [expr |-> req[r].want.expr, zone |-> zone, from |-> now]])
        /\ UNCHANGED errors
     \/ Failing /\ Goto(r, "names", <<>>)
  /\ UNCHANGED <<rowVars, schedVars, zone>>

\* update_run_times: nothing is written where the row is deleted.
SetPlan(j, last, next) ==
  row' = IF row[j].deleted THEN row
         ELSE [row EXCEPT ![j].last = last, ![j].next = next]

\* ... and writes it back with the last run it has read.
WriteReplan(r) ==
  /\ At(r, "writeplan")
  /\ Goto(r, "names", <<>>)
  /\ \/ SetPlan(req[r].job, req[r].model.last, req[r].next) /\ UNCHANGED errors
     \/ Failing /\ UNCHANGED row
  /\ UNCHANGED <<dbZone, schedVars, zone>>

StoreSetting(r) ==
  /\ At(r, "store")
  /\ \/ /\ dbZone' = IF req[r].kind = "zone" THEN req[r].value ELSE dbZone
        /\ Goto(r, "cache", <<>>)
        /\ UNCHANGED errors
     \/ Failing /\ Answer(r, "error") /\ UNCHANGED dbZone
  /\ UNCHANGED <<row, schedVars, zone>>

\* AppSettings::update; a new language then renames the jobs.
CacheSetting(r) ==
  /\ At(r, "cache")
  /\ \/ req[r].kind = "zone" /\ zone' = req[r].value /\ Answer(r, "ok")
     \/ req[r].kind = "lang" /\ Goto(r, "names", [names |-> DOMAIN mem]) /\ UNCHANGED zone
  /\ UNCHANGED <<rowVars, schedVars, errors>>

-----------------------------------------------------------------------------
(***************************************************************************)
(* Executions, as far as they concern the plan.                            *)
(***************************************************************************)
Submit(j, expr) ==
  /\ up
  /\ fired < MaxRuns
  /\ fired' = fired + 1
  /\ runs' = runs \cup {[id |-> fired + 1, job |-> j, expr |-> expr, plan |-> {}, at |-> 0]}
  /\ UNCHANGED <<startVars, rowVars, schedVars, zone, lock, reqVars, now, errors, stops, cancels>>

Tick      == \E t \in live : Submit(t.job, t.expr)
RunJobNow == \E j \in DOMAIN mem : Submit(j, mem[j].expr)

\* on_run_finished computes the plan by the expression of the invocation ...
RunEnds ==
  /\ \E x \in runs :
       /\ x.plan = {}
       /\ now' = now + 1
       /\ runs' = (runs \ {x}) \cup
            {[x EXCEPT !.plan = {[expr |-> x.expr, zone |-> zone, from |-> now + 1]},
                        !.at = now + 1]}
  /\ UNCHANGED <<startVars, rowVars, schedVars, zone, lock, reqVars, fired, errors, stops, cancels>>

\* Mutant: update_run_times does not leave out deleted rows.
WritePlanAnyway ==
  /\ \E x \in runs : \E plan \in x.plan :
       /\ runs' = runs \ {x}
       /\ row' = [row EXCEPT ![x.job].last = x.at, ![x.job].next = plan]
       /\ UNCHANGED errors
  /\ UNCHANGED <<startVars, dbZone, schedVars, zone, lock, reqVars, fired, now, stops, cancels>>

\* ... and writes it.
WritePlan ==
  /\ \E x \in runs : \E plan \in x.plan :
       /\ runs' = runs \ {x}
       /\ \/ SetPlan(x.job, x.at, plan) /\ UNCHANGED errors
          \/ Failing /\ UNCHANGED row
  /\ UNCHANGED <<startVars, dbZone, schedVars, zone, lock, reqVars, fired, now, stops, cancels>>

-----------------------------------------------------------------------------
(***************************************************************************)
(* Disconnecting clients and the end of the process.                       *)
(***************************************************************************)

\* The server drops the future of a request at the await where it is.
Disconnect(r) ==
  /\ pc[r] \in Busy
  /\ cancels < MaxCancels
  /\ cancels' = cancels + 1
  /\ pc' = [pc EXCEPT ![r] = "lost"]
  /\ req' = [req EXCEPT ![r] = Blank]
  /\ lock' = lock \ {r}
  /\ UNCHANGED <<startVars, rowVars, schedVars, zone, answer, runVars, errors, stops>>

Down ==
  /\ up
  /\ stops < MaxStops
  /\ stops' = stops + 1
  /\ up' = FALSE
  /\ mem' = <<>>
  /\ live' = {}
  /\ lock' = {}
  /\ pc' = [r \in Requests |-> IF pc[r] \in Busy THEN "lost" ELSE pc[r]]
  /\ req' = [r \in Requests |-> Blank]
  /\ runs' = {}
  /\ UNCHANGED <<skipped, rowVars, zone, answer, fired, now, errors, cancels>>

\* load_from_db plans an @every job anew before it adds it, and a cron job
\* that has missed a run after it has added it; the latter may fail.
Active(j) == j \in Handled /\ ~row[j].deleted

NewPlan(j) == [expr |-> row[j].expr, zone |-> dbZone, from |-> now]

ResetPlan(j) ==
  IF Active(j) /\ row[j].expr \in EveryExprs THEN NewPlan(j) ELSE row[j].next

Replanned(j) ==
  {ResetPlan(j)} \cup IF Active(j) /\ row[j].enabled THEN {NewPlan(j)} ELSE {}

\* Every row gets one of its plans.
LoadPlans(plans) ==
  \E plan \in [Jobs -> UNION {plans[j] : j \in Jobs}] :
    /\ \A j \in Jobs : plan[j] \in plans[j]
    /\ row' = [j \in Jobs |-> [row[j] EXCEPT !.next = plan[j]]]

\* A job the scheduler refuses is logged and left out, and the process serves
\* without it.
Boot ==
  /\ ~up
  /\ up' = TRUE
  /\ skipped' \in SUBSET {j \in Jobs : Active(j) /\ row[j].enabled}
  /\ IF skipped' = {} THEN UNCHANGED errors ELSE Failing
  /\ zone' = dbZone
  /\ mem' = Load(row, dbZone, skipped')
  /\ live' = Triggered(mem')
  /\ LoadPlans([j \in Jobs |-> IF j \in skipped' THEN {ResetPlan(j)} ELSE Replanned(j)])
  /\ UNCHANGED <<dbZone, lock, reqVars, runVars, stops, cancels>>

\* A failing database operation ends the start, with some jobs planned anew.
BootFails ==
  /\ ~up
  /\ Failing
  /\ LoadPlans([j \in Jobs |-> {row[j].next} \cup Replanned(j)])
  /\ UNCHANGED <<startVars, dbZone, schedVars, zone, lock, reqVars, runVars, stops, cancels>>

Edit(r) ==
  \/ BeginEdit(r) \/ FindJob(r) \/ CheckUpdate(r) \/ SaveDef(r) \/ Rollback(r)
  \/ CheckDelete(r) \/ SoftDelete(r) \/ Restore(r)

Rebuild(r) == Apply(r) \/ Unmap(r) \/ Unschedule(r) \/ Schedule(r) \/ Map(r)

ChangeSetting(r) ==
  \/ BeginSetting(r) \/ ReadSetting(r) \/ NamesDone(r) \/ ReloadNext(r) \/ SyncNext(r)
  \/ PersistTitle(r) \/ Replan(r) \/ WriteReplan(r) \/ StoreSetting(r) \/ CacheSetting(r)

Next ==
  \/ \E r \in Requests : Edit(r) \/ Rebuild(r) \/ ChangeSetting(r) \/ Disconnect(r)
  \/ Tick \/ RunJobNow \/ RunEnds \/ WritePlan
  \/ Down \/ Boot \/ BootFails

Spec == Init /\ [][Next]_vars

-----------------------------------------------------------------------------
(***************************************************************************)
(* Properties.                                                             *)
(***************************************************************************)
Loadable(j) == Active(j) /\ j \notin skipped

TriggersOf(j) == {t \in live : t.job = j}

\* The table, the map and the scheduler agree about a job.
Agree(j) ==
  IF Loadable(j)
  THEN /\ j \in DOMAIN mem
       /\ Def(mem[j]) = Def(row[j])
       /\ TriggersOf(j) = IF mem[j].enabled THEN {mem[j].trigger} ELSE {}
  ELSE j \notin DOMAIN mem /\ TriggersOf(j) = {}

\* Between requests the table, the map and the scheduler agree about every
\* job: through edits, deletes, one failing operation anywhere and restarts.
\* A job that the last start skipped (scheduler.rs:126) is in neither the map
\* nor the scheduler until the next start, whatever is done to its row.
Agreement == (up /\ Quiet) => \A j \in Jobs : Agree(j)

\* Also in the middle of an edit that stops the old trigger, starts the new
\* one or puts the old one back, a job never has two triggers that fire.
OneTrigger == \A j \in Jobs : Cardinality(TriggersOf(j)) <= 1

\* An answer tells what happened to the row: a request that was refused or
\* rolled back left the definition as it found it, one that was granted has
\* written all of it.
AnswersAreTrue ==
  [][\A r \in Requests :
       (pc[r] \in Busy \ {"find"} /\ pc'[r] = "done") =>
         LET j == req[r].job IN
         IF answer'[r] = "error"
         THEN Def(row'[j]) = Def(req[r].model) /\ ~row'[j].deleted
         ELSE IF req[r].kind = "delete" THEN row'[j].deleted
              ELSE Def(row'[j]) = req[r].want]_vars

\* However requests overlap, fail or are cut off, a job that is listed as
\* enabled has its trigger in the scheduler.
EnabledEntriesFire ==
  \A j \in DOMAIN mem : mem[j].enabled => mem[j].trigger \in live

\* A deleted row stays as it is, whatever executions and setting changes
\* that began before the deletion still write; only the delete itself may
\* take it back.
DeletedRowsFrozen ==
  [][\A j \in Jobs :
       (row[j].deleted /\ row'[j] # row[j]) =>
         \E r \in Requests : pc[r] = "restore" /\ req[r].job = j]_vars

\* A job that was deleted comes back into the map only by a rebuild that runs
\* without the lock and had taken it out before (scheduler.rs:266), or where
\* the delete itself fails to remove the trigger and undoes what it did.
DeletedReturnsOnlyByReload ==
  [][\A j \in DOMAIN mem' \ DOMAIN mem :
       row[j].deleted =>
         \E r \in Requests :
           /\ pc[r] \in {"unschedule", "map"} /\ req[r].job = j
           /\ \/ req[r].kind \in {"zone", "lang"}
              \/ req[r].kind = "delete" /\ pc'[r] = "restore"]_vars

(***************************************************************************)
(* What a comment of the repository says and the code does not do.         *)
(***************************************************************************)

\* settings.rs:125: a changed timezone has been applied to the jobs when it
\* is stored.
TimezoneApplied ==
  Quiet => \A t \in live : t.zone = zone

=============================================================================
