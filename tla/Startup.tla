------------------------------- MODULE Startup -------------------------------
(***************************************************************************)
(* Boot and end of the process over a database of any age: the tables, the *)
(* versioned migrations and the seeds (src/src/db.rs, src/src/             *)
(* app_settings.rs, src/src/cron/seed.rs, src/src/lib.rs), and the cache   *)
(* of the settings while it serves (src/src/routes/settings.rs).           *)
(*                                                                         *)
(* The statements of the boot are actions of their own, except that tables *)
(* which a migration tells apart in no way are created by one action (see  *)
(* Tables), and that a transaction up to its first write is one action and *)
(* the rest of it another.  Processes share the file: nothing stops a new  *)
(* one from booting while another serves or boots.  Any statement may fail *)
(* and the process may stop anywhere; compose.yaml restarts it.  SQLite    *)
(* runs in WAL mode: a transaction that has read and then writes fails at  *)
(* once when another connection has committed in between.                  *)
(***************************************************************************)
EXTENDS Integers, Sequences, Functions

CONSTANTS
  Procs,     \* processes that use the file
  Missing,   \* there is no row
  MaxEnds,   \* bound: ends of a process by a signal, a crash or a failing statement
  MaxPuts    \* bound: settings stored by requests

\* The tables migrate creates: "other" stands for the four no migration is
\* about, "runs_and_logs" for the two version 5 is about.
Tables == <<"other", "cron_jobs", "runs_and_logs", "channel", "schema_migrations">>
Columns == {"group", "is_deleted"}
Indexes == {"session", "name", "runs", "logs", "logs_seq"}
Objects == Range(Tables) \cup Columns \cup Indexes

Latest == 7
Versions == 1 .. Latest

\* A table created now has all the columns of its entity.
Created(table) == {table} \cup (IF table = "cron_jobs" THEN Columns ELSE {})

\* What the migrations add; version 2 adds the columns that were missing.
Adds(v, columns) ==
  CASE v = 1 -> {"session"}
    [] v = 2 -> columns
    [] v = 5 -> {"runs", "logs"}
    [] v = 6 -> {"logs_seq"}
    [] v = 7 -> {"channel"}
    [] OTHER -> {}

Drops(v) ==
  CASE v = 4 -> {"name"}
    [] v = 6 -> {"logs"}
    [] OTHER -> {}

\* The schema this program works with.
Current == Objects \ {"name", "logs"}

\* What a program of the age of version v left behind: the tables of the
\* time, and the index on the name that version 3 used to add.
OldTables(v) ==
  Range(Tables)
    \ ((IF v < 5 THEN {"runs_and_logs"} ELSE {}) \cup (IF v < 7 THEN {"channel"} ELSE {}))

OldIndexes(v) ==
  (IF v >= 1 THEN {"session"} ELSE {}) \cup (IF v = 3 THEN {"name"} ELSE {})
    \cup (IF v >= 5 THEN {"runs"} ELSE {}) \cup (IF v = 5 THEN {"logs"} ELSE {})
    \cup (IF v >= 6 THEN {"logs_seq"} ELSE {})

Seeds == <<"language", "timezone">>
Settings == Range(Seeds)
Values == {"default", "other", "local"}

ASSUME StartupAssumption == Missing \notin Values

VARIABLES
  schema,    \* tables, columns and indexes of the file
  versions,  \* rows of schema_migrations
  settings,  \* rows of setting
  job,       \* the row of the example job: Missing, "there" or "deleted"
  step,      \* what each process is doing; a column: looking for it
  at,        \* which table, version or seed it is at
  missing,   \* columns it did not find
  stale,     \* another connection has committed since its transaction began
  cache,     \* its AppSettings
  pending,   \* settings it has stored and not cached yet
  mixed,     \* its cache was overtaken by another request (for the properties only)
  ends,      \* ends so far
  puts       \* settings stored by requests so far

fileVars == <<schema, versions, settings, job>>
bootVars == <<step, at, missing, stale>>
cacheVars == <<cache, pending, mixed>>
vars == <<schema, versions, settings, job, step, at, missing, stale,
          cache, pending, mixed, ends, puts>>

\* AppSettings::default.
Fresh == [k \in Settings |-> "default"]

Booting == {"create", "begin", "apply", "seed", "insert", "load", "job", "add_job"}
             \cup Columns
Steps == Booting \cup {"down", "serve", "drain"}

TypeOK ==
  /\ schema \subseteq Objects
  /\ versions \subseteq Versions
  /\ settings \in [Settings -> Values \cup {Missing}]
  /\ job \in {Missing, "there", "deleted"}
  /\ step \in [Procs -> Steps]
  /\ at \in [Procs -> Nat \ {0}]
  /\ missing \in [Procs -> SUBSET Columns]
  /\ stale \in [Procs -> BOOLEAN]
  /\ cache \in [Procs -> [Settings -> Values]]
  /\ pending \in [Procs -> SUBSET (Settings \X Values)]
  /\ mixed \in [Procs -> BOOLEAN]
  /\ ends \in Nat /\ puts \in Nat

\* A new file, or one an older program has left, before or after its seeds;
\* its user has changed the settings and deleted the job.
Init ==
  /\ \/ /\ schema = {} /\ versions = {}
        /\ settings = [k \in Settings |-> Missing]
        /\ job = Missing
     \/ \E v \in 0 .. Latest :
          /\ schema = OldTables(v) \cup OldIndexes(v) \cup (IF v < 2 THEN {} ELSE Columns)
          /\ versions = 1 .. v
          /\ \/ settings = [k \in Settings |-> Missing] /\ job = Missing
             \/ settings = [k \in Settings |-> "other"] /\ job = "deleted"
  /\ step = [p \in Procs |-> "down"]
  /\ at = [p \in Procs |-> 1]
  /\ missing = [p \in Procs |-> {}]
  /\ stale = [p \in Procs |-> FALSE]
  /\ cache = [p \in Procs |-> Fresh]
  /\ pending = [p \in Procs |-> {}]
  /\ mixed = [p \in Procs |-> FALSE]
  /\ ends = 0 /\ puts = 0

Goto(p, next, n) ==
  /\ step' = [step EXCEPT ![p] = next]
  /\ at' = [at EXCEPT ![p] = n]

\* A commit of p spoils the transactions the others have begun.
Commits(p) == stale' = [q \in Procs |-> stale[q] \/ (q # p /\ step[q] = "apply")]

\* The boot fails: run returns the error and main exits.
Exit(p) == Goto(p, "down", 1)

\* The memory of a process that has served is gone.
Forget(p) ==
  /\ cache' = [cache EXCEPT ![p] = Fresh]
  /\ pending' = [pending EXCEPT ![p] = {}]
  /\ mixed' = [mixed EXCEPT ![p] = FALSE]

-----------------------------------------------------------------------------
(***************************************************************************)
(* migrate.                                                                *)
(***************************************************************************)
Start(p) ==
  /\ step[p] = "down"
  /\ Goto(p, "create", 1)
  /\ missing' = [missing EXCEPT ![p] = {}]
  /\ UNCHANGED <<fileVars, stale, cacheVars, ends, puts>>

\* CREATE TABLE IF NOT EXISTS.
Create(p) ==
  /\ step[p] = "create"
  /\ LET table == Tables[at[p]]
     IN  IF table \in schema
         THEN UNCHANGED <<schema, stale>>
         ELSE schema' = schema \cup Created(table) /\ Commits(p)
  /\ IF at[p] < Len(Tables) THEN Goto(p, "create", at[p] + 1) ELSE Goto(p, "begin", 1)
  /\ UNCHANGED <<versions, settings, job, missing, cacheVars, ends, puts>>

\* Mutant: the settings are loaded before their seeds are in place.
LoadThenSeed(phase) ==
  CASE phase = "migrate" -> "load" [] phase = "load" -> "seed" [] phase = "seed" -> "job"

\* The order of init.
FollowedBy(phase) ==
  CASE phase = "migrate" -> "seed" [] phase = "seed" -> "load" [] phase = "load" -> "job"

\* Version 2 looks for its columns first.
NextVersion(p) ==
  IF at[p] < Latest
  THEN Goto(p, IF at[p] = 1 THEN "group" ELSE "begin", at[p] + 1)
  ELSE Goto(p, FollowedBy("migrate"), 1)

\* Mutant: one version for each column, so the second finds it recorded.
LookForOne(p, column) ==
  /\ step[p] = column
  /\ missing' = [missing EXCEPT ![p] = IF column \in schema \/ @ # {} THEN @ ELSE {column}]
  /\ Goto(p, IF column = "group" THEN "is_deleted" ELSE "begin", 2)
  /\ UNCHANGED <<fileVars, stale, cacheVars, ends, puts>>

\* Mutant: the columns are added without looking.
LookForNone(p, column) ==
  /\ step[p] = column
  /\ missing' = [missing EXCEPT ![p] = @ \cup {column}]
  /\ Goto(p, IF column = "group" THEN "is_deleted" ELSE "begin", 2)
  /\ UNCHANGED <<fileVars, stale, cacheVars, ends, puts>>

\* column_exists, before and outside the transaction.
LookFor(p, column) ==
  /\ step[p] = column
  /\ missing' = [missing EXCEPT ![p] = IF column \in schema THEN @ ELSE @ \cup {column}]
  /\ Goto(p, IF column = "group" THEN "is_deleted" ELSE "begin", 2)
  /\ UNCHANGED <<fileVars, stale, cacheVars, ends, puts>>

\* The transaction begins with the version guard.
Begin(p) ==
  /\ step[p] = "begin"
  /\ IF at[p] \in versions
     THEN NextVersion(p) /\ UNCHANGED stale
     ELSE Goto(p, "apply", at[p]) /\ stale' = [stale EXCEPT ![p] = FALSE]
  /\ UNCHANGED <<fileVars, missing, cacheVars, ends, puts>>

\* The first write fails after a commit by another connection, and ADD COLUMN
\* when the column is there; otherwise the changes and the version are
\* committed together.
Apply(p) ==
  /\ step[p] = "apply"
  /\ IF stale[p] \/ (at[p] = 2 /\ missing[p] \cap schema # {})
     THEN Exit(p) /\ UNCHANGED <<schema, versions, stale>>
     ELSE /\ schema' = (schema \cup Adds(at[p], missing[p])) \ Drops(at[p])
          /\ versions' = versions \cup {at[p]}
          /\ NextVersion(p)
          /\ Commits(p)
  /\ UNCHANGED <<settings, job, missing, cacheVars, ends, puts>>

-----------------------------------------------------------------------------
(***************************************************************************)
(* The rest of init.                                                       *)
(***************************************************************************)
NextSeed(p) ==
  IF at[p] < Len(Seeds) THEN Goto(p, "seed", at[p] + 1)
                        ELSE Goto(p, FollowedBy("seed"), 1)

\* seed_rows looks for a row first.
FindSetting(p) ==
  /\ step[p] = "seed"
  /\ IF settings[Seeds[at[p]]] = Missing THEN Goto(p, "insert", at[p]) ELSE NextSeed(p)
  /\ UNCHANGED <<fileVars, missing, stale, cacheVars, ends, puts>>

\* Mutant: the row is replaced when there is one by now.
InsertOrReplace(p) ==
  /\ step[p] = "insert"
  /\ settings' = [settings EXCEPT ![Seeds[at[p]]] = "default"]
  /\ NextSeed(p)
  /\ Commits(p)
  /\ UNCHANGED <<schema, versions, job, missing, cacheVars, ends, puts>>

\* The key is unique: a row that has appeared since makes the insert fail.
InsertSetting(p) ==
  /\ step[p] = "insert"
  /\ LET key == Seeds[at[p]]
     IN  IF settings[key] # Missing
         THEN Exit(p) /\ UNCHANGED <<settings, stale>>
         ELSE /\ settings' = [settings EXCEPT ![key] = "default"]
              /\ NextSeed(p)
              /\ Commits(p)
  /\ UNCHANGED <<schema, versions, job, missing, cacheVars, ends, puts>>

\* AppSettings::load_from_db; without a row there is a fallback.
Load(p) ==
  /\ step[p] = "load"
  /\ cache' = [cache EXCEPT ![p] =
                 [k \in Settings |->
                    IF settings[k] # Missing THEN settings[k]
                    ELSE IF k = "timezone" THEN "local" ELSE "default"]]
  /\ mixed' = [mixed EXCEPT ![p] = FALSE]
  /\ Goto(p, FollowedBy("load"), 1)
  /\ UNCHANGED <<fileVars, missing, stale, pending, ends, puts>>

\* ensure_example_job finds the row of a deleted job too.
FindJob(p) ==
  /\ step[p] = "job"
  /\ Goto(p, IF job = Missing THEN "add_job" ELSE "serve", 1)
  /\ UNCHANGED <<fileVars, missing, stale, cacheVars, ends, puts>>

\* The name is unique.
AddJob(p) ==
  /\ step[p] = "add_job"
  /\ IF job # Missing
     THEN Exit(p) /\ UNCHANGED <<job, stale>>
     ELSE job' = "there" /\ Goto(p, "serve", 1) /\ Commits(p)
  /\ UNCHANGED <<schema, versions, settings, missing, cacheVars, ends, puts>>

-----------------------------------------------------------------------------
(***************************************************************************)
(* Serving and ending.                                                     *)
(***************************************************************************)
Serving(p) == step[p] \in {"serve", "drain"}

\* update_setting stores the value; the requests under way go on while the
\* HTTP server is drained.
StoreSetting(p, key, value) ==
  /\ Serving(p)
  /\ puts < MaxPuts
  /\ settings' = [settings EXCEPT ![key] = value]
  /\ pending' = [pending EXCEPT ![p] = @ \cup {<<key, value>>}]
  /\ mixed' = [q \in Procs |->
                 \/ mixed[q] \/ q # p
                 \/ \E w \in pending[p] : w[1] = key]
  /\ Commits(p)
  /\ puts' = puts + 1
  /\ UNCHANGED <<schema, versions, job, step, at, missing, cache, ends>>

\* AppSettings::update.
CacheSetting(p, w) ==
  /\ Serving(p)
  /\ w \in pending[p]
  /\ cache' = [cache EXCEPT ![p][w[1]] = w[2]]
  /\ pending' = [pending EXCEPT ![p] = @ \ {w}]
  /\ UNCHANGED <<fileVars, bootVars, mixed, ends, puts>>

\* A request deletes the example job, softly.
DeleteJob(p) ==
  /\ Serving(p)
  /\ job = "there"
  /\ job' = "deleted"
  /\ Commits(p)
  /\ UNCHANGED <<schema, versions, settings, step, at, missing, cacheVars, ends, puts>>

\* The signal ends serve_until_shutdown, whose drain ends by itself or at its
\* limit.
Signal(p) ==
  /\ step[p] = "serve"
  /\ ends < MaxEnds
  /\ ends' = ends + 1
  /\ Goto(p, "drain", 1)
  /\ UNCHANGED <<fileVars, missing, stale, cacheVars, puts>>

Drained(p) ==
  /\ step[p] = "drain"
  /\ Exit(p)
  /\ Forget(p)
  /\ UNCHANGED <<fileVars, missing, stale, ends, puts>>

\* A crash anywhere, or a statement of the boot fails.
Crash(p) ==
  /\ step[p] # "down"
  /\ ends < MaxEnds
  /\ ends' = ends + 1
  /\ Exit(p)
  /\ Forget(p)
  /\ UNCHANGED <<fileVars, missing, stale, puts>>

Boot(p) ==
  \/ Start(p) \/ Create(p) \/ Begin(p) \/ Apply(p)
  \/ \E column \in Columns : LookFor(p, column)
  \/ FindSetting(p) \/ InsertSetting(p) \/ Load(p)
  \/ FindJob(p) \/ AddJob(p)

Request(p) ==
  \/ \E key \in Settings, value \in {"default", "other"} : StoreSetting(p, key, value)
  \/ \E w \in Settings \X Values : CacheSetting(p, w)
  \/ DeleteJob(p)

Next ==
  \E p \in Procs : Boot(p) \/ Request(p) \/ Signal(p) \/ Drained(p) \/ Crash(p)

\* The runtime runs init, and the drain has a limit; requests owe nothing.
Fairness == \A p \in Procs : WF_vars(Boot(p)) /\ WF_vars(Drained(p))

Spec == Init /\ [][Next]_vars /\ Fairness

-----------------------------------------------------------------------------
(***************************************************************************)
(* Properties.                                                             *)
(***************************************************************************)

\* Whatever file it started from, whatever crashed between two steps and
\* whoever else migrated at the same time: a process that has left migrate
\* finds every table, column and index of this program and none of the
\* dropped ones, and every version is recorded.
Migrated(p) == step[p] \notin {"down", "create", "begin", "apply"} \cup Columns

SchemaIsCurrent ==
  \A p \in Procs : Migrated(p) => schema = Current /\ versions = Versions

\* A process that serves has cached what the table says, in its first life
\* as well (the comment at app_settings.rs:72), unless another process or an
\* overlapping request stored the setting, or one is about to be cached.
CacheAgrees ==
  \A p \in Procs : Serving(p) /\ ~mixed[p] =>
    \A k \in Settings :
      (\A w \in pending[p] : w[1] # k) => cache[p][k] = settings[k]

\* Booting adds rows and never touches one that is there: what users chose
\* stays, and a deleted job does not come back, however many processes boot
\* over each other.
SeedingOnlyAdds ==
  [][/\ \A k \in Settings :
          settings'[k] # settings[k] => settings[k] = Missing \/ puts' # puts
     /\ job' # job => job = Missing \/ job' = "deleted"]_vars

\* When crashes cease, every process comes to serve: a boot that fails
\* because of another one, or that was cut off anywhere, leaves a file the
\* next boot copes with.
BootEnds == \A p \in Procs : []<>(step[p] = "serve")

=============================================================================
