---------------------------- MODULE StartupProofs ----------------------------
(***************************************************************************)
(* The schema is complete once a process has left migrate, for any number  *)
(* of processes and of crashes, from a file of any age.                    *)
(*                                                                         *)
(* The argument: the recorded versions are always a prefix, and what each  *)
(* of them is for is in the file together with it (FileOK).  A process     *)
(* knows which tables, versions and columns it has passed, and these only  *)
(* grow (Knows); a transaction that is not spoiled has seen that its       *)
(* version is missing and still finds it missing when it writes.           *)
(***************************************************************************)
EXTENDS Startup, TLAPS

AllTables == Range(Tables)

FileOK ==
  /\ \A v \in versions : 1 .. v \subseteq versions
  /\ 1 \in versions => "session" \in schema
  /\ 2 \in versions => Columns \subseteq schema
  /\ 4 \in versions => "name" \notin schema
  /\ 5 \in versions => "runs" \in schema
  /\ 6 \in versions => "logs_seq" \in schema /\ "logs" \notin schema

\* Where a process is in its tables and versions.
Placed(p) ==
  /\ step[p] = "create" => at[p] \in DOMAIN Tables
  /\ step[p] \in Columns => at[p] = 2
  /\ step[p] \in {"begin", "apply"} => at[p] \in Versions
  /\ step[p] \in {"seed", "insert"} => at[p] \in DOMAIN Seeds

\* The tables, versions and columns it has behind it.
Passed(p) ==
  /\ step[p] = "create" => \A i \in DOMAIN Tables : i < at[p] => Tables[i] \in schema
  /\ step[p] \notin {"down", "create"} => AllTables \subseteq schema
  /\ step[p] \in {"begin", "apply"} \cup Columns =>
       \A v \in Versions : v < at[p] => v \in versions
  /\ Migrated(p) => Versions \subseteq versions

Looked(p) ==
  /\ step[p] = "is_deleted" => "group" \in schema \cup missing[p]
  /\ step[p] \in {"begin", "apply"} /\ at[p] = 2 => Columns \subseteq schema \cup missing[p]

Guarded(p) == step[p] = "apply" /\ ~stale[p] => at[p] \notin versions

Knows(p) == Placed(p) /\ Passed(p) /\ Looked(p) /\ Guarded(p)

SchemaInv == TypeOK /\ FileOK /\ \A p \in Procs : Knows(p)

-----------------------------------------------------------------------------
(***************************************************************************)
(* Types.                                                                  *)
(***************************************************************************)
\* The constants of the module as the provers see them.
LEMMA TheTables ==
  /\ DOMAIN Tables = 1 .. 5 /\ Len(Tables) = 5
  /\ AllTables = {"other", "cron_jobs", "runs_and_logs", "channel", "schema_migrations"}
  /\ \A i \in 1 .. 5 : Tables[i] \in AllTables
  /\ \A i \in 1 .. 5, j \in 1 .. 5 : Tables[i] = Tables[j] => i = j
BY DEF Tables, AllTables, Range

LEMMA TheSeeds ==
  /\ DOMAIN Seeds = 1 .. 2 /\ Len(Seeds) = 2
  /\ Settings = {"language", "timezone"}
  /\ Seeds[1] \in Settings /\ Seeds[2] \in Settings
BY DEF Seeds, Settings, Range

LEMMA TheObjects ==
  /\ Objects = AllTables \cup Columns \cup Indexes
  /\ \A t \in AllTables : Created(t) \subseteq Objects
  /\ \A v \in Versions, c \in SUBSET Columns : Adds(v, c) \subseteq Objects
BY TheTables DEF Objects, AllTables, Created, Adds, Columns, Indexes

LEMMA GotoTypes ==
  ASSUME TypeOK, NEW p \in Procs, NEW next \in Steps, NEW n \in Nat \ {0}, Goto(p, next, n)
  PROVE  step' \in [Procs -> Steps] /\ at' \in [Procs -> Nat \ {0}]
BY DEF TypeOK, Goto

LEMMA PhasesAreSteps ==
  /\ \A phase \in {"migrate", "seed", "load"} : FollowedBy(phase) \in Booting
  /\ Booting \subseteq Steps
BY DEF FollowedBy, Booting, Steps

LEMMA CommitsTypes ==
  ASSUME TypeOK, NEW p, Commits(p)
  PROVE  stale' \in [Procs -> BOOLEAN]
BY Zenon DEF TypeOK, Commits

LEMMA ForgetTypes ==
  ASSUME TypeOK, NEW p \in Procs, Forget(p)
  PROVE  /\ cache' \in [Procs -> [Settings -> Values]]
         /\ pending' \in [Procs -> SUBSET (Settings \X Values)]
         /\ mixed' \in [Procs -> BOOLEAN]
<1>1. Fresh \in [Settings -> Values]
  BY DEF Fresh, Values
<1>2. {} \in SUBSET (Settings \X Values)
  OBVIOUS
<1> QED
  BY <1>1, <1>2 DEF TypeOK, Forget

LEMMA NextVersionTypes ==
  ASSUME TypeOK, NEW p \in Procs, NextVersion(p)
  PROVE  step' \in [Procs -> Steps] /\ at' \in [Procs -> Nat \ {0}]
<1>1. {"group", "begin", FollowedBy("migrate")} \subseteq Steps
  BY PhasesAreSteps DEF Steps, Booting, Columns
<1>2. at[p] \in Nat \ {0}
  BY DEF TypeOK
<1> QED
  BY <1>1, <1>2, GotoTypes DEF NextVersion

LEMMA NextSeedTypes ==
  ASSUME TypeOK, NEW p \in Procs, NextSeed(p)
  PROVE  step' \in [Procs -> Steps] /\ at' \in [Procs -> Nat \ {0}]
<1>1. {"seed", FollowedBy("seed")} \subseteq Steps
  BY PhasesAreSteps DEF Steps, Booting
<1>2. at[p] \in Nat \ {0}
  BY DEF TypeOK
<1> QED
  BY <1>1, <1>2, GotoTypes DEF NextSeed

LEMMA BootTypes ==
  ASSUME TypeOK, NEW p \in Procs, Boot(p), Placed(p)
  PROVE  TypeOK'
<1>1. CASE Start(p)
  BY <1>1, GotoTypes DEF Start, fileVars, cacheVars, Steps, Booting, TypeOK
<1>2. CASE Create(p)
  <2>1. step' \in [Procs -> Steps] /\ at' \in [Procs -> Nat \ {0}]
    BY <1>2, GotoTypes DEF Create, Steps, Booting, TypeOK
  <2>2. Tables[at[p]] \in AllTables
    BY <1>2, TheTables DEF Create, Placed
  <2>3. schema' \subseteq Objects
    BY <1>2, <2>2, TheObjects DEF Create, TypeOK
  <2>4. stale' \in [Procs -> BOOLEAN]
    BY <1>2, CommitsTypes DEF Create, TypeOK
  <2> QED
    BY <1>2, <2>1, <2>3, <2>4 DEF Create, cacheVars, TypeOK
<1>3. CASE \E column \in Columns : LookFor(p, column)
  <2>1. PICK column \in Columns : LookFor(p, column)
    BY <1>3
  <2>2. step' \in [Procs -> Steps] /\ at' \in [Procs -> Nat \ {0}]
    BY <2>1, GotoTypes DEF LookFor, Steps, Booting, Columns
  <2> QED
    BY <2>1, <2>2 DEF LookFor, fileVars, cacheVars, TypeOK
<1>4. CASE Begin(p)
  <2>1. step' \in [Procs -> Steps] /\ at' \in [Procs -> Nat \ {0}]
    BY <1>4, GotoTypes, NextVersionTypes DEF Begin, Steps, Booting, TypeOK
  <2> QED
    BY <1>4, <2>1 DEF Begin, fileVars, cacheVars, TypeOK
<1>5. CASE Apply(p)
  <2>1. step' \in [Procs -> Steps] /\ at' \in [Procs -> Nat \ {0}]
    BY <1>5, GotoTypes, NextVersionTypes DEF Apply, Exit, Steps
  <2>2. schema' \subseteq Objects /\ versions' \subseteq Versions /\ stale' \in [Procs -> BOOLEAN]
    BY <1>5, TheObjects, CommitsTypes DEF Apply, Placed, TypeOK
  <2> QED
    BY <1>5, <2>1, <2>2 DEF Apply, cacheVars, TypeOK
<1>6. CASE FindSetting(p)
  <2>1. step' \in [Procs -> Steps] /\ at' \in [Procs -> Nat \ {0}]
    BY <1>6, GotoTypes, NextSeedTypes DEF FindSetting, Steps, Booting, TypeOK
  <2> QED
    BY <1>6, <2>1 DEF FindSetting, fileVars, cacheVars, TypeOK
<1>7. CASE InsertSetting(p)
  <2>1. step' \in [Procs -> Steps] /\ at' \in [Procs -> Nat \ {0}]
    BY <1>7, GotoTypes, NextSeedTypes DEF InsertSetting, Exit, Steps
  <2>2. settings' \in [Settings -> Values \cup {Missing}] /\ stale' \in [Procs -> BOOLEAN]
    BY <1>7, CommitsTypes DEF InsertSetting, Values, TypeOK
  <2> QED
    BY <1>7, <2>1, <2>2 DEF InsertSetting, cacheVars, TypeOK
<1>8. CASE Load(p)
  <2>1. step' \in [Procs -> Steps] /\ at' \in [Procs -> Nat \ {0}]
    BY <1>8, GotoTypes, PhasesAreSteps DEF Load
  <2>2. cache' \in [Procs -> [Settings -> Values]]
    BY <1>8 DEF Load, Values, TypeOK
  <2> QED
    BY <1>8, <2>1, <2>2 DEF Load, fileVars, TypeOK
<1>9. CASE FindJob(p)
  BY <1>9, GotoTypes DEF FindJob, fileVars, cacheVars, Steps, Booting, TypeOK
<1>10. CASE AddJob(p)
  <2>1. step' \in [Procs -> Steps] /\ at' \in [Procs -> Nat \ {0}]
    BY <1>10, GotoTypes DEF AddJob, Exit, Steps
  <2> QED
    BY <1>10, <2>1, CommitsTypes DEF AddJob, cacheVars, TypeOK
<1> QED
  BY <1>1, <1>2, <1>3, <1>4, <1>5, <1>6, <1>7, <1>8, <1>9, <1>10 DEF Boot

LEMMA OtherTypes ==
  ASSUME TypeOK, NEW p \in Procs, Request(p) \/ Signal(p) \/ Drained(p) \/ Crash(p)
  PROVE  TypeOK'
<1>1. CASE \E key \in Settings, value \in {"default", "other"} : StoreSetting(p, key, value)
  <2>1. PICK key \in Settings, value \in {"default", "other"} : StoreSetting(p, key, value)
    BY <1>1
  <2>2. settings' \in [Settings -> Values \cup {Missing}]
    BY <2>1 DEF StoreSetting, Values, TypeOK
  <2>3. pending' \in [Procs -> SUBSET (Settings \X Values)]
    <3>1. <<key, value>> \in Settings \X Values
      BY DEF Values
    <3> QED
      BY <2>1, <3>1 DEF StoreSetting, TypeOK
  <2>4. mixed' \in [Procs -> BOOLEAN]
    BY <2>1, Zenon DEF StoreSetting, TypeOK
  <2>5. stale' \in [Procs -> BOOLEAN]
    BY <2>1, CommitsTypes DEF StoreSetting
  <2> QED
    BY <2>1, <2>2, <2>3, <2>4, <2>5 DEF StoreSetting, TypeOK
<1>2. CASE \E w \in Settings \X Values : CacheSetting(p, w)
  BY <1>2 DEF CacheSetting, fileVars, bootVars, TypeOK
<1>3. CASE DeleteJob(p)
  BY <1>3, CommitsTypes DEF DeleteJob, cacheVars, TypeOK
<1>4. CASE Signal(p)
  <2>1. step' \in [Procs -> Steps] /\ at' \in [Procs -> Nat \ {0}]
    BY <1>4, GotoTypes DEF Signal, Steps
  <2> QED
    BY <1>4, <2>1 DEF Signal, fileVars, cacheVars, TypeOK
<1>5. CASE Drained(p) \/ Crash(p)
  <2>1. step' \in [Procs -> Steps] /\ at' \in [Procs -> Nat \ {0}]
    BY <1>5, GotoTypes DEF Drained, Crash, Exit, Steps
  <2> QED
    BY <1>5, <2>1, ForgetTypes DEF Drained, Crash, fileVars, TypeOK
<1> QED
  BY <1>1, <1>2, <1>3, <1>4, <1>5 DEF Request

-----------------------------------------------------------------------------
(***************************************************************************)
(* The file.                                                               *)
(***************************************************************************)
\* What a step of p may do to the file, as the others see it: tables and
\* columns stay, versions grow, and with a new version their transactions are
\* spoiled.
Grows(p) ==
  /\ (AllTables \cup Columns) \cap schema \subseteq schema'
  /\ versions \subseteq versions'
  /\ \/ versions' = versions /\ \A q \in Procs \ {p} : stale[q] => stale'[q]
     \/ \A q \in Procs \ {p} : step[q] = "apply" => stale'[q]

LEMMA CreateFile ==
  ASSUME SchemaInv, NEW p \in Procs, Create(p)
  PROVE  FileOK' /\ Grows(p)
<1>1. at[p] \in 1 .. 5 /\ Tables[at[p]] \in AllTables
  BY TheTables DEF SchemaInv, Knows, Placed, Create
<1>2. versions' = versions /\ schema \subseteq schema'
  BY DEF Create
<1>3. schema' \subseteq schema \cup AllTables \cup Columns
  BY <1>1 DEF Create, Created
<1>4. \A q \in Procs \ {p} : stale[q] => stale'[q]
  BY DEF Create, Commits
<1>5. "name" \notin AllTables \cup Columns /\ "logs" \notin AllTables \cup Columns
  BY TheTables DEF Columns
<1>6. FileOK
  BY DEF SchemaInv
<1>7. FileOK'
  BY <1>2, <1>3, <1>5, <1>6 DEF FileOK
<1> QED
  BY <1>2, <1>4, <1>7 DEF Grows

LEMMA ApplyFile ==
  ASSUME SchemaInv, NEW p \in Procs, Apply(p)
  PROVE  FileOK' /\ Grows(p)
<1> DEFINE v == at[p]
<1>1. CASE UNCHANGED <<schema, versions, stale>>
  BY <1>1 DEF SchemaInv, FileOK, Grows
<1>2. CASE /\ ~stale[p]
           /\ schema' = (schema \cup Adds(at[p], missing[p])) \ Drops(at[p])
           /\ versions' = versions \cup {at[p]}
           /\ Commits(p)
  <2>1. v \in 1 .. 7 /\ v \notin versions /\ \A u \in 1 .. 7 : u < v => u \in versions
    BY <1>2 DEF SchemaInv, Knows, Placed, Passed, Guarded, Apply, Versions, Latest
  <2>2. \A u \in versions : u \in 1 .. 7 /\ u < v
    <3> SUFFICES ASSUME NEW u \in versions PROVE u \in 1 .. 7 /\ u < v
      OBVIOUS
    <3>1. u \in 1 .. 7 /\ 1 .. u \subseteq versions
      BY DEF SchemaInv, TypeOK, FileOK, Versions, Latest
    <3> QED
      BY <2>1, <3>1
  <2>3. v = 2 => Columns \subseteq schema \cup missing[p]
    BY DEF SchemaInv, Knows, Looked, Apply
  <2>4. FileOK
    BY DEF SchemaInv
  <2>5. \A u \in versions' : 1 .. u \subseteq versions'
    BY <1>2, <2>1, <2>4 DEF FileOK
  <2>6. Drops(v) \cap (AllTables \cup Columns) = {}
    BY TheTables DEF Drops, Columns
  <2>7. schema' = (schema \cup Adds(v, missing[p])) \ Drops(v)
    BY <1>2
  <2>8. FileOK'
    <3>1. CASE v = 1
      BY <1>2, <2>2, <2>5, <2>7, <3>1 DEF FileOK, Adds, Drops
    <3>2. CASE v = 2
      <4>1. Adds(v, missing[p]) = missing[p] /\ Drops(v) = {}
        BY <3>2 DEF Adds, Drops
      <4>2. missing[p] \subseteq Columns
        BY DEF SchemaInv, TypeOK
      <4> QED
        BY <1>2, <2>2, <2>3, <2>4, <2>5, <2>7, <3>2, <4>1, <4>2 DEF FileOK, Columns
    <3>3. CASE v = 3
      BY <1>2, <2>2, <2>4, <2>5, <2>7, <3>3 DEF FileOK, Adds, Drops
    <3>4. CASE v = 4
      BY <1>2, <2>2, <2>4, <2>5, <2>7, <3>4 DEF FileOK, Adds, Drops, Columns
    <3>5. CASE v = 5
      BY <1>2, <2>2, <2>4, <2>5, <2>7, <3>5 DEF FileOK, Adds, Drops
    <3>6. CASE v = 6
      BY <1>2, <2>2, <2>4, <2>5, <2>7, <3>6 DEF FileOK, Adds, Drops, Columns
    <3>7. CASE v = 7
      BY <1>2, <2>2, <2>4, <2>5, <2>7, <3>7 DEF FileOK, Adds, Drops
    <3> QED
      BY <2>1, <3>1, <3>2, <3>3, <3>4, <3>5, <3>6, <3>7
  <2>9. \A q \in Procs \ {p} : step[q] = "apply" => stale'[q]
    BY <1>2 DEF Commits
  <2> QED
    BY <1>2, <2>6, <2>7, <2>8, <2>9 DEF Grows
<1> QED
  BY <1>1, <1>2 DEF Apply

LEMMA OtherFile ==
  ASSUME SchemaInv, NEW p \in Procs, UNCHANGED <<schema, versions>>,
         stale' = stale \/ Commits(p) \/ (step[p] = "begin" /\ stale' = [stale EXCEPT ![p] = FALSE])
  PROVE  FileOK' /\ Grows(p)
<1>1. \A q \in Procs \ {p} : stale[q] => stale'[q]
  BY DEF Commits, SchemaInv, TypeOK
<1> QED
  BY <1>1 DEF SchemaInv, FileOK, Grows

-----------------------------------------------------------------------------
(***************************************************************************)
(* What the processes know.                                                *)
(***************************************************************************)
LEMMA OthersKnow ==
  ASSUME SchemaInv, NEW p \in Procs, NEW q \in Procs \ {p}, Grows(p),
         step'[q] = step[q], at'[q] = at[q], missing'[q] = missing[q]
  PROVE  Knows(q)'
<1>1. Knows(q)
  BY DEF SchemaInv
<1>2. Placed(q)'
  BY <1>1 DEF Knows, Placed
<1>3. Passed(q)'
  BY <1>1, TheTables DEF Knows, Passed, Migrated, Grows
<1>4. Looked(q)'
  BY <1>1 DEF Knows, Looked, Grows, Columns
<1>5. Guarded(q)'
  <2>1. Guarded(q) /\ q \in Procs \ {p}
    BY <1>1 DEF Knows
  <2>2. CASE versions' = versions /\ \A r \in Procs \ {p} : stale[r] => stale'[r]
    <3>1. stale[q] => stale'[q]
      BY <2>2
    <3> QED
      BY <2>1, <2>2, <3>1, Zenon DEF Guarded
  <2>3. CASE \A r \in Procs \ {p} : step[r] = "apply" => stale'[r]
    <3>1. step'[q] = "apply" => stale'[q]
      BY <2>3
    <3> QED
      BY <3>1, Zenon DEF Guarded
  <2> QED
    BY <2>2, <2>3 DEF Grows
<1> QED
  BY <1>2, <1>3, <1>4, <1>5 DEF Knows

\* After migrate there is nothing more to learn.
LEMMA MigratedKnows ==
  ASSUME SchemaInv, NEW p \in Procs, UNCHANGED <<schema, versions>>,
         Migrated(p) \/ step'[p] = "down",
         Migrated(p)' \/ step'[p] = "down",
         step'[p] \in {"seed", "insert"} => at'[p] \in DOMAIN Seeds
  PROVE  Knows(p)'
<1>1. Knows(p)
  BY DEF SchemaInv
<1>2. step'[p] \notin {"create", "begin", "apply"} \cup Columns
  BY DEF Migrated, Columns
<1>3. Placed(p)' /\ Looked(p)' /\ Guarded(p)'
  BY <1>2 DEF Placed, Looked, Guarded, Columns
<1>4. Passed(p)'
  BY <1>1, <1>2 DEF Knows, Passed, Migrated, Columns
<1> QED
  BY <1>3, <1>4 DEF Knows

LEMMA NextVersionKnows ==
  ASSUME SchemaInv, NEW p \in Procs, NextVersion(p),
         step[p] \in {"begin", "apply"}, at[p] \in versions',
         Grows(p)
  PROVE  Knows(p)'
<1>1. Knows(p) /\ at[p] \in 1 .. 7 /\ step \in [Procs -> Steps] /\ at \in [Procs -> Nat \ {0}]
  BY DEF SchemaInv, Knows, Placed, TypeOK, Versions, Latest
<1>2. AllTables \subseteq schema'
  BY <1>1 DEF Knows, Passed, Grows
<1>3. \A v \in 1 .. 7 : v <= at[p] => v \in versions'
  BY <1>1 DEF Knows, Passed, Grows, Versions, Latest
<1>4. CASE at[p] < 7
  <2>1. /\ step'[p] = (IF at[p] = 1 THEN "group" ELSE "begin")
        /\ at'[p] = at[p] + 1
    BY <1>1, <1>4 DEF NextVersion, Goto, Latest
  <2>2. Placed(p)'
    BY <1>1, <1>4, <2>1 DEF Placed, Columns, Versions, Latest
  <2>3. Passed(p)'
    BY <1>1, <1>2, <1>3, <1>4, <2>1 DEF Passed, Migrated, Columns, Versions, Latest
  <2>4. Looked(p)' /\ Guarded(p)'
    BY <1>1, <2>1 DEF Looked, Guarded
  <2> QED
    BY <2>2, <2>3, <2>4 DEF Knows
<1>5. CASE at[p] = 7
  <2>1. step'[p] = "seed" /\ at'[p] = 1
    BY <1>1, <1>5 DEF NextVersion, Goto, Latest, FollowedBy
  <2>2. Placed(p)' /\ Looked(p)' /\ Guarded(p)'
    BY <2>1, TheSeeds DEF Placed, Looked, Guarded, Columns
  <2>3. Passed(p)'
    BY <1>2, <1>3, <1>5, <2>1 DEF Passed, Columns, Versions, Latest
  <2> QED
    BY <2>2, <2>3 DEF Knows
<1> QED
  BY <1>1, <1>4, <1>5

-----------------------------------------------------------------------------
(***************************************************************************)
(* Every step.                                                             *)
(***************************************************************************)
\* A step of p that leaves the file to the others as Grows says, and itself
\* with what it knows.
Fine(p) ==
  /\ FileOK' /\ Grows(p) /\ Knows(p)'
  /\ \A q \in Procs \ {p} : step'[q] = step[q] /\ at'[q] = at[q] /\ missing'[q] = missing[q]

LEMMA MigrateFine ==
  ASSUME SchemaInv, NEW p \in Procs,
         \/ Start(p) \/ Create(p) \/ Begin(p) \/ Apply(p)
         \/ \E column \in Columns : LookFor(p, column)
  PROVE  Fine(p)
<1>1. Knows(p) /\ TypeOK
  BY DEF SchemaInv
<1>2. \A q \in Procs \ {p} : step'[q] = step[q] /\ at'[q] = at[q] /\ missing'[q] = missing[q]
  BY <1>1 DEF TypeOK, Start, Create, Begin, Apply, LookFor, NextVersion, Exit, Goto
<1>3. CASE Start(p)
  <2>1. step'[p] = "create" /\ at'[p] = 1 /\ UNCHANGED <<schema, versions, stale>>
    BY <1>1, <1>3 DEF Start, Goto, TypeOK, fileVars
  <2>2. Knows(p)'
    BY <2>1, TheTables DEF Knows, Placed, Passed, Looked, Guarded, Migrated, Columns
  <2> QED
    BY <1>2, <2>1, <2>2, OtherFile DEF Fine
<1>4. CASE Create(p)
  <2>1. FileOK' /\ Grows(p) /\ at[p] \in 1 .. 5
    BY <1>1, <1>4, CreateFile, TheTables DEF Knows, Placed, Create
  <2>2. \A i \in 1 .. 5 : i <= at[p] => Tables[i] \in schema'
    BY <1>1, <1>4, <2>1, TheTables DEF Knows, Passed, Create, Created
  <2>3. CASE at[p] < 5
    <3>1. step'[p] = "create" /\ at'[p] = at[p] + 1
      BY <1>1, <1>4, <2>1, <2>3, TheTables DEF Create, Goto, TypeOK
    <3>2. Knows(p)'
      BY <2>1, <2>2, <2>3, <3>1, TheTables
      DEF Knows, Placed, Passed, Looked, Guarded, Migrated, Columns
    <3> QED
      BY <1>2, <2>1, <3>2 DEF Fine
  <2>4. CASE at[p] = 5
    <3>1. step'[p] = "begin" /\ at'[p] = 1
      BY <1>1, <1>4, <2>1, <2>4, TheTables DEF Create, Goto, TypeOK
    <3>2. AllTables \subseteq schema'
      BY <2>2, <2>4 DEF AllTables, Range, Tables
    <3>3. Knows(p)'
      BY <3>1, <3>2 DEF Knows, Placed, Passed, Looked, Guarded, Migrated, Columns, Versions, Latest
    <3> QED
      BY <1>2, <2>1, <3>3 DEF Fine
  <2> QED
    BY <2>1, <2>3, <2>4
<1>5. CASE \E column \in Columns : LookFor(p, column)
  <2>1. PICK column \in Columns : LookFor(p, column)
    BY <1>5
  <2>2. at[p] = 2 /\ UNCHANGED <<schema, versions, stale>>
    BY <1>1, <2>1 DEF Knows, Placed, LookFor, fileVars
  <2>3. /\ step'[p] = (IF column = "group" THEN "is_deleted" ELSE "begin")
        /\ at'[p] = 2
        /\ missing'[p] = (IF column \in schema THEN missing[p] ELSE missing[p] \cup {column})
    BY <1>1, <2>1 DEF LookFor, Goto, TypeOK
  <2>4. Looked(p)'
    BY <1>1, <2>1, <2>2, <2>3 DEF Knows, Looked, LookFor, Columns
  <2>5. Placed(p)' /\ Passed(p)' /\ Guarded(p)'
    BY <1>1, <2>1, <2>2, <2>3
    DEF Knows, Placed, Passed, Guarded, LookFor, Migrated, Columns, Versions, Latest
  <2> QED
    BY <1>2, <2>2, <2>4, <2>5, OtherFile DEF Fine, Knows
<1>6. CASE Begin(p)
  <2>1. /\ UNCHANGED <<schema, versions>>
        /\ stale' = stale \/ stale' = [stale EXCEPT ![p] = FALSE]
    BY <1>6 DEF Begin, fileVars
  <2>2. FileOK' /\ Grows(p)
    BY <1>6, <2>1, OtherFile DEF Begin
  <2>3. CASE at[p] \in versions
    BY <1>2, <1>6, <2>1, <2>2, <2>3, NextVersionKnows DEF Begin, Fine
  <2>4. CASE at[p] \notin versions
    <3>1. step'[p] = "apply" /\ at'[p] = at[p] /\ missing'[p] = missing[p]
      BY <1>1, <1>6, <2>4 DEF Begin, Goto, TypeOK
    <3>2. Knows(p)'
      BY <1>1, <1>6, <2>1, <2>4, <3>1
      DEF Begin, Knows, Placed, Passed, Looked, Guarded, Migrated, Columns
    <3> QED
      BY <1>2, <2>2, <3>2 DEF Fine
  <2> QED
    BY <2>3, <2>4
<1>7. CASE Apply(p)
  <2>1. FileOK' /\ Grows(p)
    BY <1>7, ApplyFile
  <2>2. CASE Exit(p)
    <3>1. step'[p] = "down"
      BY <1>1, <2>2 DEF Exit, Goto, TypeOK
    <3>2. Knows(p)'
      BY <3>1 DEF Knows, Placed, Passed, Looked, Guarded, Migrated, Columns
    <3> QED
      BY <1>2, <2>1, <3>2 DEF Fine
  <2>3. CASE versions' = versions \cup {at[p]} /\ NextVersion(p)
    BY <1>2, <1>7, <2>1, <2>3, NextVersionKnows DEF Apply, Fine
  <2> QED
    BY <1>7, <2>2, <2>3 DEF Apply
<1> QED
  BY <1>3, <1>4, <1>5, <1>6, <1>7

LEMMA LaterFine ==
  ASSUME SchemaInv, NEW p \in Procs,
         \/ FindSetting(p) \/ InsertSetting(p) \/ Load(p) \/ FindJob(p) \/ AddJob(p)
         \/ Request(p) \/ Signal(p) \/ Drained(p) \/ Crash(p)
  PROVE  Fine(p)
<1>1. Knows(p) /\ TypeOK
  BY DEF SchemaInv
<1>2. UNCHANGED <<schema, versions, missing>>
  BY DEF FindSetting, InsertSetting, Load, FindJob, AddJob, Request, StoreSetting,
         CacheSetting, DeleteJob, Signal, Drained, Crash, fileVars, bootVars
<1>3. stale' = stale \/ Commits(p)
  BY DEF FindSetting, InsertSetting, Load, FindJob, AddJob, Request, StoreSetting,
         CacheSetting, DeleteJob, Signal, Drained, Crash, bootVars
<1>4. CASE FindSetting(p) \/ InsertSetting(p)
  <2>1. at[p] \in 1 .. 2 /\ Migrated(p)
    BY <1>1, <1>4, TheSeeds DEF FindSetting, InsertSetting, Knows, Placed, Migrated, Columns
  <2>2. /\ step'[p] \in {"seed", "insert", "load", "down"}
        /\ step'[p] \in {"seed", "insert"} => at'[p] \in 1 .. 2
        /\ \A q \in Procs \ {p} : step'[q] = step[q] /\ at'[q] = at[q]
    BY <1>1, <1>4, <2>1, TheSeeds
    DEF FindSetting, InsertSetting, NextSeed, Exit, Goto, FollowedBy, TypeOK
  <2>3. Migrated(p)' \/ step'[p] = "down"
    BY <2>2 DEF Migrated, Columns
  <2>4. Knows(p)'
    BY <1>2, <2>1, <2>2, <2>3, TheSeeds, MigratedKnows
  <2> QED
    BY <1>2, <1>3, <2>2, <2>4, OtherFile DEF Fine
<1>5. CASE Load(p) \/ FindJob(p) \/ AddJob(p) \/ Signal(p) \/ Drained(p) \/ Crash(p)
  <2>1. /\ step'[p] \in {"job", "add_job", "serve", "drain", "down"}
        /\ \A q \in Procs \ {p} : step'[q] = step[q] /\ at'[q] = at[q]
    BY <1>1, <1>5 DEF Load, FindJob, AddJob, Signal, Drained, Crash, Exit, Goto, FollowedBy, TypeOK
  <2>2. Migrated(p) \/ step'[p] = "down"
    BY <1>1, <1>5 DEF Load, FindJob, AddJob, Signal, Drained, Crash, Exit, Goto, TypeOK,
                      Migrated, Columns
  <2>3. Migrated(p)' \/ step'[p] = "down"
    BY <2>1 DEF Migrated, Columns
  <2>4. Knows(p)'
    BY <1>2, <2>1, <2>2, <2>3, MigratedKnows
  <2> QED
    BY <1>2, <1>3, <2>1, <2>4, OtherFile DEF Fine
<1>6. CASE Request(p)
  <2>1. UNCHANGED <<step, at>>
    BY <1>6 DEF Request, StoreSetting, CacheSetting, DeleteJob, bootVars
  <2>2. Migrated(p)
    BY <1>6 DEF Request, StoreSetting, CacheSetting, DeleteJob, Serving, Migrated, Columns
  <2>3. Knows(p)'
    BY <1>1, <1>2, <2>1, <2>2, MigratedKnows DEF Knows, Placed, Migrated
  <2> QED
    BY <1>2, <1>3, <2>1, <2>3, OtherFile DEF Fine
<1> QED
  BY <1>4, <1>5, <1>6

LEMMA StepHolds == SchemaInv /\ [Next]_vars => SchemaInv'
<1> SUFFICES ASSUME SchemaInv, [Next]_vars PROVE SchemaInv'
  OBVIOUS
<1>1. ASSUME NEW p \in Procs, Boot(p) \/ Request(p) \/ Signal(p) \/ Drained(p) \/ Crash(p)
      PROVE  SchemaInv'
  <2>1. TypeOK'
    BY <1>1, BootTypes, OtherTypes DEF SchemaInv, Knows
  <2>2. Fine(p)
    BY <1>1, MigrateFine, LaterFine DEF Boot
  <2>3. \A q \in Procs : Knows(q)'
    BY <2>2, OthersKnow DEF Fine
  <2> QED
    BY <2>1, <2>2, <2>3 DEF SchemaInv, Fine
<1>2. CASE UNCHANGED vars
  BY <1>2 DEF vars, SchemaInv, TypeOK, FileOK, Knows, Placed, Passed, Looked, Guarded, Migrated
<1> QED
  BY <1>1, <1>2 DEF Next

LEMMA InitHolds == Init => SchemaInv
<1> SUFFICES ASSUME Init PROVE SchemaInv
  OBVIOUS
<1>1. /\ versions \subseteq Versions /\ schema \subseteq Objects /\ FileOK
  <2>1. CASE schema = {} /\ versions = {}
    BY <2>1 DEF FileOK
  <2>2. CASE \E v \in 0 .. Latest :
               /\ schema = OldTables(v) \cup OldIndexes(v) \cup (IF v < 2 THEN {} ELSE Columns)
               /\ versions = 1 .. v
    <3>1. PICK v \in 0 .. 7 :
            /\ schema = OldTables(v) \cup OldIndexes(v) \cup (IF v < 2 THEN {} ELSE Columns)
            /\ versions = 1 .. v
      BY <2>2 DEF Latest
    <3>2. versions \subseteq Versions /\ \A u \in versions : 1 .. u \subseteq versions
      BY <3>1 DEF Versions, Latest
    <3>3. OldTables(v) \subseteq AllTables /\ OldIndexes(v) \subseteq Indexes
      BY <3>1 DEF OldTables, OldIndexes, AllTables, Indexes
    <3>4. "name" \notin AllTables \cup Columns /\ "logs" \notin AllTables \cup Columns
      BY TheTables DEF Columns
    <3>5. /\ v >= 1 => "session" \in schema
          /\ v >= 2 => Columns \subseteq schema
          /\ v >= 4 => "name" \notin schema
          /\ v >= 5 => "runs" \in schema
          /\ v >= 6 => "logs_seq" \in schema /\ "logs" \notin schema
      BY <3>1, <3>3, <3>4 DEF OldIndexes
    <3> QED
      BY <3>1, <3>2, <3>3, <3>5, TheObjects DEF FileOK
  <2> QED
    BY <2>1, <2>2 DEF Init
<1>2. TypeOK
  BY <1>1 DEF Init, TypeOK, Steps, Fresh, Values
<1>3. \A p \in Procs : Knows(p)
  BY DEF Init, Knows, Placed, Passed, Looked, Guarded, Migrated, Columns
<1> QED
  BY <1>1, <1>2, <1>3 DEF SchemaInv

LEMMA SchemaInvHolds == Spec => []SchemaInv
BY InitHolds, StepHolds, PTL DEF Spec

-----------------------------------------------------------------------------
(***************************************************************************)
(* Results.                                                                *)
(***************************************************************************)
\* The file and the processes have their types.
THEOREM TypeCorrect == Spec => []TypeOK
BY SchemaInvHolds, PTL DEF SchemaInv

\* Whatever the age of the file, the crashes and the processes that migrate
\* over each other: who has left migrate finds the complete schema.
THEOREM SchemaIsCurrentHolds == Spec => []SchemaIsCurrent
<1>1. SchemaInv => SchemaIsCurrent
  <2> SUFFICES ASSUME SchemaInv, NEW p \in Procs, Migrated(p)
               PROVE  schema = Current /\ versions = Versions
    BY DEF SchemaIsCurrent
  <2>1. versions = 1 .. 7
    BY DEF SchemaInv, TypeOK, Knows, Passed, Versions, Latest
  <2>2. AllTables \subseteq schema
    BY DEF SchemaInv, Knows, Passed, Migrated
  <2>3. /\ Columns \cup {"session", "runs", "logs_seq"} \subseteq schema
        /\ "name" \notin schema /\ "logs" \notin schema
    BY <2>1 DEF SchemaInv, FileOK
  <2>4. schema \subseteq AllTables \cup Columns \cup Indexes
    BY TheObjects DEF SchemaInv, TypeOK
  <2>5. Objects = AllTables \cup Columns \cup {"session", "runs", "logs_seq", "name", "logs"}
    BY TheObjects DEF Indexes
  <2>6. "name" \notin AllTables \cup Columns /\ "logs" \notin AllTables \cup Columns
    BY TheTables DEF Columns
  <2>7. schema = Current
    BY <2>2, <2>3, <2>4, <2>5, <2>6 DEF Current, Indexes
  <2> QED
    BY <2>1, <2>7 DEF Versions, Latest
<1> QED
  BY <1>1, SchemaInvHolds, PTL

-----------------------------------------------------------------------------
(***************************************************************************)
(* The seeds and the cache.                                                *)
(*                                                                         *)
(* Rows of setting never go away, so a process that has passed the seeds   *)
(* finds them all, and nothing is inserted any more.  A value that waits   *)
(* to be cached is the stored one unless the cache was overtaken.          *)
(***************************************************************************)
Cached == {"job", "add_job", "serve", "drain"}

Seeded(p) ==
  /\ step[p] \in {"seed", "insert"} =>
       \A i \in DOMAIN Seeds : i < at[p] => settings[Seeds[i]] # Missing
  /\ step[p] \in {"load"} \cup Cached => \A k \in Settings : settings[k] # Missing

Agrees(p) ==
  step[p] \in Cached /\ ~mixed[p] =>
    /\ \A w \in pending[p] : settings[w[1]] = w[2]
    /\ \A k \in Settings :
         (\A w \in pending[p] : w[1] # k) => cache[p][k] = settings[k]

Idle(p) == ~Serving(p) => pending[p] = {}

CacheInv == SchemaInv /\ \A p \in Procs : Seeded(p) /\ Agrees(p) /\ Idle(p)

\* Rows stay.
Stays == \A k \in Settings : settings[k] # Missing => settings'[k] # Missing

LEMMA SeededStays ==
  ASSUME CacheInv, Stays, NEW q \in Procs, step'[q] = step[q], at'[q] = at[q]
  PROVE  Seeded(q)'
BY TheSeeds DEF CacheInv, Seeded, Stays

\* What no action of q, and no stored setting, disturbs.
LEMMA CacheStays ==
  ASSUME CacheInv, NEW q \in Procs, step'[q] = step[q],
         settings' = settings, cache'[q] = cache[q], pending'[q] = pending[q],
         mixed'[q] = mixed[q]
  PROVE  Agrees(q)' /\ Idle(q)'
<1>1. Agrees(q) /\ Idle(q)
  BY DEF CacheInv
<1>2. Agrees(q)'
  BY <1>1 DEF Agrees
<1>3. Idle(q)'
  BY <1>1 DEF Idle, Serving
<1> QED
  BY <1>2, <1>3

LEMMA InsertSeeded ==
  ASSUME CacheInv, NEW p \in Procs, InsertSetting(p)
  PROVE  /\ Stays
         /\ \A q \in Procs : step[q] \in Cached => settings' = settings
<1>1. at[p] \in {1, 2} /\ Seeds[at[p]] \in Settings /\ settings \in [Settings -> Values \cup {Missing}]
  BY TheSeeds DEF CacheInv, SchemaInv, Knows, Placed, TypeOK, InsertSetting
<1>2. Stays
  BY <1>1, StartupAssumption DEF InsertSetting, Stays, Values
<1>3. ASSUME NEW q \in Procs, step[q] \in Cached PROVE settings' = settings
  BY <1>1, <1>3 DEF CacheInv, Seeded, InsertSetting
<1> QED
  BY <1>2, <1>3

\* All steps of p that store no setting.
Quiet(p) ==
  \/ Boot(p) \/ DeleteJob(p) \/ Signal(p) \/ Drained(p) \/ Crash(p)
  \/ \E w \in Settings \X Values : CacheSetting(p, w)

LEMMA QuietSettings ==
  ASSUME CacheInv, NEW p \in Procs, Quiet(p)
  PROVE  /\ Stays
         /\ \A q \in Procs : step[q] \in Cached => settings' = settings
         /\ \A q \in Procs \ {p} :
              /\ step'[q] = step[q] /\ at'[q] = at[q] /\ cache'[q] = cache[q]
              /\ pending'[q] = pending[q] /\ mixed'[q] = mixed[q]
<1>1. TypeOK
  BY DEF CacheInv, SchemaInv
<1>2. CASE InsertSetting(p)
  BY <1>1, <1>2, InsertSeeded DEF InsertSetting, NextSeed, Exit, Goto, cacheVars, TypeOK
<1>3. CASE ~InsertSetting(p)
  <2>1. UNCHANGED settings
    BY <1>3 DEF Quiet, Boot, Start, Create, Begin, Apply, LookFor, FindSetting, Load, FindJob,
                AddJob, DeleteJob, Signal, Drained, Crash, CacheSetting, fileVars
  <2>2. \A q \in Procs \ {p} :
          step'[q] = step[q] /\ at'[q] = at[q]
    BY <1>1, <1>3 DEF Quiet, Boot, Start, Create, Begin, Apply, LookFor, FindSetting, Load,
                FindJob, AddJob, DeleteJob, Signal, Drained, Crash, CacheSetting, bootVars,
                NextVersion, NextSeed, Exit, Goto, TypeOK
  <2>3. \A q \in Procs \ {p} :
          cache'[q] = cache[q] /\ pending'[q] = pending[q] /\ mixed'[q] = mixed[q]
    BY <1>1, <1>3 DEF Quiet, Boot, Start, Create, Begin, Apply, LookFor, FindSetting, Load,
                FindJob, AddJob, DeleteJob, Signal, Drained, Crash, CacheSetting, Forget,
                cacheVars, TypeOK
  <2> QED
    BY <2>1, <2>2, <2>3 DEF Stays
<1> QED
  BY <1>2, <1>3

\* A process that is not loading, or forgets, keeps the cache as it should be.
LEMMA QuietSelf ==
  ASSUME CacheInv, NEW p \in Procs, Quiet(p)
  PROVE  Seeded(p)' /\ Agrees(p)' /\ Idle(p)'
<1>1. TypeOK /\ Knows(p) /\ Seeded(p) /\ Agrees(p) /\ Idle(p)
  BY DEF CacheInv, SchemaInv
<1>2. CASE \/ Start(p) \/ Create(p) \/ Begin(p) \/ Apply(p)
           \/ \E column \in Columns : LookFor(p, column)
  <2>1. /\ ~Serving(p) /\ step'[p] \in {"create", "begin", "apply", "seed", "down"} \cup Columns
        /\ step'[p] = "seed" => at'[p] = 1
        /\ UNCHANGED pending
    BY <1>1, <1>2 DEF Start, Create, Begin, Apply, LookFor, NextVersion, FollowedBy, Exit, Goto,
                Serving, Columns, cacheVars, TypeOK, Knows, Placed, Versions, Latest
  <2> QED
    BY <1>1, <2>1, TheSeeds DEF Seeded, Agrees, Idle, Serving, Cached, Columns
<1>3. CASE FindSetting(p) \/ InsertSetting(p)
  <2>1. at[p] \in 1 .. 2 /\ ~Serving(p) /\ UNCHANGED pending
    BY <1>1, <1>3, TheSeeds DEF FindSetting, InsertSetting, Knows, Placed, Serving, cacheVars
  <2>2. /\ step'[p] \in {"seed", "insert", "load", "down"}
        /\ step'[p] = "insert" => at'[p] = at[p]
        /\ step'[p] = "seed" => at[p] = 1 /\ at'[p] = 2
        /\ step'[p] = "load" => at[p] = 2
    BY <1>1, <1>3, <2>1, TheSeeds
    DEF FindSetting, InsertSetting, NextSeed, Exit, Goto, FollowedBy, TypeOK
  <2>3. step'[p] \in {"seed", "load"} => settings'[Seeds[at[p]]] # Missing
    <3>1. Seeds[at[p]] \in Settings
      BY <2>1, TheSeeds
    <3>2. CASE FindSetting(p)
      BY <1>1, <2>1, <3>2, TheSeeds DEF FindSetting, Goto, TypeOK, fileVars
    <3>3. CASE InsertSetting(p)
      BY <1>1, <3>1, <3>3, StartupAssumption DEF InsertSetting, Exit, Goto, TypeOK, Values
    <3> QED
      BY <1>3, <3>2, <3>3
  <2>4. Stays
    BY QuietSettings
  <2>5. \A i \in 1 .. 2 : i < at[p] => settings'[Seeds[i]] # Missing
    BY <1>1, <1>3, <2>4, TheSeeds DEF Seeded, Stays, FindSetting, InsertSetting
  <2>6. Seeded(p)'
    BY <2>1, <2>2, <2>3, <2>5 DEF Seeded, Cached, Settings, Range, Seeds
  <2> QED
    BY <1>1, <2>1, <2>2, <2>6 DEF Agrees, Idle, Serving, Cached
<1>4. CASE Load(p)
  <2>1. step'[p] = "job" /\ UNCHANGED <<settings, pending>> /\ ~Serving(p)
    BY <1>1, <1>4 DEF Load, Goto, FollowedBy, TypeOK, fileVars, Serving
  <2>2. pending[p] = {} /\ \A k \in Settings : settings[k] # Missing
    BY <1>1, <1>4, <2>1 DEF Idle, Seeded, Load
  <2>3. \A k \in Settings : cache'[p][k] = settings[k]
    BY <1>1, <1>4, <2>2 DEF Load, TypeOK
  <2> QED
    BY <2>1, <2>2, <2>3 DEF Seeded, Agrees, Idle, Serving, Cached
<1>5. CASE FindJob(p) \/ AddJob(p) \/ Signal(p) \/ DeleteJob(p)
  <2>1. /\ UNCHANGED <<settings, cache, pending, mixed>>
        /\ step[p] \in Cached /\ step'[p] \in Cached \cup {"down"}
        /\ step'[p] = "down" => ~Serving(p)
        /\ Serving(p) => Serving(p)'
    BY <1>1, <1>5 DEF FindJob, AddJob, Signal, DeleteJob, Exit, Goto, Cached, Serving,
                      TypeOK, fileVars, cacheVars
  <2> QED
    BY <1>1, <2>1 DEF Seeded, Agrees, Idle, Cached, Serving
<1>6. CASE Drained(p) \/ Crash(p)
  <2>1. step'[p] = "down" /\ pending'[p] = {}
    BY <1>1, <1>6 DEF Drained, Crash, Exit, Goto, Forget, TypeOK
  <2> QED
    BY <2>1 DEF Seeded, Agrees, Idle, Cached, Serving
<1>7. CASE \E w \in Settings \X Values : CacheSetting(p, w)
  <2>1. PICK w \in Settings \X Values : CacheSetting(p, w)
    BY <1>7
  <2>2. /\ UNCHANGED <<settings, step, at, mixed>> /\ Serving(p) /\ w \in pending[p]
        /\ pending'[p] = pending[p] \ {w}
        /\ cache'[p] = [cache[p] EXCEPT ![w[1]] = w[2]]
    BY <1>1, <2>1 DEF CacheSetting, TypeOK, fileVars, bootVars
  <2>3. w[1] \in Settings /\ cache[p] \in [Settings -> Values]
    BY <1>1 DEF TypeOK
  <2>4. Agrees(p)'
    BY <1>1, <2>2, <2>3 DEF Agrees
  <2> QED
    BY <1>1, <2>2, <2>4 DEF Seeded, Idle, Serving
<1> QED
  BY <1>2, <1>3, <1>4, <1>5, <1>6, <1>7 DEF Quiet, Boot

LEMMA StoreCache ==
  ASSUME CacheInv, NEW p \in Procs, NEW key \in Settings, NEW value \in {"default", "other"},
         StoreSetting(p, key, value), NEW q \in Procs
  PROVE  Seeded(q)' /\ Agrees(q)' /\ Idle(q)'
<1>1. TypeOK /\ Seeded(q) /\ Agrees(q) /\ Idle(q)
  BY DEF CacheInv, SchemaInv
<1>2. /\ UNCHANGED <<step, at, cache>>
      /\ settings' = [settings EXCEPT ![key] = value]
      /\ pending' = [pending EXCEPT ![p] = @ \cup {<<key, value>>}]
  BY DEF StoreSetting
<1>3. Stays
  BY <1>1, <1>2, StartupAssumption DEF TypeOK, Stays, Values
<1>4. Seeded(q)'
  BY <1>2, <1>3, SeededStays
<1>5. CASE q # p
  <2>1. mixed'[q]
    BY <1>5 DEF StoreSetting
  <2> QED
    BY <1>1, <1>2, <1>4, <1>5, <2>1 DEF Agrees, Idle, Serving, TypeOK
<1>6. CASE q = p
  <2>1. ~mixed'[p] => ~mixed[p] /\ \A w \in pending[p] : w[1] # key
    BY DEF StoreSetting
  <2>2. pending'[p] = pending[p] \cup {<<key, value>>} /\ settings'[key] = value
        /\ pending[p] \subseteq Settings \X Values
    BY <1>1, <1>2 DEF TypeOK
  <2>3. \A k \in Settings : k # key => settings'[k] = settings[k]
    BY <1>1, <1>2 DEF TypeOK
  <2>4. ASSUME step[p] \in Cached, ~mixed'[p]
        PROVE  /\ \A w \in pending[p] : w[1] # key /\ settings[w[1]] = w[2]
               /\ \A k \in Settings :
                    (\A w \in pending[p] : w[1] # k) => cache[p][k] = settings[k]
    BY <1>1, <1>6, <2>1, <2>4 DEF Agrees
  <2>5. ASSUME step[p] \in Cached, ~mixed'[p], NEW w \in pending'[p]
        PROVE  settings'[w[1]] = w[2]
    <3>1. CASE w = <<key, value>>
      BY <2>2, <3>1
    <3>2. CASE w \in pending[p]
      <4>1. w[1] \in Settings
        BY <2>2, <3>2
      <4> QED
        BY <2>3, <2>4, <2>5, <3>2, <4>1
    <3> QED
      BY <2>2, <2>5, <3>1, <3>2
  <2>6. ASSUME step[p] \in Cached, ~mixed'[p], NEW k \in Settings,
               \A w \in pending'[p] : w[1] # k
        PROVE  cache[p][k] = settings'[k]
    <3>1. <<key, value>> \in pending'[p] /\ pending[p] \subseteq pending'[p]
      BY <2>2
    <3>2. k # key
      BY <2>6, <3>1
    <3> QED
      BY <2>3, <2>4, <2>6, <3>1, <3>2
  <2>7. Agrees(p)'
    BY <1>2, <2>5, <2>6 DEF Agrees
  <2> QED
    BY <1>2, <1>4, <1>6, <2>7 DEF Idle, StoreSetting, Serving
<1> QED
  BY <1>5, <1>6

LEMMA CacheInvHolds == Spec => []CacheInv
<1>1. Init => CacheInv
  BY InitHolds DEF Init, CacheInv, Seeded, Agrees, Idle, Cached
<1>2. CacheInv /\ [Next]_vars => CacheInv'
  <2> SUFFICES ASSUME CacheInv, [Next]_vars PROVE CacheInv'
    OBVIOUS
  <2>1. SchemaInv'
    BY StepHolds DEF CacheInv
  <2>2. ASSUME NEW p \in Procs, Quiet(p), NEW q \in Procs
        PROVE  Seeded(q)' /\ Agrees(q)' /\ Idle(q)'
    <3>1. CASE q = p
      BY <2>2, <3>1, QuietSelf
    <3>2. CASE q # p
      <4>1. /\ step'[q] = step[q] /\ at'[q] = at[q] /\ cache'[q] = cache[q]
            /\ pending'[q] = pending[q] /\ mixed'[q] = mixed[q]
            /\ Stays /\ (step[q] \in Cached => settings' = settings)
        BY <2>2, <3>2, QuietSettings
      <4>2. Seeded(q)'
        BY <4>1, SeededStays
      <4>3. CASE step[q] \in Cached
        BY <4>1, <4>2, <4>3, CacheStays
      <4>4. CASE step[q] \notin Cached
        BY <4>1, <4>2, <4>4 DEF CacheInv, Agrees, Idle, Serving
      <4> QED
        BY <4>3, <4>4
    <3> QED
      BY <3>1, <3>2
  <2>3. CASE UNCHANGED vars
    BY <2>1, <2>3 DEF vars, CacheInv, Seeded, Agrees, Idle, Serving
  <2> QED
    BY <2>1, <2>2, <2>3, StoreCache DEF Next, Request, Quiet, CacheInv
<1> QED
  BY <1>1, <1>2, PTL DEF Spec

\* A process that serves has the settings of the table in its cache, unless
\* it was overtaken.
THEOREM CacheAgreesHolds == Spec => []CacheAgrees
<1>1. CacheInv => CacheAgrees
  BY DEF CacheInv, CacheAgrees, Agrees, Serving, Cached
<1> QED
  BY <1>1, CacheInvHolds, PTL

\* Booting adds rows and changes none.
THEOREM SeedingOnlyAddsHolds == Spec => SeedingOnlyAdds
<1>1. ASSUME SchemaInv, [Next]_vars
      PROVE  [/\ \A k \in Settings :
                   settings'[k] # settings[k] => settings[k] = Missing \/ puts' # puts
              /\ job' # job => job = Missing \/ job' = "deleted"]_vars
  <2>1. TypeOK
    BY <1>1 DEF SchemaInv
  <2>2. ASSUME NEW p \in Procs, Boot(p)
        PROVE  /\ \A k \in Settings : settings'[k] # settings[k] => settings[k] = Missing
               /\ job' # job => job = Missing
    BY <2>1, <2>2 DEF Boot, Start, Create, Begin, Apply, LookFor, FindSetting, InsertSetting,
                      Load, FindJob, AddJob, fileVars, TypeOK
  <2>3. ASSUME NEW p \in Procs, NEW key \in Settings, NEW value \in {"default", "other"},
               StoreSetting(p, key, value)
        PROVE  puts' # puts /\ job' = job
    BY <2>1, <2>3 DEF StoreSetting, TypeOK
  <2>4. ASSUME NEW p \in Procs,
               \/ DeleteJob(p) \/ Signal(p) \/ Drained(p) \/ Crash(p)
               \/ \E w \in Settings \X Values : CacheSetting(p, w)
        PROVE  settings' = settings /\ (job' # job => job' = "deleted")
    BY <2>4 DEF DeleteJob, Signal, Drained, Crash, CacheSetting, fileVars
  <2> QED
    BY <1>1, <2>2, <2>3, <2>4 DEF Next, Request
<1> QED
  BY <1>1, SchemaInvHolds, PTL DEF Spec, SeedingOnlyAdds

=============================================================================
