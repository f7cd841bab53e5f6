------------------------- MODULE JobSchedulerProofs -------------------------
(***************************************************************************)
(* The definitions of the jobs, for any number of jobs, requests, failing  *)
(* operations, disconnecting clients and restarts.                         *)
(***************************************************************************)
EXTENDS JobScheduler, FiniteSetTheorems, TLAPS

-----------------------------------------------------------------------------
(***************************************************************************)
(* Requests.  What a request holds has the same fields from its first step *)
(* to its last, and its kind says which steps it can be at.                *)
(***************************************************************************)
Fields == {"kind", "job", "change", "value", "model", "next", "want", "back",
           "known", "taken", "retry", "names", "failed"}

Places(kind) ==
  CASE kind = "update" -> {"find", "loaded", "save", "apply", "unmap",
                           "unschedule", "schedule", "map", "rollback"}
    [] kind = "delete" -> {"find", "loaded", "softdelete", "unmap",
                           "unschedule", "restore"}
    [] kind = "lang"   -> {"read", "store", "cache", "names", "apply", "unmap",
                           "unschedule", "schedule", "map", "persist"}
    [] kind = "zone"   -> {"read", "store", "cache", "names", "unmap",
                           "unschedule", "schedule", "map", "replan", "writeplan"}
    [] OTHER -> {}

Edits == {"update", "delete"}

Shaped(r) ==
  pc[r] \in Busy =>
    /\ DOMAIN req[r] = Fields
    /\ req[r].kind \in Edits \cup {"zone", "lang"}
    /\ pc[r] \in Places(req[r].kind)
    /\ req[r].job \in Jobs
    /\ req[r].names \in SUBSET Jobs

Shape ==
  /\ pc \in [Requests -> Busy \cup {"new", "done", "lost"}]
  /\ DOMAIN req = Requests
  /\ DOMAIN mem \in SUBSET Jobs
  /\ \A r \in Requests : Shaped(r)

\* A request goes on to its next await.
Continues(r) ==
  /\ pc[r] \in Busy /\ pc'[r] \in Busy
  /\ req'[r].kind = req[r].kind
  /\ lock' = lock

\* It is answered, or its client is gone.
Ends(r) ==
  /\ pc[r] \in Busy /\ pc'[r] \in {"done", "lost"}
  /\ lock' = lock \ {r}

\* It starts.
Begins(r) ==
  /\ pc[r] = "new" /\ pc'[r] \in {"find", "read"}
  /\ IF req'[r].kind \in Edits THEN lock = {} /\ lock' = {r} ELSE lock' = lock

Moves(r) == Continues(r) \/ Ends(r) \/ Begins(r)

OthersWait(r) ==
  /\ pc' \in [Requests -> Busy \cup {"new", "done", "lost"}]
  /\ DOMAIN req' = Requests
  /\ \A q \in Requests \ {r} : pc'[q] = pc[q] /\ req'[q] = req[q]

\* What Goto does to the fields.
LEMMA GotoFields ==
  ASSUME Shape, NEW r \in Requests, pc[r] \in Busy,
         NEW to \in Busy, NEW locals, Goto(r, to, locals)
  PROVE  /\ OthersWait(r)
         /\ pc'[r] = to /\ lock' = lock
         /\ DOMAIN req'[r] = Fields
         /\ \A f \in Fields :
              req'[r][f] = IF f \in DOMAIN locals THEN locals[f] ELSE req[r][f]
<1>1. /\ pc' = [pc EXCEPT ![r] = to]
      /\ req' = [req EXCEPT ![r] = Merged(locals, req[r])]
      /\ lock' = lock
  BY DEF Goto
<1>2. DOMAIN req = Requests /\ DOMAIN req[r] = Fields
      /\ pc \in [Requests -> Busy \cup {"new", "done", "lost"}]
  BY DEF Shape, Shaped
<1>3. req'[r] = Merged(locals, req[r])
  BY <1>1, <1>2
<1>4. /\ DOMAIN Merged(locals, req[r]) = Fields
      /\ \A f \in Fields :
           Merged(locals, req[r])[f] = IF f \in DOMAIN locals THEN locals[f] ELSE req[r][f]
  BY <1>2 DEF Merged
<1>5. OthersWait(r)
  BY <1>1, <1>2 DEF OthersWait
<1>6. pc'[r] = to
  BY <1>1, <1>2
<1> QED
  BY <1>1, <1>3, <1>4, <1>5, <1>6

LEMMA GotoMoves ==
  ASSUME Shape, NEW r \in Requests, pc[r] \in Busy,
         NEW to, to \in Busy, to \in Places(req[r].kind),
         NEW locals, Goto(r, to, locals),
         "kind" \notin DOMAIN locals,
         "job" \in DOMAIN locals => locals.job \in Jobs,
         "names" \in DOMAIN locals => locals.names \in SUBSET Jobs
  PROVE  OthersWait(r) /\ Continues(r) /\ Shaped(r)'
<1>1. /\ OthersWait(r)
      /\ pc'[r] = to /\ lock' = lock
      /\ DOMAIN req'[r] = Fields
      /\ \A f \in Fields :
           req'[r][f] = IF f \in DOMAIN locals THEN locals[f] ELSE req[r][f]
  BY GotoFields
<1>2. /\ DOMAIN req[r] = Fields /\ req[r].kind \in Edits \cup {"zone", "lang"}
      /\ req[r].job \in Jobs /\ req[r].names \in SUBSET Jobs
  BY DEF Shape, Shaped
<1>3. req'[r].kind = req[r].kind
  BY <1>1 DEF Fields
<1>4. req'[r].job \in Jobs /\ req'[r].names \in SUBSET Jobs
  BY <1>1, <1>2 DEF Fields
<1> QED
  BY <1>1, <1>2, <1>3, <1>4 DEF Continues, Shaped

LEMMA AnswerMoves ==
  ASSUME Shape, NEW r \in Requests, pc[r] \in Busy, NEW a, Answer(r, a)
  PROVE  OthersWait(r) /\ Ends(r) /\ Shaped(r)'
<1>1. /\ pc' = [pc EXCEPT ![r] = "done"]
      /\ req' = [req EXCEPT ![r] = Blank]
      /\ lock' = lock \ {r}
  BY DEF Answer
<1>2. OthersWait(r) /\ pc'[r] = "done"
  BY <1>1 DEF OthersWait, Shape
<1> QED
  BY <1>1, <1>2 DEF Ends, Shaped, Busy

\* Nothing to keep in <<>>.
LEMMA NoLocals ==
  "kind" \notin DOMAIN <<>> /\ "job" \notin DOMAIN <<>> /\ "names" \notin DOMAIN <<>>
OBVIOUS

LEMMA OutcomeMoves ==
  ASSUME Shape, NEW r \in Requests, pc[r] \in Busy, Succeed(r) \/ Fail(r)
  PROVE  OthersWait(r) /\ (Continues(r) \/ Ends(r)) /\ Shaped(r)'
<1>1. CASE Succeed(r)
  <2>1. CASE \E a : Answer(r, a)
    BY <2>1, AnswerMoves
  <2>2. CASE req[r].kind = "lang" /\ Goto(r, "persist", <<>>)
    BY <2>2, GotoMoves, NoLocals DEF Busy, Places
  <2>3. CASE req[r].kind = "zone" /\ Goto(r, "replan", <<>>)
    BY <2>3, GotoMoves, NoLocals DEF Busy, Places
  <2> QED
    BY <1>1, <2>1, <2>2, <2>3 DEF Succeed
<1>2. CASE Fail(r)
  <2>1. CASE req[r].kind = "update" /\ Goto(r, "rollback", <<>>)
    BY <2>1, GotoMoves, NoLocals DEF Busy, Places
  <2>2. CASE req[r].kind = "delete" /\ Goto(r, "restore", <<>>)
    BY <2>2, GotoMoves, NoLocals DEF Busy, Places
  <2>3. CASE req[r].kind = "lang" /\ Goto(r, "names", <<>>)
    BY <2>3, GotoMoves, NoLocals DEF Busy, Places
  <2>4. CASE req[r].kind = "zone" /\ Goto(r, "names", [failed |-> TRUE])
    BY <2>4, GotoMoves DEF Busy, Places
  <2> QED
    BY <1>2, <2>1, <2>2, <2>3, <2>4 DEF Fail
<1> QED
  BY <1>1, <1>2

LEMMA BeginMoves ==
  ASSUME Shape, NEW r \in Requests, BeginEdit(r) \/ BeginSetting(r)
  PROVE  OthersWait(r) /\ Begins(r) /\ Shaped(r)' /\ req'[r].names = {} /\ req'[r].retry = FALSE
<1>1. CASE BeginEdit(r)
  <2>1. ASSUME NEW j \in Jobs, NEW new,
               DOMAIN new = Fields, new.kind \in Edits, new.job = j, new.names = {},
               new.retry = FALSE,
               req' = [req EXCEPT ![r] = new]
        PROVE  OthersWait(r) /\ Begins(r) /\ Shaped(r)' /\ req'[r].names = {} /\ req'[r].retry = FALSE
    <3>1. req'[r] = new /\ pc'[r] = "find" /\ OthersWait(r)
      BY <1>1, <2>1 DEF BeginEdit, At, Shape, OthersWait, Busy
    <3> QED
      BY <1>1, <2>1, <3>1 DEF BeginEdit, At, Begins, Shaped, Busy, Places, Edits
  <2>2. ASSUME NEW j \in Jobs, NEW c,
               req' = [req EXCEPT ![r] = [Locals("update", j) EXCEPT !.change = c]]
        PROVE  OthersWait(r) /\ Begins(r) /\ Shaped(r)' /\ req'[r].names = {} /\ req'[r].retry = FALSE
    BY <2>1, <2>2 DEF Locals, Fields, Edits
  <2>3. ASSUME NEW j \in Jobs, req' = [req EXCEPT ![r] = Locals("delete", j)]
        PROVE  OthersWait(r) /\ Begins(r) /\ Shaped(r)' /\ req'[r].names = {} /\ req'[r].retry = FALSE
    BY <2>1, <2>3 DEF Locals, Fields, Edits
  <2> QED
    BY <1>1, <2>2, <2>3 DEF BeginEdit
<1>2. CASE BeginSetting(r) /\ Jobs # {}
  <2>0. AnyJob \in Jobs
    BY <1>2 DEF AnyJob
  <2>1. ASSUME NEW new,
               DOMAIN new = Fields, new.kind \in {"zone", "lang"}, new.job = AnyJob,
               new.names = {}, new.retry = FALSE, req' = [req EXCEPT ![r] = new]
        PROVE  OthersWait(r) /\ Begins(r) /\ Shaped(r)' /\ req'[r].names = {} /\ req'[r].retry = FALSE
    <3>1. req'[r] = new /\ pc'[r] = "read" /\ OthersWait(r)
      BY <1>2, <2>1 DEF BeginSetting, At, Shape, OthersWait, Busy
    <3> QED
      BY <1>2, <2>0, <2>1, <3>1 DEF BeginSetting, At, Begins, Shaped, Busy, Places, Edits
  <2>2. ASSUME NEW z, req' = [req EXCEPT ![r] = [Locals("zone", AnyJob) EXCEPT !.value = z]]
        PROVE  OthersWait(r) /\ Begins(r) /\ Shaped(r)' /\ req'[r].names = {} /\ req'[r].retry = FALSE
    BY <2>1, <2>2 DEF Locals, Fields
  <2>3. ASSUME NEW z, req' = [req EXCEPT ![r] = [Locals("lang", AnyJob) EXCEPT !.value = z]]
        PROVE  OthersWait(r) /\ Begins(r) /\ Shaped(r)' /\ req'[r].names = {} /\ req'[r].retry = FALSE
    BY <2>1, <2>3 DEF Locals, Fields
  <2> QED
    BY <1>2, <2>2, <2>3 DEF BeginSetting
<1> QED
  BY <1>1, <1>2, SchedulerAssumption

LEMMA EditMoves ==
  ASSUME Shape, NEW r \in Requests,
         \/ FindJob(r) \/ CheckUpdate(r) \/ SaveDef(r) \/ Rollback(r)
         \/ CheckDelete(r) \/ SoftDelete(r) \/ Restore(r)
  PROVE  OthersWait(r) /\ (Continues(r) \/ Ends(r)) /\ Shaped(r)'
<1>0. pc[r] \in Busy
  BY DEF FindJob, CheckUpdate, SaveDef, Rollback, CheckDelete, SoftDelete, Restore,
         At, Busy
<1>1. /\ pc[r] \in Places(req[r].kind)
      /\ req[r].kind \in Edits \cup {"zone", "lang"}
  BY <1>0 DEF Shape, Shaped
<1>2. CASE \E a : Answer(r, a)
  BY <1>0, <1>2, AnswerMoves
<1>3. ASSUME NEW m, Goto(r, "loaded", [model |-> m]), pc[r] = "find"
      PROVE  OthersWait(r) /\ (Continues(r) \/ Ends(r)) /\ Shaped(r)'
  BY <1>0, <1>1, <1>3, GotoMoves DEF Busy, Places, Edits
<1>4. ASSUME NEW w, NEW n, Goto(r, "save", [want |-> w, next |-> n]),
             req[r].kind = "update"
      PROVE  OthersWait(r) /\ (Continues(r) \/ Ends(r)) /\ Shaped(r)'
  BY <1>0, <1>1, <1>4, GotoMoves DEF Busy, Places, Edits
<1>5. CASE Goto(r, "apply", <<>>) /\ pc[r] = "save"
  BY <1>0, <1>1, <1>5, GotoMoves, NoLocals DEF Busy, Places, Edits
<1>6. ASSUME NEW k, Goto(r, "softdelete", [known |-> k]), req[r].kind = "delete"
      PROVE  OthersWait(r) /\ (Continues(r) \/ Ends(r)) /\ Shaped(r)'
  BY <1>0, <1>1, <1>6, GotoMoves DEF Busy, Places, Edits
<1>7. ASSUME NEW k, NEW b, Goto(r, "softdelete", [known |-> k, back |-> b]),
             req[r].kind = "delete"
      PROVE  OthersWait(r) /\ (Continues(r) \/ Ends(r)) /\ Shaped(r)'
  BY <1>0, <1>1, <1>7, GotoMoves DEF Busy, Places, Edits
<1>8. CASE Goto(r, "unmap", <<>>) /\ pc[r] = "softdelete"
  BY <1>0, <1>1, <1>8, GotoMoves, NoLocals DEF Busy, Places, Edits
<1>9. CASE FindJob(r)
  BY <1>2, <1>3, <1>9 DEF FindJob, At
<1>10. CASE CheckUpdate(r)
  BY <1>2, <1>4, <1>10 DEF CheckUpdate
<1>11. CASE SaveDef(r)
  BY <1>2, <1>5, <1>11 DEF SaveDef, At
<1>12. CASE Rollback(r) \/ Restore(r)
  BY <1>2, <1>12 DEF Rollback, Restore
<1>13. CASE CheckDelete(r)
  BY <1>6, <1>7, <1>13 DEF CheckDelete
<1>14. CASE SoftDelete(r)
  BY <1>2, <1>8, <1>14 DEF SoftDelete, At
<1> QED
  BY <1>9, <1>10, <1>11, <1>12, <1>13, <1>14

LEMMA RemovedMoves ==
  ASSUME Shape, NEW r \in Requests, pc[r] \in Busy, NEW locals, Removed(r, locals),
         "kind" \notin DOMAIN locals, "job" \notin DOMAIN locals,
         "names" \notin DOMAIN locals
  PROVE  OthersWait(r) /\ (Continues(r) \/ Ends(r)) /\ Shaped(r)'
<1>1. CASE req[r].kind = "delete"
  BY <1>1, OutcomeMoves DEF Removed
<1>2. CASE req[r].kind # "delete"
  <2>1. Goto(r, "schedule", locals) /\ "schedule" \in Places(req[r].kind)
    BY <1>2 DEF Removed, Shape, Shaped, Places, Edits
  <2> QED
    BY <2>1, GotoMoves DEF Busy
<1> QED
  BY <1>1, <1>2

LEMMA RebuildMoves ==
  ASSUME Shape, NEW r \in Requests, Rebuild(r)
  PROVE  OthersWait(r) /\ (Continues(r) \/ Ends(r)) /\ Shaped(r)'
<1>0. pc[r] \in Busy
  BY DEF Rebuild, Apply, Unmap, Unschedule, Schedule, Map, At, Busy
<1>1. /\ pc[r] \in Places(req[r].kind)
      /\ req[r].kind \in Edits \cup {"zone", "lang"}
  BY <1>0 DEF Shape, Shaped
<1>2. CASE Succeed(r) \/ Fail(r)
  BY <1>0, <1>2, OutcomeMoves
<1>3. ASSUME NEW b, Goto(r, "unmap", [back |-> b]), pc[r] = "apply"
      PROVE  OthersWait(r) /\ (Continues(r) \/ Ends(r)) /\ Shaped(r)'
  BY <1>0, <1>1, <1>3, GotoMoves DEF Busy, Places, Edits
<1>4. ASSUME NEW e, Goto(r, "unschedule", [taken |-> e]), pc[r] = "unmap"
      PROVE  OthersWait(r) /\ (Continues(r) \/ Ends(r)) /\ Shaped(r)'
  BY <1>0, <1>1, <1>4, GotoMoves DEF Busy, Places, Edits
<1>5. ASSUME NEW e, Goto(r, "map", [taken |-> e]), pc[r] = "schedule"
      PROVE  OthersWait(r) /\ (Continues(r) \/ Ends(r)) /\ Shaped(r)'
  BY <1>0, <1>1, <1>5, GotoMoves DEF Busy, Places, Edits
<1>6. ASSUME NEW w, NEW b, Goto(r, "schedule", [want |-> w, retry |-> b]),
             pc[r] = "schedule"
      PROVE  OthersWait(r) /\ (Continues(r) \/ Ends(r)) /\ Shaped(r)'
  BY <1>0, <1>1, <1>6, GotoMoves DEF Busy, Places, Edits
<1>7. CASE Removed(r, <<>>) \/ Removed(r, [taken |-> {}])
  BY <1>0, <1>7, RemovedMoves, NoLocals
<1>8. CASE Apply(r)
  BY <1>2, <1>3, <1>8 DEF Apply, At
<1>9. CASE Unmap(r)
  BY <1>4, <1>7, <1>9 DEF Unmap, At
<1>10. CASE Unschedule(r)
  BY <1>2, <1>7, <1>10 DEF Unschedule
<1>11. CASE Schedule(r)
  BY <1>2, <1>5, <1>6, <1>11 DEF Schedule, AddFails, At
<1>12. CASE Map(r)
  BY <1>2, <1>12 DEF Map
<1> QED
  BY <1>8, <1>9, <1>10, <1>11, <1>12 DEF Rebuild

LEMMA SettingMoves ==
  ASSUME Shape, NEW r \in Requests, ChangeSetting(r), ~BeginSetting(r)
  PROVE  OthersWait(r) /\ (Continues(r) \/ Ends(r)) /\ Shaped(r)'
<1>0. pc[r] \in Busy
  BY DEF ChangeSetting, ReadSetting, NamesDone, ReloadNext, SyncNext, PersistTitle,
         Replan, WriteReplan, StoreSetting, CacheSetting, At, Busy
<1>1. /\ pc[r] \in Places(req[r].kind) /\ req[r].names \in SUBSET Jobs
      /\ req[r].kind \in Edits \cup {"zone", "lang"} /\ DOMAIN mem \in SUBSET Jobs
  BY <1>0 DEF Shape, Shaped
<1>2. CASE \E a : Answer(r, a)
  BY <1>0, <1>2, AnswerMoves
<1>3. CASE Goto(r, "names", <<>>) /\ pc[r] \in {"persist", "replan", "writeplan"}
  BY <1>0, <1>1, <1>3, GotoMoves, NoLocals DEF Busy, Places, Edits
<1>4. CASE Goto(r, "store", <<>>) /\ pc[r] \in {"read", "names"}
  BY <1>0, <1>1, <1>4, GotoMoves, NoLocals DEF Busy, Places, Edits
<1>5. CASE Goto(r, "cache", <<>>) /\ pc[r] = "store"
  BY <1>0, <1>1, <1>5, GotoMoves, NoLocals DEF Busy, Places, Edits
<1>6. ASSUME NEW n, n \in SUBSET Jobs, Goto(r, "names", [names |-> n]),
             pc[r] \in {"read", "names", "cache"}
      PROVE  OthersWait(r) /\ (Continues(r) \/ Ends(r)) /\ Shaped(r)'
  BY <1>0, <1>1, <1>6, GotoMoves DEF Busy, Places, Edits
<1>7. CASE ReadSetting(r)
  BY <1>1, <1>2, <1>4, <1>6, <1>7 DEF ReadSetting, At
<1>8. CASE NamesDone(r)
  BY <1>2, <1>4, <1>8 DEF NamesDone, At
<1>9. CASE ReloadNext(r)
  <2>1. PICK j \in req[r].names :
          Goto(r, IF j \in DOMAIN mem THEN "unmap" ELSE "names",
               [names |-> req[r].names \ {j}, job |-> j,
                want |-> IF j \in DOMAIN mem THEN Def(mem[j]) ELSE req[r].want])
    BY <1>9 DEF ReloadNext
  <2>2. (IF j \in DOMAIN mem THEN "unmap" ELSE "names") \in Busy \cap Places(req[r].kind)
    BY <1>9 DEF ReloadNext, Busy, Places
  <2>3. j \in Jobs /\ req[r].names \ {j} \in SUBSET Jobs
    BY <1>1, <2>1
  <2> QED
    BY <1>0, <2>1, <2>2, <2>3, GotoMoves
<1>10. CASE SyncNext(r)
  <2>1. ASSUME NEW j \in req[r].names, NEW m, NEW w,
               Goto(r, "apply", [names |-> req[r].names \ {j}, job |-> j, model |-> m,
                                 retry |-> FALSE, want |-> w])
        PROVE  OthersWait(r) /\ (Continues(r) \/ Ends(r)) /\ Shaped(r)'
    <3>1. "apply" \in Busy \cap Places(req[r].kind)
      BY <1>10 DEF SyncNext, Busy, Places
    <3>2. j \in Jobs /\ req[r].names \ {j} \in SUBSET Jobs
      BY <1>1, <2>1
    <3> QED
      BY <1>0, <2>1, <3>1, <3>2, GotoMoves
  <2>2. ASSUME NEW j \in req[r].names, Goto(r, "names", [names |-> req[r].names \ {j}])
        PROVE  OthersWait(r) /\ (Continues(r) \/ Ends(r)) /\ Shaped(r)'
    <3>1. req[r].names \ {j} \in SUBSET Jobs
      BY <1>1
    <3> QED
      BY <1>6, <1>10, <2>2, <3>1 DEF SyncNext, At
  <2> QED
    BY <1>10, <2>1, <2>2 DEF SyncNext
<1>11. CASE PersistTitle(r) \/ WriteReplan(r)
  BY <1>3, <1>11 DEF PersistTitle, WriteReplan, At
<1>12. CASE Replan(r)
  <2>1. ASSUME NEW m, NEW n, Goto(r, "writeplan", [model |-> m, next |-> n])
        PROVE  OthersWait(r) /\ (Continues(r) \/ Ends(r)) /\ Shaped(r)'
    BY <1>0, <1>1, <1>12, <2>1, GotoMoves DEF Replan, At, Busy, Places, Edits
  <2> QED
    BY <1>3, <1>12, <2>1 DEF Replan, At
<1>13. CASE StoreSetting(r)
  BY <1>2, <1>5, <1>13 DEF StoreSetting, At
<1>14. CASE CacheSetting(r)
  BY <1>1, <1>2, <1>6, <1>14 DEF CacheSetting, At
<1> QED
  BY <1>7, <1>8, <1>9, <1>10, <1>11, <1>12, <1>13, <1>14 DEF ChangeSetting

RequestStep(r) == Edit(r) \/ Rebuild(r) \/ ChangeSetting(r) \/ Disconnect(r)

LEMMA RequestMoves ==
  ASSUME Shape, NEW r \in Requests, RequestStep(r)
  PROVE  OthersWait(r) /\ Moves(r) /\ Shaped(r)'
<1>1. CASE BeginEdit(r) \/ BeginSetting(r)
  BY <1>1, BeginMoves DEF Moves
<1>2. CASE Disconnect(r)
  <2>1. /\ pc[r] \in Busy /\ pc'[r] = "lost" /\ OthersWait(r)
        /\ lock' = lock \ {r}
    BY <1>2 DEF Disconnect, Shape, OthersWait
  <2> QED
    BY <2>1 DEF Moves, Ends, Shaped, Busy
<1> QED
  BY <1>1, <1>2, EditMoves, RebuildMoves, SettingMoves
  DEF RequestStep, Edit, ChangeSetting, Moves

\* The steps of the executions leave the requests and the map alone.
\* The steps that leave the requests, the map and the triggers alone.
PlanStep == Tick \/ RunJobNow \/ RunEnds \/ WritePlan \/ BootFails

LEMMA PlanStepLeaves ==
  ASSUME PlanStep
  PROVE  UNCHANGED <<reqVars, schedVars, startVars, zone, lock>>
BY DEF PlanStep, Tick, RunJobNow, Submit, RunEnds, WritePlan, BootFails

LEMMA RequestLeavesStart ==
  ASSUME NEW r \in Requests, RequestStep(r)
  PROVE  up' = up /\ skipped' = skipped
BY DEF RequestStep, Edit, Rebuild, ChangeSetting, BeginEdit, FindJob, CheckUpdate,
       SaveDef, Rollback, CheckDelete, SoftDelete, Restore, Apply, Unmap, Unschedule,
       Schedule, Map, BeginSetting, ReadSetting, NamesDone, ReloadNext, SyncNext,
       PersistTitle, Replan, WriteReplan, StoreSetting, CacheSetting, Disconnect, At,
       startVars

\* A start writes the plans, and only those.
LEMMA StartReplans ==
  ASSUME Boot \/ BootFails
  PROVE  \E plan : /\ \A j \in Jobs : plan[j] \in {row[j].next} \cup Replanned(j)
                   /\ row' = [j \in Jobs |-> [row[j] EXCEPT !.next = plan[j]]]
<1>1. CASE Boot
  <2>1. PICK plan :
          /\ \A j \in Jobs : plan[j] \in IF j \in skipped' THEN {ResetPlan(j)} ELSE Replanned(j)
          /\ row' = [j \in Jobs |-> [row[j] EXCEPT !.next = plan[j]]]
    BY <1>1 DEF Boot, LoadPlans
  <2>2. \A j \in Jobs : plan[j] \in {row[j].next} \cup Replanned(j)
    BY <2>1 DEF Replanned
  <2> QED
    BY <2>1, <2>2
<1>2. CASE BootFails
  BY <1>2 DEF BootFails, LoadPlans
<1> QED
  BY <1>1, <1>2

\* The map is changed one job at a time.
LEMMA MapMoves ==
  ASSUME NEW r \in Requests, RequestStep(r)
  PROVE  \/ mem' = mem
         \/ /\ pc[r] = "apply" /\ req[r].job \in DOMAIN mem
            /\ mem' = [mem EXCEPT ![req[r].job].title = req[r].want.title]
         \/ Unmap(r) /\ mem' = [i \in DOMAIN mem \ {req[r].job} |-> mem[i]]
         \/ /\ Map(r) \/ (Unschedule(r) /\ Failing /\ Fail(r) /\ live' = live)
            /\ \E entry \in req[r].taken :
                 mem' = [i \in DOMAIN mem \cup {req[r].job} |->
                           IF i = req[r].job THEN entry ELSE mem[i]]
<1>1. CASE Edit(r) \/ ChangeSetting(r) \/ Disconnect(r)
  BY <1>1
  DEF Edit, BeginEdit, FindJob, CheckUpdate, SaveDef, Rollback, CheckDelete,
      SoftDelete, Restore, ChangeSetting, BeginSetting, ReadSetting, NamesDone,
      ReloadNext, SyncNext, PersistTitle, Replan, WriteReplan, StoreSetting,
      CacheSetting, Disconnect, schedVars
<1>2. CASE Apply(r)
  BY <1>2 DEF Apply, At
<1>3. CASE Unmap(r)
  BY <1>3 DEF Unmap
<1>4. CASE Unschedule(r)
  BY <1>4 DEF Unschedule
<1>5. CASE Schedule(r)
  BY <1>5 DEF Schedule
<1>6. CASE Map(r)
  BY <1>6 DEF Map
<1> QED
  BY <1>1, <1>2, <1>3, <1>4, <1>5, <1>6 DEF RequestStep, Rebuild

LEMMA ShapeStays ==
  ASSUME Shape, [Next]_vars
  PROVE  Shape'
<1>1. ASSUME NEW r \in Requests, RequestStep(r) PROVE Shape'
  <2>1. OthersWait(r) /\ Shaped(r)'
    BY <1>1, RequestMoves
  <2>2. \A q \in Requests : Shaped(q)'
    BY <2>1 DEF OthersWait, Shape, Shaped
  <2>3. DOMAIN mem' \in SUBSET Jobs
    <3>1. pc[r] \in Busy => req[r].job \in Jobs
      BY DEF Shape, Shaped
    <3>2. Map(r) \/ Unschedule(r) => pc[r] \in Busy
      BY DEF Map, Unschedule, At, Busy
    <3>3. DOMAIN mem \in SUBSET Jobs
      BY DEF Shape
    <3>4. ASSUME NEW entry, Map(r) \/ Unschedule(r),
                 mem' = [i \in DOMAIN mem \cup {req[r].job} |->
                           IF i = req[r].job THEN entry ELSE mem[i]]
          PROVE  DOMAIN mem' \in SUBSET Jobs
      BY <3>1, <3>2, <3>3, <3>4
    <3>5. CASE \/ mem' = mem
               \/ mem' = [mem EXCEPT ![req[r].job].title = req[r].want.title]
               \/ mem' = [i \in DOMAIN mem \ {req[r].job} |-> mem[i]]
      BY <3>3, <3>5
    <3> QED
      BY <1>1, <3>4, <3>5, MapMoves
  <2> QED
    BY <2>1, <2>2, <2>3 DEF OthersWait, Shape
<1>2. CASE PlanStep \/ UNCHANGED vars
  BY <1>2, PlanStepLeaves DEF vars, reqVars, schedVars, Shape, Shaped
<1>3. CASE Down
  BY <1>3 DEF Down, Shape, Shaped, Busy
<1>4. CASE Boot
  BY <1>4, SchedulerAssumption DEF Boot, Load, reqVars, Shape, Shaped
<1> QED
  BY <1>1, <1>2, <1>3, <1>4 DEF Next, RequestStep, PlanStep

-----------------------------------------------------------------------------
(***************************************************************************)
(* The modification lock belongs to the one edit that is under way.        *)
(***************************************************************************)
Editing(r) == pc[r] \in Busy /\ req[r].kind \in Edits

LockInv == \A r \in Requests : Editing(r) => lock = {r}

LEMMA LockStays ==
  ASSUME Shape, LockInv, [Next]_vars
  PROVE  LockInv'
<1>1. ASSUME NEW r \in Requests, RequestStep(r) PROVE LockInv'
  <2>1. OthersWait(r) /\ Moves(r)
    BY <1>1, RequestMoves
  <2>2. ASSUME NEW q \in Requests \ {r}, Editing(q)' PROVE lock' = {q}
    <3>1. Editing(q) /\ lock = {q}
      BY <2>1, <2>2 DEF OthersWait, Editing, LockInv
    <3> QED
      BY <2>1, <3>1 DEF Moves, Continues, Ends, Begins
  <2>3. ASSUME Editing(r)' PROVE lock' = {r}
    BY <2>1, <2>3 DEF Moves, Continues, Ends, Begins, Editing, LockInv, Busy
  <2> QED
    BY <2>2, <2>3 DEF LockInv
<1>2. CASE PlanStep \/ UNCHANGED vars
  BY <1>2, PlanStepLeaves DEF vars, reqVars, LockInv, Editing
<1>3. CASE Down
  BY <1>3 DEF Down, LockInv, Editing, Shape, Busy
<1>4. CASE Boot
  BY <1>4 DEF Boot, reqVars, LockInv, Editing
<1> QED
  BY <1>1, <1>2, <1>3, <1>4 DEF Next, RequestStep, PlanStep

-----------------------------------------------------------------------------
(***************************************************************************)
(* The rows.  Only the delete that holds the lock marks a row as deleted,  *)
(* so an edit that has found its row goes on to find it.                   *)
(***************************************************************************)
RowFields == {"deleted", "title", "expr", "enabled", "last", "next"}

RowShape ==
  /\ DOMAIN row = Jobs
  /\ \A j \in Jobs : row[j] = [f \in RowFields |-> row[j][f]]

\* An edit that has found its row.
Found(r) ==
  \/ pc[r] \in {"loaded", "softdelete"}
  \/ /\ req[r].kind = "update"
     /\ pc[r] \in {"save", "apply", "unmap", "unschedule", "schedule", "map", "rollback"}

FoundInv ==
  \A r \in Requests :
    Editing(r) /\ Found(r) => ~row[req[r].job].deleted

LEMMA FieldWritten ==
  ASSUME NEW x, x = [f \in RowFields |-> x[f]], NEW g, g # "deleted", NEW v
  PROVE  LET y == [x EXCEPT ![g] = v]
         IN  y = [f \in RowFields |-> y[f]] /\ y.deleted = x.deleted
BY DEF RowFields

Written(x, def, last, next) ==
  [x EXCEPT !.title = def.title, !.expr = def.expr, !.enabled = def.enabled,
            !.last = last, !.next = next]

LEMMA FieldsWritten ==
  ASSUME NEW x, x = [f \in RowFields |-> x[f]],
         NEW def, NEW last, NEW next,
         NEW y, y = Written(x, def, last, next)
  PROVE  y = [f \in RowFields |-> y[f]] /\ y.deleted = x.deleted
<1> DEFINE x1 == [x EXCEPT !.title = def.title]
           x2 == [x1 EXCEPT !.expr = def.expr]
           x3 == [x2 EXCEPT !.enabled = def.enabled]
           x4 == [x3 EXCEPT !.last = last]
           x5 == [x4 EXCEPT !.next = next]
<1>1. x1 = [f \in RowFields |-> x1[f]] /\ x1.deleted = x.deleted
  BY FieldWritten
<1> HIDE DEF x1
<1>2. x2 = [f \in RowFields |-> x2[f]] /\ x2.deleted = x1.deleted
  BY <1>1, FieldWritten
<1> HIDE DEF x2
<1>3. x3 = [f \in RowFields |-> x3[f]] /\ x3.deleted = x2.deleted
  BY <1>2, FieldWritten
<1> HIDE DEF x3
<1>4. x4 = [f \in RowFields |-> x4[f]] /\ x4.deleted = x3.deleted
  BY <1>3, FieldWritten
<1> HIDE DEF x4
<1>5. x5 = [f \in RowFields |-> x5[f]] /\ x5.deleted = x4.deleted
  BY <1>4, FieldWritten
<1>6. x5 = y
  BY DEF x1, x2, x3, x4, x5, Written
<1> HIDE DEF x5
<1> QED
  BY <1>1, <1>2, <1>3, <1>4, <1>5, <1>6

\* A row changes as a whole only where it is not deleted.
LEMMA WriteDefKeeps ==
  ASSUME RowShape, NEW k \in Jobs, NEW def, NEW last, NEW next,
         WriteDef(k, def, last, next)
  PROVE  RowShape' /\ \A j \in Jobs : row'[j] # row[j] =>
                        ~row[j].deleted /\ row'[j].deleted = row[j].deleted
<1>1. CASE row[k].deleted
  BY <1>1 DEF WriteDef, RowShape
<1>2. CASE ~row[k].deleted
  <2>1. row' = [row EXCEPT ![k].title = def.title, ![k].expr = def.expr,
                           ![k].enabled = def.enabled, ![k].last = last, ![k].next = next]
    BY <1>2 DEF WriteDef
  <2>2. /\ DOMAIN row' = Jobs
        /\ \A j \in Jobs \ {k} : row'[j] = row[j]
        /\ row'[k] = Written(row[k], def, last, next)
    BY <2>1 DEF RowShape, Written
  <2>3. PICK x : x = row[k]
    OBVIOUS
  <2>4. PICK y : y = Written(x, def, last, next)
    OBVIOUS
  <2>5. x = [f \in RowFields |-> x[f]]
    BY <2>3 DEF RowShape
  <2>6. y = [f \in RowFields |-> y[f]] /\ y.deleted = x.deleted
    BY <2>4, <2>5, FieldsWritten
  <2>7. row'[k] = y
    BY <2>2, <2>3, <2>4
  <2>8. RowShape'
    BY <2>2, <2>6, <2>7 DEF RowShape
  <2>9. ASSUME NEW j \in Jobs, row'[j] # row[j]
        PROVE  ~row[j].deleted /\ row'[j].deleted = row[j].deleted
    <3>1. j = k
      BY <2>2, <2>9
    <3> QED
      BY <1>2, <2>3, <2>6, <2>7, <3>1
  <2> QED
    BY <2>8, <2>9
<1> QED
  BY <1>1, <1>2

LEMMA SetPlanKeeps ==
  ASSUME RowShape, NEW k, NEW last, NEW next, SetPlan(k, last, next)
  PROVE  RowShape' /\ \A j \in Jobs : row'[j] # row[j] =>
                        ~row[j].deleted /\ row'[j].deleted = row[j].deleted
BY DEF SetPlan, RowShape, RowFields

AtRestore(j) == \E r \in Requests : pc[r] = "restore" /\ req[r].job = j

\* What the steps do to the rows.
LEMMA RowMoves ==
  ASSUME Shape, RowShape, [Next]_vars
  PROVE  /\ RowShape'
         /\ \A j \in Jobs : row'[j] # row[j] =>
              \/ ~row[j].deleted /\ row'[j].deleted = row[j].deleted
              \/ \E r \in Requests : pc[r] = "softdelete" /\ req[r].job = j
              \/ AtRestore(j)
<1>1. ASSUME NEW r \in Requests, Edit(r)
      PROVE  /\ RowShape'
             /\ \A j \in Jobs : row'[j] # row[j] =>
                  \/ ~row[j].deleted /\ row'[j].deleted = row[j].deleted
                  \/ pc[r] = "softdelete" /\ req[r].job = j
                  \/ AtRestore(j)
  <2>0. pc[r] \in Busy => req[r].job \in Jobs
    BY DEF Shape, Shaped
  <2>1. CASE UNCHANGED row
    BY <2>1 DEF RowShape
  <2>2. CASE SaveDef(r) /\ row' # row
    BY <2>0, <2>2, WriteDefKeeps DEF SaveDef, At, Busy
  <2>3. CASE Rollback(r) /\ row' # row
    BY <2>0, <2>3, WriteDefKeeps DEF Rollback, At, Busy
  <2>4. CASE SoftDelete(r) /\ row' # row
    BY <2>0, <2>4 DEF SoftDelete, At, Busy, RowShape, RowFields
  <2>5. CASE Restore(r) /\ row' # row
    BY <2>0, <2>5 DEF Restore, At, Busy, RowShape, RowFields, AtRestore
  <2> QED
    BY <1>1, <2>1, <2>2, <2>3, <2>4, <2>5
    DEF Edit, BeginEdit, FindJob, CheckUpdate, CheckDelete, rowVars
<1>2. ASSUME NEW r \in Requests, Rebuild(r) \/ ChangeSetting(r) \/ Disconnect(r)
      PROVE  RowShape' /\ \A j \in Jobs : row'[j] # row[j] =>
                            ~row[j].deleted /\ row'[j].deleted = row[j].deleted
  <2>0. pc[r] \in Busy => req[r].job \in Jobs
    BY DEF Shape, Shaped
  <2>1. CASE UNCHANGED row
    BY <2>1 DEF RowShape
  <2>2. CASE PersistTitle(r) /\ row' # row
    BY <2>0, <2>2, WriteDefKeeps DEF PersistTitle, At, Busy
  <2>3. CASE WriteReplan(r) /\ row' # row
    BY <2>0, <2>3, SetPlanKeeps DEF WriteReplan, At, Busy
  <2> QED
    BY <1>2, <2>1, <2>2, <2>3
    DEF Rebuild, Apply, Unmap, Unschedule, Schedule, Map, ChangeSetting, BeginSetting,
        ReadSetting, NamesDone, ReloadNext, SyncNext, Replan, StoreSetting, CacheSetting,
        Disconnect, rowVars
<1>3. CASE Tick \/ RunJobNow \/ RunEnds \/ Down \/ UNCHANGED vars
  BY <1>3 DEF Tick, RunJobNow, Submit, RunEnds, Down, vars, rowVars, RowShape
<1>4. CASE WritePlan
  BY <1>4, SetPlanKeeps DEF WritePlan, RowShape
<1>5. CASE Boot \/ BootFails
  <2>1. PICK plan : /\ \A j \in Jobs : plan[j] \in {row[j].next} \cup Replanned(j)
                    /\ row' = [j \in Jobs |-> [row[j] EXCEPT !.next = plan[j]]]
    BY <1>5, StartReplans
  <2>2. ASSUME NEW j \in Jobs
        PROVE  /\ row'[j] = [f \in RowFields |-> row'[j][f]]
               /\ row'[j].deleted = row[j].deleted
               /\ row[j].deleted => row'[j] = row[j]
    <3>1. row'[j] = [row[j] EXCEPT !.next = plan[j]]
      BY <2>1
    <3>2. PICK x : x = row[j]
      OBVIOUS
    <3>3. x = [f \in RowFields |-> x[f]]
      BY <3>2 DEF RowShape
    <3>4. PICK y : y = [x EXCEPT !.next = plan[j]]
      OBVIOUS
    <3>5. y = [f \in RowFields |-> y[f]] /\ y.deleted = x.deleted
      BY <3>3, <3>4, FieldWritten
    <3>6. x.deleted => y = x
      BY <2>1, <3>2, <3>3, <3>4 DEF Replanned, ResetPlan, Active, RowFields
    <3> QED
      BY <3>1, <3>2, <3>4, <3>5, <3>6
  <2> QED
    BY <2>1, <2>2 DEF RowShape
<1> QED
  BY <1>1, <1>2, <1>3, <1>4, <1>5 DEF Next

\* An edit stays with its job, and looks for it only once.
EditGoes(r) ==
  /\ req'[r].job = req[r].job
  /\ pc[r] = "find" => ~row[req[r].job].deleted /\ row' = row
  /\ pc'[r] \in {"loaded", "softdelete"} => pc[r] \in {"find", "loaded"}

LEMMA GotoStays ==
  ASSUME Shape, NEW r \in Requests, pc[r] \in Busy,
         NEW to \in Busy, NEW locals, Goto(r, to, locals), "job" \notin DOMAIN locals
  PROVE  pc'[r] = to /\ req'[r].job = req[r].job
BY GotoFields DEF Fields

LEMMA EditGoesOn ==
  ASSUME Shape, NEW r \in Requests, RequestStep(r), Continues(r), req[r].kind \in Edits
  PROVE  EditGoes(r)
<1>0. pc[r] \in Busy /\ pc'[r] \in Busy /\ pc'[r] \notin {"done", "lost", "new"}
  BY DEF Continues, Busy
<1>1. ASSUME NEW a, Answer(r, a) PROVE FALSE
  BY <1>0, <1>1 DEF Answer, Shape
<1>2. ASSUME NEW to \in Busy \ {"loaded", "softdelete"}, pc[r] # "find",
             NEW locals, Goto(r, to, locals), "job" \notin DOMAIN locals
      PROVE  EditGoes(r)
  BY <1>0, <1>2, GotoStays DEF EditGoes
<1>3. ASSUME Fail(r) \/ Succeed(r), pc[r] # "find" PROVE EditGoes(r)
  BY <1>1, <1>2, <1>3, NoLocals DEF Fail, Succeed, Busy, Edits
<1>4. ASSUME NEW locals, Removed(r, locals), "job" \notin DOMAIN locals, pc[r] # "find"
      PROVE  EditGoes(r)
  BY <1>2, <1>3, <1>4 DEF Removed, Busy
<1>5. CASE FindJob(r)
  BY <1>0, <1>1, <1>5, GotoStays DEF FindJob, At, rowVars, EditGoes, Busy
<1>6. CASE CheckUpdate(r)
  BY <1>1, <1>2, <1>6 DEF CheckUpdate, At, Busy
<1>7. CASE SaveDef(r)
  BY <1>1, <1>2, <1>7, NoLocals DEF SaveDef, At, Busy
<1>8. CASE CheckDelete(r)
  <2>1. ASSUME NEW locals, Goto(r, "softdelete", locals), "job" \notin DOMAIN locals
        PROVE  EditGoes(r)
    BY <1>0, <1>8, <2>1, GotoStays DEF CheckDelete, At, EditGoes, Busy
  <2> QED
    BY <1>8, <2>1 DEF CheckDelete
<1>9. CASE SoftDelete(r)
  BY <1>1, <1>2, <1>9, NoLocals DEF SoftDelete, At, Busy
<1>10. CASE Rollback(r) \/ Restore(r)
  BY <1>1, <1>10 DEF Rollback, Restore
<1>11. CASE Apply(r)
  BY <1>2, <1>3, <1>11 DEF Apply, At, Busy
<1>12. CASE Unmap(r)
  BY <1>2, <1>4, <1>12, NoLocals DEF Unmap, At, Busy
<1>13. CASE Unschedule(r)
  BY <1>3, <1>4, <1>13 DEF Unschedule, At
<1>14. CASE Schedule(r)
  BY <1>2, <1>3, <1>14 DEF Schedule, AddFails, At, Busy
<1>15. CASE Map(r)
  BY <1>3, <1>15 DEF Map, At
<1>16. CASE BeginEdit(r) \/ Disconnect(r)
  BY <1>0, <1>16 DEF BeginEdit, Disconnect, At, Shape, Busy
<1>17. CASE ChangeSetting(r)
  BY <1>0, <1>17
  DEF ChangeSetting, BeginSetting, ReadSetting, NamesDone, ReloadNext, SyncNext,
      PersistTitle, Replan, WriteReplan, StoreSetting, CacheSetting, At, Shape, Shaped,
      Places, Edits, Busy
<1> QED
  BY <1>5, <1>6, <1>7, <1>8, <1>9, <1>10, <1>11, <1>12, <1>13, <1>14, <1>15, <1>16, <1>17
  DEF RequestStep, Edit, Rebuild

EditInv == Shape /\ LockInv /\ RowShape /\ FoundInv

LEMMA EditInvStays ==
  ASSUME EditInv, [Next]_vars
  PROVE  EditInv'
<1> USE DEF EditInv
<1>1. Shape' /\ LockInv' /\ RowShape'
  BY ShapeStays, LockStays, RowMoves
\* Only an edit that holds the lock marks a row.
<1>2. ASSUME NEW q \in Requests, Editing(q), Found(q), row'[req[q].job].deleted
      PROVE  pc[q] = "softdelete"
  <2>1. req[q].job \in Jobs /\ ~row[req[q].job].deleted
    BY <1>2 DEF FoundInv, Editing, Shape, Shaped
  <2>2. row'[req[q].job] # row[req[q].job] /\ row'[req[q].job].deleted # row[req[q].job].deleted
    BY <1>2, <2>1
  <2>3. PICK r \in Requests : pc[r] \in {"softdelete", "restore"}
    BY <2>1, <2>2, RowMoves DEF AtRestore
  <2>4. Editing(r)
    BY <2>3 DEF Editing, Shape, Shaped, Places, Busy
  <2>5. r = q
    BY <1>2, <2>4 DEF LockInv
  <2> QED
    BY <1>2, <2>3, <2>5 DEF Found
<1>3. ASSUME NEW r \in Requests, RequestStep(r), NEW q \in Requests, Editing(q)', Found(q)'
      PROVE  ~row'[req'[q].job].deleted
  <2>1. OthersWait(r) /\ Moves(r) /\ Shaped(r)'
    BY <1>3, RequestMoves
  <2>2. CASE q # r
    <3>1. Editing(q) /\ Found(q) /\ req'[q] = req[q] /\ pc'[q] = pc[q]
      BY <1>3, <2>1, <2>2 DEF OthersWait, Editing, Found
    <3>2. ASSUME row'[req[q].job].deleted PROVE FALSE
      <4>1. req[q].job \in Jobs /\ ~row[req[q].job].deleted
        BY <3>1 DEF FoundInv, Editing, Shape, Shaped
      <4>2. pc[q] = "softdelete"
        BY <1>2, <3>1, <3>2
      <4>3. row' # row
        BY <3>2, <4>1
      <4>4. SaveDef(r) \/ Rollback(r) \/ SoftDelete(r) \/ Restore(r) \/ PersistTitle(r) \/ WriteReplan(r)
        BY <1>3, <4>3
        DEF RequestStep, Edit, BeginEdit, FindJob, CheckUpdate, CheckDelete, Rebuild,
            Apply, Unmap, Unschedule, Schedule, Map, ChangeSetting, BeginSetting,
            ReadSetting, NamesDone, ReloadNext, SyncNext, Replan, StoreSetting,
            CacheSetting, Disconnect, rowVars
      <4>5. CASE SaveDef(r) \/ Rollback(r) \/ SoftDelete(r) \/ Restore(r)
        <5>1. Editing(r)
          BY <4>5 DEF SaveDef, Rollback, SoftDelete, Restore, At, Editing, Shape, Shaped,
                      Places, Busy
        <5> QED
          BY <2>2, <3>1, <5>1 DEF LockInv
      <4>6. CASE PersistTitle(r) \/ WriteReplan(r)
        <5>1. pc[r] \in Busy /\ req[r].job \in Jobs
          BY <4>6 DEF PersistTitle, WriteReplan, At, Shape, Shaped, Busy
        <5> QED
          BY <3>2, <4>1, <4>3, <4>6, <5>1, WriteDefKeeps, SetPlanKeeps
          DEF PersistTitle, WriteReplan
      <4> QED
        BY <4>4, <4>5, <4>6
    <3> QED
      BY <3>1, <3>2
  <2>3. CASE q = r
    <3>1. Continues(r) /\ Editing(r)
      BY <1>3, <2>1, <2>3 DEF Moves, Continues, Ends, Begins, Editing, Found, Busy
    <3>2. EditGoes(r)
      BY <1>3, <3>1, EditGoesOn DEF Editing
    <3>3. CASE pc[r] = "find"
      BY <2>3, <3>2, <3>3 DEF EditGoes
    <3>4. CASE pc[r] # "find"
      <4>1. Found(r)
        BY <1>3, <2>3, <3>1, <3>2, <3>4
        DEF Found, EditGoes, Continues, Editing, Shape, Shaped, Places, Edits
      <4>2. pc[r] # "softdelete"
        BY <1>3, <2>3, <3>1, <3>2
        DEF Found, EditGoes, Continues, Editing, Shape, Shaped, Places, Edits
      <4> QED
        BY <1>2, <2>3, <3>1, <3>2, <4>1, <4>2 DEF EditGoes
    <3> QED
      BY <3>3, <3>4
  <2> QED
    BY <2>2, <2>3
<1>4. ASSUME PlanStep \/ Boot \/ UNCHANGED vars,
             NEW q \in Requests, Editing(q)', Found(q)'
      PROVE  ~row'[req'[q].job].deleted
  <2>1. UNCHANGED <<pc, req>> /\ Editing(q) /\ Found(q)
    BY <1>4, PlanStepLeaves DEF Boot, reqVars, vars, Editing, Found
  <2>3. req[q].job \in Jobs /\ ~row[req[q].job].deleted
    BY <2>1 DEF FoundInv, Editing, Shape, Shaped
  <2>4. CASE Boot \/ BootFails
    <3>1. PICK plan : row' = [j \in Jobs |-> [row[j] EXCEPT !.next = plan[j]]]
      BY <2>4, StartReplans
    <3> QED
      BY <2>1, <2>3, <3>1
  <2>5. CASE Tick \/ RunJobNow \/ RunEnds \/ WritePlan \/ UNCHANGED vars
    BY <2>1, <2>3, <2>5, SetPlanKeeps
    DEF Tick, RunJobNow, Submit, RunEnds, WritePlan, rowVars, vars
  <2> QED
    BY <1>4, <2>4, <2>5 DEF PlanStep
<1>5. ASSUME Down, NEW q \in Requests, Editing(q)' PROVE FALSE
  BY <1>5 DEF Down, Editing, Shape, Busy
<1>6. ASSUME NEW q \in Requests, Editing(q)', Found(q)'
      PROVE  ~row'[req'[q].job].deleted
  BY <1>3, <1>4, <1>5, <1>6 DEF Next, RequestStep, PlanStep
<1> QED
  BY <1>1, <1>6 DEF FoundInv

LEMMA EditInvInit == Init => EditInv
<1> SUFFICES ASSUME Init PROVE EditInv
  OBVIOUS
<1>1. Shape /\ LockInv /\ FoundInv
  BY SchedulerAssumption
  DEF Init, Shape, Shaped, LockInv, FoundInv, Editing, Busy
<1>2. RowShape
  <2>1. DOMAIN row = Jobs
    BY DEF Init
  <2>2. ASSUME NEW j \in Jobs
        PROVE  row[j] = [f \in RowFields |-> row[j][f]]
    <3>1. PICK e : row[j] = [deleted |-> FALSE, title |-> "zh", expr |-> e, enabled |-> TRUE,
                             last |-> 0, next |-> [expr |-> e, zone |-> zone, from |-> 0]]
      BY DEF Init
    <3> QED
      BY <3>1 DEF RowFields
  <2> QED
    BY <2>1, <2>2 DEF RowShape
<1> QED
  BY <1>1, <1>2 DEF EditInv

LEMMA EditInvHolds == Spec => []EditInv
<1>1. EditInv /\ [Next]_vars => EditInv'
  BY EditInvStays
<1> QED
  BY <1>1, EditInvInit, PTL DEF Spec

\* Two edits are never under way at the same time, whatever became of the one
\* before: answered, rolled back, cut off by its client or by the process.
THEOREM EditsExcludeEachOther ==
  Spec => [](\A r, q \in Requests : Editing(r) /\ Editing(q) => r = q)
<1>1. EditInv => \A r, q \in Requests : Editing(r) /\ Editing(q) => r = q
  BY DEF EditInv, LockInv
<1> QED
  BY <1>1, EditInvHolds, PTL

\* Whatever executions and setting changes still write, a deleted row stays
\* as it is: all they write leaves deleted rows out (WriteDef, SetPlan), and
\* the only edit that can have found the row before is the delete itself.
THEOREM DeletedRowsFrozenHolds == Spec => DeletedRowsFrozen
<1>1. ASSUME EditInv, EditInv', [Next]_vars,
             NEW j \in Jobs, row[j].deleted, row'[j] # row[j]
      PROVE  \E r \in Requests : pc[r] = "restore" /\ req[r].job = j
  <2>1. ASSUME NEW r \in Requests, pc[r] = "softdelete", req[r].job = j
        PROVE  FALSE
    BY <1>1, <2>1
    DEF EditInv, FoundInv, Editing, Found, Shape, Shaped, Places, Busy
  <2> QED
    BY <1>1, <2>1, RowMoves DEF EditInv, AtRestore
<1>2. EditInv /\ EditInv' /\ [Next]_vars =>
        [\A j \in Jobs :
           (row[j].deleted /\ row'[j] # row[j]) =>
             \E r \in Requests : pc[r] = "restore" /\ req[r].job = j]_vars
  BY <1>1
<1> QED
  BY <1>2, EditInvHolds, PTL DEF Spec, DeletedRowsFrozen

\* A deleted job comes back into the map only by a rebuild without the lock,
\* or where the delete itself is undone: an update holds the lock from before
\* it finds the row, so the row is not deleted while it rebuilds the job.
THEOREM DeletedReturnsOnlyByReloadHolds == Spec => DeletedReturnsOnlyByReload
<1>1. ASSUME EditInv, [Next]_vars,
             NEW j \in DOMAIN mem' \ DOMAIN mem, row[j].deleted
      PROVE  \E r \in Requests :
               /\ pc[r] \in {"unschedule", "map"} /\ req[r].job = j
               /\ \/ req[r].kind \in {"zone", "lang"}
                  \/ req[r].kind = "delete" /\ pc'[r] = "restore"
  <2>1. CASE Down
    BY <1>1, <2>1 DEF Down
  <2>2. CASE Boot
    BY <1>1, <2>2 DEF Boot, Load
  <2>3. CASE PlanStep \/ UNCHANGED vars
    BY <1>1, <2>3, PlanStepLeaves DEF schedVars, vars
  <2>4. ASSUME NEW r \in Requests, RequestStep(r)
        PROVE  \E q \in Requests :
                 /\ pc[q] \in {"unschedule", "map"} /\ req[q].job = j
                 /\ \/ req[q].kind \in {"zone", "lang"}
                    \/ req[q].kind = "delete" /\ pc'[q] = "restore"
    <3>1. /\ Map(r) \/ (Unschedule(r) /\ Fail(r))
          /\ \E entry : mem' = [i \in DOMAIN mem \cup {req[r].job} |->
                                 IF i = req[r].job THEN entry ELSE mem[i]]
      BY <1>1, <2>4, MapMoves
    <3>2. pc[r] \in {"unschedule", "map"} /\ pc[r] \in Busy
      BY <3>1 DEF Map, Unschedule, At, Busy
    <3>3. req[r].job = j
      BY <1>1, <3>1
    <3>4. req[r].kind \in {"zone", "lang", "update", "delete"}
          /\ pc[r] \in Places(req[r].kind)
      BY <1>1, <3>2 DEF EditInv, Shape, Shaped, Edits
    <3>5. ASSUME req[r].kind = "update" PROVE FALSE
      BY <1>1, <3>2, <3>3, <3>5 DEF EditInv, FoundInv, Editing, Found, Edits
    <3>6. ASSUME req[r].kind = "delete" PROVE pc'[r] = "restore"
      <4>1. pc[r] # "map"
        BY <3>4, <3>6 DEF Places
      <4>2. Goto(r, "restore", <<>>)
        BY <3>1, <3>6, <4>1 DEF Map, At, Fail
      <4> QED
        BY <1>1, <4>2 DEF Goto, EditInv, Shape
    <3> QED
      BY <3>2, <3>3, <3>4, <3>5, <3>6
  <2> QED
    BY <1>1, <2>1, <2>2, <2>3, <2>4 DEF Next, RequestStep, PlanStep
<1>2. EditInv /\ [Next]_vars =>
        [\A j \in DOMAIN mem' \ DOMAIN mem :
           row[j].deleted =>
             \E r \in Requests :
               /\ pc[r] \in {"unschedule", "map"} /\ req[r].job = j
               /\ \/ req[r].kind \in {"zone", "lang"}
                  \/ req[r].kind = "delete" /\ pc'[r] = "restore"]_vars
  BY <1>1
<1> QED
  BY <1>2, EditInvHolds, PTL DEF Spec, DeletedReturnsOnlyByReload

-----------------------------------------------------------------------------
(***************************************************************************)
(* Entries.  An entry is in the map or with the request that has taken it  *)
(* out or is going to put it in.  No two entries have the same trigger,    *)
(* since a request adds a job once and its number is in the trigger: so    *)
(* removing a trigger leaves the other entries theirs.                     *)
(***************************************************************************)
EntryFields == {"title", "expr", "enabled", "trigger"}

Holding(r) == pc[r] \in {"unschedule", "map"}

Held(r) == IF Holding(r) THEN req[r].taken ELSE {}

Good(e, j) ==
  /\ DOMAIN e = EntryFields
  /\ e.trigger.job = j
  /\ e.enabled => e.trigger \in live

\* The request may still create a trigger of the job.
MayAdd(r, j) ==
  \/ pc[r] \in {"new", "read"}
  \/ pc[r] \in {"store", "cache"} /\ req[r].kind = "lang"
  \/ /\ pc[r] \in Busy
     /\ \/ j \in req[r].names
        \/ /\ req[r].job = j
           /\ pc[r] \in {"find", "loaded", "save", "softdelete", "apply", "unmap",
                         "unschedule", "schedule"}

\* The job a request is at is no longer among those that are left.
NamesInv ==
  \A r \in Requests :
    pc[r] \in Busy \ {"names"} => req[r].job \notin req[r].names

DownInv == up \/ \A r \in Requests : pc[r] \notin Busy

MappedGood == \A j \in DOMAIN mem : Good(mem[j], j)

HeldGood == \A r \in Requests : \A e \in Held(r) : Good(e, req[r].job)

HeldApart ==
  \A r \in Requests : \A e \in Held(r) :
    /\ \A j \in DOMAIN mem : mem[j].trigger # e.trigger
    /\ \A q \in Requests \ {r} : \A d \in Held(q) : d.trigger # e.trigger

Unused(r, j, t) == t.job = j => t.by # r

Fresh ==
  \A r \in Requests : \A j \in Jobs : MayAdd(r, j) =>
    /\ \A i \in DOMAIN mem : Unused(r, j, mem[i].trigger)
    /\ \A q \in Requests : \A e \in Held(q) : Unused(r, j, e.trigger)

EntryInv == MappedGood /\ HeldGood /\ HeldApart /\ Fresh

LEMMA DownStays ==
  ASSUME Shape, DownInv, [Next]_vars
  PROVE  DownInv'
<1>1. ASSUME NEW r \in Requests, RequestStep(r) PROVE DownInv'
  <2>1. up /\ up' = up
    BY <1>1
    DEF RequestStep, Edit, Rebuild, ChangeSetting, BeginEdit, FindJob, CheckUpdate,
        SaveDef, Rollback, CheckDelete, SoftDelete, Restore, Apply, Unmap, Unschedule,
        Schedule, Map, BeginSetting, ReadSetting, NamesDone, ReloadNext, SyncNext,
        PersistTitle, Replan, WriteReplan, StoreSetting, CacheSetting, Disconnect, At,
        startVars, DownInv, Busy
  <2> QED
    BY <2>1 DEF DownInv
<1>2. CASE PlanStep \/ UNCHANGED vars
  BY <1>2, PlanStepLeaves DEF vars, reqVars, startVars, DownInv
<1>3. CASE Down
  BY <1>3 DEF Down, DownInv, Shape, Busy
<1>4. CASE Boot
  BY <1>4 DEF Boot, DownInv
<1> QED
  BY <1>1, <1>2, <1>3, <1>4 DEF Next, RequestStep, PlanStep

\* How a request goes on with the jobs that are left.
Narrows(r) ==
  /\ pc'[r] \in Busy \ {"names"} => req'[r].job \notin req'[r].names
  /\ \A j \in Jobs : MayAdd(r, j)' => MayAdd(r, j)

LEMMA GotoNarrows ==
  ASSUME Shape, NamesInv, NEW r \in Requests, pc[r] \in Busy \ {"names"},
         NEW to \in Busy, NEW locals, Goto(r, to, locals),
         "job" \notin DOMAIN locals, "names" \notin DOMAIN locals, "kind" \notin DOMAIN locals,
         \/ pc[r] = "read"
         \/ to \in {"save", "softdelete", "loaded"} /\ pc[r] \in {"find", "loaded"}
         \/ pc[r] = "store" /\ to = "cache"
         \/ to \in {"apply", "unmap", "unschedule", "schedule"}
            /\ pc[r] \in {"save", "softdelete", "apply", "unmap", "unschedule", "schedule"}
         \/ to \in {"map", "rollback", "restore", "persist", "replan", "writeplan", "names"}
  PROVE  Narrows(r)
<1>1. /\ pc'[r] = to
      /\ req'[r].job = req[r].job /\ req'[r].names = req[r].names
      /\ req'[r].kind = req[r].kind
  BY GotoFields DEF Fields
<1>2. req[r].job \notin req[r].names
  BY DEF NamesInv
<1> QED
  BY <1>1, <1>2 DEF Narrows, MayAdd, Busy

LEMMA AnswerNarrows ==
  ASSUME Shape, NEW r \in Requests, NEW a, Answer(r, a)
  PROVE  Narrows(r)
BY DEF Answer, Shape, Narrows, MayAdd, Busy

LEMMA OutcomeNarrows ==
  ASSUME Shape, NamesInv, NEW r \in Requests, Succeed(r) \/ Fail(r),
         pc[r] \in {"apply", "unmap", "unschedule", "schedule", "map"}
  PROVE  Narrows(r)
<1>1. pc[r] \in Busy \ {"names"}
  BY DEF Busy
<1>2. ASSUME NEW a, Answer(r, a) PROVE Narrows(r)
  BY <1>2, AnswerNarrows
<1>3. ASSUME NEW to \in {"persist", "replan", "rollback", "restore", "names"}, Goto(r, to, <<>>)
      PROVE  Narrows(r)
  BY <1>1, <1>3, GotoNarrows, NoLocals DEF Busy
<1>4. ASSUME Goto(r, "names", [failed |-> TRUE]) PROVE Narrows(r)
  BY <1>1, <1>4, GotoNarrows DEF Busy
<1> QED
  BY <1>2, <1>3, <1>4 DEF Succeed, Fail

LEMMA EditNarrows ==
  ASSUME Shape, NamesInv, NEW r \in Requests, Edit(r)
  PROVE  Narrows(r)
<1>1. ASSUME NEW a, Answer(r, a) PROVE Narrows(r)
  BY <1>1, AnswerNarrows
<1>2. CASE BeginEdit(r)
  <2>1. pc[r] = "new" /\ pc'[r] = "find" /\ req'[r].names = {}
    BY <1>2, BeginMoves DEF BeginEdit, At, Shape
  <2> QED
    BY <2>1 DEF Narrows, MayAdd
<1>3. CASE FindJob(r)
  BY <1>1, <1>3, GotoNarrows DEF FindJob, At, Busy
<1>4. CASE CheckUpdate(r)
  BY <1>1, <1>4, GotoNarrows DEF CheckUpdate, At, Busy
<1>5. CASE SaveDef(r)
  BY <1>1, <1>5, GotoNarrows, NoLocals DEF SaveDef, At, Busy
<1>6. CASE CheckDelete(r)
  BY <1>6, GotoNarrows DEF CheckDelete, At, Busy
<1>7. CASE SoftDelete(r)
  BY <1>1, <1>7, GotoNarrows, NoLocals DEF SoftDelete, At, Busy
<1>8. CASE Rollback(r) \/ Restore(r)
  BY <1>1, <1>8 DEF Rollback, Restore
<1> QED
  BY <1>2, <1>3, <1>4, <1>5, <1>6, <1>7, <1>8 DEF Edit

LEMMA RebuildNarrows ==
  ASSUME Shape, NamesInv, NEW r \in Requests, Rebuild(r)
  PROVE  Narrows(r)
<1>1. ASSUME NEW locals, Removed(r, locals), pc[r] \in {"unmap", "unschedule"},
             "job" \notin DOMAIN locals, "names" \notin DOMAIN locals, "kind" \notin DOMAIN locals
      PROVE  Narrows(r)
  BY <1>1, OutcomeNarrows, GotoNarrows DEF Removed, Busy
<1>2. CASE Apply(r)
  BY <1>2, OutcomeNarrows, GotoNarrows DEF Apply, At, Busy
<1>3. CASE Unmap(r)
  BY <1>1, <1>3, GotoNarrows, NoLocals DEF Unmap, At, Busy
<1>4. CASE Unschedule(r)
  BY <1>1, <1>4, OutcomeNarrows DEF Unschedule, At, Busy
<1>5. CASE Schedule(r)
  BY <1>5, OutcomeNarrows, GotoNarrows DEF Schedule, AddFails, At, Busy
<1>6. CASE Map(r)
  BY <1>6, OutcomeNarrows DEF Map, At
<1> QED
  BY <1>2, <1>3, <1>4, <1>5, <1>6 DEF Rebuild

LEMMA SettingNarrows ==
  ASSUME Shape, NamesInv, NEW r \in Requests, ChangeSetting(r)
  PROVE  Narrows(r)
<1>1. ASSUME NEW a, Answer(r, a) PROVE Narrows(r)
  BY <1>1, AnswerNarrows
<1>2. CASE BeginSetting(r)
  <2>1. pc[r] = "new" /\ pc'[r] = "read" /\ req'[r].names = {}
    BY <1>2, BeginMoves DEF BeginSetting, At, Shape
  <2> QED
    BY <2>1 DEF Narrows, MayAdd
<1>3. CASE ReadSetting(r)
  <2>1. ASSUME NEW to \in {"names", "store"}, NEW locals, Goto(r, to, locals),
               "job" \notin DOMAIN locals, "names" \in DOMAIN locals => to = "names"
        PROVE  Narrows(r)
    <3>1. pc[r] = "read" /\ pc[r] \in Busy /\ to \in Busy
      BY <1>3, <2>1 DEF ReadSetting, At, Busy
    <3>2. /\ pc'[r] = to /\ req'[r].job = req[r].job
          /\ to = "store" => req'[r].names = req[r].names
      BY <2>1, <3>1, GotoFields DEF Fields
    <3> QED
      BY <2>1, <3>1, <3>2 DEF Narrows, MayAdd, NamesInv
  <2> QED
    BY <1>1, <1>3, <2>1, NoLocals DEF ReadSetting
<1>4. CASE NamesDone(r)
  <2>1. pc[r] = "names" /\ pc[r] \in Busy /\ req[r].names = {} /\ "store" \in Busy
    BY <1>4 DEF NamesDone, At, Busy
  <2>2. ASSUME req[r].kind = "zone", Goto(r, "store", <<>>) PROVE Narrows(r)
    <3>1. pc'[r] = "store" /\ req'[r].names = {} /\ req'[r].kind = "zone"
      BY <2>1, <2>2, GotoFields, NoLocals DEF Fields
    <3> QED
      BY <3>1 DEF Narrows, MayAdd
  <2> QED
    BY <1>1, <1>4, <2>2 DEF NamesDone
\* A job is taken from the jobs that are left.
<1>5. ASSUME NEW j \in req[r].names, pc[r] = "names",
             NEW to \in {"names", "unmap", "apply"}, NEW locals, Goto(r, to, locals),
             locals.names = req[r].names \ {j}, "names" \in DOMAIN locals,
             "kind" \notin DOMAIN locals,
             IF "job" \in DOMAIN locals THEN locals.job = j ELSE to = "names"
      PROVE  Narrows(r)
  <2>1. pc[r] \in Busy /\ to \in Busy
    BY <1>5 DEF Busy
  <2>2. /\ pc'[r] = to /\ req'[r].names = req[r].names \ {j}
        /\ req'[r].job = j \/ to = "names"
        /\ req'[r].kind = req[r].kind
    BY <1>5, <2>1, GotoFields DEF Fields
  <2> QED
    BY <1>5, <2>1, <2>2 DEF Narrows, MayAdd, Busy
<1>6. CASE ReloadNext(r)
  <2>1. PICK j \in req[r].names :
          Goto(r, IF j \in DOMAIN mem THEN "unmap" ELSE "names",
               [names |-> req[r].names \ {j}, job |-> j,
                want |-> IF j \in DOMAIN mem THEN Def(mem[j]) ELSE req[r].want])
    BY <1>6 DEF ReloadNext
  <2>2. pc[r] = "names"
    BY <1>6 DEF ReloadNext, At
  <2>3. PICK to : to = IF j \in DOMAIN mem THEN "unmap" ELSE "names"
    OBVIOUS
  <2>4. PICK want : want = IF j \in DOMAIN mem THEN Def(mem[j]) ELSE req[r].want
    OBVIOUS
  <2>5. Goto(r, to, [names |-> req[r].names \ {j}, job |-> j, want |-> want])
    BY <2>1, <2>3, <2>4
  <2>6. to \in {"names", "unmap"}
    BY <2>3
  <2> QED
    BY <1>5, <2>2, <2>5, <2>6
<1>7. CASE SyncNext(r)
  <2>1. pc[r] = "names"
    BY <1>7 DEF SyncNext, At
  <2>2. PICK j \in req[r].names :
          \/ Goto(r, "names", [names |-> req[r].names \ {j}])
          \/ Goto(r, "apply",
                  [names |-> req[r].names \ {j}, job |-> j, model |-> row[j], retry |-> FALSE,
                   want |-> [Def(row[j]) EXCEPT !.title = req[r].value]])
    BY <1>7 DEF SyncNext
  <2> QED
    BY <1>5, <2>1, <2>2
<1>8. CASE PersistTitle(r)
  BY <1>8, GotoNarrows, NoLocals DEF PersistTitle, At, Busy
<1>9. CASE Replan(r)
  BY <1>9, GotoNarrows, NoLocals DEF Replan, At, Busy
<1>10. CASE WriteReplan(r)
  BY <1>10, GotoNarrows, NoLocals DEF WriteReplan, At, Busy
<1>11. CASE StoreSetting(r)
  BY <1>1, <1>11, GotoNarrows, NoLocals DEF StoreSetting, At, Busy
<1>12. CASE CacheSetting(r)
  <2>1. pc[r] = "cache" /\ pc[r] \in Busy /\ "names" \in Busy
    BY <1>12 DEF CacheSetting, At, Busy
  <2>2. ASSUME req[r].kind = "lang", Goto(r, "names", [names |-> DOMAIN mem])
        PROVE  Narrows(r)
    <3>1. pc'[r] = "names"
      BY <2>1, <2>2, GotoFields
    <3> QED
      BY <2>1, <2>2, <3>1 DEF Narrows, MayAdd
  <2> QED
    BY <1>1, <1>12, <2>2 DEF CacheSetting
<1> QED
  BY <1>2, <1>3, <1>4, <1>6, <1>7, <1>8, <1>9, <1>10, <1>11, <1>12 DEF ChangeSetting

LEMMA StepNarrows ==
  ASSUME Shape, NamesInv, NEW r \in Requests, RequestStep(r)
  PROVE  Narrows(r)
<1>1. CASE Disconnect(r)
  BY <1>1 DEF Disconnect, Shape, Narrows, MayAdd, Busy
<1> QED
  BY <1>1, EditNarrows, RebuildNarrows, SettingNarrows DEF RequestStep

LEMMA NamesStay ==
  ASSUME Shape, NamesInv, [Next]_vars
  PROVE  NamesInv'
<1>1. ASSUME NEW r \in Requests, RequestStep(r) PROVE NamesInv'
  BY <1>1, StepNarrows, RequestMoves DEF Narrows, OthersWait, NamesInv
<1>2. CASE PlanStep \/ Boot \/ UNCHANGED vars
  BY <1>2, PlanStepLeaves DEF Boot, reqVars, vars, NamesInv
<1>3. CASE Down
  BY <1>3 DEF Down, NamesInv, Shape, Busy
<1> QED
  BY <1>1, <1>2, <1>3 DEF Next, RequestStep, PlanStep

-----------------------------------------------------------------------------
(***************************************************************************)
(* What the steps of a request do to the entries.                          *)
(***************************************************************************)

\* Only taking an entry out and creating one make a request hold one.
LEMMA OthersHoldNone ==
  ASSUME Shape, NEW r \in Requests, RequestStep(r), ~Unmap(r), ~Schedule(r)
  PROVE  ~Holding(r)'
<1>0. pc[r] \in Busy => DOMAIN req[r] = Fields /\ pc[r] \in Places(req[r].kind)
  BY DEF Shape, Shaped
<1>1. ASSUME NEW to, to \notin {"unschedule", "map"}, pc' = [pc EXCEPT ![r] = to]
      PROVE  ~Holding(r)'
  BY <1>1 DEF Shape, Holding
<1>2. ASSUME NEW a, Answer(r, a) PROVE ~Holding(r)'
  BY <1>1, <1>2 DEF Answer
<1>3. ASSUME NEW to, to \notin {"unschedule", "map"}, NEW locals, Goto(r, to, locals)
      PROVE  ~Holding(r)'
  BY <1>1, <1>3 DEF Goto
<1>4. ASSUME Succeed(r) \/ Fail(r) PROVE ~Holding(r)'
  BY <1>2, <1>3, <1>4 DEF Succeed, Fail
<1>5. CASE Edit(r)
  BY <1>1, <1>2, <1>3, <1>5
  DEF Edit, BeginEdit, FindJob, CheckUpdate, SaveDef, Rollback, CheckDelete,
      SoftDelete, Restore
<1>6. CASE ChangeSetting(r) /\ ~ReloadNext(r) /\ ~SyncNext(r)
  BY <1>1, <1>2, <1>3, <1>6
  DEF ChangeSetting, BeginSetting, ReadSetting, NamesDone,
      PersistTitle, Replan, WriteReplan, StoreSetting, CacheSetting
<1>7. CASE ReloadNext(r)
  <2>1. PICK j, to : pc' = [pc EXCEPT ![r] = to] /\ to = IF j \in DOMAIN mem THEN "unmap" ELSE "names"
    BY <1>7 DEF ReloadNext, Goto
  <2>2. to \notin {"unschedule", "map"}
    BY <2>1
  <2> QED
    BY <1>1, <2>1, <2>2
<1>8. CASE SyncNext(r)
  <2>1. PICK to, locals : to \in {"names", "apply"} /\ Goto(r, to, locals)
    BY <1>8 DEF SyncNext
  <2> QED
    BY <1>3, <2>1
<1>9. CASE Apply(r)
  BY <1>3, <1>4, <1>9 DEF Apply
<1>10. CASE Unschedule(r)
  BY <1>3, <1>4, <1>10 DEF Unschedule, Removed
<1>11. CASE Map(r)
  BY <1>4, <1>11 DEF Map
<1>12. CASE Disconnect(r)
  BY <1>1, <1>12 DEF Disconnect
<1> QED
  BY <1>5, <1>6, <1>7, <1>8, <1>9, <1>10, <1>11, <1>12 DEF RequestStep, Rebuild

\* The triggers change only where one is removed or created.
LEMMA OthersLeaveLive ==
  ASSUME NEW r \in Requests, RequestStep(r), ~Unschedule(r), ~Schedule(r)
  PROVE  live' = live
BY DEF RequestStep, Edit, Rebuild, ChangeSetting, BeginEdit, FindJob, CheckUpdate,
       SaveDef, Rollback, CheckDelete, SoftDelete, Restore, Apply, Unmap, Map,
       BeginSetting, ReadSetting, NamesDone, ReloadNext, SyncNext, PersistTitle,
       Replan, WriteReplan, StoreSetting, CacheSetting, Disconnect, schedVars

\* The other requests hold what they held.
Others(r) ==
  \A q \in Requests \ {r} : Held(q)' = Held(q) /\ req'[q] = req[q]

Shrinks == \A q \in Requests : \A j \in Jobs : MayAdd(q, j)' => MayAdd(q, j)

LEMMA OthersKeep ==
  ASSUME Shape, NamesInv, NEW r \in Requests, RequestStep(r)
  PROVE  Others(r) /\ Shrinks
<1>1. OthersWait(r) /\ Narrows(r)
  BY RequestMoves, StepNarrows
<1>2. Others(r)
  BY <1>1 DEF Others, OthersWait, Held, Holding
<1>3. \A q \in Requests \ {r} : \A j \in Jobs : MayAdd(q, j)' => MayAdd(q, j)
  BY <1>1 DEF OthersWait, MayAdd
<1> QED
  BY <1>1, <1>2, <1>3 DEF Shrinks, Narrows

\* An entry with the same trigger as before.
Same(e, d) == DOMAIN e = DOMAIN d /\ e.trigger = d.trigger /\ e.enabled = d.enabled

\* Nothing is put in: entries only go, or change their title.
LEMMA NothingPutIn ==
  ASSUME EntryInv, NEW r \in Requests, Others(r), Shrinks, live' = live,
         DOMAIN mem' \subseteq DOMAIN mem, \A j \in DOMAIN mem' : Same(mem'[j], mem[j]),
         Held(r)' = {}
  PROVE  EntryInv'
<1>1. MappedGood'
  BY DEF EntryInv, MappedGood, Good, Same
<1>2. HeldGood'
  BY DEF EntryInv, HeldGood, Good, Others
<1>3. HeldApart'
  BY DEF EntryInv, HeldApart, Others, Same
<1>4. Fresh'
  BY DEF EntryInv, Fresh, Others, Same, Shrinks, Unused
<1> QED
  BY <1>1, <1>2, <1>3, <1>4 DEF EntryInv

\* An entry goes from the map to the request.
LEMMA TakenOut ==
  ASSUME EntryInv, NEW r \in Requests, Others(r), Shrinks, live' = live,
         NEW k \in DOMAIN mem, mem' = [i \in DOMAIN mem \ {k} |-> mem[i]],
         Held(r)' = {mem[k]}, req'[r].job = k
  PROVE  EntryInv'
<1>0. \A i, j \in DOMAIN mem : i # j => mem[i].trigger # mem[j].trigger
  BY DEF EntryInv, MappedGood, Good
<1>1. MappedGood'
  BY DEF EntryInv, MappedGood, Good
<1>2. HeldGood'
  BY DEF EntryInv, HeldGood, MappedGood, Good, Others
<1>3. HeldApart'
  BY <1>0 DEF EntryInv, HeldApart, Others
<1>4. Fresh'
  BY DEF EntryInv, Fresh, Others, Shrinks, Unused
<1> QED
  BY <1>1, <1>2, <1>3, <1>4 DEF EntryInv

\* An entry goes from the request into the map, over what is there.
LEMMA PutIn ==
  ASSUME EntryInv, NEW r \in Requests, Others(r), Shrinks, live' = live,
         NEW e \in Held(r), NEW k, k = req[r].job,
         mem' = [i \in DOMAIN mem \cup {k} |-> IF i = k THEN e ELSE mem[i]],
         Held(r)' = {}
  PROVE  EntryInv'
<1>1. MappedGood'
  BY DEF EntryInv, MappedGood, HeldGood, Good
<1>2. HeldGood'
  BY DEF EntryInv, HeldGood, Good, Others
<1>3. HeldApart'
  BY DEF EntryInv, HeldApart, Others
<1>4. Fresh'
  BY DEF EntryInv, Fresh, Others, Shrinks, Unused
<1> QED
  BY <1>1, <1>2, <1>3, <1>4 DEF EntryInv

\* The trigger of a held entry is removed.
LEMMA TriggerRemoved ==
  ASSUME EntryInv, NEW r \in Requests, Others(r), Shrinks, mem' = mem,
         NEW e \in Held(r), live' = live \ {e.trigger}, Held(r)' = {}
  PROVE  EntryInv'
<1>1. MappedGood'
  BY DEF EntryInv, MappedGood, HeldApart, Good
<1>2. HeldGood'
  BY DEF EntryInv, HeldGood, HeldApart, Good, Others
<1>3. HeldApart'
  BY DEF EntryInv, HeldApart, Others
<1>4. Fresh'
  BY DEF EntryInv, Fresh, Others, Shrinks, Unused
<1> QED
  BY <1>1, <1>2, <1>3, <1>4 DEF EntryInv

\* A trigger is created, with a number its job has not yet got from.
LEMMA TriggerCreated ==
  ASSUME EntryInv, NEW r \in Requests, Others(r), Shrinks, mem' = mem,
         NEW e, DOMAIN e = EntryFields, e.trigger.job = req[r].job, e.trigger.by = r,
         live \subseteq live', e.enabled => e.trigger \in live',
         Held(r)' = {e}, req'[r].job = req[r].job, req[r].job \in Jobs,
         MayAdd(r, req[r].job), ~MayAdd(r, req[r].job)'
  PROVE  EntryInv'
<1>0. /\ \A j \in DOMAIN mem : mem[j].trigger # e.trigger
      /\ \A q \in Requests : \A d \in Held(q) : d.trigger # e.trigger
  BY DEF EntryInv, Fresh, Unused
<1>1. MappedGood'
  BY DEF EntryInv, MappedGood, Good
<1>2. HeldGood'
  BY DEF EntryInv, HeldGood, Good, Others
<1>3. HeldApart'
  BY <1>0 DEF EntryInv, HeldApart, Others
<1>4. Fresh'
  BY DEF EntryInv, Fresh, Others, Shrinks, Unused
<1> QED
  BY <1>1, <1>2, <1>3, <1>4 DEF EntryInv

LEMMA UnmapKeepsEntries ==
  ASSUME Shape, NamesInv, EntryInv, NEW r \in Requests, Unmap(r)
  PROVE  EntryInv'
<1>1. Others(r) /\ Shrinks
  BY OthersKeep DEF RequestStep, Rebuild
<1>2. pc[r] = "unmap" /\ pc[r] \in Busy /\ "unschedule" \in Busy
      /\ live' = live /\ mem' = [i \in DOMAIN mem \ {req[r].job} |-> mem[i]]
  BY DEF Unmap, At, Busy
<1>3. CASE req[r].job \in DOMAIN mem /\ mem[req[r].job].enabled
  <2>1. Goto(r, "unschedule", [taken |-> {mem[req[r].job]}])
    BY <1>3 DEF Unmap
  <2>2. pc'[r] = "unschedule" /\ req'[r].taken = {mem[req[r].job]} /\ req'[r].job = req[r].job
    BY <1>2, <2>1, GotoFields DEF Fields
  <2> QED
    BY <1>1, <1>2, <1>3, <2>2, TakenOut DEF Held, Holding
<1>4. CASE ~(req[r].job \in DOMAIN mem /\ mem[req[r].job].enabled)
  <2>1. Removed(r, <<>>)
    BY <1>4 DEF Unmap
  <2>2. pc'[r] \notin {"unschedule", "map"}
    BY <2>1 DEF Removed, Succeed, Goto, Answer, Shape
  <2>3. Held(r)' = {}
    BY <2>2 DEF Held, Holding
  <2>4. DOMAIN mem' \subseteq DOMAIN mem /\ \A j \in DOMAIN mem' : Same(mem'[j], mem[j])
    BY <1>2 DEF Same
  <2> QED
    BY <1>1, <1>2, <2>3, <2>4, NothingPutIn
<1> QED
  BY <1>3, <1>4

LEMMA ScheduleKeepsEntries ==
  ASSUME Shape, NamesInv, EntryInv, NEW r \in Requests, Schedule(r)
  PROVE  EntryInv'
<1>1. Others(r) /\ Shrinks
  BY OthersKeep DEF RequestStep, Rebuild
<1>2. pc[r] = "schedule" /\ pc[r] \in Busy /\ "map" \in Busy /\ mem' = mem
      /\ req[r].job \in Jobs
  BY DEF Schedule, At, Busy, Shape, Shaped
<1>3. CASE Goto(r, "map", [taken |-> {Entry(r)}])
           /\ live' = IF Entry(r).enabled THEN live \cup {Entry(r).trigger} ELSE live
  <2>1. /\ pc'[r] = "map" /\ req'[r].taken = {Entry(r)} /\ req'[r].job = req[r].job
        /\ req'[r].names = req[r].names
    BY <1>2, <1>3, GotoFields DEF Fields
  <2>2. Held(r)' = {Entry(r)}
    BY <2>1 DEF Held, Holding
  <2>3. MayAdd(r, req[r].job) /\ ~MayAdd(r, req[r].job)'
    BY <1>2, <2>1 DEF MayAdd, NamesInv
  <2>4. PICK e : e = Entry(r)
    OBVIOUS
  <2>5. DOMAIN e = EntryFields /\ e.trigger.job = req[r].job /\ e.trigger.by = r
    BY <2>4 DEF Entry, EntryFields
  <2>6. live \subseteq live' /\ (e.enabled => e.trigger \in live')
    BY <1>3, <2>4
  <2> QED
    BY <1>1, <1>2, <2>1, <2>2, <2>3, <2>4, <2>5, <2>6, TriggerCreated
<1>4. CASE AddFails(r) /\ live' = live
  <2>1. pc'[r] \notin {"unschedule", "map"}
    BY <1>4 DEF AddFails, Fail, Goto, Shape
  <2>2. Held(r)' = {}
    BY <2>1 DEF Held, Holding
  <2> QED
    BY <1>1, <1>2, <1>4, <2>2, NothingPutIn DEF Same
<1> QED
  BY <1>3, <1>4 DEF Schedule

LEMMA OthersKeepEntries ==
  ASSUME Shape, NamesInv, EntryInv, NEW r \in Requests, RequestStep(r),
         ~Unmap(r), ~Schedule(r)
  PROVE  EntryInv'
<1>1. Others(r) /\ Shrinks
  BY OthersKeep
<1>2. Held(r)' = {}
  BY OthersHoldNone DEF Held
<1>3. CASE Map(r) \/ Unschedule(r)
  <2>1. Held(r) = req[r].taken
    BY <1>3 DEF Map, Unschedule, At, Held, Holding
  <2>2. CASE Map(r)
    <3>1. live' = live
      BY <2>2 DEF Map
    <3>2. PICK e \in Held(r) :
            mem' = [i \in DOMAIN mem \cup {req[r].job} |->
                      IF i = req[r].job THEN e ELSE mem[i]]
      BY <2>1, <2>2 DEF Map
    <3> QED
      BY <1>1, <1>2, <3>1, <3>2, PutIn
  <2>3. CASE Unschedule(r)
    <3>1. PICK e \in Held(r) :
            \/ live' = live \ {e.trigger} /\ mem' = mem
            \/ /\ live' = live
               /\ mem' = [i \in DOMAIN mem \cup {req[r].job} |->
                            IF i = req[r].job THEN e ELSE mem[i]]
      BY <2>1, <2>3 DEF Unschedule
    <3> QED
      BY <1>1, <1>2, <3>1, PutIn, TriggerRemoved
  <2> QED
    BY <1>3, <2>2, <2>3
<1>4. CASE ~Map(r) /\ ~Unschedule(r)
  <2>1. live' = live
    BY <1>4, OthersLeaveLive
  <2>2. CASE mem' = mem
    BY <1>1, <1>2, <2>1, <2>2, NothingPutIn DEF Same
  <2>3. CASE mem' = [mem EXCEPT ![req[r].job].title = req[r].want.title]
    <3>1. DOMAIN mem' = DOMAIN mem
      BY <2>3
    <3>2. ASSUME NEW j \in DOMAIN mem' PROVE Same(mem'[j], mem[j])
      <4>1. PICK x : x = mem[j]
        OBVIOUS
      <4>2. DOMAIN x = EntryFields
        BY <3>1, <4>1 DEF EntryInv, MappedGood, Good
      <4>3. PICK y : y = [x EXCEPT !.title = req[r].want.title]
        OBVIOUS
      <4>4. Same(y, x)
        BY <4>2, <4>3 DEF Same, EntryFields
      <4>5. mem'[j] = x \/ mem'[j] = y
        BY <2>3, <3>1, <4>1, <4>3
      <4> QED
        BY <4>1, <4>4, <4>5 DEF Same
    <3> QED
      BY <1>1, <1>2, <2>1, <3>1, <3>2, NothingPutIn
  <2> QED
    BY <1>4, <2>2, <2>3, MapMoves
<1> QED
  BY <1>3, <1>4

\* The entries of a process that has just loaded the jobs.
LEMMA LoadedEntries ==
  ASSUME NEW rows, NEW z, NEW skip, mem' = Load(rows, z, skip), live' = Triggered(mem'),
         \A r \in Requests : Held(r)' = {}
  PROVE  EntryInv'
<1>1. ASSUME NEW j \in DOMAIN mem'
      PROVE  /\ DOMAIN mem'[j] = EntryFields
             /\ mem'[j].trigger.job = j /\ mem'[j].trigger.by = 0
             /\ mem'[j].enabled => mem'[j].trigger \in live'
  <2>1. mem'[j] = [title |-> rows[j].title, expr |-> rows[j].expr, enabled |-> rows[j].enabled,
                   trigger |-> [job |-> j, by |-> 0, expr |-> rows[j].expr, zone |-> z]]
    BY <1>1 DEF Load
  <2>2. DOMAIN mem'[j] = EntryFields /\ mem'[j].trigger.job = j /\ mem'[j].trigger.by = 0
    BY <2>1 DEF EntryFields
  <2>3. mem'[j].enabled => mem'[j].trigger \in live'
    BY <1>1 DEF Triggered
  <2> QED
    BY <2>2, <2>3
<1>2. MappedGood' /\ HeldGood' /\ HeldApart'
  BY <1>1 DEF MappedGood, HeldGood, HeldApart, Good
<1>3. Fresh'
  BY <1>1, SchedulerAssumption DEF Fresh, Unused
<1> QED
  BY <1>2, <1>3 DEF EntryInv

SchedInv == EditInv /\ NamesInv /\ DownInv /\ EntryInv

LEMMA EntriesStay ==
  ASSUME SchedInv, [Next]_vars
  PROVE  EntryInv'
<1> USE DEF SchedInv, EditInv
<1>1. ASSUME NEW r \in Requests, RequestStep(r) PROVE EntryInv'
  BY <1>1, UnmapKeepsEntries, ScheduleKeepsEntries, OthersKeepEntries
<1>2. CASE PlanStep \/ UNCHANGED vars
  <2>1. UNCHANGED <<pc, req, mem, live>>
    BY <1>2, PlanStepLeaves DEF reqVars, schedVars, vars
  <2>2. \A r \in Requests : Held(r)' = Held(r) /\ \A j \in Jobs : MayAdd(r, j)' = MayAdd(r, j)
    BY <2>1 DEF Held, Holding, MayAdd
  <2> QED
    BY <2>1, <2>2 DEF EntryInv, MappedGood, HeldGood, HeldApart, Fresh, Good
<1>3. CASE Down
  <2>1. \A r \in Requests : Held(r)' = {}
    BY <1>3 DEF Down, Held, Holding, Busy, Shape
  <2>2. DOMAIN mem' = {}
    BY <1>3 DEF Down
  <2> QED
    BY <2>1, <2>2 DEF EntryInv, MappedGood, HeldGood, HeldApart, Fresh
<1>4. CASE Boot
  <2>0. pc' = pc /\ \A r \in Requests : ~Holding(r)
    BY <1>4 DEF Boot, reqVars, DownInv, Holding, Busy
  <2>1. \A r \in Requests : Held(r)' = {}
    BY <2>0 DEF Held, Holding
  <2> QED
    BY <1>4, <2>1, LoadedEntries DEF Boot
<1> QED
  BY <1>1, <1>2, <1>3, <1>4 DEF Next, RequestStep, PlanStep

LEMMA SchedInvHolds == Spec => []SchedInv
<1>1. Init => SchedInv
  BY EditInvInit
  DEF Init, SchedInv, NamesInv, DownInv, EntryInv, MappedGood, HeldGood, HeldApart, Fresh,
      Held, Holding, Busy
<1>2. SchedInv /\ [Next]_vars => SchedInv'
  BY EditInvStays, NamesStay, DownStays, EntriesStay DEF SchedInv, EditInv
<1> QED
  BY <1>1, <1>2, PTL DEF Spec

\* However requests overlap, fail or are cut off, a job that is listed as
\* enabled has its trigger in the scheduler: whoever removes a trigger has
\* taken its entry out of the map, and no other entry has that trigger.
THEOREM EnabledEntriesFireHolds == Spec => []EnabledEntriesFire
<1>1. SchedInv => EnabledEntriesFire
  BY DEF SchedInv, EntryInv, MappedGood, Good, EnabledEntriesFire
<1> QED
  BY <1>1, SchedInvHolds, PTL

-----------------------------------------------------------------------------
(***************************************************************************)
(* One trigger.  As long as all who touch a job hold the lock, the         *)
(* triggers of a job are that of its entry, wherever that is, or one that  *)
(* a request left behind whose client is gone; the job is then not in the  *)
(* map, and no update gets as far as creating another.                     *)
(***************************************************************************)
OwnTriggers(r) ==
  /\ pc[r] \in {"unschedule", "schedule", "map"} => req[r].job \notin DOMAIN mem
  /\ pc[r] \in {"unschedule", "map"} =>
       \A e \in req[r].taken : \A t \in TriggersOf(req[r].job) :
         e.enabled /\ t = e.trigger
  /\ pc[r] = "schedule" => TriggersOf(req[r].job) = {}
  /\ pc[r] = "unmap" /\ req[r].kind = "update" => req[r].job \in DOMAIN mem

OnlyEdits == \A r \in Requests : pc[r] \in Busy => req[r].kind \in Edits

MappedTriggers ==
  \A j \in DOMAIN mem : \A t \in TriggersOf(j) : mem[j].enabled /\ t = mem[j].trigger

SingleTriggers == \A j \in Jobs : \A t, u \in TriggersOf(j) : t = u

TriggerInv ==
  /\ OnlyEdits
  /\ \A r \in Requests : pc[r] \in Busy => OwnTriggers(r)
  /\ MappedTriggers
  /\ SingleTriggers

\* Nobody else is under way.
LEMMA OneAtATime ==
  ASSUME SchedInv, OnlyEdits, Kinds \subseteq Edits, NEW r \in Requests, RequestStep(r)
  PROVE  /\ \A q \in Requests \ {r} : pc'[q] = pc[q] /\ pc'[q] \notin Busy
         /\ OnlyEdits'
         /\ pc[r] \in Busy => req[r].kind \in Edits /\ req[r].job \in Jobs
<1> USE DEF SchedInv, EditInv
<1>1. OthersWait(r) /\ Moves(r)
  BY RequestMoves
<1>2. ASSUME NEW q \in Requests \ {r}, pc[q] \in Busy PROVE FALSE
  <2>1. lock = {q}
    BY <1>2 DEF OnlyEdits, LockInv, Editing
  <2>2. CASE pc[r] \in Busy
    BY <2>1, <2>2 DEF OnlyEdits, LockInv, Editing
  <2>3. CASE pc[r] \notin Busy
    <3>1. BeginEdit(r) \/ BeginSetting(r)
      BY <2>3
      DEF RequestStep, Edit, Rebuild, ChangeSetting, FindJob, CheckUpdate, SaveDef, Rollback,
          CheckDelete, SoftDelete, Restore, Apply, Unmap, Unschedule, Schedule, Map,
          ReadSetting, NamesDone, ReloadNext, SyncNext, PersistTitle, Replan, WriteReplan,
          StoreSetting, CacheSetting, Disconnect, At, Busy
    <3> QED
      BY <2>1, <3>1 DEF BeginEdit, BeginSetting, Edits
  <2> QED
    BY <2>2, <2>3
<1>3. \A q \in Requests \ {r} : pc'[q] = pc[q] /\ pc'[q] \notin Busy
  BY <1>1, <1>2 DEF OthersWait
<1>4. pc'[r] \in Busy => req'[r].kind \in Edits
  <2>1. CASE Continues(r) \/ Ends(r)
    BY <2>1 DEF Continues, Ends, OnlyEdits, Busy
  <2>2. CASE Begins(r)
    <3>1. BeginEdit(r)
      BY <2>2
      DEF Begins, RequestStep, Edit, Rebuild, ChangeSetting, FindJob, CheckUpdate, SaveDef,
          Rollback, CheckDelete, SoftDelete, Restore, Apply, Unmap, Unschedule, Schedule, Map,
          BeginSetting, ReadSetting, NamesDone, ReloadNext, SyncNext, PersistTitle, Replan,
          WriteReplan, StoreSetting, CacheSetting, Disconnect, At, Busy, Edits
    <3>2. Shape'
      BY ShapeStays DEF Next, RequestStep
    <3>3. pc'[r] = "find"
      BY <3>1 DEF BeginEdit, At, Shape
    <3> QED
      BY <3>2, <3>3 DEF Shape, Shaped, Places, Edits
  <2> QED
    BY <1>1, <2>1, <2>2 DEF Moves
<1>5. OnlyEdits'
  BY <1>3, <1>4 DEF OnlyEdits
<1>6. pc[r] \in Busy => req[r].kind \in Edits /\ req[r].job \in Jobs
  BY DEF OnlyEdits, Shape, Shaped
<1> QED
  BY <1>3, <1>5, <1>6

\* What is left to show of a step: the request's own triggers and the map's.
LEMMA TriggersStepped ==
  ASSUME SchedInv, TriggerInv, Kinds \subseteq Edits, NEW r \in Requests, RequestStep(r),
         pc'[r] \in Busy => OwnTriggers(r)', MappedTriggers', SingleTriggers'
  PROVE  TriggerInv'
BY OneAtATime DEF TriggerInv

\* The steps that leave the triggers and the map's entries as they are.
LEMMA TriggersLeft ==
  ASSUME SchedInv, TriggerInv, Kinds \subseteq Edits, NEW r \in Requests, RequestStep(r),
         live' = live,
         DOMAIN mem' = DOMAIN mem, \A j \in DOMAIN mem : Same(mem'[j], mem[j]),
         pc'[r] \notin {"unschedule", "schedule", "map"},
         pc'[r] = "unmap" /\ req'[r].kind = "update" => req'[r].job \in DOMAIN mem
  PROVE  TriggerInv'
<1>1. \A j : TriggersOf(j)' = TriggersOf(j)
  BY DEF TriggersOf
<1>2. MappedTriggers'
  BY <1>1 DEF TriggerInv, MappedTriggers, Same
<1>3. SingleTriggers'
  BY <1>1 DEF TriggerInv, SingleTriggers
<1>4. OwnTriggers(r)'
  BY DEF OwnTriggers
<1> QED
  BY <1>2, <1>3, <1>4, TriggersStepped

LEMMA UnmapTriggers ==
  ASSUME SchedInv, TriggerInv, Kinds \subseteq Edits, NEW r \in Requests, Unmap(r)
  PROVE  TriggerInv'
<1> USE DEF SchedInv, EditInv
<1> DEFINE k == req[r].job
<1>0. RequestStep(r)
  BY DEF RequestStep, Rebuild
<1>1. pc[r] = "unmap" /\ pc[r] \in Busy /\ "unschedule" \in Busy /\ "schedule" \in Busy
      /\ live' = live /\ mem' = [i \in DOMAIN mem \ {k} |-> mem[i]]
  BY DEF Unmap, At, Busy
<1>2. req[r].kind \in Edits /\ OwnTriggers(r) /\ MappedTriggers /\ SingleTriggers
  BY <1>1 DEF TriggerInv, OnlyEdits
<1>3. \A j : TriggersOf(j)' = TriggersOf(j)
  BY <1>1 DEF TriggersOf
<1>4. MappedTriggers' /\ SingleTriggers'
  BY <1>1, <1>2, <1>3 DEF MappedTriggers, SingleTriggers
<1>5. CASE k \in DOMAIN mem /\ mem[k].enabled
  <2>1. Goto(r, "unschedule", [taken |-> {mem[k]}])
    BY <1>5 DEF Unmap
  <2>2. pc'[r] = "unschedule" /\ req'[r].taken = {mem[k]} /\ req'[r].job = k
    BY <1>1, <2>1, GotoFields DEF Fields
  <2>3. \A t \in TriggersOf(k) : t = mem[k].trigger
    BY <1>2, <1>5 DEF MappedTriggers
  <2>4. OwnTriggers(r)'
    BY <1>1, <1>3, <1>5, <2>2, <2>3 DEF OwnTriggers
  <2> QED
    BY <1>0, <1>4, <2>4, TriggersStepped
<1>6. CASE ~(k \in DOMAIN mem /\ mem[k].enabled)
  <2>1. Removed(r, <<>>)
    BY <1>6 DEF Unmap
  <2>2. CASE req[r].kind = "delete"
    <3>1. pc'[r] = "done"
      BY <2>1, <2>2 DEF Removed, Succeed, Answer, Shape
    <3> QED
      BY <1>0, <1>4, <3>1, TriggersStepped DEF Busy
  <2>3. CASE req[r].kind # "delete"
    <3>1. Goto(r, "schedule", <<>>) /\ req[r].kind = "update"
      BY <1>2, <2>1, <2>3 DEF Removed, Edits
    <3>2. pc'[r] = "schedule" /\ req'[r].job = k
      BY <1>1, <3>1, GotoFields, NoLocals DEF Fields
    <3>3. k \in DOMAIN mem /\ TriggersOf(k) = {}
      BY <1>1, <1>2, <1>6, <3>1 DEF OwnTriggers, MappedTriggers
    <3>4. OwnTriggers(r)'
      BY <1>1, <1>3, <3>2, <3>3 DEF OwnTriggers
    <3> QED
      BY <1>0, <1>4, <3>4, TriggersStepped
  <2> QED
    BY <2>2, <2>3
<1> QED
  BY <1>5, <1>6

LEMMA PutInTriggers ==
  ASSUME SchedInv, TriggerInv, Kinds \subseteq Edits, NEW r \in Requests, RequestStep(r),
         pc[r] \in {"unschedule", "map"}, live' = live,
         NEW e \in req[r].taken,
         mem' = [i \in DOMAIN mem \cup {req[r].job} |-> IF i = req[r].job THEN e ELSE mem[i]],
         pc'[r] \in {"done", "rollback", "restore"}
  PROVE  TriggerInv'
<1>1. OwnTriggers(r) /\ MappedTriggers /\ SingleTriggers
  BY DEF TriggerInv, Busy
<1>2. \A j : TriggersOf(j)' = TriggersOf(j)
  BY DEF TriggersOf
<1>3. MappedTriggers' /\ SingleTriggers'
  BY <1>1, <1>2 DEF MappedTriggers, SingleTriggers, OwnTriggers
<1>4. OwnTriggers(r)'
  BY DEF OwnTriggers
<1> QED
  BY <1>3, <1>4, TriggersStepped

LEMMA UnscheduleTriggers ==
  ASSUME SchedInv, TriggerInv, Kinds \subseteq Edits, NEW r \in Requests, Unschedule(r)
  PROVE  TriggerInv'
<1> USE DEF SchedInv, EditInv
<1> PICK k : k = req[r].job
  OBVIOUS
<1>0. RequestStep(r) /\ pc[r] = "unschedule" /\ pc[r] \in Busy /\ "schedule" \in Busy
  BY DEF RequestStep, Rebuild, Unschedule, At, Busy
<1>1. req[r].kind \in Edits /\ OwnTriggers(r) /\ MappedTriggers /\ SingleTriggers
  BY <1>0 DEF TriggerInv, OnlyEdits
<1>2. PICK e \in req[r].taken :
        \/ live' = live \ {e.trigger} /\ Removed(r, [taken |-> {}]) /\ mem' = mem
        \/ /\ mem' = [i \in DOMAIN mem \cup {k} |-> IF i = k THEN e ELSE mem[i]]
           /\ Fail(r) /\ live' = live
  BY DEF Unschedule
<1>3. CASE /\ mem' = [i \in DOMAIN mem \cup {k} |-> IF i = k THEN e ELSE mem[i]]
           /\ Fail(r) /\ live' = live
  <2>1. pc'[r] \in {"rollback", "restore"}
    BY <1>1, <1>3 DEF Fail, Goto, Edits, Shape
  <2> QED
    BY <1>0, <1>3, <2>1, PutInTriggers
<1>4. CASE live' = live \ {e.trigger} /\ Removed(r, [taken |-> {}]) /\ mem' = mem
  <2>0. \A t \in TriggersOf(k) : t = e.trigger
    BY <1>0, <1>1 DEF OwnTriggers
  <2>1. /\ \A j : TriggersOf(j)' \subseteq TriggersOf(j)
        /\ TriggersOf(k)' = {}
    BY <1>4, <2>0 DEF TriggersOf
  <2>2. MappedTriggers' /\ SingleTriggers'
    BY <1>1, <1>4, <2>1 DEF MappedTriggers, SingleTriggers
  <2>3. CASE req[r].kind = "delete"
    <3>1. pc'[r] = "done"
      BY <1>4, <2>3 DEF Removed, Succeed, Answer, Shape
    <3> QED
      BY <1>0, <2>2, <3>1, TriggersStepped DEF Busy
  <2>4. CASE req[r].kind # "delete"
    <3>1. Goto(r, "schedule", [taken |-> {}])
      BY <1>4, <2>4 DEF Removed
    <3>2. pc'[r] = "schedule" /\ req'[r].job = k
      BY <1>0, <3>1, GotoFields DEF Fields
    <3>3. OwnTriggers(r)'
      BY <1>0, <1>1, <1>4, <2>1, <3>2 DEF OwnTriggers
    <3> QED
      BY <1>0, <2>2, <3>3, TriggersStepped
  <2> QED
    BY <2>3, <2>4
<1> QED
  BY <1>2, <1>3, <1>4

LEMMA ScheduleTriggers ==
  ASSUME SchedInv, TriggerInv, Kinds \subseteq Edits, NEW r \in Requests, Schedule(r)
  PROVE  TriggerInv'
<1> USE DEF SchedInv, EditInv
<1> PICK k : k = req[r].job
  OBVIOUS
<1>0. RequestStep(r) /\ pc[r] = "schedule" /\ pc[r] \in Busy /\ "schedule" \in Busy /\ "map" \in Busy
      /\ "rollback" \in Busy /\ mem' = mem
  BY DEF RequestStep, Rebuild, Schedule, At, Busy
<1>1. req[r].kind \in Edits /\ OwnTriggers(r) /\ MappedTriggers /\ SingleTriggers
  BY <1>0 DEF TriggerInv, OnlyEdits
<1>2. k \notin DOMAIN mem /\ TriggersOf(k) = {}
  BY <1>0, <1>1 DEF OwnTriggers
<1>3. CASE Goto(r, "map", [taken |-> {Entry(r)}])
           /\ live' = IF Entry(r).enabled THEN live \cup {Entry(r).trigger} ELSE live
  <2>1. PICK e : e = Entry(r)
    OBVIOUS
  <2>2. e.trigger.job = k
    BY <2>1 DEF Entry
  <2>3. pc'[r] = "map" /\ req'[r].taken = {e} /\ req'[r].job = k
    BY <1>0, <1>3, <2>1, GotoFields DEF Fields
  <2>4. /\ \A j : j # k => TriggersOf(j)' = TriggersOf(j)
        /\ \A t \in TriggersOf(k)' : e.enabled /\ t = e.trigger
    <3>1. \A t \in live : t.job # k
      BY <1>2 DEF TriggersOf
    <3>2. CASE e.enabled /\ live' = live \cup {e.trigger}
      BY <2>2, <3>1, <3>2 DEF TriggersOf
    <3>3. CASE live' = live
      BY <3>1, <3>3 DEF TriggersOf
    <3> QED
      BY <1>3, <2>1, <3>2, <3>3
  <2>5. OwnTriggers(r)'
    BY <1>0, <1>2, <2>3, <2>4 DEF OwnTriggers
  <2>6. MappedTriggers'
    BY <1>0, <1>1, <1>2, <2>4 DEF MappedTriggers
  <2>7. SingleTriggers'
    <3>1. ASSUME NEW j \in Jobs, NEW t \in TriggersOf(j)', NEW u \in TriggersOf(j)'
          PROVE  t = u
      <4>1. CASE j = k
        BY <2>4, <3>1, <4>1
      <4>2. CASE j # k
        BY <1>1, <2>4, <3>1, <4>2 DEF SingleTriggers
      <4> QED
        BY <4>1, <4>2
    <3> QED
      BY <3>1 DEF SingleTriggers
  <2> QED
    BY <1>0, <2>5, <2>6, <2>7, TriggersStepped
<1>4. CASE AddFails(r) /\ live' = live
  <2>1. \A j : TriggersOf(j)' = TriggersOf(j)
    BY <1>4 DEF TriggersOf
  <2>2. MappedTriggers' /\ SingleTriggers'
    BY <1>0, <1>1, <2>1 DEF MappedTriggers, SingleTriggers
  <2>3. pc'[r] \in Busy => OwnTriggers(r)'
    <3>1. CASE Fail(r)
      <4>1. pc'[r] \in {"rollback", "restore"}
        BY <1>1, <3>1 DEF Fail, Goto, Edits, Shape
      <4> QED
        BY <4>1 DEF OwnTriggers
    <3>2. CASE Goto(r, "schedule", [want |-> req[r].back, retry |-> TRUE])
      <4>1. pc'[r] = "schedule" /\ req'[r].job = k
        BY <1>0, <3>2, GotoFields DEF Fields
      <4> QED
        BY <1>0, <1>2, <2>1, <4>1 DEF OwnTriggers
    <3> QED
      BY <1>4, <3>1, <3>2 DEF AddFails
  <2> QED
    BY <1>0, <2>2, <2>3, TriggersStepped
<1> QED
  BY <1>3, <1>4 DEF Schedule

\* An edit of the table does not yet touch the scheduler.
LEMMA EditPlaces ==
  ASSUME Shape, NEW r \in Requests, Edit(r) \/ Disconnect(r)
  PROVE  /\ pc'[r] \notin {"unschedule", "schedule", "map"}
         /\ pc'[r] = "unmap" => req'[r].kind = "delete"
<1>1. ASSUME NEW to, to \notin {"unschedule", "schedule", "map", "unmap"},
             pc' = [pc EXCEPT ![r] = to]
      PROVE  pc'[r] \notin {"unschedule", "schedule", "map", "unmap"}
  BY <1>1 DEF Shape
<1>2. CASE SoftDelete(r) /\ Goto(r, "unmap", <<>>)
  <2>1. pc[r] = "softdelete" /\ pc[r] \in Busy /\ "unmap" \in Busy
    BY <1>2 DEF SoftDelete, At, Busy
  <2>2. req[r].kind = "delete"
    BY <2>1 DEF Shape, Shaped, Places, Edits
  <2> QED
    BY <1>2, <2>1, <2>2, GotoFields, NoLocals DEF Fields
<1> QED
  BY <1>1, <1>2
  DEF Edit, BeginEdit, FindJob, CheckUpdate, SaveDef, Rollback, CheckDelete, SoftDelete,
      Restore, Disconnect, Goto, Answer

LEMMA RequestTriggers ==
  ASSUME SchedInv, TriggerInv, Kinds \subseteq Edits, NEW r \in Requests, RequestStep(r)
  PROVE  TriggerInv'
<1> USE DEF SchedInv, EditInv
<1>1. CASE Edit(r) \/ Disconnect(r)
  <2>1. live' = live /\ mem' = mem
    BY <1>1
    DEF Edit, BeginEdit, FindJob, CheckUpdate, SaveDef, Rollback, CheckDelete, SoftDelete,
        Restore, Disconnect, schedVars
  <2> QED
    BY <1>1, <2>1, EditPlaces, TriggersLeft DEF Same
<1>2. CASE Map(r)
  <2>1. pc[r] = "map" /\ pc[r] \in Busy /\ live' = live
    BY <1>2 DEF Map, At, Busy
  <2>2. req[r].kind \in Edits
    BY <2>1 DEF TriggerInv, OnlyEdits
  <2>3. pc'[r] \in {"done", "rollback", "restore"}
    BY <1>2, <2>2 DEF Map, Succeed, Fail, Goto, Answer, Edits, Shape
  <2>4. PICK e \in req[r].taken :
          mem' = [i \in DOMAIN mem \cup {req[r].job} |->
                    IF i = req[r].job THEN e ELSE mem[i]]
    BY <1>2 DEF Map
  <2> QED
    BY <2>1, <2>3, <2>4, PutInTriggers
<1>3. CASE Apply(r)
  <2>1. pc[r] = "apply" /\ pc[r] \in Busy /\ "unmap" \in Busy /\ live' = live
    BY <1>3 DEF Apply, At, Busy
  <2>2. req[r].kind \in Edits
    BY <2>1 DEF TriggerInv, OnlyEdits
  <2>3. DOMAIN mem' = DOMAIN mem /\ \A j \in DOMAIN mem : Same(mem'[j], mem[j])
    <3>1. CASE mem' = mem
      BY <3>1 DEF Same
    <3>2. CASE mem' = [mem EXCEPT ![req[r].job].title = req[r].want.title]
      <4>1. DOMAIN mem' = DOMAIN mem
        BY <3>2
      <4>2. ASSUME NEW j \in DOMAIN mem PROVE Same(mem'[j], mem[j])
        <5>1. PICK x : x = mem[j]
          OBVIOUS
        <5>2. DOMAIN x = EntryFields
          BY <5>1 DEF EntryInv, MappedGood, Good
        <5>3. PICK y : y = [x EXCEPT !.title = req[r].want.title]
          OBVIOUS
        <5>4. Same(y, x)
          BY <5>2, <5>3 DEF Same, EntryFields
        <5>5. mem'[j] = x \/ mem'[j] = y
          BY <3>2, <5>1, <5>3
        <5> QED
          BY <5>1, <5>4, <5>5 DEF Same
      <4> QED
        BY <4>1, <4>2
    <3> QED
      BY <1>3, <3>1, <3>2 DEF Apply
  <2>4. CASE Succeed(r) \/ Fail(r)
    <3>1. pc'[r] \in {"done", "rollback", "restore"}
      BY <2>2, <2>4 DEF Succeed, Fail, Goto, Answer, Edits, Shape
    <3> QED
      BY <1>3, <2>1, <2>3, <3>1, TriggersLeft DEF RequestStep, Rebuild
  <2>5. CASE req[r].job \in DOMAIN mem /\ Goto(r, "unmap", [back |-> Def(mem[req[r].job])])
    <3>1. pc'[r] = "unmap" /\ req'[r].job = req[r].job
      BY <2>1, <2>5, GotoFields DEF Fields
    <3> QED
      BY <1>3, <2>1, <2>3, <2>5, <3>1, TriggersLeft DEF RequestStep, Rebuild
  <2> QED
    BY <1>3, <2>4, <2>5 DEF Apply
<1>4. ASSUME ChangeSetting(r) PROVE FALSE
  <2>1. pc[r] \in Busy => req[r].kind \in Edits
    BY DEF TriggerInv, OnlyEdits
  <2> QED
    BY <1>4, <2>1
    DEF ChangeSetting, BeginSetting, ReadSetting, NamesDone, ReloadNext, SyncNext,
        PersistTitle, Replan, WriteReplan, StoreSetting, CacheSetting, At, Shape, Shaped,
        Places, Edits, Busy
<1> QED
  BY <1>1, <1>2, <1>3, <1>4, UnmapTriggers, UnscheduleTriggers, ScheduleTriggers
  DEF RequestStep, Rebuild

LEMMA LoadedTriggers ==
  ASSUME NEW rows, NEW z, NEW skip, mem' = Load(rows, z, skip), live' = Triggered(mem')
  PROVE  MappedTriggers' /\ SingleTriggers'
<1>1. ASSUME NEW j, NEW t \in live', t.job = j
      PROVE  j \in DOMAIN mem' /\ mem'[j].enabled /\ t = mem'[j].trigger
  <2>1. PICK i \in DOMAIN mem' : mem'[i].enabled /\ t = mem'[i].trigger
    BY <1>1 DEF Triggered
  <2>2. mem'[i].trigger.job = i
    BY DEF Load
  <2> QED
    BY <1>1, <2>1, <2>2
<1> QED
  BY <1>1 DEF MappedTriggers, SingleTriggers, TriggersOf

LEMMA TriggersInit == Init => TriggerInv
BY DEF Init, TriggerInv, OnlyEdits, MappedTriggers, SingleTriggers, TriggersOf, Busy

LEMMA TriggersStay ==
  ASSUME SchedInv, TriggerInv, Kinds \subseteq Edits, [Next]_vars
  PROVE  TriggerInv'
<1>1. CASE PlanStep \/ UNCHANGED vars
  <2>1. UNCHANGED <<pc, req, mem, live>>
    BY <1>1, PlanStepLeaves DEF reqVars, schedVars, vars
  <2>2. \A j : TriggersOf(j)' = TriggersOf(j)
    BY <2>1 DEF TriggersOf
  <2> QED
    BY <2>1, <2>2 DEF TriggerInv, OnlyEdits, OwnTriggers, MappedTriggers, SingleTriggers
<1>2. CASE Down
  <2>1. \A r \in Requests : pc'[r] \notin Busy
    BY <1>2 DEF Down, Busy, SchedInv, EditInv, Shape
  <2>2. live' = {} /\ DOMAIN mem' = {}
    BY <1>2 DEF Down
  <2> QED
    BY <2>1, <2>2 DEF TriggerInv, OnlyEdits, MappedTriggers, SingleTriggers, TriggersOf
<1>3. CASE Boot
  <2>1. \A r \in Requests : pc'[r] \notin Busy
    BY <1>3 DEF Boot, reqVars, SchedInv, DownInv
  <2>2. MappedTriggers' /\ SingleTriggers'
    BY <1>3, LoadedTriggers DEF Boot
  <2> QED
    BY <2>1, <2>2 DEF TriggerInv, OnlyEdits
<1> QED
  BY <1>1, <1>2, <1>3, RequestTriggers DEF Next, RequestStep, PlanStep

\* Where the timezone and the language are left alone, so that whoever
\* rebuilds a job holds the lock, a job never has two triggers that fire:
\* whatever fails, whichever clients disconnect, and over restarts.
THEOREM OneTriggerHolds ==
  ASSUME Kinds \subseteq {"update", "delete"}
  PROVE  Spec => []OneTrigger
<1>1. SchedInv /\ TriggerInv /\ [Next]_vars => TriggerInv'
  BY TriggersStay DEF Edits
<1>2. TriggerInv => OneTrigger
  <2> SUFFICES ASSUME TriggerInv, NEW j \in Jobs
               PROVE  Cardinality(TriggersOf(j)) <= 1
    BY DEF OneTrigger
  <2>1. CASE TriggersOf(j) = {}
    BY <2>1, FS_EmptySet
  <2>2. CASE TriggersOf(j) # {}
    <3>1. PICK t : t \in TriggersOf(j)
      BY <2>2
    <3>2. TriggersOf(j) = {t}
      BY <3>1 DEF TriggerInv, SingleTriggers
    <3> QED
      BY <3>2, FS_Singleton
  <2> QED
    BY <2>1, <2>2
<1> QED
  BY <1>1, <1>2, TriggersInit, SchedInvHolds, PTL DEF Spec

-----------------------------------------------------------------------------
(***************************************************************************)
(* Agreement.  Where every rebuild holds the lock, an edit knows at each   *)
(* place what the row, the map and the scheduler hold of its job; so it    *)
(* can bring them to agree again, and its answer is true, unless what it   *)
(* puts back fails as well or its client disconnects halfway.              *)
(***************************************************************************)
Moving == {"apply", "unmap", "unschedule", "schedule", "map", "rollback", "restore"}

\* A failure made the edit put back what it had replaced.
PutsBack(r) ==
  pc[r] \in {"rollback", "restore"} \/ (pc[r] = "schedule" /\ req[r].retry)

\* The step does not break a repair off: no failure while an edit puts back
\* what it replaced, no client that disconnects while its job is moved.
RepairsFinish ==
  \A r \in Requests :
    /\ PutsBack(r) /\ pc'[r] # pc[r] => errors' = errors
    /\ pc[r] \in Moving => ~Disconnect(r)

\* The job is in the map with the definition d, and fires if d is enabled.
MapsAs(j, d) ==
  /\ j \in DOMAIN mem
  /\ Def(mem[j]) = d
  /\ TriggersOf(j) = IF mem[j].enabled THEN {mem[j].trigger} ELSE {}

RowIs(j, d) == ~row[j].deleted /\ Def(row[j]) = d

RowGone(j, d) == row[j].deleted /\ row[j].title = d.title /\ row[j].expr = d.expr

\* What an edit knows where it is; old is the definition it has read.
RowKnown(r, j, old) ==
  /\ pc[r] \in {"loaded", "save", "softdelete"} => RowIs(j, old)
  /\ pc[r] \in {"save", "apply", "unmap", "unschedule", "schedule", "map"}
       /\ req[r].kind = "update" => req[r].want = Def(req[r].want)
  /\ pc[r] \in {"apply", "unmap", "unschedule", "schedule", "map"} /\ req[r].kind = "update" =>
       /\ ~row[j].deleted
       /\ IF req[r].retry THEN req[r].want = old /\ errors > 0
                          ELSE Def(row[j]) = req[r].want
  /\ pc[r] = "rollback" => ~row[j].deleted
  /\ pc[r] \in {"unmap", "unschedule", "restore"} /\ req[r].kind = "delete" => RowGone(j, old)

MapKnown(r, j, old) ==
  /\ pc[r] \in Moving \cup {"save"} => j \in Handled \ skipped
  /\ pc[r] = "softdelete" => (req[r].known <=> j \in Handled \ skipped)
  /\ pc[r] \in {"apply", "unmap", "rollback", "restore"} => MapsAs(j, old)
  /\ pc[r] \in {"unschedule", "schedule", "map"} => j \notin DOMAIN mem
  /\ pc[r] = "unschedule" =>
       \E e \in req[r].taken : /\ req[r].taken = {e} /\ e.enabled /\ Def(e) = old
              /\ TriggersOf(j) = {e.trigger}
  /\ pc[r] = "schedule" => TriggersOf(j) = {}
  /\ pc[r] = "map" =>
       \E e \in req[r].taken : /\ req[r].taken = {e} /\ Def(e) = req[r].want
              /\ TriggersOf(j) = IF e.enabled THEN {e.trigger} ELSE {}

SelfKnown(r, old) ==
  /\ pc[r] \in {"find", "loaded", "save", "softdelete", "apply", "unmap", "unschedule"} =>
       ~req[r].retry
  /\ pc[r] \in {"unmap", "unschedule", "schedule", "restore"} => req[r].back = old
  /\ pc[r] = "softdelete" /\ req[r].known => req[r].back = old
  /\ pc[r] \in {"rollback", "restore"} => errors > 0

Stage(r) ==
  /\ RowKnown(r, req[r].job, Def(req[r].model))
  /\ MapKnown(r, req[r].job, Def(req[r].model))
  /\ SelfKnown(r, Def(req[r].model))

AgreeInv ==
  /\ errors \in Nat
  /\ \A r \in Requests : pc[r] \in Busy => Stage(r)
  /\ up => \A j \in Jobs :
       (\A r \in Requests : pc[r] \in Moving => req[r].job # j) => Agree(j)

Counted == cancels \in Nat /\ DOMAIN answer = Requests

\* The answer of a request tells what happened to the row.
AnswerTrue(r) ==
  (pc[r] \in Busy \ {"find"} /\ pc'[r] = "done") =>
    IF answer'[r] = "error"
    THEN Def(row'[req[r].job]) = Def(req[r].model) /\ ~row'[req[r].job].deleted
    ELSE IF req[r].kind = "delete" THEN row'[req[r].job].deleted
         ELSE Def(row'[req[r].job]) = req[r].want

\* An operation fails or none does.
LEMMA ErrorsMove ==
  ASSUME [Next]_vars
  PROVE  UNCHANGED errors \/ Failing
<1>1. ASSUME NEW r \in Requests, Edit(r) \/ Rebuild(r)
      PROVE  UNCHANGED errors \/ Failing
  BY <1>1
  DEF Edit, Rebuild, BeginEdit, FindJob, CheckUpdate, SaveDef, Rollback, CheckDelete,
      SoftDelete, Restore, Apply, Unmap, Unschedule, Schedule, Map
<1>2. ASSUME NEW r \in Requests, ChangeSetting(r) \/ Disconnect(r)
      PROVE  UNCHANGED errors \/ Failing
  BY <1>2
  DEF ChangeSetting, BeginSetting, ReadSetting, NamesDone, ReloadNext, SyncNext,
      PersistTitle, Replan, WriteReplan, StoreSetting, CacheSetting, Disconnect
<1>3. ASSUME PlanStep \/ Down \/ Boot \/ UNCHANGED vars
      PROVE  UNCHANGED errors \/ Failing
  BY <1>3
  DEF PlanStep, Tick, RunJobNow, Submit, RunEnds, WritePlan, BootFails, Down, Boot, vars
<1> QED
  BY <1>1, <1>2, <1>3 DEF Next, PlanStep

LEMMA FailureCounts ==
  ASSUME errors \in Nat, Failing
  PROVE  errors' \in Nat /\ errors' > 0 /\ errors' # errors
BY DEF Failing

\* An edit touches its own job only.
LEMMA OtherJobsStay ==
  ASSUME SchedInv, TriggerInv, Kinds \subseteq Edits, NEW r \in Requests, RequestStep(r),
         pc[r] \in Busy, NEW i \in Jobs, i # req[r].job
  PROVE  /\ row'[i] = row[i]
         /\ i \in DOMAIN mem' <=> i \in DOMAIN mem
         /\ i \in DOMAIN mem => mem'[i] = mem[i]
         /\ TriggersOf(i)' = TriggersOf(i)
<1> USE DEF SchedInv, EditInv
<1>1. pc[r] \in Places(req[r].kind) /\ req[r].kind \in Edits
  BY DEF TriggerInv, OnlyEdits, Shape, Shaped
<1>2. row'[i] = row[i]
  <2>1. ~ChangeSetting(r)
    BY <1>1
    DEF ChangeSetting, BeginSetting, ReadSetting, NamesDone, ReloadNext, SyncNext,
        PersistTitle, Replan, WriteReplan, StoreSetting, CacheSetting, At, Places, Edits, Busy
  <2>2. row' = row \/ SaveDef(r) \/ Rollback(r) \/ SoftDelete(r) \/ Restore(r)
    BY <2>1
    DEF RequestStep, Edit, BeginEdit, FindJob, CheckUpdate, CheckDelete, Rebuild, Apply,
        Unmap, Unschedule, Schedule, Map, Disconnect, rowVars
  <2>3. PICK k : k = req[r].job
    OBVIOUS
  <2>5. CASE SaveDef(r) \/ Rollback(r)
    <3>1. PICK def, last, next : row' = row \/ WriteDef(k, def, last, next)
      BY <2>3, <2>5 DEF SaveDef, Rollback
    <3> QED
      BY <2>3, <3>1 DEF WriteDef, RowShape
  <2>6. CASE SoftDelete(r)
    BY <2>3, <2>6 DEF SoftDelete, RowShape
  <2>7. CASE Restore(r)
    BY <2>3, <2>7 DEF Restore, RowShape
  <2> QED
    BY <2>2, <2>5, <2>6, <2>7
<1>3. /\ i \in DOMAIN mem' <=> i \in DOMAIN mem
      /\ i \in DOMAIN mem => mem'[i] = mem[i]
  <2>1. CASE mem' = mem
    BY <2>1
  <2>2. CASE mem' = [mem EXCEPT ![req[r].job].title = req[r].want.title]
    BY <2>2
  <2>3. CASE mem' = [x \in DOMAIN mem \ {req[r].job} |-> mem[x]]
    BY <2>3
  <2>4. CASE \E e : mem' = [x \in DOMAIN mem \cup {req[r].job} |->
                            IF x = req[r].job THEN e ELSE mem[x]]
    BY <2>4
  <2>5. \/ mem' = mem
        \/ mem' = [mem EXCEPT ![req[r].job].title = req[r].want.title]
        \/ mem' = [x \in DOMAIN mem \ {req[r].job} |-> mem[x]]
        \/ \E e : mem' = [x \in DOMAIN mem \cup {req[r].job} |->
                          IF x = req[r].job THEN e ELSE mem[x]]
    BY MapMoves
  <2> QED
    BY <2>1, <2>2, <2>3, <2>4, <2>5
<1>4. TriggersOf(i)' = TriggersOf(i)
  <2>1. CASE ~Unschedule(r) /\ ~Schedule(r)
    BY <2>1, OthersLeaveLive DEF TriggersOf
  <2>2. CASE Schedule(r)
    <3>1. Entry(r).trigger.job # i
      BY DEF Entry
    <3>2. live' = live \cup {Entry(r).trigger} \/ live' = live
      BY <2>2 DEF Schedule
    <3> QED
      BY <3>1, <3>2 DEF TriggersOf
  <2>3. CASE Unschedule(r)
    <3>1. PICK e \in req[r].taken : live' = live \ {e.trigger} \/ live' = live
      BY <2>3 DEF Unschedule
    <3>2. e \in Held(r)
      BY <2>3, <3>1 DEF Unschedule, At, Held, Holding
    <3>3. e.trigger.job # i
      BY <3>2 DEF EntryInv, HeldGood, Good
    <3> QED
      BY <3>1, <3>3 DEF TriggersOf
  <2> QED
    BY <2>1, <2>2, <2>3
<1> QED
  BY <1>2, <1>3, <1>4

\* What is left to show of a step of an edit.
LEMMA AgreeStepped ==
  ASSUME SchedInv, TriggerInv, AgreeInv, Kinds \subseteq Edits,
         NEW r \in Requests, RequestStep(r), pc[r] \in Busy, errors' \in Nat,
         NEW k, k = req[r].job,
         pc'[r] \in Busy => Stage(r)' /\ req'[r].job = k,
         pc'[r] \notin Moving => Agree(k)'
  PROVE  AgreeInv'
<1>0. skipped' = skipped
  BY RequestLeavesStart
<1>1. \A q \in Requests \ {r} : pc'[q] = pc[q] /\ pc'[q] \notin Busy
  BY OneAtATime DEF TriggerInv
<1>2. \A q \in Requests : pc'[q] \in Busy => Stage(q)'
  BY <1>1
<1>3. up
  BY DEF SchedInv, DownInv
<1>5. ASSUME NEW j \in Jobs, \A q \in Requests : pc'[q] \in Moving => req'[q].job # j
      PROVE  Agree(j)'
  <2>1. CASE j = k
    <3>1. pc'[r] \notin Moving
      BY <1>5, <2>1 DEF Moving, Busy
    <3>2. Agree(k)'
      BY <3>1
    <3> QED
      BY <2>1, <3>2
  <2>2. CASE j # k
    <3>1. \A q \in Requests : pc[q] \in Moving => req[q].job # j
      BY <1>1, <2>2 DEF Moving, Busy
    <3>2. Agree(j)
      BY <1>3, <3>1 DEF AgreeInv
    <3>3. /\ row'[j] = row[j]
          /\ j \in DOMAIN mem' <=> j \in DOMAIN mem
          /\ j \in DOMAIN mem => mem'[j] = mem[j]
          /\ TriggersOf(j)' = TriggersOf(j)
      BY <2>2, OtherJobsStay
    <3> QED
      BY <1>0, <3>2, <3>3 DEF Agree, Loadable, Active
  <2> QED
    BY <2>1, <2>2
<1> QED
  BY <1>2, <1>5 DEF AgreeInv

\* The job of a request that has not begun to rebuild it is in order.
LEMMA OwnJobAgrees ==
  ASSUME SchedInv, TriggerInv, AgreeInv, Kinds \subseteq Edits,
         NEW r \in Requests, RequestStep(r), pc[r] \in Busy \ Moving
  PROVE  Agree(req[r].job) /\ req[r].job \in Jobs
<1>1. \A q \in Requests \ {r} : pc[q] \notin Moving
  BY OneAtATime DEF TriggerInv, Moving, Busy
<1>2. up /\ req[r].job \in Jobs
  BY OneAtATime DEF TriggerInv, SchedInv, DownInv
<1> QED
  BY <1>1, <1>2 DEF AgreeInv

LEMMA AgreeBegin ==
  ASSUME SchedInv, TriggerInv, AgreeInv, Kinds \subseteq Edits, NEW r \in Requests, BeginEdit(r)
  PROVE  AgreeInv'
<1> USE DEF SchedInv, EditInv
<1>0. skipped' = skipped
  BY DEF BeginEdit, At, startVars
<1>1. RequestStep(r) /\ pc[r] = "new" /\ pc'[r] = "find" /\ req'[r].retry = FALSE
  BY BeginMoves DEF RequestStep, Edit, BeginEdit, At, Shape
<1>2. \A q \in Requests \ {r} : pc'[q] = pc[q] /\ pc'[q] \notin Busy
  BY <1>1, OneAtATime DEF TriggerInv
<1>3. Stage(r)'
  BY <1>1 DEF Stage, RowKnown, MapKnown, SelfKnown, Moving
<1>4. /\ up' = up /\ errors' = errors /\ row' = row /\ mem' = mem /\ live' = live
  BY DEF BeginEdit, At, startVars, rowVars, schedVars
<1>5. \A j : Agree(j)' <=> Agree(j)
  BY <1>0, <1>4 DEF Agree, Loadable, Active, TriggersOf
<1>6. \A q \in Requests : pc[q] \notin Moving
  BY <1>1, <1>2 DEF Moving, Busy
<1> QED
  BY <1>2, <1>3, <1>4, <1>5, <1>6 DEF AgreeInv

LEMMA AnswerEnds ==
  ASSUME Shape, Counted, NEW r \in Requests, NEW a, Answer(r, a)
  PROVE  pc'[r] = "done" /\ pc'[r] \notin Busy /\ pc'[r] \notin Moving /\ answer'[r] = a
BY DEF Answer, Shape, Counted, Busy, Moving

LEMMA AgreeFind ==
  ASSUME SchedInv, TriggerInv, AgreeInv, Counted, Kinds \subseteq Edits,
         NEW r \in Requests, FindJob(r)
  PROVE  AgreeInv'
<1> USE DEF SchedInv, EditInv
<1>0. skipped' = skipped
  BY DEF FindJob, At, startVars
<1>1. RequestStep(r) /\ pc[r] = "find" /\ pc[r] \in Busy \ Moving /\ "loaded" \in Busy
  BY DEF RequestStep, Edit, FindJob, At, Busy, Moving
<1>2. PICK k : k = req[r].job
  OBVIOUS
<1>3. Agree(k) /\ Stage(r) /\ errors \in Nat
  BY <1>1, <1>2, OwnJobAgrees DEF AgreeInv
<1>4. row' = row /\ mem' = mem /\ live' = live /\ errors' \in Nat
  BY <1>3, FailureCounts DEF FindJob, rowVars, schedVars
<1>5. Agree(k)'
  BY <1>0, <1>3, <1>4 DEF Agree, Loadable, Active, TriggersOf
<1>6. CASE \E a : Answer(r, a)
  BY <1>1, <1>2, <1>4, <1>5, <1>6, AnswerEnds, AgreeStepped
<1>7. CASE ~row[k].deleted /\ Goto(r, "loaded", [model |-> row[k]])
  <2>1. /\ pc'[r] = "loaded" /\ req'[r].model = row[k] /\ req'[r].job = k
        /\ req'[r].retry = req[r].retry
    BY <1>1, <1>2, <1>7, GotoFields DEF Fields
  <2>2. Stage(r)'
    BY <1>0, <1>1, <1>2, <1>3, <1>4, <1>7, <2>1
    DEF Stage, RowKnown, MapKnown, SelfKnown, Moving, RowIs, Def
  <2> QED
    BY <1>1, <1>2, <1>4, <1>5, <2>1, <2>2, AgreeStepped
<1> QED
  BY <1>2, <1>6, <1>7 DEF FindJob

LEMMA AgreeCheckUpdate ==
  ASSUME SchedInv, TriggerInv, AgreeInv, Counted, Kinds \subseteq Edits,
         NEW r \in Requests, CheckUpdate(r)
  PROVE  AgreeInv' /\ AnswerTrue(r)
<1> USE DEF SchedInv, EditInv
<1>0. skipped' = skipped
  BY DEF CheckUpdate, At, startVars
<1>1. RequestStep(r) /\ pc[r] = "loaded" /\ pc[r] \in Busy \ Moving /\ "save" \in Busy
      /\ req[r].kind = "update"
  BY DEF RequestStep, Edit, CheckUpdate, At, Busy, Moving
<1>2. PICK k, old : k = req[r].job /\ old = Def(req[r].model)
  OBVIOUS
<1>3. Agree(k) /\ Stage(r) /\ errors \in Nat
  BY <1>1, <1>2, OwnJobAgrees DEF AgreeInv
<1>4. row' = row /\ mem' = mem /\ live' = live /\ errors' = errors
  BY DEF CheckUpdate, rowVars, schedVars
<1>5. Agree(k)'
  BY <1>0, <1>3, <1>4 DEF Agree, Loadable, Active, TriggersOf
<1>6. CASE Answer(r, "error")
  <2>1. pc'[r] = "done" /\ pc'[r] \notin Busy /\ pc'[r] \notin Moving /\ answer'[r] = "error"
    BY <1>6, AnswerEnds
  <2>2. AnswerTrue(r)
    BY <1>1, <1>2, <1>3, <1>4, <2>1 DEF AnswerTrue, Stage, RowKnown, RowIs
  <2> QED
    BY <1>1, <1>2, <1>3, <1>4, <1>5, <2>1, <2>2, AgreeStepped
<1>7. ASSUME ~Answer(r, "error") PROVE AgreeInv' /\ AnswerTrue(r)
  <2>1. PICK want, next :
          /\ k \in DOMAIN mem
          /\ want = Merged(req[r].change, old)
          /\ Goto(r, "save", [want |-> want, next |-> next])
    BY <1>2, <1>7 DEF CheckUpdate
  <2>2. want = Def(want)
    BY <1>2, <2>1 DEF Merged, Def
  <2>3. /\ pc'[r] = "save" /\ req'[r].model = req[r].model /\ req'[r].job = k
        /\ req'[r].retry = req[r].retry /\ req'[r].want = want /\ req'[r].kind = "update"
    BY <1>1, <1>2, <2>1, GotoFields DEF Fields
  <2>4. k \in Handled \ skipped
    BY <1>0, <1>3, <2>1 DEF Agree, Loadable, Active
  <2>5. RowIs(k, old)'
    BY <1>1, <1>2, <1>3, <1>4 DEF Stage, RowKnown, RowIs
  <2>6. Stage(r)'
    BY <1>0, <1>1, <1>2, <1>3, <2>2, <2>3, <2>4, <2>5
    DEF Stage, RowKnown, MapKnown, SelfKnown, Moving, RowIs
  <2> QED
    BY <1>1, <1>2, <1>3, <1>4, <1>5, <2>3, <2>6, AgreeStepped DEF AnswerTrue
<1> QED
  BY <1>6, <1>7

LEMMA WrittenFields ==
  ASSUME NEW x, x = [f \in RowFields |-> x[f]],
         NEW def, NEW last, NEW next, NEW y, y = Written(x, def, last, next)
  PROVE  y.title = def.title /\ y.expr = def.expr /\ y.enabled = def.enabled
BY DEF Written, RowFields

LEMMA WriteDefWrites ==
  ASSUME RowShape, NEW k \in Jobs, NEW def, NEW last, NEW next,
         WriteDef(k, def, last, next), ~row[k].deleted
  PROVE  ~row'[k].deleted /\ Def(row'[k]) = Def(def)
<1>1. PICK x : x = row[k]
  OBVIOUS
<1>2. PICK y : y = Written(x, def, last, next)
  OBVIOUS
<1>3. row' = [row EXCEPT ![k].title = def.title, ![k].expr = def.expr,
                         ![k].enabled = def.enabled, ![k].last = last, ![k].next = next]
  BY DEF WriteDef
<1>4. row'[k] = y
  BY <1>1, <1>2, <1>3 DEF RowShape, Written
<1>5. x = [f \in RowFields |-> x[f]]
  BY <1>1 DEF RowShape
<1> QED
  BY <1>1, <1>2, <1>4, <1>5, FieldsWritten, WrittenFields DEF Def

LEMMA AgreeSave ==
  ASSUME SchedInv, TriggerInv, AgreeInv, Counted, Kinds \subseteq Edits,
         NEW r \in Requests, SaveDef(r)
  PROVE  AgreeInv' /\ AnswerTrue(r)
<1> USE DEF SchedInv, EditInv
<1>0. skipped' = skipped
  BY DEF SaveDef, At, startVars
<1>1. RequestStep(r) /\ pc[r] = "save" /\ pc[r] \in Busy \ Moving /\ "apply" \in Busy
      /\ "apply" \in Moving
  BY DEF RequestStep, Edit, SaveDef, At, Busy, Moving
<1>2. PICK k, old : k = req[r].job /\ old = Def(req[r].model)
  OBVIOUS
<1>3. Agree(k) /\ k \in Jobs /\ Stage(r) /\ errors \in Nat
  BY <1>1, <1>2, OwnJobAgrees DEF AgreeInv
<1>4. mem' = mem /\ live' = live /\ errors' \in Nat /\ TriggersOf(k)' = TriggersOf(k)
  BY <1>3, FailureCounts DEF SaveDef, schedVars, TriggersOf
<1>5. /\ RowIs(k, old) /\ k \in Handled \ skipped /\ ~req[r].retry /\ req[r].kind = "update"
      /\ req[r].want = Def(req[r].want)
  BY <1>1, <1>2, <1>3
  DEF Stage, RowKnown, MapKnown, SelfKnown, Moving, Shape, Shaped, Places, Edits
<1>6. CASE Answer(r, "error") /\ row' = row
  <2>1. pc'[r] = "done" /\ pc'[r] \notin Busy /\ pc'[r] \notin Moving /\ answer'[r] = "error"
    BY <1>6, AnswerEnds
  <2>2. AnswerTrue(r)
    BY <1>2, <1>5, <1>6, <2>1 DEF AnswerTrue, RowIs
  <2>3. Agree(k)'
    BY <1>0, <1>3, <1>4, <1>6 DEF Agree, Loadable, Active
  <2> QED
    BY <1>1, <1>2, <1>4, <2>1, <2>2, <2>3, AgreeStepped
<1>7. CASE WriteDef(k, req[r].want, req[r].model.last, req[r].next) /\ Goto(r, "apply", <<>>)
  <2>1. ~row'[k].deleted /\ Def(row'[k]) = Def(req[r].want)
    BY <1>3, <1>5, <1>7, WriteDefWrites DEF RowIs
  <2>2. /\ pc'[r] = "apply" /\ req'[r].job = k /\ req'[r].model = req[r].model
        /\ req'[r].want = req[r].want /\ req'[r].retry = req[r].retry
        /\ req'[r].kind = "update"
    BY <1>1, <1>2, <1>5, <1>7, GotoFields, NoLocals DEF Fields
  <2>3. MapsAs(k, old)'
    BY <1>0, <1>3, <1>4, <1>5 DEF Agree, Loadable, Active, RowIs, MapsAs
  <2>4. Stage(r)'
    BY <1>0, <1>2, <1>5, <2>1, <2>2, <2>3
    DEF Stage, RowKnown, MapKnown, SelfKnown, Moving
  <2> QED
    BY <1>1, <1>2, <1>4, <2>2, <2>4, AgreeStepped DEF AnswerTrue
<1> QED
  BY <1>2, <1>5, <1>6, <1>7 DEF SaveDef, RowIs

LEMMA AgreeRollback ==
  ASSUME SchedInv, TriggerInv, AgreeInv, Counted, Kinds \subseteq Edits, RepairsFinish,
         NEW r \in Requests, Rollback(r)
  PROVE  AgreeInv' /\ AnswerTrue(r)
<1> USE DEF SchedInv, EditInv
<1>0. skipped' = skipped
  BY DEF Rollback, At, startVars
<1>1. RequestStep(r) /\ pc[r] = "rollback" /\ pc[r] \in Busy
  BY DEF RequestStep, Edit, Rollback, At, Busy
<1>2. PICK k, old : k = req[r].job /\ old = Def(req[r].model)
  OBVIOUS
<1>3. k \in Jobs /\ Stage(r)
  BY <1>1, <1>2, OneAtATime DEF TriggerInv, AgreeInv
<1>4. /\ MapsAs(k, old) /\ k \in Handled \ skipped /\ ~row[k].deleted /\ errors \in Nat
  BY <1>1, <1>2, <1>3 DEF Stage, RowKnown, MapKnown, SelfKnown, Moving, AgreeInv
<1>5. /\ WriteDef(k, old, req[r].model.last, req[r].model.next)
      /\ Answer(r, "error") /\ errors' = errors /\ mem' = mem /\ live' = live
  <2>1. Answer(r, "error")
    BY DEF Rollback
  <2>2. PutsBack(r) /\ pc'[r] # pc[r]
    BY <1>1, <2>1, AnswerEnds DEF PutsBack
  <2> QED
    BY <1>2, <1>4, <2>2, FailureCounts DEF Rollback, schedVars, RepairsFinish
<1>6. ~row'[k].deleted /\ Def(row'[k]) = old
  BY <1>2, <1>3, <1>4, <1>5, WriteDefWrites DEF Def
<1>7. pc'[r] = "done" /\ pc'[r] \notin Busy /\ pc'[r] \notin Moving /\ answer'[r] = "error"
  BY <1>5, AnswerEnds
<1>8. AnswerTrue(r)
  BY <1>2, <1>6, <1>7 DEF AnswerTrue
<1>9. Agree(k)'
  BY <1>0, <1>4, <1>5, <1>6 DEF Agree, Loadable, Active, MapsAs, TriggersOf
<1> QED
  BY <1>1, <1>2, <1>4, <1>5, <1>7, <1>8, <1>9, AgreeStepped

LEMMA AgreeCheckDelete ==
  ASSUME SchedInv, TriggerInv, AgreeInv, Counted, Kinds \subseteq Edits,
         NEW r \in Requests, CheckDelete(r)
  PROVE  AgreeInv' /\ AnswerTrue(r)
<1> USE DEF SchedInv, EditInv
<1>0. skipped' = skipped
  BY DEF CheckDelete, At, startVars
<1>1. RequestStep(r) /\ pc[r] = "loaded" /\ pc[r] \in Busy \ Moving /\ "softdelete" \in Busy
      /\ req[r].kind = "delete"
  BY DEF RequestStep, Edit, CheckDelete, At, Busy, Moving
<1>2. PICK k, old : k = req[r].job /\ old = Def(req[r].model)
  OBVIOUS
<1>3. Agree(k) /\ Stage(r) /\ errors \in Nat
  BY <1>1, <1>2, OwnJobAgrees DEF AgreeInv
<1>4. row' = row /\ mem' = mem /\ live' = live /\ errors' = errors
  BY DEF CheckDelete, rowVars, schedVars
<1>5. Agree(k)'
  BY <1>0, <1>3, <1>4 DEF Agree, Loadable, Active, TriggersOf
<1>6. RowIs(k, old) /\ RowIs(k, old)'
  BY <1>1, <1>2, <1>3, <1>4 DEF Stage, RowKnown, RowIs
<1>7. /\ pc'[r] = "softdelete" /\ req'[r].model = req[r].model /\ req'[r].job = k
      /\ req'[r].kind = "delete" /\ req'[r].retry = req[r].retry
      /\ req'[r].known <=> k \in DOMAIN mem
      /\ k \in DOMAIN mem => req'[r].back = Def(mem[k])
  <2>1. CASE k \notin DOMAIN mem /\ Goto(r, "softdelete", [known |-> FALSE])
    BY <1>1, <1>2, <2>1, GotoFields DEF Fields
  <2>2. CASE k \in DOMAIN mem /\ Goto(r, "softdelete", [known |-> TRUE, back |-> Def(mem[k])])
    BY <1>1, <1>2, <2>2, GotoFields DEF Fields
  <2> QED
    BY <1>2, <2>1, <2>2 DEF CheckDelete
<1>8. /\ req'[r].known <=> k \in Handled \ skipped
      /\ req'[r].known => req'[r].back = old
  BY <1>0, <1>3, <1>6, <1>7 DEF Agree, Loadable, Active, RowIs
<1>9. ~req'[r].retry
  BY <1>1, <1>3, <1>7 DEF Stage, SelfKnown
<1>10. Stage(r)'
  BY <1>0, <1>2, <1>6, <1>7, <1>8, <1>9 DEF Stage, RowKnown, MapKnown, SelfKnown, Moving
<1> QED
  BY <1>1, <1>2, <1>3, <1>4, <1>5, <1>7, <1>10, AgreeStepped DEF AnswerTrue

LEMMA AgreeSoftDelete ==
  ASSUME SchedInv, TriggerInv, AgreeInv, Counted, Kinds \subseteq Edits,
         NEW r \in Requests, SoftDelete(r)
  PROVE  AgreeInv' /\ AnswerTrue(r)
<1> USE DEF SchedInv, EditInv
<1>0. skipped' = skipped
  BY DEF SoftDelete, At, startVars
<1>1. RequestStep(r) /\ pc[r] = "softdelete" /\ pc[r] \in Busy \ Moving /\ "unmap" \in Busy
      /\ "unmap" \in Moving
  BY DEF RequestStep, Edit, SoftDelete, At, Busy, Moving
<1>2. PICK k, old : k = req[r].job /\ old = Def(req[r].model)
  OBVIOUS
<1>3. Agree(k) /\ k \in Jobs /\ Stage(r) /\ errors \in Nat
  BY <1>1, <1>2, OwnJobAgrees DEF AgreeInv
<1>4. mem' = mem /\ live' = live /\ errors' \in Nat /\ TriggersOf(k)' = TriggersOf(k)
  BY <1>3, FailureCounts DEF SoftDelete, schedVars, TriggersOf
<1>5. /\ RowIs(k, old) /\ req[r].kind = "delete"
      /\ req[r].known <=> k \in Handled \ skipped
      /\ req[r].known => req[r].back = old
  BY <1>1, <1>2, <1>3
  DEF Stage, RowKnown, MapKnown, SelfKnown, Moving, Shape, Shaped, Places, Edits
<1>6. CASE Answer(r, "error") /\ row' = row
  <2>1. pc'[r] = "done" /\ pc'[r] \notin Busy /\ pc'[r] \notin Moving /\ answer'[r] = "error"
    BY <1>6, AnswerEnds
  <2>2. AnswerTrue(r)
    BY <1>2, <1>5, <1>6, <2>1 DEF AnswerTrue, RowIs
  <2>3. Agree(k)'
    BY <1>0, <1>3, <1>4, <1>6 DEF Agree, Loadable, Active
  <2> QED
    BY <1>1, <1>2, <1>4, <2>1, <2>2, <2>3, AgreeStepped
<1>7. CASE /\ row' = [row EXCEPT ![k].deleted = TRUE, ![k].enabled = FALSE]
           /\ IF req[r].known THEN Goto(r, "unmap", <<>>) ELSE Answer(r, "ok")
  <2>1. row'[k].deleted /\ row'[k].title = row[k].title /\ row'[k].expr = row[k].expr
    BY <1>3, <1>7 DEF RowShape, RowFields
  <2>2. RowGone(k, old)'
    BY <1>5, <2>1 DEF RowGone, RowIs, Def
  <2>3. CASE req[r].known
    <3>1. /\ pc'[r] = "unmap" /\ req'[r].job = k /\ req'[r].model = req[r].model
          /\ req'[r].back = req[r].back /\ req'[r].retry = req[r].retry
          /\ req'[r].kind = "delete"
      BY <1>1, <1>2, <1>5, <1>7, <2>3, GotoFields, NoLocals DEF Fields
    <3>2. MapsAs(k, old)'
      BY <1>0, <1>3, <1>4, <1>5, <2>3 DEF Agree, Loadable, Active, RowIs, MapsAs
    <3>3. ~req[r].retry
      BY <1>1, <1>3 DEF Stage, SelfKnown
    <3>4. Stage(r)'
      BY <1>0, <1>2, <1>5, <2>2, <2>3, <3>1, <3>2, <3>3
      DEF Stage, RowKnown, MapKnown, SelfKnown, Moving
    <3> QED
      BY <1>1, <1>2, <1>4, <3>1, <3>4, AgreeStepped DEF AnswerTrue
  <2>4. CASE ~req[r].known
    <3>1. pc'[r] = "done" /\ pc'[r] \notin Busy /\ pc'[r] \notin Moving /\ answer'[r] = "ok"
      BY <1>7, <2>4, AnswerEnds
    <3>2. AnswerTrue(r)
      BY <1>2, <1>5, <2>1, <3>1 DEF AnswerTrue
    <3>3. Agree(k)'
      BY <1>0, <1>3, <1>4, <1>5, <2>1, <2>4 DEF Agree, Loadable, Active
    <3> QED
      BY <1>1, <1>2, <1>4, <3>1, <3>2, <3>3, AgreeStepped
  <2> QED
    BY <2>3, <2>4
<1> QED
  BY <1>2, <1>6, <1>7 DEF SoftDelete

LEMMA AgreeRestore ==
  ASSUME SchedInv, TriggerInv, AgreeInv, Counted, Kinds \subseteq Edits, RepairsFinish,
         NEW r \in Requests, Restore(r)
  PROVE  AgreeInv' /\ AnswerTrue(r)
<1> USE DEF SchedInv, EditInv
<1>0. skipped' = skipped
  BY DEF Restore, At, startVars
<1>1. RequestStep(r) /\ pc[r] = "restore" /\ pc[r] \in Busy
  BY DEF RequestStep, Edit, Restore, At, Busy
<1>2. PICK k, old, back : k = req[r].job /\ old = Def(req[r].model) /\ back = req[r].back
  OBVIOUS
<1>3. k \in Jobs /\ Stage(r) /\ req[r].kind = "delete"
  BY <1>1, <1>2, OneAtATime DEF TriggerInv, AgreeInv, Shape, Shaped, Places, Edits
<1>4. /\ MapsAs(k, old) /\ k \in Handled \ skipped /\ RowGone(k, old) /\ back = old /\ errors \in Nat
  BY <1>1, <1>2, <1>3 DEF Stage, RowKnown, MapKnown, SelfKnown, Moving, AgreeInv
<1>5. /\ row' = [row EXCEPT ![k].deleted = FALSE, ![k].enabled = back.enabled]
      /\ Answer(r, "error") /\ errors' = errors /\ mem' = mem /\ live' = live
  <2>1. Answer(r, "error")
    BY DEF Restore
  <2>2. PutsBack(r) /\ pc'[r] # pc[r]
    BY <1>1, <2>1, AnswerEnds DEF PutsBack
  <2> QED
    BY <1>2, <1>4, <2>2, FailureCounts DEF Restore, schedVars, RepairsFinish
<1>6. /\ ~row'[k].deleted /\ row'[k].enabled = back.enabled
      /\ row'[k].title = row[k].title /\ row'[k].expr = row[k].expr
  BY <1>3, <1>5 DEF RowShape, RowFields
<1>7. Def(row'[k]) = old
  BY <1>2, <1>4, <1>6 DEF RowGone, Def
<1>8. pc'[r] = "done" /\ pc'[r] \notin Busy /\ pc'[r] \notin Moving /\ answer'[r] = "error"
  BY <1>5, AnswerEnds
<1>9. AnswerTrue(r)
  BY <1>2, <1>6, <1>7, <1>8 DEF AnswerTrue
<1>10. Agree(k)'
  BY <1>0, <1>4, <1>5, <1>6, <1>7 DEF Agree, Loadable, Active, MapsAs, TriggersOf
<1> QED
  BY <1>1, <1>2, <1>4, <1>5, <1>8, <1>9, <1>10, AgreeStepped

LEMMA AgreeApply ==
  ASSUME SchedInv, TriggerInv, AgreeInv, Counted, Kinds \subseteq Edits,
         NEW r \in Requests, Apply(r)
  PROVE  AgreeInv' /\ AnswerTrue(r)
<1> USE DEF SchedInv, EditInv
<1>0. skipped' = skipped
  BY DEF Apply, At, startVars
<1>1. RequestStep(r) /\ pc[r] = "apply" /\ pc[r] \in Busy /\ "unmap" \in Busy /\ "unmap" \in Moving
  BY DEF RequestStep, Rebuild, Apply, At, Busy, Moving
<1>2. PICK k, old, want : k = req[r].job /\ old = Def(req[r].model) /\ want = req[r].want
  OBVIOUS
<1>3. k \in Jobs /\ Stage(r) /\ req[r].kind = "update" /\ errors \in Nat
  BY <1>1, <1>2, OneAtATime DEF TriggerInv, AgreeInv, Shape, Shaped, Places, Edits
<1>4. /\ MapsAs(k, old) /\ k \in Handled \ skipped /\ ~row[k].deleted /\ Def(row[k]) = want
      /\ want = Def(want) /\ ~req[r].retry
  BY <1>1, <1>2, <1>3 DEF Stage, RowKnown, MapKnown, SelfKnown, Moving
<1>5. row' = row /\ live' = live /\ errors' = errors /\ TriggersOf(k)' = TriggersOf(k)
  BY DEF Apply, rowVars, TriggersOf
<1>6. CASE /\ mem[k].expr = want.expr /\ mem[k].enabled = want.enabled
           /\ mem' = [mem EXCEPT ![k].title = want.title] /\ Succeed(r)
  <2>1. Answer(r, "ok")
    BY <1>3, <1>6 DEF Succeed
  <2>2. pc'[r] = "done" /\ pc'[r] \notin Busy /\ pc'[r] \notin Moving /\ answer'[r] = "ok"
    BY <2>1, AnswerEnds
  <2>3. AnswerTrue(r)
    BY <1>2, <1>3, <1>4, <1>5, <2>2 DEF AnswerTrue
  <2>4. PICK x : x = mem[k]
    OBVIOUS
  <2>5. PICK y : y = [x EXCEPT !.title = want.title]
    OBVIOUS
  <2>6. DOMAIN x = EntryFields
    BY <1>4, <2>4 DEF EntryInv, MappedGood, Good, MapsAs
  <2>7. y.title = want.title /\ y.expr = x.expr /\ y.enabled = x.enabled /\ y.trigger = x.trigger
    BY <2>5, <2>6 DEF EntryFields
  <2>8. mem'[k] = y /\ k \in DOMAIN mem'
    BY <1>4, <1>6, <2>4, <2>5 DEF MapsAs
  <2>9. Def(y) = want
    BY <1>4, <1>6, <2>4, <2>7 DEF Def
  <2>10. TriggersOf(k)' = IF y.enabled THEN {y.trigger} ELSE {}
    BY <1>4, <1>5, <2>4, <2>7 DEF MapsAs
  <2>11. Agree(k)'
    BY <1>0, <1>4, <1>5, <2>8, <2>9, <2>10 DEF Agree, Loadable, Active
  <2> QED
    BY <1>1, <1>2, <1>3, <1>5, <2>2, <2>3, <2>11, AgreeStepped
<1>7. CASE Goto(r, "unmap", [back |-> Def(mem[k])]) /\ mem' = mem
  <2>1. /\ pc'[r] = "unmap" /\ req'[r].job = k /\ req'[r].model = req[r].model
        /\ req'[r].want = want /\ req'[r].retry = req[r].retry
        /\ req'[r].kind = "update" /\ req'[r].back = old
    BY <1>1, <1>2, <1>3, <1>4, <1>7, GotoFields DEF Fields, MapsAs
  <2>2. MapsAs(k, old)'
    BY <1>4, <1>5, <1>7 DEF MapsAs
  <2>3. Stage(r)'
    BY <1>0, <1>2, <1>4, <1>5, <2>1, <2>2
    DEF Stage, RowKnown, MapKnown, SelfKnown, Moving
  <2> QED
    BY <1>1, <1>2, <1>3, <1>5, <2>1, <2>3, AgreeStepped DEF AnswerTrue
<1> QED
  BY <1>2, <1>4, <1>6, <1>7 DEF Apply, MapsAs

\* A delete is done once the entry and its trigger are gone.
LEMMA AgreeDeleted ==
  ASSUME SchedInv, TriggerInv, AgreeInv, Counted, Kinds \subseteq Edits,
         NEW r \in Requests, RequestStep(r), pc[r] \in {"unmap", "unschedule"},
         req[r].kind = "delete", Answer(r, "ok"),
         NEW k, k = req[r].job, row' = row, errors' = errors,
         k \notin DOMAIN mem', TriggersOf(k)' = {}
  PROVE  AgreeInv' /\ AnswerTrue(r)
<1> USE DEF SchedInv, EditInv
<1>0. skipped' = skipped
  BY RequestLeavesStart
<1>1. pc[r] \in Busy /\ Stage(r) /\ errors \in Nat
  BY DEF AgreeInv, Busy
<1>2. row[k].deleted
  BY <1>1 DEF Stage, RowKnown, RowGone
<1>3. pc'[r] = "done" /\ pc'[r] \notin Busy /\ pc'[r] \notin Moving /\ answer'[r] = "ok"
  BY AnswerEnds
<1>4. AnswerTrue(r)
  BY <1>2, <1>3 DEF AnswerTrue
<1>5. Agree(k)'
  BY <1>0, <1>2 DEF Agree, Loadable, Active
<1> QED
  BY <1>1, <1>3, <1>4, <1>5, AgreeStepped

LEMMA AgreeUnmap ==
  ASSUME SchedInv, TriggerInv, AgreeInv, Counted, Kinds \subseteq Edits,
         NEW r \in Requests, Unmap(r)
  PROVE  AgreeInv' /\ AnswerTrue(r)
<1> USE DEF SchedInv, EditInv
<1>0. skipped' = skipped
  BY DEF Unmap, At, startVars
<1>1. RequestStep(r) /\ pc[r] = "unmap" /\ pc[r] \in Busy
      /\ {"unschedule", "schedule"} \subseteq Busy \cap Moving
  BY DEF RequestStep, Rebuild, Unmap, At, Busy, Moving
<1>2. PICK k, old, want : k = req[r].job /\ old = Def(req[r].model) /\ want = req[r].want
  OBVIOUS
<1>3. k \in Jobs /\ Stage(r) /\ req[r].kind \in {"update", "delete"} /\ errors \in Nat
  BY <1>1, <1>2, OneAtATime DEF TriggerInv, AgreeInv, Edits
<1>4. /\ MapsAs(k, old) /\ k \in Handled \ skipped /\ req[r].back = old /\ ~req[r].retry
      /\ req[r].kind = "update" =>
           ~row[k].deleted /\ Def(row[k]) = want /\ want = Def(want)
      /\ req[r].kind = "delete" => RowGone(k, old)
  BY <1>1, <1>2, <1>3 DEF Stage, RowKnown, MapKnown, SelfKnown, Moving
<1>5. /\ row' = row /\ live' = live /\ errors' = errors /\ TriggersOf(k)' = TriggersOf(k)
      /\ mem' = [i \in DOMAIN mem \ {k} |-> mem[i]]
  BY <1>2 DEF Unmap, rowVars, TriggersOf
<1>6. RowGone(k, old)' <=> RowGone(k, old)
  BY <1>5 DEF RowGone
<1>7. CASE mem[k].enabled
  <2>1. Goto(r, "unschedule", [taken |-> {mem[k]}])
    BY <1>2, <1>4, <1>7 DEF Unmap, MapsAs
  <2>2. /\ pc'[r] = "unschedule" /\ req'[r].job = k /\ req'[r].model = req[r].model
        /\ req'[r].want = want /\ req'[r].retry = req[r].retry
        /\ req'[r].kind = req[r].kind /\ req'[r].back = old /\ req'[r].taken = {mem[k]}
    BY <1>1, <1>2, <1>4, <2>1, GotoFields DEF Fields
  <2>3. PICK e : e = mem[k]
    OBVIOUS
  <2>4. req'[r].taken = {e} /\ e.enabled /\ Def(e) = old /\ TriggersOf(k)' = {e.trigger}
    BY <1>4, <1>5, <1>7, <2>2, <2>3 DEF MapsAs
  <2>5. k \notin DOMAIN mem'
    BY <1>5
  <2>6. Stage(r)'
    BY <1>0, <1>2, <1>3, <1>4, <1>5, <1>6, <2>2, <2>4, <2>5
    DEF Stage, RowKnown, MapKnown, SelfKnown, Moving
  <2> QED
    BY <1>1, <1>2, <1>3, <1>5, <2>2, <2>6, AgreeStepped DEF AnswerTrue
<1>8. CASE ~mem[k].enabled
  <2>1. Removed(r, <<>>)
    BY <1>2, <1>8 DEF Unmap
  <2>2. k \notin DOMAIN mem' /\ TriggersOf(k)' = {}
    BY <1>4, <1>5, <1>8 DEF MapsAs
  <2>3. CASE req[r].kind = "delete"
    BY <1>1, <1>2, <1>5, <2>1, <2>2, <2>3, AgreeDeleted DEF Removed, Succeed
  <2>4. CASE req[r].kind = "update"
    <3>1. Goto(r, "schedule", <<>>)
      BY <2>1, <2>4 DEF Removed
    <3>2. /\ pc'[r] = "schedule" /\ req'[r].job = k /\ req'[r].model = req[r].model
          /\ req'[r].want = want /\ req'[r].retry = req[r].retry
          /\ req'[r].kind = "update" /\ req'[r].back = old
      BY <1>1, <1>2, <1>4, <2>4, <3>1, GotoFields, NoLocals DEF Fields
    <3>3. Stage(r)'
      BY <1>0, <1>2, <1>4, <1>5, <2>2, <2>4, <3>2
      DEF Stage, RowKnown, MapKnown, SelfKnown, Moving
    <3> QED
      BY <1>1, <1>2, <1>3, <1>5, <3>2, <3>3, AgreeStepped DEF AnswerTrue
  <2> QED
    BY <1>3, <2>3, <2>4
<1> QED
  BY <1>7, <1>8

LEMMA AgreeUnschedule ==
  ASSUME SchedInv, TriggerInv, AgreeInv, Counted, Kinds \subseteq Edits,
         NEW r \in Requests, Unschedule(r)
  PROVE  AgreeInv' /\ AnswerTrue(r)
<1> USE DEF SchedInv, EditInv
<1>0. skipped' = skipped
  BY DEF Unschedule, At, startVars
<1>1. RequestStep(r) /\ pc[r] = "unschedule" /\ pc[r] \in Busy
      /\ {"schedule", "rollback", "restore"} \subseteq Busy \cap Moving
  BY DEF RequestStep, Rebuild, Unschedule, At, Busy, Moving
<1>2. PICK k, old, want : k = req[r].job /\ old = Def(req[r].model) /\ want = req[r].want
  OBVIOUS
<1>3. k \in Jobs /\ Stage(r) /\ req[r].kind \in {"update", "delete"} /\ errors \in Nat
  BY <1>1, <1>2, OneAtATime DEF TriggerInv, AgreeInv, Edits
<1>4. /\ k \in Handled \ skipped /\ k \notin DOMAIN mem /\ req[r].back = old /\ ~req[r].retry
      /\ req[r].kind = "update" =>
           ~row[k].deleted /\ Def(row[k]) = want /\ want = Def(want)
      /\ req[r].kind = "delete" => RowGone(k, old)
  BY <1>1, <1>2, <1>3 DEF Stage, RowKnown, MapKnown, SelfKnown, Moving
<1>5. PICK e : /\ req[r].taken = {e} /\ e.enabled /\ Def(e) = old
               /\ TriggersOf(k) = {e.trigger}
  BY <1>1, <1>2, <1>3 DEF Stage, MapKnown
<1>6. row' = row
  BY DEF Unschedule, rowVars
<1>7. RowGone(k, old)' <=> RowGone(k, old)
  BY <1>6 DEF RowGone
<1>8. CASE live' = live \ {e.trigger} /\ Removed(r, [taken |-> {}]) /\ mem' = mem /\ errors' = errors
  <2>1. TriggersOf(k)' = {}
    BY <1>5, <1>8 DEF TriggersOf
  <2>2. CASE req[r].kind = "delete"
    BY <1>1, <1>2, <1>4, <1>6, <1>8, <2>1, <2>2, AgreeDeleted DEF Removed, Succeed
  <2>3. CASE req[r].kind = "update"
    <3>1. Goto(r, "schedule", [taken |-> {}])
      BY <1>8, <2>3 DEF Removed
    <3>2. /\ pc'[r] = "schedule" /\ req'[r].job = k /\ req'[r].model = req[r].model
          /\ req'[r].want = want /\ req'[r].retry = req[r].retry
          /\ req'[r].kind = "update" /\ req'[r].back = old
      BY <1>1, <1>2, <1>4, <2>3, <3>1, GotoFields DEF Fields
    <3>3. Stage(r)'
      BY <1>0, <1>2, <1>4, <1>6, <1>8, <2>1, <2>3, <3>2
      DEF Stage, RowKnown, MapKnown, SelfKnown, Moving
    <3> QED
      BY <1>1, <1>2, <1>3, <1>8, <3>2, <3>3, AgreeStepped DEF AnswerTrue
  <2> QED
    BY <1>3, <2>2, <2>3
<1>9. CASE /\ mem' = [i \in DOMAIN mem \cup {k} |-> IF i = k THEN e ELSE mem[i]]
           /\ Failing /\ Fail(r) /\ live' = live
  <2>1. errors' \in Nat /\ errors' > 0
    BY <1>3, <1>9, FailureCounts
  <2>2. TriggersOf(k)' = TriggersOf(k)
    BY <1>9 DEF TriggersOf
  <2>3. mem'[k] = e /\ k \in DOMAIN mem'
    BY <1>9
  <2>4. MapsAs(k, old)'
    BY <1>5, <2>2, <2>3 DEF MapsAs
  <2>5. /\ pc'[r] = IF req[r].kind = "update" THEN "rollback" ELSE "restore"
        /\ req'[r].job = k /\ req'[r].model = req[r].model /\ req'[r].back = old
        /\ req'[r].kind = req[r].kind
    <3>1. CASE req[r].kind = "update"
      BY <1>1, <1>2, <1>4, <1>9, <3>1, GotoFields, NoLocals DEF Fail, Fields
    <3>2. CASE req[r].kind = "delete"
      BY <1>1, <1>2, <1>4, <1>9, <3>2, GotoFields, NoLocals DEF Fail, Fields
    <3> QED
      BY <1>3, <3>1, <3>2
  <2>6. Stage(r)'
    BY <1>0, <1>2, <1>3, <1>4, <1>6, <1>7, <2>1, <2>4, <2>5
    DEF Stage, RowKnown, MapKnown, SelfKnown, Moving
  <2> QED
    BY <1>1, <1>2, <1>3, <2>1, <2>5, <2>6, AgreeStepped DEF AnswerTrue
<1> QED
  BY <1>2, <1>5, <1>8, <1>9 DEF Unschedule

LEMMA AgreeSchedule ==
  ASSUME SchedInv, TriggerInv, AgreeInv, Counted, Kinds \subseteq Edits, RepairsFinish,
         NEW r \in Requests, Schedule(r)
  PROVE  AgreeInv' /\ AnswerTrue(r)
<1> USE DEF SchedInv, EditInv
<1>0. skipped' = skipped
  BY DEF Schedule, At, startVars
<1>1. RequestStep(r) /\ pc[r] = "schedule" /\ pc[r] \in Busy
      /\ {"schedule", "map"} \subseteq Busy \cap Moving
  BY DEF RequestStep, Rebuild, Schedule, At, Busy, Moving
<1>2. PICK k, old, want : k = req[r].job /\ old = Def(req[r].model) /\ want = req[r].want
  OBVIOUS
<1>3. k \in Jobs /\ Stage(r) /\ req[r].kind = "update" /\ errors \in Nat
  BY <1>1, <1>2, OneAtATime DEF TriggerInv, AgreeInv, Shape, Shaped, Places, Edits
<1>4. /\ k \in Handled \ skipped /\ k \notin DOMAIN mem /\ TriggersOf(k) = {}
      /\ req[r].back = old /\ want = Def(want) /\ ~row[k].deleted
      /\ IF req[r].retry THEN want = old /\ errors > 0 ELSE Def(row[k]) = want
  BY <1>1, <1>2, <1>3 DEF Stage, RowKnown, MapKnown, SelfKnown, Moving
<1>5. row' = row /\ mem' = mem
  BY DEF Schedule, rowVars
<1>6. CASE /\ live' = IF Entry(r).enabled THEN live \cup {Entry(r).trigger} ELSE live
           /\ Goto(r, "map", [taken |-> {Entry(r)}]) /\ errors' = errors
  <2>1. PICK e : e = Entry(r)
    OBVIOUS
  <2>2. /\ pc'[r] = "map" /\ req'[r].job = k /\ req'[r].model = req[r].model
        /\ req'[r].want = want /\ req'[r].retry = req[r].retry
        /\ req'[r].kind = "update" /\ req'[r].taken = {e}
    BY <1>1, <1>2, <1>3, <1>6, <2>1, GotoFields DEF Fields
  <2>3. Def(e) = want /\ e.trigger.job = k
    BY <1>2, <1>4, <2>1 DEF Entry, Def
  <2>4. TriggersOf(k)' = IF e.enabled THEN {e.trigger} ELSE {}
    <3>1. \A t \in live : t.job # k
      BY <1>4 DEF TriggersOf
    <3>2. CASE e.enabled
      BY <1>6, <2>1, <2>3, <3>1, <3>2 DEF TriggersOf
    <3>3. CASE ~e.enabled
      BY <1>6, <2>1, <3>1, <3>3 DEF TriggersOf
    <3> QED
      BY <3>2, <3>3
  <2>5. Stage(r)'
    BY <1>0, <1>2, <1>4, <1>5, <1>6, <2>2, <2>3, <2>4
    DEF Stage, RowKnown, MapKnown, SelfKnown, Moving
  <2> QED
    BY <1>1, <1>2, <1>3, <1>6, <2>2, <2>5, AgreeStepped DEF AnswerTrue
<1>7. CASE Failing /\ AddFails(r) /\ live' = live
  <2>1. errors' \in Nat /\ errors' > 0 /\ errors' # errors
    BY <1>3, <1>7, FailureCounts
  <2>2. ASSUME req[r].retry PROVE FALSE
    <3>1. Goto(r, "rollback", <<>>)
      BY <1>3, <1>7, <2>2 DEF AddFails, Fail
    <3>2. pc'[r] # pc[r]
      BY <1>1, <1>3, <3>1 DEF Goto, Shape
    <3> QED
      BY <1>1, <2>1, <2>2, <3>2 DEF RepairsFinish, PutsBack
  <2>3. Goto(r, "schedule", [want |-> req[r].back, retry |-> TRUE])
    BY <1>3, <1>7, <2>2 DEF AddFails
  <2>4. /\ pc'[r] = "schedule" /\ req'[r].job = k /\ req'[r].model = req[r].model
        /\ req'[r].want = old /\ req'[r].retry = TRUE
        /\ req'[r].kind = "update" /\ req'[r].back = old
    BY <1>1, <1>2, <1>3, <1>4, <2>3, GotoFields DEF Fields
  <2>5. TriggersOf(k)' = {}
    BY <1>4, <1>7 DEF TriggersOf
  <2>6. old = Def(old)
    BY <1>2 DEF Def
  <2>7. Stage(r)'
    BY <1>0, <1>2, <1>4, <1>5, <2>1, <2>4, <2>5, <2>6
    DEF Stage, RowKnown, MapKnown, SelfKnown, Moving
  <2> QED
    BY <1>1, <1>2, <2>1, <2>4, <2>7, AgreeStepped DEF AnswerTrue
<1> QED
  BY <1>6, <1>7 DEF Schedule

LEMMA AgreeMap ==
  ASSUME SchedInv, TriggerInv, AgreeInv, Counted, Kinds \subseteq Edits,
         NEW r \in Requests, Map(r)
  PROVE  AgreeInv' /\ AnswerTrue(r)
<1> USE DEF SchedInv, EditInv
<1>0. skipped' = skipped
  BY DEF Map, At, startVars
<1>1. RequestStep(r) /\ pc[r] = "map" /\ pc[r] \in Busy
      /\ "rollback" \in Busy \cap Moving
  BY DEF RequestStep, Rebuild, Map, At, Busy, Moving
<1>2. PICK k, old, want : k = req[r].job /\ old = Def(req[r].model) /\ want = req[r].want
  OBVIOUS
<1>3. k \in Jobs /\ Stage(r) /\ req[r].kind = "update" /\ errors \in Nat
  BY <1>1, <1>2, OneAtATime DEF TriggerInv, AgreeInv, Shape, Shaped, Places, Edits
<1>4. /\ k \in Handled \ skipped /\ ~row[k].deleted
      /\ IF req[r].retry THEN want = old /\ errors > 0 ELSE Def(row[k]) = want
  BY <1>1, <1>2, <1>3 DEF Stage, RowKnown, MapKnown, SelfKnown, Moving
<1>5. PICK e : /\ req[r].taken = {e} /\ Def(e) = want
               /\ TriggersOf(k) = IF e.enabled THEN {e.trigger} ELSE {}
  BY <1>1, <1>2, <1>3 DEF Stage, MapKnown
<1>6. /\ row' = row /\ live' = live /\ errors' = errors
      /\ mem' = [i \in DOMAIN mem \cup {k} |-> IF i = k THEN e ELSE mem[i]]
  BY <1>2, <1>5 DEF Map, rowVars
<1>7. TriggersOf(k)' = TriggersOf(k)
  BY <1>6 DEF TriggersOf
<1>8. mem'[k] = e /\ k \in DOMAIN mem'
  BY <1>6
<1>9. CASE req[r].retry
  <2>1. Goto(r, "rollback", <<>>)
    BY <1>3, <1>9 DEF Map, Fail
  <2>2. /\ pc'[r] = "rollback" /\ req'[r].job = k /\ req'[r].model = req[r].model
        /\ req'[r].kind = "update"
    BY <1>1, <1>2, <1>3, <2>1, GotoFields, NoLocals DEF Fields
  <2>3. MapsAs(k, old)'
    BY <1>4, <1>5, <1>7, <1>8, <1>9 DEF MapsAs
  <2>4. Stage(r)'
    BY <1>0, <1>2, <1>4, <1>6, <1>9, <2>2, <2>3
    DEF Stage, RowKnown, MapKnown, SelfKnown, Moving
  <2> QED
    BY <1>1, <1>2, <1>3, <1>6, <2>2, <2>4, AgreeStepped DEF AnswerTrue
<1>10. CASE ~req[r].retry
  <2>1. Answer(r, "ok")
    BY <1>3, <1>10 DEF Map, Succeed
  <2>2. pc'[r] = "done" /\ pc'[r] \notin Busy /\ pc'[r] \notin Moving /\ answer'[r] = "ok"
    BY <2>1, AnswerEnds
  <2>3. AnswerTrue(r)
    BY <1>2, <1>3, <1>4, <1>6, <1>10, <2>2 DEF AnswerTrue
  <2>4. Agree(k)'
    BY <1>0, <1>4, <1>5, <1>6, <1>7, <1>8, <1>10 DEF Agree, Loadable, Active
  <2> QED
    BY <1>1, <1>2, <1>3, <1>6, <2>2, <2>3, <2>4, AgreeStepped
<1> QED
  BY <1>9, <1>10

\* A client that disconnects before its job is touched leaves it in order.
LEMMA AgreeDisconnect ==
  ASSUME SchedInv, TriggerInv, AgreeInv, Counted, Kinds \subseteq Edits, RepairsFinish,
         NEW r \in Requests, Disconnect(r)
  PROVE  AgreeInv' /\ AnswerTrue(r)
<1> USE DEF SchedInv, EditInv
<1>0. skipped' = skipped
  BY DEF Disconnect, At, startVars
<1>1. RequestStep(r) /\ pc[r] \in Busy \ Moving
  BY DEF RequestStep, Disconnect, RepairsFinish
<1>2. pc'[r] = "lost" /\ pc'[r] \notin Busy /\ pc'[r] \notin Moving
  BY DEF Disconnect, Shape, Busy, Moving
<1>3. PICK k : k = req[r].job
  OBVIOUS
<1>4. /\ row' = row /\ mem' = mem /\ live' = live
      /\ errors' = errors /\ errors \in Nat
  BY DEF Disconnect, rowVars, schedVars, AgreeInv
<1>5. Agree(k)'
  BY <1>0, <1>1, <1>3, <1>4, OwnJobAgrees DEF Agree, Loadable, Active, TriggersOf
<1> QED
  BY <1>1, <1>2, <1>3, <1>4, <1>5, AgreeStepped DEF AnswerTrue

LEMMA AgreeRequest ==
  ASSUME SchedInv, TriggerInv, AgreeInv, Counted,
         Kinds \subseteq Edits, RepairsFinish, NEW r \in Requests, RequestStep(r)
  PROVE  AgreeInv' /\ AnswerTrue(r)
<1>1. CASE BeginEdit(r)
  BY <1>1, AgreeBegin DEF BeginEdit, At, AnswerTrue, Busy
<1>2. CASE FindJob(r)
  BY <1>2, AgreeFind DEF FindJob, At, AnswerTrue
<1>3. CASE Disconnect(r)
  BY <1>3, AgreeDisconnect
<1>4. ASSUME ChangeSetting(r) PROVE FALSE
  <2>1. pc[r] \in Busy => req[r].kind \in Edits
    BY DEF TriggerInv, OnlyEdits
  <2> QED
    BY <1>4, <2>1
    DEF ChangeSetting, BeginSetting, ReadSetting, NamesDone, ReloadNext, SyncNext,
        PersistTitle, Replan, WriteReplan, StoreSetting, CacheSetting, At, SchedInv, EditInv,
        Shape, Shaped, Places, Edits, Busy
<1> QED
  BY <1>1, <1>2, <1>3, <1>4, AgreeCheckUpdate, AgreeSave, AgreeRollback, AgreeCheckDelete,
     AgreeSoftDelete, AgreeRestore, AgreeApply, AgreeUnmap, AgreeUnschedule, AgreeSchedule,
     AgreeMap
  DEF RequestStep, Edit, Rebuild

\* An execution writes the plan and leaves the definition.
LEMMA SetPlanLeavesDef ==
  ASSUME RowShape, NEW k, NEW last, NEW next, SetPlan(k, last, next), NEW j \in Jobs
  PROVE  row'[j].deleted = row[j].deleted /\ row'[j].title = row[j].title
         /\ row'[j].expr = row[j].expr /\ row'[j].enabled = row[j].enabled
BY DEF SetPlan, RowShape, RowFields

LEMMA AgreePlan ==
  ASSUME SchedInv, AgreeInv, PlanStep \/ UNCHANGED vars
  PROVE  AgreeInv'
<1> USE DEF SchedInv, EditInv
<1>1. UNCHANGED <<pc, req, mem, live, up, skipped>>
  BY PlanStepLeaves DEF reqVars, schedVars, startVars, vars
<1>2. errors' \in Nat /\ (errors > 0 => errors' > 0)
  BY ErrorsMove, FailureCounts DEF AgreeInv, Next, PlanStep
<1>3. ASSUME NEW j \in Jobs
      PROVE  row'[j].deleted = row[j].deleted /\ row'[j].title = row[j].title
             /\ row'[j].expr = row[j].expr /\ row'[j].enabled = row[j].enabled
  <2>1. CASE BootFails
    <3>1. PICK plan : row' = [i \in Jobs |-> [row[i] EXCEPT !.next = plan[i]]]
      BY <2>1, StartReplans
    <3>2. row'[j] = [row[j] EXCEPT !.next = plan[j]]
      BY <3>1
    <3> QED
      BY <3>2 DEF RowShape, RowFields
  <2>2. CASE Tick \/ RunJobNow \/ RunEnds \/ WritePlan \/ UNCHANGED vars
    BY <2>2, SetPlanLeavesDef DEF Tick, RunJobNow, Submit, RunEnds, WritePlan, vars, rowVars
  <2> QED
    BY <2>1, <2>2 DEF PlanStep
<1>4. \A j : TriggersOf(j)' = TriggersOf(j)
  BY <1>1 DEF TriggersOf
<1>5. \A j \in Jobs : Def(row'[j]) = Def(row[j])
  BY <1>3 DEF Def
<1>6. \A j \in Jobs : Agree(j)' <=> Agree(j)
  BY <1>1, <1>3, <1>4, <1>5 DEF Agree, Loadable, Active
<1>7. ASSUME NEW r \in Requests, pc[r] \in Busy PROVE Stage(r)'
  <2>1. Stage(r) /\ req[r].job \in Jobs
    BY <1>7 DEF AgreeInv, Shape, Shaped
  <2>2. PICK k, old : k = req[r].job /\ old = Def(req[r].model)
    OBVIOUS
  <2>3. RowKnown(r, k, old)'
    BY <1>1, <1>2, <1>3, <1>5, <2>1, <2>2 DEF Stage, RowKnown, RowIs, RowGone
  <2>4. MapKnown(r, k, old)'
    BY <1>1, <1>4, <2>1, <2>2 DEF Stage, MapKnown, MapsAs
  <2>5. SelfKnown(r, old)'
    BY <1>1, <1>2, <2>1, <2>2 DEF Stage, SelfKnown
  <2> QED
    BY <1>1, <2>2, <2>3, <2>4, <2>5 DEF Stage
<1> QED
  BY <1>1, <1>2, <1>6, <1>7 DEF AgreeInv

\* The jobs that have just been loaded agree with their rows.
LEMMA LoadedAgree ==
  ASSUME NEW z, mem' = Load(row, z, skipped'), live' = Triggered(mem'), NEW j \in Jobs,
         row'[j].deleted = row[j].deleted, Def(row'[j]) = Def(row[j])
  PROVE  Agree(j)'
<1>1. \A i \in DOMAIN mem' : mem'[i].trigger.job = i
  BY DEF Load
<1>2. j \in DOMAIN mem' <=> j \in Handled \ skipped' /\ ~row[j].deleted
  BY DEF Load
<1>3. j \in DOMAIN mem' => Def(mem'[j]) = Def(row[j])
  BY DEF Load, Def
<1>4. j \in DOMAIN mem' =>
        TriggersOf(j)' = IF mem'[j].enabled THEN {mem'[j].trigger} ELSE {}
  BY <1>1 DEF Triggered, TriggersOf
<1>5. j \notin DOMAIN mem' => TriggersOf(j)' = {}
  BY <1>1 DEF Triggered, TriggersOf
<1> QED
  BY <1>2, <1>3, <1>4, <1>5 DEF Agree, Loadable, Active

LEMMA AgreeStays ==
  ASSUME SchedInv, TriggerInv, AgreeInv, Counted,
         Kinds \subseteq Edits, [Next]_vars, [RepairsFinish]_vars
  PROVE  AgreeInv'
<1> USE DEF SchedInv, EditInv
<1>1. CASE Down
  <2>1. \A r \in Requests : pc'[r] \notin Busy
    BY <1>1 DEF Down, Busy, Shape
  <2> QED
    BY <1>1, <2>1 DEF Down, AgreeInv
<1>2. CASE Boot
  <2>1. \A r \in Requests : pc'[r] \notin Busy
    BY <1>2 DEF Boot, reqVars, DownInv
  <2>2. ASSUME NEW j \in Jobs
        PROVE  row'[j].deleted = row[j].deleted /\ Def(row'[j]) = Def(row[j])
    <3>1. PICK plan : row' = [i \in Jobs |-> [row[i] EXCEPT !.next = plan[i]]]
      BY <1>2, StartReplans
    <3>2. row'[j] = [row[j] EXCEPT !.next = plan[j]]
      BY <3>1
    <3> QED
      BY <3>2 DEF RowShape, RowFields, Def
  <2>3. \A j \in Jobs : Agree(j)'
    BY <1>2, <2>2, LoadedAgree DEF Boot
  <2> QED
    BY <1>2, <2>1, <2>3, ErrorsMove, FailureCounts DEF AgreeInv
<1>3. CASE PlanStep \/ UNCHANGED vars
  BY <1>3, AgreePlan
<1>4. ASSUME NEW r \in Requests, RequestStep(r)
      PROVE  AgreeInv'
  <2>1. CASE RepairsFinish
    BY <1>4, <2>1, AgreeRequest
  <2> QED
    BY <1>3, <2>1
<1> QED
  BY <1>1, <1>2, <1>3, <1>4 DEF Next, RequestStep, PlanStep

LEMMA CountedStays ==
  ASSUME Counted, [Next]_vars
  PROVE  Counted'
<1>1. ASSUME NEW r \in Requests, RequestStep(r) PROVE Counted'
  <2>1. CASE Disconnect(r)
    BY <1>1, <2>1 DEF Disconnect, Counted
  <2>2. CASE ~Disconnect(r)
    <3>1. cancels' = cancels
      BY <1>1, <2>2
      DEF RequestStep, Edit, Rebuild, ChangeSetting, BeginEdit, FindJob, CheckUpdate,
          SaveDef, Rollback, CheckDelete, SoftDelete, Restore, Apply, Unmap, Unschedule,
          Schedule, Map, BeginSetting, ReadSetting, NamesDone, ReloadNext, SyncNext,
          PersistTitle, Replan, WriteReplan, StoreSetting, CacheSetting, At
    <3>2. answer' = answer \/ \E a : answer' = [answer EXCEPT ![r] = a]
      BY <1>1, <2>2
      DEF RequestStep, Edit, Rebuild, ChangeSetting, BeginEdit, FindJob, CheckUpdate,
          SaveDef, Rollback, CheckDelete, SoftDelete, Restore, Apply, Unmap, Unschedule,
          Schedule, Map, BeginSetting, ReadSetting, NamesDone, ReloadNext, SyncNext,
          PersistTitle, Replan, WriteReplan, StoreSetting, CacheSetting, Removed,
          Succeed, Fail, AddFails, Goto, Answer
    <3> QED
      BY <3>1, <3>2 DEF Counted
  <2> QED
    BY <2>1, <2>2
<1>2. CASE PlanStep \/ Down \/ Boot \/ UNCHANGED vars
  BY <1>2
  DEF PlanStep, Tick, RunJobNow, Submit, RunEnds, WritePlan, BootFails, Down, Boot, vars, reqVars,
      Counted
<1> QED
  BY <1>1, <1>2 DEF Next, RequestStep, PlanStep

LEMMA AgreeInvInit ==
  ASSUME Init
  PROVE  TriggerInv /\ Counted /\ AgreeInv
<1>1. Counted
  BY DEF Init, Counted
<1>2. AgreeInv
  BY DEF Init, AgreeInv, Busy
<1> QED
  BY <1>1, <1>2, TriggersInit

\* What a step answers, given that it does not break a repair off.
LEMMA StepAnswersTrue ==
  ASSUME SchedInv, TriggerInv, AgreeInv, Counted, Kinds \subseteq Edits,
         [Next]_vars, [RepairsFinish]_vars,
         NEW r \in Requests, pc[r] \in Busy \ {"find"}, pc'[r] = "done"
  PROVE  AnswerTrue(r)
<1>1. pc'[r] # pc[r]
  BY DEF Busy
<1>2. ~(PlanStep \/ Boot \/ UNCHANGED vars)
  BY <1>1, PlanStepLeaves DEF Boot, reqVars, vars
<1>3. ~Down
  BY DEF Down
<1>4. PICK q \in Requests : RequestStep(q)
  BY <1>2, <1>3 DEF Next, RequestStep, PlanStep
<1>5. q = r
  BY <1>1, <1>4, RequestMoves DEF OthersWait, SchedInv, EditInv
<1>6. RepairsFinish
  BY <1>2
<1> QED
  BY <1>4, <1>5, <1>6, AgreeRequest

LEMMA RepairsKeepAgreement ==
  ASSUME Kinds \subseteq {"update", "delete"}
  PROVE  Spec /\ [][RepairsFinish]_vars => [](SchedInv /\ TriggerInv /\ Counted /\ AgreeInv)
<1>1. SchedInv /\ TriggerInv /\ Counted /\ AgreeInv /\ [Next]_vars /\ [RepairsFinish]_vars
        => TriggerInv' /\ Counted' /\ AgreeInv'
  BY TriggersStay, CountedStays, AgreeStays DEF Edits
<1> QED
  BY <1>1, AgreeInvInit, SchedInvHolds, PTL DEF Spec

\* However many operations fail, clients disconnect and processes end: as
\* long as no failure hits an edit that is putting back what it replaced
\* and no client disconnects while its job is being moved, the table, the
\* map and the scheduler agree about every job whenever no edit is under way.
\* A job that the last start logged and skipped is in neither the map nor the
\* scheduler.  Everyone who rebuilds a job holds the lock here.
THEOREM RepairsKeepAgreementHolds ==
  ASSUME Kinds \subseteq {"update", "delete"}
  PROVE  Spec /\ [][RepairsFinish]_vars => []Agreement
<1>1. AgreeInv => Agreement
  BY DEF AgreeInv, Agreement, Quiet, Moving, Busy
<1> QED
  BY <1>1, RepairsKeepAgreement, PTL

\* Under the same condition an answer tells what happened to the row.
THEOREM RepairsKeepAnswersTrue ==
  ASSUME Kinds \subseteq {"update", "delete"}
  PROVE  Spec /\ [][RepairsFinish]_vars => AnswersAreTrue
<1>1. SchedInv /\ TriggerInv /\ Counted /\ AgreeInv /\ [Next]_vars /\ [RepairsFinish]_vars
        => [\A r \in Requests :
              (pc[r] \in Busy \ {"find"} /\ pc'[r] = "done") =>
                LET j == req[r].job IN
                IF answer'[r] = "error"
                THEN Def(row'[j]) = Def(req[r].model) /\ ~row'[j].deleted
                ELSE IF req[r].kind = "delete" THEN row'[j].deleted
                     ELSE Def(row'[j]) = req[r].want]_vars
  BY StepAnswersTrue DEF AnswerTrue, Edits
<1> QED
  BY <1>1, RepairsKeepAgreement, PTL DEF Spec, AnswersAreTrue

\* Whoever puts something back has met a failure; where there is only one,
\* and no client disconnects, no repair is broken off.
LEMMA OneFailureRepairs ==
  ASSUME SchedInv, TriggerInv, AgreeInv, Counted, MaxErrors <= 1, MaxCancels = 0, [Next]_vars
  PROVE  RepairsFinish
<1>1. ASSUME NEW r \in Requests, PutsBack(r)
      PROVE  errors' = errors
  <2>1. pc[r] \in Busy
    BY <1>1 DEF PutsBack, Busy
  <2>2. Stage(r) /\ errors \in Nat /\ MaxErrors \in Nat
    BY <2>1, SchedulerAssumption DEF AgreeInv
  <2>3. pc[r] = "schedule" => req[r].kind = "update"
    BY <2>1 DEF TriggerInv, OnlyEdits, SchedInv, EditInv, Shape, Shaped, Places, Edits
  <2>4. errors > 0
    BY <1>1, <2>2, <2>3 DEF PutsBack, Stage, RowKnown, SelfKnown
  <2>5. ~Failing
    BY <2>2, <2>4 DEF Failing
  <2> QED
    BY <2>5, ErrorsMove
<1>2. ASSUME NEW r \in Requests, Disconnect(r)
      PROVE  FALSE
  BY <1>2 DEF Disconnect, Counted
<1> QED
  BY <1>1, <1>2 DEF RepairsFinish

LEMMA OneFailureAgreement ==
  ASSUME Kinds \subseteq {"update", "delete"}, MaxErrors <= 1, MaxCancels = 0
  PROVE  Spec => [][RepairsFinish]_vars
<1>1. SchedInv /\ TriggerInv /\ Counted /\ AgreeInv /\ [Next]_vars
        => TriggerInv' /\ Counted' /\ AgreeInv' /\ [RepairsFinish]_vars
  BY TriggersStay, CountedStays, AgreeStays, OneFailureRepairs DEF Edits
<1> QED
  BY <1>1, AgreeInvInit, SchedInvHolds, PTL DEF Spec

\* Between edits the table, the map and the scheduler agree about every job:
\* through one failing operation anywhere, executions and restarts, where
\* everyone who rebuilds a job holds the lock and nobody disconnects.  If it
\* is the start that fails to add jobs, it skips them, and these are in
\* neither the map nor the scheduler.
THEOREM AgreementHolds ==
  ASSUME Kinds \subseteq {"update", "delete"}, MaxErrors <= 1, MaxCancels = 0
  PROVE  Spec => []Agreement
BY RepairsKeepAgreementHolds, OneFailureAgreement, PTL

\* Under the same conditions an answer tells what happened to the row.
THEOREM AnswersAreTrueHolds ==
  ASSUME Kinds \subseteq {"update", "delete"}, MaxErrors <= 1, MaxCancels = 0
  PROVE  Spec => AnswersAreTrue
BY RepairsKeepAnswersTrue, OneFailureAgreement, PTL

-----------------------------------------------------------------------------
(***************************************************************************)
(* Types.  What a request writes into the table, the map and the scheduler *)
(* it has read before, so its local variables are typed with the rest; and *)
(* whoever takes a job out of the map or puts it in has found it there, so *)
(* that the job has a handler.                                             *)
(***************************************************************************)
Rebuilding == {"unmap", "unschedule", "schedule", "map"}

TypedLocals(r) ==
  pc[r] \in Busy =>
    /\ req[r].kind = "update" => req[r].change \in Changes
    /\ req[r].kind = "zone" => req[r].value \in Zones
    /\ req[r].kind = "lang" => req[r].value \in Langs
    /\ req[r].model \in Rows
    /\ req[r].next \in Plans
    /\ req[r].want \in Defs
    /\ req[r].back \in Defs
    /\ req[r].taken \in SUBSET Entries
    /\ pc[r] \in Rebuilding => req[r].job \in Handled
    /\ pc[r] = "softdelete" /\ req[r].known => req[r].job \in Handled

LocalsInv == \A r \in Requests : TypedLocals(r)

LEMMA DefTyped ==
  /\ \A x \in Rows : Def(x) \in Defs
  /\ \A x \in Entries : Def(x) \in Defs
BY DEF Def, Defs, Rows, Entries

LEMMA MergedTyped ==
  ASSUME NEW change \in Changes, NEW def \in Defs, Merged(change, def).expr # "bad"
  PROVE  Merged(change, def) \in Defs
<1> DEFINE m == Merged(change, def)
<1>0. /\ DOMAIN def = {"title", "expr", "enabled"}
      /\ def.title \in Titles /\ def.expr \in Exprs /\ def.enabled \in BOOLEAN
  BY DEF Defs
<1>1. /\ m = [f \in {"title", "expr", "enabled"} |->
                IF f \in DOMAIN change THEN change[f] ELSE def[f]]
  BY <1>0 DEF Merged
<1>2. m = [title |-> m.title, expr |-> m.expr, enabled |-> m.enabled]
  BY <1>1
<1>3. /\ m.title = IF "title" \in DOMAIN change THEN change.title ELSE def.title
      /\ m.expr = IF "expr" \in DOMAIN change THEN change.expr ELSE def.expr
      /\ m.enabled = IF "enabled" \in DOMAIN change THEN change.enabled ELSE def.enabled
  BY <1>1
<1> HIDE DEF m
<1>4. m.expr # "bad"
  BY DEF m
<1>5. m.title \in Titles /\ m.expr \in Exprs /\ m.enabled \in BOOLEAN
  <2>1. CASE change = [title |-> "custom"]
    BY <1>0, <1>3, <2>1 DEF Titles
  <2>2. ASSUME NEW b \in BOOLEAN, change = [enabled |-> b]
        PROVE  m.title \in Titles /\ m.expr \in Exprs /\ m.enabled \in BOOLEAN
    BY <1>0, <1>3, <2>2
  <2>3. ASSUME NEW e \in Exprs \cup {"bad"}, change = [expr |-> e]
        PROVE  m.title \in Titles /\ m.expr \in Exprs /\ m.enabled \in BOOLEAN
    BY <1>0, <1>3, <1>4, <2>3
  <2> QED
    BY <2>1, <2>2, <2>3 DEF Changes
<1>6. m \in Defs
  BY <1>2, <1>5 DEF Defs
<1> QED
  BY <1>6 DEF m

LEMMA WrittenTyped ==
  ASSUME NEW x \in Rows, NEW def \in Defs, NEW last \in Nat, NEW next \in Plans
  PROVE  Written(x, def, last, next) \in Rows
BY DEF Written, Rows, Defs

LEMMA LoadedTyped ==
  ASSUME NEW rows \in [Jobs -> Rows], NEW z \in Zones, NEW skip
  PROVE  /\ DOMAIN Load(rows, z, skip) \subseteq Handled
         /\ \A j \in DOMAIN Load(rows, z, skip) : Load(rows, z, skip)[j] \in Entries
         /\ Triggered(Load(rows, z, skip)) \subseteq Triggers
<1> DEFINE entries == Load(rows, z, skip)
<1>1. DOMAIN entries \subseteq Handled
  BY DEF Load
<1>2. ASSUME NEW j \in DOMAIN entries
      PROVE  entries[j] \in Entries /\ entries[j].trigger \in Triggers
  <2>1. j \in Jobs /\ rows[j] \in Rows
    BY <1>1, SchedulerAssumption
  <2>2. entries[j] = [title |-> rows[j].title, expr |-> rows[j].expr, enabled |-> rows[j].enabled,
                      trigger |-> [job |-> j, by |-> 0, expr |-> rows[j].expr, zone |-> z]]
    BY DEF Load
  <2>3. rows[j].title \in Titles /\ rows[j].expr \in Exprs /\ rows[j].enabled \in BOOLEAN
    BY <2>1 DEF Rows
  <2>4. [job |-> j, by |-> 0, expr |-> rows[j].expr, zone |-> z] \in Triggers
    BY <2>1, <2>3 DEF Triggers
  <2> QED
    BY <2>2, <2>3, <2>4 DEF Entries
<1> QED
  BY <1>1, <1>2 DEF Triggered

\* New values of local variables that have their types.
TypedFields(locals) ==
  /\ DOMAIN locals \subseteq Fields \ {"kind", "change", "value"}
  /\ "model" \in DOMAIN locals => locals.model \in Rows
  /\ "next" \in DOMAIN locals => locals.next \in Plans
  /\ "want" \in DOMAIN locals => locals.want \in Defs
  /\ "back" \in DOMAIN locals => locals.back \in Defs
  /\ "taken" \in DOMAIN locals => locals.taken \in SUBSET Entries

LEMMA GotoTyped ==
  ASSUME Shape, NEW r \in Requests, pc[r] \in Busy, TypedLocals(r),
         NEW to \in Busy, NEW locals, Goto(r, to, locals), TypedFields(locals),
         to \in Rebuilding =>
           (IF "job" \in DOMAIN locals THEN locals.job ELSE req[r].job) \in Handled,
         to # "softdelete"
  PROVE  TypedLocals(r)'
<1>1. /\ pc'[r] = to
      /\ \A f \in Fields :
           req'[r][f] = IF f \in DOMAIN locals THEN locals[f] ELSE req[r][f]
  BY GotoFields
<1>2. /\ req'[r].kind = req[r].kind /\ req'[r].change = req[r].change
      /\ req'[r].value = req[r].value
  BY <1>1 DEF TypedFields, Fields
<1>3. /\ req'[r].model \in Rows /\ req'[r].next \in Plans
      /\ req'[r].want \in Defs /\ req'[r].back \in Defs
      /\ req'[r].taken \in SUBSET Entries
  BY <1>1 DEF TypedFields, TypedLocals, Fields
<1>4. req'[r].job = IF "job" \in DOMAIN locals THEN locals.job ELSE req[r].job
  BY <1>1 DEF Fields
<1> QED
  BY <1>1, <1>2, <1>3, <1>4 DEF TypedLocals

LEMMA SameLocals ==
  TypedFields(<<>>) /\ "job" \notin DOMAIN <<>>
BY DEF TypedFields

LEMMA AnswerTyped ==
  ASSUME Shape, NEW r \in Requests, NEW a, Answer(r, a)
  PROVE  TypedLocals(r)'
BY DEF Answer, Shape, TypedLocals, Busy

LEMMA OutcomeTyped ==
  ASSUME Shape, NEW r \in Requests, pc[r] \in Busy, TypedLocals(r), Succeed(r) \/ Fail(r)
  PROVE  TypedLocals(r)'
<1>1. ASSUME NEW a, Answer(r, a) PROVE TypedLocals(r)'
  BY <1>1, AnswerTyped
<1>2. ASSUME NEW to \in {"persist", "replan", "rollback", "restore", "names"},
             Goto(r, to, <<>>)
      PROVE  TypedLocals(r)'
  BY <1>2, GotoTyped, SameLocals DEF Busy, Rebuilding
<1>3. CASE Goto(r, "names", [failed |-> TRUE])
  <2>1. TypedFields([failed |-> TRUE])
    BY DEF TypedFields, Fields
  <2> QED
    BY <1>3, <2>1, GotoTyped DEF Busy, Rebuilding
<1> QED
  BY <1>1, <1>2, <1>3 DEF Succeed, Fail

\* A request that starts has its local variables filled from the state.
LEMMA LocalsTyped ==
  ASSUME TypeOK, NEW j \in Jobs, NEW k
  PROVE  /\ Locals(k, j).model \in Rows /\ Locals(k, j).next \in Plans
         /\ Locals(k, j).want \in Defs /\ Locals(k, j).back \in Defs
         /\ Locals(k, j).taken = {} /\ Locals(k, j).kind = k
         /\ DOMAIN Locals(k, j) = Fields
<1>1. row[j] \in Rows
  BY DEF TypeOK
<1>2. row[j].next \in Plans
  BY <1>1 DEF Rows
<1> QED
  BY <1>1, <1>2, DefTyped DEF Locals, Fields

LEMMA BeginTyped ==
  ASSUME Shape, TypeOK, NEW r \in Requests, BeginEdit(r) \/ BeginSetting(r)
  PROVE  TypedLocals(r)'
<1>0. DOMAIN req = Requests /\ DOMAIN pc = Requests /\ AnyJob \in Jobs
  BY SchedulerAssumption DEF Shape, AnyJob
<1>1. ASSUME NEW j \in Jobs, NEW c \in Changes, pc'[r] = "find",
             req' = [req EXCEPT ![r] = [Locals("update", j) EXCEPT !.change = c]]
      PROVE  TypedLocals(r)'
  <2>1. req'[r] = [Locals("update", j) EXCEPT !.change = c]
    BY <1>0, <1>1
  <2> QED
    BY <1>1, <2>1, LocalsTyped DEF TypedLocals, Rebuilding, Fields
<1>2. ASSUME NEW j \in Jobs, pc'[r] = "find",
             req' = [req EXCEPT ![r] = Locals("delete", j)]
      PROVE  TypedLocals(r)'
  <2>1. req'[r] = Locals("delete", j)
    BY <1>0, <1>2
  <2> QED
    BY <1>2, <2>1, LocalsTyped DEF TypedLocals, Rebuilding
<1>3. ASSUME NEW z \in Zones, pc'[r] = "read",
             req' = [req EXCEPT ![r] = [Locals("zone", AnyJob) EXCEPT !.value = z]]
      PROVE  TypedLocals(r)'
  <2>1. req'[r] = [Locals("zone", AnyJob) EXCEPT !.value = z]
    BY <1>0, <1>3
  <2> QED
    BY <1>0, <1>3, <2>1, LocalsTyped DEF TypedLocals, Rebuilding, Fields
<1>4. ASSUME NEW l \in Langs, pc'[r] = "read",
             req' = [req EXCEPT ![r] = [Locals("lang", AnyJob) EXCEPT !.value = l]]
      PROVE  TypedLocals(r)'
  <2>1. req'[r] = [Locals("lang", AnyJob) EXCEPT !.value = l]
    BY <1>0, <1>4
  <2> QED
    BY <1>0, <1>4, <2>1, LocalsTyped DEF TypedLocals, Rebuilding, Fields
<1>5. CASE BeginEdit(r)
  <2>1. pc'[r] = "find"
    BY <1>0, <1>5 DEF BeginEdit
  <2> QED
    BY <1>1, <1>2, <1>5, <2>1 DEF BeginEdit
<1>6. CASE BeginSetting(r)
  <2>1. pc'[r] = "read"
    BY <1>0, <1>6 DEF BeginSetting
  <2> QED
    BY <1>3, <1>4, <1>6, <2>1 DEF BeginSetting
<1> QED
  BY <1>5, <1>6

LEMMA SoftDeleteTyped ==
  ASSUME Shape, NEW r \in Requests, pc[r] \in Busy, TypedLocals(r), NEW locals,
         Goto(r, "softdelete", locals), TypedFields(locals), "job" \notin DOMAIN locals,
         "known" \in DOMAIN locals, locals.known => req[r].job \in Handled
  PROVE  TypedLocals(r)'
<1>0. "softdelete" \in Busy
  BY DEF Busy
<1>1. /\ pc'[r] = "softdelete"
      /\ \A f \in Fields :
           req'[r][f] = IF f \in DOMAIN locals THEN locals[f] ELSE req[r][f]
  BY <1>0, GotoFields
<1>2. /\ req'[r].kind = req[r].kind /\ req'[r].change = req[r].change
      /\ req'[r].value = req[r].value
  BY <1>1 DEF TypedFields, Fields
<1>3. /\ req'[r].model \in Rows /\ req'[r].next \in Plans
      /\ req'[r].want \in Defs /\ req'[r].back \in Defs
      /\ req'[r].taken \in SUBSET Entries
  BY <1>1 DEF TypedFields, TypedLocals, Fields
<1>4. req'[r].job = req[r].job /\ req'[r].known = locals.known
  BY <1>1 DEF Fields
<1> QED
  BY <1>1, <1>2, <1>3, <1>4 DEF TypedLocals, Rebuilding

LEMMA EditTyped ==
  ASSUME Shape, TypeOK, NEW r \in Requests, TypedLocals(r),
         \/ FindJob(r) \/ CheckUpdate(r) \/ SaveDef(r) \/ Rollback(r)
         \/ CheckDelete(r) \/ SoftDelete(r) \/ Restore(r)
  PROVE  TypedLocals(r)'
<1>0. pc[r] \in Busy
  BY DEF FindJob, CheckUpdate, SaveDef, Rollback, CheckDelete, SoftDelete, Restore,
         At, Busy
<1>1. /\ req[r].job \in Jobs
      /\ row[req[r].job] \in Rows
      /\ \A j \in DOMAIN mem : j \in Handled /\ mem[j] \in Entries
      /\ zone \in Zones /\ now \in Nat
  BY <1>0 DEF Shape, Shaped, TypeOK
<1>2. CASE \E a : Answer(r, a)
  BY <1>2, AnswerTyped
<1>3. CASE FindJob(r)
  <2>1. TypedFields([model |-> row[req[r].job]])
    BY <1>1 DEF TypedFields, Fields
  <2>2. ASSUME Goto(r, "loaded", [model |-> row[req[r].job]])
        PROVE  TypedLocals(r)'
    BY <1>0, <2>1, <2>2, GotoTyped DEF Busy, Rebuilding
  <2> QED
    BY <1>2, <1>3, <2>2 DEF FindJob
<1>4. CASE CheckUpdate(r)
  <2> DEFINE model == req[r].model
             want == Merged(req[r].change, Def(model))
             next == IF want.expr = model.expr THEN model.next
                     ELSE [expr |-> want.expr, zone |-> zone, from |-> now]
  <2>1. model \in Rows /\ req[r].change \in Changes
    BY <1>0, <1>4 DEF TypedLocals, CheckUpdate
  <2>2. ASSUME want.expr # "bad", Goto(r, "save", [want |-> want, next |-> next])
        PROVE  TypedLocals(r)'
    <3>1. want \in Defs
      BY <2>1, <2>2, DefTyped, MergedTyped
    <3> HIDE DEF want
    <3>2. next \in Plans
      BY <1>1, <2>1, <3>1 DEF Plans, Defs, Rows
    <3> HIDE DEF next
    <3>3. TypedFields([want |-> want, next |-> next])
      BY <3>1, <3>2 DEF TypedFields, Fields
    <3> QED
      BY <1>0, <2>2, <3>3, GotoTyped DEF Busy, Rebuilding
  <2> QED
    BY <1>2, <1>4, <2>2 DEF CheckUpdate
<1>5. CASE SaveDef(r)
  <2>1. ASSUME Goto(r, "apply", <<>>) PROVE TypedLocals(r)'
    BY <1>0, <2>1, GotoTyped, SameLocals DEF Busy, Rebuilding
  <2> QED
    BY <1>2, <1>5, <2>1 DEF SaveDef
<1>6. CASE Rollback(r) \/ Restore(r)
  BY <1>2, <1>6 DEF Rollback, Restore
<1>7. CASE CheckDelete(r)
  <2>1. ASSUME Goto(r, "softdelete", [known |-> FALSE]) PROVE TypedLocals(r)'
    <3>1. TypedFields([known |-> FALSE])
      BY DEF TypedFields, Fields
    <3> QED
      BY <1>0, <2>1, <3>1, SoftDeleteTyped
  <2>2. ASSUME req[r].job \in DOMAIN mem,
               Goto(r, "softdelete", [known |-> TRUE, back |-> Def(mem[req[r].job])])
        PROVE  TypedLocals(r)'
    <3>1. TypedFields([known |-> TRUE, back |-> Def(mem[req[r].job])])
      BY <1>1, <2>2, DefTyped DEF TypedFields, Fields
    <3> QED
      BY <1>0, <1>1, <2>2, <3>1, SoftDeleteTyped
  <2> QED
    BY <1>7, <2>1, <2>2 DEF CheckDelete
<1>8. CASE SoftDelete(r)
  <2>1. ASSUME req[r].known, Goto(r, "unmap", <<>>) PROVE TypedLocals(r)'
    <3>1. req[r].job \in Handled
      BY <1>0, <1>8, <2>1 DEF SoftDelete, At, TypedLocals
    <3> QED
      BY <1>0, <2>1, <3>1, GotoTyped, SameLocals DEF Busy
  <2> QED
    BY <1>2, <1>8, <2>1 DEF SoftDelete
<1> QED
  BY <1>3, <1>4, <1>5, <1>6, <1>7, <1>8

LEMMA RemovedTyped ==
  ASSUME Shape, NEW r \in Requests, pc[r] \in Rebuilding, TypedLocals(r), NEW locals,
         Removed(r, locals), TypedFields(locals), "job" \notin DOMAIN locals
  PROVE  TypedLocals(r)'
<1>1. pc[r] \in Busy /\ req[r].job \in Handled
  BY DEF Rebuilding, Busy, TypedLocals
<1>2. CASE req[r].kind = "delete"
  BY <1>1, <1>2, OutcomeTyped DEF Removed
<1>3. CASE req[r].kind # "delete"
  BY <1>1, <1>3, GotoTyped DEF Removed, Busy
<1> QED
  BY <1>2, <1>3

LEMMA EntryTyped ==
  ASSUME TypeOK, NEW r \in Requests, TypedLocals(r), pc[r] \in Rebuilding
  PROVE  Entry(r) \in Entries
<1>1. req[r].job \in Jobs /\ req[r].want \in Defs /\ zone \in Zones
  BY SchedulerAssumption DEF TypedLocals, TypeOK, Rebuilding, Busy
<1>2. req[r].want.title \in Titles /\ req[r].want.expr \in Exprs /\ req[r].want.enabled \in BOOLEAN
  BY <1>1 DEF Defs
<1>3. [job |-> req[r].job, by |-> r, expr |-> req[r].want.expr, zone |-> zone] \in Triggers
  BY <1>1, <1>2 DEF Triggers
<1> QED
  BY <1>2, <1>3 DEF Entry, Entries

LEMMA RebuildTyped ==
  ASSUME Shape, TypeOK, NEW r \in Requests, TypedLocals(r), Rebuild(r)
  PROVE  TypedLocals(r)'
<1>0. pc[r] \in Busy
  BY DEF Rebuild, Apply, Unmap, Unschedule, Schedule, Map, At, Busy
<1>1. \A j \in DOMAIN mem : j \in Handled /\ mem[j] \in Entries
  BY DEF TypeOK
<1>2. CASE Succeed(r) \/ Fail(r)
  BY <1>0, <1>2, OutcomeTyped
<1>3. CASE Apply(r)
  <2>1. ASSUME req[r].job \in DOMAIN mem, Goto(r, "unmap", [back |-> Def(mem[req[r].job])])
        PROVE  TypedLocals(r)'
    <3>1. TypedFields([back |-> Def(mem[req[r].job])])
      BY <1>1, <2>1, DefTyped DEF TypedFields, Fields
    <3> QED
      BY <1>0, <1>1, <2>1, <3>1, GotoTyped DEF Busy
  <2> QED
    BY <1>2, <1>3, <2>1 DEF Apply
<1>4. CASE Unmap(r)
  <2>0. pc[r] \in Rebuilding /\ req[r].job \in Handled
    BY <1>4 DEF Unmap, At, Rebuilding, TypedLocals, Busy
  <2>1. ASSUME req[r].job \in DOMAIN mem, Goto(r, "unschedule", [taken |-> {mem[req[r].job]}])
        PROVE  TypedLocals(r)'
    <3>1. TypedFields([taken |-> {mem[req[r].job]}])
      BY <1>1, <2>1 DEF TypedFields, Fields
    <3> QED
      BY <1>0, <2>0, <2>1, <3>1, GotoTyped DEF Busy
  <2>2. CASE Removed(r, <<>>)
    BY <2>0, <2>2, RemovedTyped, SameLocals
  <2> QED
    BY <1>4, <2>1, <2>2 DEF Unmap
<1>5. CASE Unschedule(r)
  <2>0. pc[r] \in Rebuilding
    BY <1>5 DEF Unschedule, At, Rebuilding
  <2>1. TypedFields([taken |-> {}])
    BY DEF TypedFields, Fields
  <2>2. ASSUME Removed(r, [taken |-> {}]) PROVE TypedLocals(r)'
    BY <2>0, <2>1, <2>2, RemovedTyped
  <2> QED
    BY <1>2, <1>5, <2>2 DEF Unschedule
<1>6. CASE Schedule(r)
  <2>0. pc[r] \in Rebuilding /\ req[r].job \in Handled /\ req[r].back \in Defs
    BY <1>6 DEF Schedule, At, Rebuilding, TypedLocals, Busy
  <2>1. ASSUME Goto(r, "map", [taken |-> {Entry(r)}]) PROVE TypedLocals(r)'
    <3>1. TypedFields([taken |-> {Entry(r)}])
      BY <2>0, EntryTyped DEF TypedFields, Fields
    <3> QED
      BY <1>0, <2>0, <2>1, <3>1, GotoTyped DEF Busy
  <2>2. ASSUME Goto(r, "schedule", [want |-> req[r].back, retry |-> TRUE])
        PROVE  TypedLocals(r)'
    <3>1. TypedFields([want |-> req[r].back, retry |-> TRUE])
      BY <2>0 DEF TypedFields, Fields
    <3> QED
      BY <1>0, <2>0, <2>2, <3>1, GotoTyped DEF Busy
  <2> QED
    BY <1>2, <1>6, <2>1, <2>2 DEF Schedule, AddFails
<1>7. CASE Map(r)
  BY <1>2, <1>7 DEF Map
<1> QED
  BY <1>3, <1>4, <1>5, <1>6, <1>7 DEF Rebuild

LEMMA SettingTyped ==
  ASSUME Shape, TypeOK, NEW r \in Requests, TypedLocals(r),
         ChangeSetting(r), ~BeginSetting(r)
  PROVE  TypedLocals(r)'
<1>0. pc[r] \in Busy
  BY DEF ChangeSetting, ReadSetting, NamesDone, ReloadNext, SyncNext, PersistTitle,
         Replan, WriteReplan, StoreSetting, CacheSetting, At, Busy
<1>1. /\ req[r].job \in Jobs /\ req[r].names \in SUBSET Jobs
      /\ req[r].want \in Defs
      /\ row \in [Jobs -> Rows]
      /\ \A j \in DOMAIN mem : j \in Handled /\ mem[j] \in Entries
      /\ zone \in Zones /\ now \in Nat
  BY <1>0 DEF Shape, Shaped, TypeOK, TypedLocals
<1>2. CASE \E a : Answer(r, a)
  BY <1>2, AnswerTyped
<1>3. ASSUME NEW to \in {"names", "store", "cache"}, Goto(r, to, <<>>)
      PROVE  TypedLocals(r)'
  BY <1>0, <1>3, GotoTyped, SameLocals DEF Busy, Rebuilding
<1>4. ASSUME NEW n, Goto(r, "names", [names |-> n])
      PROVE  TypedLocals(r)'
  <2>1. TypedFields([names |-> n])
    BY DEF TypedFields, Fields
  <2> QED
    BY <1>0, <1>4, <2>1, GotoTyped DEF Busy, Rebuilding
<1>5. CASE ReloadNext(r)
  <2>1. PICK j \in req[r].names :
          Goto(r, IF j \in DOMAIN mem THEN "unmap" ELSE "names",
               [names |-> req[r].names \ {j}, job |-> j,
                want |-> IF j \in DOMAIN mem THEN Def(mem[j]) ELSE req[r].want])
    BY <1>5 DEF ReloadNext
  <2> DEFINE locals == [names |-> req[r].names \ {j}, job |-> j,
                        want |-> IF j \in DOMAIN mem THEN Def(mem[j]) ELSE req[r].want]
  <2>2. TypedFields(locals) /\ "job" \in DOMAIN locals /\ locals.job = j
    BY <1>1, DefTyped DEF TypedFields, Fields
  <2> HIDE DEF locals
  <2>3. CASE j \in DOMAIN mem
    <3>1. Goto(r, "unmap", locals)
      BY <2>1, <2>3 DEF locals
    <3> QED
      BY <1>0, <1>1, <2>2, <2>3, <3>1, GotoTyped DEF Busy
  <2>4. CASE j \notin DOMAIN mem
    <3>1. Goto(r, "names", locals)
      BY <2>1, <2>4 DEF locals
    <3> QED
      BY <1>0, <2>2, <3>1, GotoTyped DEF Busy, Rebuilding
  <2> QED
    BY <2>3, <2>4
<1>6. CASE SyncNext(r)
  <2>1. ASSUME NEW j \in req[r].names,
               Goto(r, "apply", [names |-> req[r].names \ {j}, job |-> j, model |-> row[j],
                                 retry |-> FALSE,
                                 want |-> [Def(row[j]) EXCEPT !.title = req[r].value]])
        PROVE  TypedLocals(r)'
    <3>1. row[j] \in Rows /\ req[r].value \in Titles
      BY <1>0, <1>1, <1>6, <2>1 DEF SyncNext, TypedLocals, Titles
    <3>2. [Def(row[j]) EXCEPT !.title = req[r].value] \in Defs
      BY <3>1 DEF Def, Defs, Rows
    <3>3. TypedFields([names |-> req[r].names \ {j}, job |-> j, model |-> row[j],
                       retry |-> FALSE,
                       want |-> [Def(row[j]) EXCEPT !.title = req[r].value]])
      BY <3>1, <3>2 DEF TypedFields, Fields
    <3> QED
      BY <1>0, <2>1, <3>3, GotoTyped DEF Busy, Rebuilding
  <2> QED
    BY <1>4, <1>6, <2>1 DEF SyncNext
<1>7. CASE Replan(r)
  <2> DEFINE model == row[req[r].job]
             next == [expr |-> req[r].want.expr, zone |-> zone, from |-> now]
  <2>1. model \in Rows /\ next \in Plans
    BY <1>1 DEF Plans, Defs
  <2> HIDE DEF model, next
  <2>2. ASSUME Goto(r, "writeplan", [model |-> model, next |-> next])
        PROVE  TypedLocals(r)'
    <3>1. TypedFields([model |-> model, next |-> next])
      BY <2>1 DEF TypedFields, Fields
    <3> QED
      BY <1>0, <2>2, <3>1, GotoTyped DEF Busy, Rebuilding
  <2> QED
    BY <1>3, <1>7, <2>2 DEF Replan, model, next
<1> QED
  BY <1>2, <1>3, <1>4, <1>5, <1>6, <1>7
  DEF ChangeSetting, ReadSetting, NamesDone, PersistTitle, WriteReplan, StoreSetting,
      CacheSetting

LEMMA OthersTyped ==
  ASSUME NEW r \in Requests, OthersWait(r), LocalsInv, TypedLocals(r)'
  PROVE  LocalsInv'
BY DEF OthersWait, LocalsInv, TypedLocals

LEMMA LocalsStay ==
  ASSUME Shape, TypeOK, LocalsInv, [Next]_vars
  PROVE  LocalsInv'
<1>1. ASSUME NEW r \in Requests, RequestStep(r) PROVE LocalsInv'
  <2>0. OthersWait(r) /\ TypedLocals(r)
    BY <1>1, RequestMoves DEF LocalsInv
  <2>1. CASE Disconnect(r)
    <3>1. pc'[r] = "lost"
      BY <1>1, <2>1 DEF Disconnect, Shape
    <3> QED
      BY <1>1, <2>0, <3>1, OthersTyped DEF TypedLocals, Busy
  <2>2. CASE BeginEdit(r) \/ BeginSetting(r)
    BY <1>1, <2>0, <2>2, BeginTyped, OthersTyped
  <2>3. CASE ~Disconnect(r) /\ ~BeginEdit(r) /\ ~BeginSetting(r)
    <3>1. TypedLocals(r)'
      BY <1>1, <2>0, <2>3, EditTyped, RebuildTyped, SettingTyped DEF RequestStep, Edit
    <3> QED
      BY <1>1, <2>0, <3>1, OthersTyped
  <2> QED
    BY <2>1, <2>2, <2>3
<1>2. CASE Down
  <2>1. \A r \in Requests : pc'[r] \notin Busy
    BY <1>2 DEF Down, Shape, Busy
  <2> QED
    BY <2>1 DEF LocalsInv, TypedLocals
<1>3. CASE PlanStep \/ Boot \/ UNCHANGED vars
  <2>1. UNCHANGED <<pc, req>>
    BY <1>3, PlanStepLeaves DEF Boot, vars, reqVars
  <2> QED
    BY <2>1 DEF LocalsInv, TypedLocals
<1> QED
  BY <1>1, <1>2, <1>3 DEF Next, RequestStep, PlanStep

\* The parts of TypeOK that the steps change together.
TypedRows == row \in [Jobs -> Rows] /\ dbZone \in Zones /\ zone \in Zones

TypedMaps ==
  /\ DOMAIN mem \subseteq Handled
  /\ \A j \in DOMAIN mem : mem[j] \in Entries
  /\ live \subseteq Triggers

TypedRequests ==
  /\ up \in BOOLEAN /\ skipped \subseteq Handled
  /\ lock \subseteq Requests /\ \A r, s \in lock : r = s
  /\ pc \in [Requests -> Busy \cup {"new", "done", "lost"}]
  /\ answer \in [Requests -> {"none", "ok", "error"}]

TypedRuns ==
  /\ runs \subseteq [id : Nat, job : Jobs, expr : Exprs, plan : SUBSET Plans, at : Nat]
  /\ fired \in Nat /\ now \in Nat
  /\ errors \in Nat /\ stops \in Nat /\ cancels \in Nat

LEMMA TypedParts ==
  TypeOK <=> TypedRows /\ TypedMaps /\ TypedRequests /\ TypedRuns
BY DEF TypeOK, TypedRows, TypedMaps, TypedRequests, TypedRuns

LEMMA WriteDefTyped ==
  ASSUME row \in [Jobs -> Rows], NEW k \in Jobs, NEW def \in Defs, NEW last \in Nat,
         NEW next \in Plans, WriteDef(k, def, last, next)
  PROVE  row' \in [Jobs -> Rows]
<1>1. CASE row[k].deleted
  BY <1>1 DEF WriteDef
<1>2. CASE ~row[k].deleted
  <2>1. row' = [row EXCEPT ![k] = Written(row[k], def, last, next)]
    <3>1. row' = [row EXCEPT ![k].title = def.title, ![k].expr = def.expr,
                             ![k].enabled = def.enabled, ![k].last = last, ![k].next = next]
      BY <1>2 DEF WriteDef
    <3> QED
      BY <3>1 DEF Written
  <2>2. Written(row[k], def, last, next) \in Rows
    BY WrittenTyped
  <2> QED
    BY <2>1, <2>2
<1> QED
  BY <1>1, <1>2

LEMMA SetPlanTyped ==
  ASSUME row \in [Jobs -> Rows], NEW k \in Jobs, NEW last \in Nat, NEW next \in Plans,
         SetPlan(k, last, next)
  PROVE  row' \in [Jobs -> Rows]
<1>1. CASE row[k].deleted
  BY <1>1 DEF SetPlan
<1>2. CASE ~row[k].deleted
  <2>1. [row[k] EXCEPT !.last = last, !.next = next] \in Rows
    BY DEF Rows
  <2>2. row' = [row EXCEPT ![k] = [row[k] EXCEPT !.last = last, !.next = next]]
    BY <1>2 DEF SetPlan
  <2> QED
    BY <2>1, <2>2
<1> QED
  BY <1>1, <1>2

LEMMA RequestRowsTyped ==
  ASSUME Shape, TypeOK, NEW r \in Requests, TypedLocals(r), RequestStep(r)
  PROVE  TypedRows'
<1>0. row \in [Jobs -> Rows] /\ dbZone \in Zones /\ zone \in Zones
  BY DEF TypeOK
<1>1. ASSUME pc[r] \in Busy
      PROVE  /\ req[r].job \in Jobs
             /\ req[r].model \in Rows /\ req[r].next \in Plans
             /\ req[r].want \in Defs /\ req[r].back \in Defs
             /\ req[r].model.last \in Nat /\ req[r].model.next \in Plans
             /\ Def(req[r].model) \in Defs
  <2>1. req[r].model \in Rows
    BY <1>1 DEF TypedLocals
  <2> QED
    BY <1>1, <2>1, DefTyped DEF Shape, Shaped, TypedLocals, Rows
<1>2. CASE UNCHANGED rowVars /\ UNCHANGED zone
  BY <1>0, <1>2 DEF rowVars, TypedRows
<1>3. ASSUME UNCHANGED dbZone, UNCHANGED zone, row' \in [Jobs -> Rows]
      PROVE  TypedRows'
  BY <1>0, <1>3 DEF TypedRows
<1>4. CASE SaveDef(r) \/ Rollback(r) \/ PersistTitle(r)
  <2>1. pc[r] \in Busy
    BY <1>4 DEF SaveDef, Rollback, PersistTitle, At, Busy
  <2>2. row' \in [Jobs -> Rows]
    BY <1>0, <1>1, <1>4, <2>1, WriteDefTyped DEF SaveDef, Rollback, PersistTitle
  <2> QED
    BY <1>3, <1>4, <2>2 DEF SaveDef, Rollback, PersistTitle
<1>5. CASE WriteReplan(r)
  <2>1. pc[r] \in Busy
    BY <1>5 DEF WriteReplan, At, Busy
  <2>2. row' \in [Jobs -> Rows]
    BY <1>0, <1>1, <1>5, <2>1, SetPlanTyped DEF WriteReplan
  <2> QED
    BY <1>3, <1>5, <2>2 DEF WriteReplan
<1>6. ASSUME NEW j \in Jobs, NEW d \in BOOLEAN, NEW e \in BOOLEAN,
             row' = [row EXCEPT ![j].deleted = d, ![j].enabled = e]
      PROVE  row' \in [Jobs -> Rows]
  <2>1. row' = [row EXCEPT ![j] = [row[j] EXCEPT !.deleted = d, !.enabled = e]]
    BY <1>6
  <2>2. [row[j] EXCEPT !.deleted = d, !.enabled = e] \in Rows
    BY <1>0 DEF Rows
  <2> QED
    BY <1>0, <2>1, <2>2
<1>7. CASE SoftDelete(r)
  <2>1. pc[r] \in Busy
    BY <1>7 DEF SoftDelete, At, Busy
  <2>2. row' \in [Jobs -> Rows]
    BY <1>0, <1>1, <1>6, <1>7, <2>1 DEF SoftDelete
  <2> QED
    BY <1>3, <1>7, <2>2 DEF SoftDelete
<1>8. CASE Restore(r)
  <2>1. pc[r] \in Busy
    BY <1>8 DEF Restore, At, Busy
  <2>2. req[r].back.enabled \in BOOLEAN
    BY <1>1, <2>1 DEF Defs
  <2>3. row' \in [Jobs -> Rows]
    BY <1>0, <1>1, <1>6, <1>8, <2>1, <2>2 DEF Restore
  <2> QED
    BY <1>3, <1>8, <2>3 DEF Restore
<1>9. CASE StoreSetting(r)
  <2>1. req[r].kind = "zone" => req[r].value \in Zones
    BY <1>9 DEF StoreSetting, At, Busy, TypedLocals
  <2> QED
    BY <1>0, <1>9, <2>1 DEF StoreSetting, TypedRows
<1>10. CASE CacheSetting(r)
  <2>1. req[r].kind = "zone" => req[r].value \in Zones
    BY <1>10 DEF CacheSetting, At, Busy, TypedLocals
  <2> QED
    BY <1>0, <1>10, <2>1 DEF CacheSetting, rowVars, TypedRows
<1> QED
  BY <1>2, <1>4, <1>5, <1>7, <1>8, <1>9, <1>10
  DEF RequestStep, Edit, Rebuild, ChangeSetting, BeginEdit, FindJob, CheckUpdate,
      CheckDelete, Apply, Unmap, Unschedule, Schedule, Map, BeginSetting, ReadSetting,
      NamesDone, ReloadNext, SyncNext, Replan, Disconnect

LEMMA ReplannedTyped ==
  ASSUME TypeOK, NEW j \in Jobs
  PROVE  Replanned(j) \subseteq Plans
<1>1. row[j] \in Rows /\ dbZone \in Zones /\ now \in Nat
  BY DEF TypeOK
<1>2. row[j].next \in Plans /\ row[j].expr \in Exprs
  BY <1>1 DEF Rows
<1>3. [expr |-> row[j].expr, zone |-> dbZone, from |-> now] \in Plans
  BY <1>1, <1>2 DEF Plans
<1> QED
  BY <1>2, <1>3 DEF Replanned, ResetPlan, NewPlan

LEMMA RowsTyped ==
  ASSUME Shape, TypeOK, LocalsInv, [Next]_vars
  PROVE  TypedRows'
<1>0. row \in [Jobs -> Rows] /\ dbZone \in Zones /\ zone \in Zones
  BY DEF TypeOK
<1>1. ASSUME NEW r \in Requests, RequestStep(r) PROVE TypedRows'
  BY <1>1, RequestRowsTyped DEF LocalsInv
<1>2. CASE Tick \/ RunJobNow \/ RunEnds \/ Down \/ UNCHANGED vars
  BY <1>0, <1>2 DEF Tick, RunJobNow, Submit, RunEnds, Down, vars, rowVars, TypedRows
<1>3. CASE WritePlan
  <2>1. PICK x \in runs : \E plan \in x.plan : SetPlan(x.job, x.at, plan) \/ UNCHANGED row
    BY <1>3 DEF WritePlan
  <2>2. x.job \in Jobs /\ x.at \in Nat /\ x.plan \subseteq Plans
    BY <2>1 DEF TypeOK
  <2>3. row' \in [Jobs -> Rows]
    BY <1>0, <2>1, <2>2, SetPlanTyped
  <2> QED
    BY <1>0, <1>3, <2>3 DEF WritePlan, TypedRows
<1>4. CASE Boot \/ BootFails
  <2>1. PICK plan : /\ \A j \in Jobs : plan[j] \in {row[j].next} \cup Replanned(j)
                    /\ row' = [j \in Jobs |-> [row[j] EXCEPT !.next = plan[j]]]
    BY <1>4, StartReplans
  <2>2. ASSUME NEW j \in Jobs PROVE [row[j] EXCEPT !.next = plan[j]] \in Rows
    <3>1. plan[j] \in Plans
      BY <1>0, <2>1, ReplannedTyped DEF Rows
    <3> QED
      BY <1>0, <3>1 DEF Rows
  <2>3. row' \in [Jobs -> Rows]
    BY <2>1, <2>2
  <2> QED
    BY <1>0, <1>4, <2>3 DEF Boot, BootFails, TypedRows
<1> QED
  BY <1>1, <1>2, <1>3, <1>4 DEF Next, RequestStep, PlanStep

LEMMA RequestMapsTyped ==
  ASSUME Shape, TypeOK, NEW r \in Requests, TypedLocals(r), RequestStep(r)
  PROVE  TypedMaps'
<1>0. /\ DOMAIN mem \subseteq Handled
      /\ \A j \in DOMAIN mem : mem[j] \in Entries
      /\ live \subseteq Triggers
  BY DEF TypeOK
<1>1. /\ DOMAIN mem' \subseteq Handled
      /\ \A j \in DOMAIN mem' : mem'[j] \in Entries
  <2>1. CASE mem' = mem \/ mem' = [i \in DOMAIN mem \ {req[r].job} |-> mem[i]]
    BY <1>0, <2>1
  <2>2. CASE /\ pc[r] = "apply" /\ req[r].job \in DOMAIN mem
             /\ mem' = [mem EXCEPT ![req[r].job].title = req[r].want.title]
    <3>1. req[r].want.title \in Titles
      BY <2>2 DEF TypedLocals, Busy, Defs
    <3>2. [mem[req[r].job] EXCEPT !.title = req[r].want.title] \in Entries
      BY <1>0, <2>2, <3>1 DEF Entries
    <3>3. /\ DOMAIN mem' = DOMAIN mem
          /\ \A j \in DOMAIN mem \ {req[r].job} : mem'[j] = mem[j]
          /\ mem'[req[r].job] = [mem[req[r].job] EXCEPT !.title = req[r].want.title]
      BY <2>2
    <3> QED
      BY <1>0, <3>2, <3>3
  <2>3. ASSUME Map(r) \/ Unschedule(r), NEW entry \in req[r].taken,
               mem' = [i \in DOMAIN mem \cup {req[r].job} |->
                         IF i = req[r].job THEN entry ELSE mem[i]]
        PROVE  /\ DOMAIN mem' \subseteq Handled
               /\ \A j \in DOMAIN mem' : mem'[j] \in Entries
    <3>1. entry \in Entries /\ req[r].job \in Handled
      BY <2>3 DEF Map, Unschedule, At, TypedLocals, Busy, Rebuilding
    <3> QED
      BY <1>0, <2>3, <3>1
  <2> QED
    BY <2>1, <2>2, <2>3, MapMoves
<1>2. live' \subseteq Triggers
  <2>1. CASE Schedule(r)
    <3>1. Entry(r) \in Entries
      BY <2>1, EntryTyped DEF Schedule, At, Rebuilding
    <3>2. Entry(r).trigger \in Triggers
      BY <3>1 DEF Entries
    <3> QED
      BY <1>0, <2>1, <3>2 DEF Schedule
  <2>2. CASE Unschedule(r)
    BY <1>0, <2>2 DEF Unschedule
  <2>3. CASE ~Schedule(r) /\ ~Unschedule(r)
    BY <1>0, <2>3
    DEF RequestStep, Edit, Rebuild, ChangeSetting, BeginEdit, FindJob, CheckUpdate,
        SaveDef, Rollback, CheckDelete, SoftDelete, Restore, Apply, Unmap, Map,
        BeginSetting, ReadSetting, NamesDone, ReloadNext, SyncNext, PersistTitle, Replan,
        WriteReplan, StoreSetting, CacheSetting, Disconnect, schedVars
  <2> QED
    BY <2>1, <2>2, <2>3
<1> QED
  BY <1>1, <1>2 DEF TypedMaps

LEMMA MapsTyped ==
  ASSUME Shape, TypeOK, LocalsInv, [Next]_vars
  PROVE  TypedMaps'
<1>1. ASSUME NEW r \in Requests, RequestStep(r) PROVE TypedMaps'
  BY <1>1, RequestMapsTyped DEF LocalsInv
<1>2. CASE PlanStep \/ UNCHANGED vars
  BY <1>2, PlanStepLeaves DEF vars, schedVars, TypeOK, TypedMaps
<1>3. CASE Down
  BY <1>3 DEF Down, TypedMaps
<1>4. CASE Boot
  BY <1>4, LoadedTyped DEF Boot, TypeOK, TypedMaps
<1> QED
  BY <1>1, <1>2, <1>3, <1>4 DEF Next, RequestStep, PlanStep

LEMMA RequestsTyped ==
  ASSUME Shape, TypeOK, [Next]_vars
  PROVE  TypedRequests'
<1>0. /\ up \in BOOLEAN /\ skipped \subseteq Handled
      /\ lock \subseteq Requests /\ \A r, s \in lock : r = s
      /\ answer \in [Requests -> {"none", "ok", "error"}]
      /\ pc \in [Requests -> Busy \cup {"new", "done", "lost"}]
  BY DEF TypeOK
<1>1. ASSUME NEW r \in Requests, RequestStep(r) PROVE TypedRequests'
  <2>1. OthersWait(r) /\ Moves(r)
    BY <1>1, RequestMoves
  <2>2. lock' = lock \/ lock' = lock \ {r} \/ lock' = {r}
    BY <2>1 DEF Moves, Continues, Ends, Begins
  <2>3. lock' \subseteq Requests /\ \A q, s \in lock' : q = s
    BY <1>0, <2>2
  <2>4. answer' = answer \/ \E a \in {"ok", "error"} : answer' = [answer EXCEPT ![r] = a]
    BY <1>1
    DEF RequestStep, Edit, Rebuild, ChangeSetting, BeginEdit, FindJob, CheckUpdate,
        SaveDef, Rollback, CheckDelete, SoftDelete, Restore, Apply, Unmap, Unschedule,
        Schedule, Map, BeginSetting, ReadSetting, NamesDone, ReloadNext, SyncNext,
        PersistTitle, Replan, WriteReplan, StoreSetting, CacheSetting, Disconnect, Removed,
        Succeed, Fail, AddFails, Goto, Answer
  <2>5. answer' \in [Requests -> {"none", "ok", "error"}]
    BY <1>0, <2>4
  <2>6. up' = up /\ skipped' = skipped
    BY <1>1, RequestLeavesStart
  <2> QED
    BY <1>0, <2>1, <2>3, <2>5, <2>6 DEF OthersWait, TypedRequests
<1>2. CASE PlanStep
  <2>1. UNCHANGED <<up, skipped, lock, pc, answer>>
    BY <1>2, PlanStepLeaves DEF reqVars, startVars
  <2> QED
    BY <1>0, <2>1 DEF TypedRequests
<1>3. CASE Down
  BY <1>0, <1>3 DEF Down, TypedRequests
<1>4. CASE Boot \/ UNCHANGED vars
  BY <1>0, <1>4 DEF Boot, Active, vars, reqVars, TypedRequests
<1> QED
  BY <1>1, <1>2, <1>3, <1>4 DEF Next, RequestStep, PlanStep

LEMMA RunsTyped ==
  ASSUME Shape, TypeOK, [Next]_vars
  PROVE  TypedRuns'
<1> DEFINE Runs == [id : Nat, job : Jobs, expr : Exprs, plan : SUBSET Plans, at : Nat]
<1>0. /\ runs \subseteq Runs
      /\ fired \in Nat /\ now \in Nat /\ errors \in Nat /\ stops \in Nat /\ cancels \in Nat
      /\ zone \in Zones /\ live \subseteq Triggers
      /\ \A j \in DOMAIN mem : j \in Jobs /\ mem[j] \in Entries
  BY SchedulerAssumption DEF TypeOK
<1>1. errors' \in Nat
  <2>1. errors' = errors \/ errors' = errors + 1
    BY ErrorsMove DEF Failing
  <2> QED
    BY <1>0, <2>1
<1>2. ASSUME NEW r \in Requests, RequestStep(r)
      PROVE  UNCHANGED <<runs, fired, now, stops>> /\ cancels' \in Nat
  <2>1. CASE Disconnect(r)
    BY <1>0, <2>1 DEF Disconnect, runVars
  <2>2. CASE ~Disconnect(r)
    <3>1. UNCHANGED <<runs, fired, now, stops, cancels>>
      BY <1>2, <2>2
      DEF RequestStep, Edit, Rebuild, ChangeSetting, BeginEdit, FindJob, CheckUpdate,
          SaveDef, Rollback, CheckDelete, SoftDelete, Restore, Apply, Unmap, Unschedule,
          Schedule, Map, BeginSetting, ReadSetting, NamesDone, ReloadNext, SyncNext,
          PersistTitle, Replan, WriteReplan, StoreSetting, CacheSetting, At, runVars
    <3> QED
      BY <1>0, <3>1
  <2> QED
    BY <2>1, <2>2
<1>3. ASSUME NEW j \in Jobs, NEW e \in Exprs, Submit(j, e)
      PROVE  /\ runs' \subseteq Runs /\ fired' \in Nat
             /\ UNCHANGED <<now, stops, cancels>>
  <2>1. fired' \in Nat
    BY <1>0, <1>3 DEF Submit
  <2>2. [id |-> fired + 1, job |-> j, expr |-> e, plan |-> {}, at |-> 0] \in Runs
    BY <1>0
  <2>3. runs' = runs \cup {[id |-> fired + 1, job |-> j, expr |-> e, plan |-> {}, at |-> 0]}
    BY <1>3 DEF Submit
  <2> QED
    BY <1>0, <1>3, <2>1, <2>2, <2>3 DEF Submit
<1>4. CASE Tick \/ RunJobNow
  <2>1. PICK j \in Jobs, e \in Exprs : Submit(j, e)
    BY <1>0, <1>4 DEF Tick, RunJobNow, Triggers, Entries
  <2> QED
    BY <1>0, <1>1, <1>3, <2>1 DEF TypedRuns
<1>5. CASE RunEnds
  <2>1. PICK x \in runs :
          /\ now' = now + 1
          /\ runs' = (runs \ {x}) \cup
               {[x EXCEPT !.plan = {[expr |-> x.expr, zone |-> zone, from |-> now + 1]},
                          !.at = now + 1]}
    BY <1>5 DEF RunEnds
  <2>2. x \in Runs /\ now' \in Nat /\ now + 1 \in Nat
    BY <1>0, <2>1
  <2>3. {[expr |-> x.expr, zone |-> zone, from |-> now + 1]} \in SUBSET Plans
    BY <1>0, <2>2 DEF Plans
  <2>4. [x EXCEPT !.plan = {[expr |-> x.expr, zone |-> zone, from |-> now + 1]},
                  !.at = now + 1] \in Runs
    BY <2>2, <2>3
  <2>5. runs' \subseteq Runs
    BY <1>0, <2>1, <2>4
  <2> QED
    BY <1>0, <1>1, <1>5, <2>2, <2>5 DEF RunEnds, TypedRuns
<1>6. CASE WritePlan
  <2>1. runs' \subseteq Runs /\ UNCHANGED <<fired, now, stops, cancels>>
    BY <1>0, <1>6 DEF WritePlan
  <2> QED
    BY <1>0, <1>1, <2>1 DEF TypedRuns
<1>7. CASE Down
  <2>1. runs' = {} /\ stops' \in Nat /\ UNCHANGED <<fired, now, cancels>>
    BY <1>0, <1>7 DEF Down
  <2> QED
    BY <1>0, <1>1, <2>1 DEF TypedRuns
<1>8. CASE Boot \/ BootFails \/ UNCHANGED vars
  <2>1. UNCHANGED <<runs, fired, now, stops, cancels>>
    BY <1>8 DEF Boot, BootFails, vars, runVars
  <2> QED
    BY <1>0, <1>1, <2>1 DEF TypedRuns
<1>9. CASE \E r \in Requests : RequestStep(r)
  BY <1>0, <1>1, <1>2, <1>9 DEF TypedRuns
<1> QED
  BY <1>4, <1>5, <1>6, <1>7, <1>8, <1>9 DEF Next, RequestStep

LEMMA TypedInit ==
  ASSUME Init
  PROVE  TypeOK /\ LocalsInv
<1> DEFINE New == {[deleted |-> FALSE, title |-> "zh", expr |-> e, enabled |-> TRUE,
                    last |-> 0, next |-> [expr |-> e, zone |-> zone, from |-> 0]] : e \in Exprs}
<1>1. zone \in Zones /\ dbZone \in Zones /\ row \in [Jobs -> New]
  BY DEF Init
<1>2. New \subseteq Rows
  <2>1. ASSUME NEW e \in Exprs
        PROVE  [deleted |-> FALSE, title |-> "zh", expr |-> e, enabled |-> TRUE,
                last |-> 0, next |-> [expr |-> e, zone |-> zone, from |-> 0]] \in Rows
    <3>1. [expr |-> e, zone |-> zone, from |-> 0] \in Plans
      BY <1>1 DEF Plans
    <3> QED
      BY <3>1 DEF Rows, Titles, Langs
  <2> QED
    BY <2>1
<1>3. row \in [Jobs -> Rows]
  BY <1>1, <1>2
<1>4. TypedRows
  BY <1>1, <1>3 DEF TypedRows
<1>5. TypedMaps
  BY DEF Init, TypedMaps
<1>6. TypedRequests /\ TypedRuns
  BY DEF Init, TypedRequests, TypedRuns
<1>7. LocalsInv
  BY DEF Init, LocalsInv, TypedLocals, Busy
<1> QED
  BY <1>4, <1>5, <1>6, <1>7, TypedParts

\* The rows, the map, the triggers and the executions hold what their types
\* say: no request writes back an expression that cannot be parsed, and no job
\* without a handler gets into the map.
THEOREM TypeCorrect == Spec => []TypeOK
<1>1. Init => TypeOK /\ LocalsInv
  BY TypedInit
<1>2. EditInv /\ TypeOK /\ LocalsInv /\ [Next]_vars => TypeOK' /\ LocalsInv'
  <2> SUFFICES ASSUME EditInv, TypeOK, LocalsInv, [Next]_vars
               PROVE  TypeOK' /\ LocalsInv'
    OBVIOUS
  <2>1. TypedRows' /\ TypedMaps' /\ TypedRequests' /\ TypedRuns'
    BY RowsTyped, MapsTyped, RequestsTyped, RunsTyped DEF EditInv
  <2>2. TypeOK'
    BY <2>1 DEF TypeOK, TypedRows, TypedMaps, TypedRequests, TypedRuns
  <2> QED
    BY <2>2, LocalsStay DEF EditInv
<1> QED
  BY <1>1, <1>2, EditInvHolds, PTL DEF Spec
=====
