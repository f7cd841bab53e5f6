-------------------------- MODULE CronWorkerProofs --------------------------
(***************************************************************************)
(* The worker pool for any number of jobs, permits, invocations, failing   *)
(* writes and restarts.                                                    *)
(***************************************************************************)
EXTENDS CronWorker, FiniteSetTheorems, TLAPS

-----------------------------------------------------------------------------
(***************************************************************************)
(* Types.  That there are never more permits than MaxConcurrent is not a   *)
(* matter of types: it follows from PermitsConserved.                      *)
(***************************************************************************)
PoolTypes ==
  /\ process \in {"up", "stopping", "draining", "returned", "down", "booting"}
  /\ timedOut \in BOOLEAN
  /\ dispatcher \in {"polled", "suspended", "gone"}
  /\ stops \in Nat

QueueTypes ==
  /\ triggered \in 0 .. MaxInvocations
  /\ job \in [Invocations -> Jobs]
  /\ senders \in Seq(Invocations)
  /\ queue \in Seq(Invocations)
  /\ held \in 0 .. MaxInvocations

ExecTypes ==
  /\ phase \in [Invocations -> Phases]
  /\ outcome \in [Invocations -> {"none", "ok", "err"}]
  /\ started \in [Invocations -> Nat]
  /\ persisted \in [Invocations -> BOOLEAN]
  /\ doomed \in [Invocations -> SUBSET Invocations]
  /\ cutoff \in [Invocations -> Nat]

DbTypes ==
  /\ runs \in [Invocations -> RunStatus \cup {"none"}]
  /\ logs \in SUBSET Invocations

Counts ==
  /\ permits \in Nat
  /\ clock \in Nat
  /\ aged \in Nat
  /\ errors \in Nat
  /\ agings \in Nat

Types == PoolTypes /\ QueueTypes /\ ExecTypes /\ DbTypes /\ Counts

LEMMA InitTypes == Init => Types
<1> SUFFICES ASSUME Init PROVE Types
  OBVIOUS
<1>1. PoolTypes /\ DbTypes /\ Counts
  BY WorkerAssumption DEF Init, PoolTypes, DbTypes, Counts
<1>2. QueueTypes
  BY WorkerAssumption DEF Init, QueueTypes
<1>3. ExecTypes
  BY DEF Init, ExecTypes, Phases
<1> QED
  BY <1>1, <1>2, <1>3 DEF Types

\* What an execution does with its local variables.
LEMMA ExecTypesStay ==
  ASSUME Types, NEW i \in Invocations, ExecStep(i)
  PROVE  ExecTypes'
<1> USE DEF Types, ExecTypes
<1>0. ASSUME NEW from, PruneFails(i, from) PROVE ExecTypes'
  BY <1>0 DEF PruneFails, execVars, Goto, Phases
<1>1. CASE Start(i)
  BY <1>1 DEF Start, Counts, Goto, Phases
<1>2. CASE InsertRun(i)
  BY <1>2 DEF InsertRun, Goto, Phases
<1>3. CASE WriteLogs(i)
  BY <1>3 DEF WriteLogs, execVars
<1>4. CASE HandlerEnds(i)
  BY <1>4 DEF HandlerEnds, Goto, Phases
<1>5. CASE CloseLog(i)
  BY <1>5 DEF CloseLog, execVars, Goto, Phases
<1>6. CASE FinishRun(i)
  BY <1>6 DEF FinishRun, execVars, Goto, Phases
<1>7. CASE Reclaim(i)
  BY <1>0, <1>7 DEF Reclaim, execVars, Goto, Phases
<1>8. CASE SelectCutoff(i)
  BY <1>0, <1>8 DEF SelectCutoff, RowsOf, Goto, Phases
<1>9. CASE SelectIds(i)
  BY <1>0, <1>9 DEF SelectIds, OlderRows, RowsOf, Goto, Phases
<1>10. CASE DeleteSelected(i)
  BY <1>0, <1>10 DEF DeleteSelected, execVars, Goto, Phases
<1>11. CASE EndRun(i)
  BY <1>11 DEF EndRun, Forget, Goto, Phases
<1> QED
  BY <1>1, <1>2, <1>3, <1>4, <1>5, <1>6, <1>7, <1>8, <1>9, <1>10, <1>11 DEF ExecStep

\* What it does with the tables.
LEMMA DbTypesStay ==
  ASSUME Types, NEW i \in Invocations, ExecStep(i)
  PROVE  DbTypes'
<1> USE DEF Types, DbTypes, RunStatus
<1>0. ASSUME NEW from, PruneFails(i, from) PROVE DbTypes'
  BY <1>0 DEF PruneFails, dbVars
<1>1. CASE Start(i) \/ HandlerEnds(i) \/ EndRun(i)
  BY <1>1 DEF Start, HandlerEnds, EndRun, dbVars
<1>2. CASE InsertRun(i)
  BY <1>2 DEF InsertRun
<1>3. CASE WriteLogs(i) \/ CloseLog(i)
  BY <1>3 DEF WriteLogs, CloseLog
<1>4. CASE FinishRun(i)
  BY <1>4 DEF FinishRun, Outcome
<1>5. CASE Reclaim(i)
  BY <1>0, <1>5 DEF Reclaim
<1>6. CASE SelectCutoff(i) \/ SelectIds(i)
  BY <1>0, <1>6 DEF SelectCutoff, SelectIds, dbVars
<1>7. CASE DeleteSelected(i)
  BY <1>0, <1>7 DEF DeleteSelected
<1> QED
  BY <1>1, <1>2, <1>3, <1>4, <1>5, <1>6, <1>7 DEF ExecStep

\* The rest is left alone, but for the clock, the errors and the permit.
LEMMA ExecLeaves ==
  ASSUME NEW i \in Invocations, ExecStep(i)
  PROVE  /\ UNCHANGED <<poolVars, queueVars, aged, agings>>
         /\ clock' = clock \/ Start(i)
         /\ errors' = errors \/ DbError
         /\ permits' = permits \/ EndRun(i)
<1>0. ASSUME NEW from, PruneFails(i, from)
      PROVE  /\ UNCHANGED <<poolVars, queueVars, aged, agings, permits, clock>>
             /\ DbError
  BY <1>0 DEF PruneFails, Goto, timeVars
<1>1. CASE \/ Start(i) \/ InsertRun(i) \/ WriteLogs(i) \/ HandlerEnds(i)
           \/ CloseLog(i) \/ FinishRun(i) \/ EndRun(i)
  BY <1>1 DEF Start, InsertRun, WriteLogs, HandlerEnds, CloseLog, FinishRun,
              EndRun, Goto, timeVars
<1>2. CASE Reclaim(i) \/ SelectCutoff(i) \/ SelectIds(i) \/ DeleteSelected(i)
  BY <1>0, <1>2 DEF Reclaim, SelectCutoff, SelectIds, DeleteSelected, Goto, timeVars
<1> QED
  BY <1>1, <1>2 DEF ExecStep

LEMMA ExecTyped ==
  ASSUME Types, NEW i \in Invocations, ExecStep(i)
  PROVE  Types'
<1>1. PoolTypes' /\ QueueTypes'
  BY ExecLeaves DEF Types, PoolTypes, QueueTypes, poolVars, queueVars
<1>2. Counts'
  <2>1. /\ clock' = clock \/ clock' = clock + 1
        /\ errors' = errors \/ errors' = errors + 1
        /\ permits' = permits \/ permits' = permits + 1
        /\ aged' = aged /\ agings' = agings
    BY ExecLeaves DEF Start, DbError, EndRun
  <2> QED
    BY <2>1 DEF Types, Counts
<1> QED
  BY <1>1, <1>2, ExecTypesStay, DbTypesStay DEF Types

LEMMA QueueTyped ==
  ASSUME Types, Trigger \/ DispatchStep, permits' \in Nat
  PROVE  Types'
<1>1. PoolTypes'
  BY DEF Trigger, DispatchStep, Enqueue, Wake, Receive, Dispatch, Suspend,
         Cancel, Types, PoolTypes, poolVars
<1>2. DbTypes' /\ Counts'
  BY DEF Trigger, DispatchStep, Enqueue, Wake, Receive, Dispatch, Suspend,
         Cancel, Types, DbTypes, Counts, dbVars, timeVars
<1>3. QueueTypes'
  <2> USE DEF Types, QueueTypes
  <2>1. CASE Trigger
    BY <2>1, WorkerAssumption DEF Trigger, Invocations
  <2>2. CASE Enqueue
    BY <2>2 DEF Enqueue
  <2>3. CASE Wake \/ Suspend
    BY <2>3 DEF Wake, Suspend, queueVars
  <2>4. CASE Receive
    <3>1. Head(queue) \in Invocations /\ Tail(queue) \in Seq(Invocations)
      BY <2>4 DEF Receive
    <3> QED
      BY <2>4, <3>1 DEF Receive, Invocations
  <2>5. CASE Dispatch
    BY <2>5, WorkerAssumption DEF Dispatch
  <2>6. CASE Cancel
    BY <2>6, WorkerAssumption DEF Cancel
  <2> QED
    BY <2>1, <2>2, <2>3, <2>4, <2>5, <2>6 DEF DispatchStep
<1>4. ExecTypes'
  <2> USE DEF Types, ExecTypes, Phases
  <2>1. CASE Trigger
    BY <2>1 DEF Trigger, execVars
  <2>2. CASE Enqueue \/ Wake \/ Suspend \/ Receive
    BY <2>2 DEF Enqueue, Wake, Suspend, Receive, execVars
  <2>3. CASE Dispatch
    BY <2>3 DEF Dispatch, execVars
  <2>4. CASE Cancel
    BY <2>4 DEF Cancel, Unspawned, execVars
  <2> QED
    BY <2>1, <2>2, <2>3, <2>4 DEF DispatchStep
<1> QED
  BY <1>1, <1>2, <1>3, <1>4 DEF Types

LEMMA ProcessTyped ==
  ASSUME Types, Stop \/ ShutdownStep \/ Crash \/ BootStep \/ SixHoursPass
  PROVE  Types'
<1>1. CASE Stop \/ Drain \/ Drained \/ DrainTimesOut
  <2>1. timedOut' \in BOOLEAN
    BY <1>1, Zenon DEF Stop, Drain, Drained, DrainTimesOut, Types, PoolTypes
  <2>2. PoolTypes'
    BY <1>1, <2>1 DEF Stop, Drain, Drained, DrainTimesOut, Types, PoolTypes
  <2> QED
    BY <1>1, <2>2 DEF Stop, Drain, Drained, DrainTimesOut, Types, QueueTypes,
                      ExecTypes, DbTypes, Counts, queueVars, execVars, dbVars, timeVars
<1>2. CASE Exit \/ Crash
  <2>1. Die /\ (stops' = stops \/ stops' = stops + 1)
    BY <1>2 DEF Exit, Crash
  <2>2. PoolTypes'
    <3>1. timedOut' \in BOOLEAN
      BY <2>1, Zenon DEF Die
    <3>2. stops' \in Nat
      BY <2>1 DEF Types, PoolTypes
    <3> QED
      BY <2>1, <3>1, <3>2 DEF Die, PoolTypes
  <2>3. QueueTypes'
    BY <2>1, WorkerAssumption DEF Die, Types, QueueTypes
  <2>4. ExecTypes'
    BY <2>1 DEF Die, Forget, Running, Unspawned, Types, ExecTypes, Phases
  <2>5. DbTypes' /\ Counts'
    BY <2>1, WorkerAssumption DEF Die, Types, DbTypes, Counts, dbVars, timeVars
  <2> QED
    BY <2>2, <2>3, <2>4, <2>5 DEF Types
<1>3. CASE BootStep
  <2>1. PoolTypes' /\ Counts'
    BY <1>3 DEF BootStep, BootMark, BootClean, DbError, Types, PoolTypes, Counts,
                timeVars
  <2>2. QueueTypes' /\ ExecTypes'
    BY <1>3 DEF BootStep, BootMark, BootClean, Types, QueueTypes, ExecTypes,
                queueVars, execVars
  <2>3. DbTypes'
    BY <1>3 DEF BootStep, BootMark, BootClean, Types, DbTypes, RunStatus
  <2> QED
    BY <2>1, <2>2, <2>3 DEF Types
<1>4. CASE SixHoursPass
  BY <1>4 DEF SixHoursPass, Types, PoolTypes, QueueTypes, ExecTypes, DbTypes,
              Counts, poolVars, queueVars, execVars, dbVars
<1> QED
  BY <1>1, <1>2, <1>3, <1>4 DEF ShutdownStep

LEMMA TypesStay ==
  ASSUME Types, [Next]_vars, permits' \in Nat
  PROVE  Types'
<1>1. CASE UNCHANGED vars
  BY <1>1 DEF vars, Types, PoolTypes, QueueTypes, ExecTypes, DbTypes, Counts
<1> QED
  BY <1>1, ExecTyped, QueueTyped, ProcessTyped DEF Next

-----------------------------------------------------------------------------
(***************************************************************************)
(* The queue.  An invocation that has not been spawned is in one place,    *)
(* since the places are passed in the order of the numbers.                *)
(***************************************************************************)
Waits(i) == phase[i] = "accepted" /\ i <= triggered

QueueInv ==
  /\ \A i \in Invocations : i > triggered => phase[i] = "new"
  /\ held # 0 => Waits(held)
  /\ \A m \in 1 .. Len(queue) : Waits(queue[m]) /\ held < queue[m]
  /\ \A m, n \in 1 .. Len(queue) : m < n => queue[m] < queue[n]
  /\ \A m \in 1 .. Len(senders) :
       /\ Waits(senders[m])
       /\ held < senders[m]
       /\ \A n \in 1 .. Len(queue) : queue[n] < senders[m]
  /\ \A m, n \in 1 .. Len(senders) : m < n => senders[m] < senders[n]

LEMMA QueueNumbers ==
  ASSUME Types
  PROVE  /\ \A m \in 1 .. Len(queue) : queue[m] \in Invocations
         /\ \A m \in 1 .. Len(senders) : senders[m] \in Invocations
         /\ held # 0 => held \in Invocations
         /\ held \in Nat /\ triggered \in Nat
         /\ Len(queue) \in Nat /\ Len(senders) \in Nat
         /\ Invocations \subseteq Nat \ {0}
<1>1. queue \in Seq(Invocations) /\ senders \in Seq(Invocations)
  BY DEF Types, QueueTypes
<1>2. /\ \A m \in 1 .. Len(queue) : queue[m] \in Invocations
      /\ \A m \in 1 .. Len(senders) : senders[m] \in Invocations
      /\ Len(queue) \in Nat /\ Len(senders) \in Nat
  BY <1>1
<1>3. /\ held # 0 => held \in Invocations
      /\ held \in Nat /\ triggered \in Nat
      /\ Invocations \subseteq Nat \ {0}
  BY WorkerAssumption DEF Types, QueueTypes, Invocations
<1> QED
  BY <1>2, <1>3

\* What waits is left alone.
LEMMA WaitingStays ==
  ASSUME Types, QueueInv, UNCHANGED queueVars, phase' \in [Invocations -> Phases],
         \A i \in Invocations :
           phase[i] \in {"new", "accepted"} => phase'[i] = phase[i]
  PROVE  QueueInv'
<1>1. ASSUME NEW i \in Invocations, Waits(i) PROVE Waits(i)'
  BY <1>1 DEF Waits, queueVars
<1>2. /\ \A m \in 1 .. Len(queue) : queue[m] \in Invocations
      /\ \A m \in 1 .. Len(senders) : senders[m] \in Invocations
      /\ held # 0 => held \in Invocations
  BY QueueNumbers
<1>3. \A i \in Invocations : i > triggered' => phase'[i] = "new"
  BY DEF QueueInv, queueVars
<1> QED
  BY <1>1, <1>2, <1>3 DEF QueueInv, queueVars

\* Where an execution can go.
LEMMA ExecMoves ==
  ASSUME Types, NEW i \in Invocations, ExecStep(i)
  PROVE  /\ phase[i] \in ExecPhases
         /\ \A q \in Invocations \ {i} : phase'[q] = phase[q]
         /\ IF EndRun(i) THEN phase'[i] = "done" ELSE phase'[i] \in ExecPhases
<1> USE DEF Goto, ExecPhases, Types, ExecTypes
<1>0. ASSUME NEW from \in ExecPhases, PruneFails(i, from)
      PROVE  /\ phase[i] = from
             /\ phase' = [phase EXCEPT ![i] = "end"]
  BY <1>0 DEF PruneFails
<1>1. ASSUME \/ Start(i) \/ InsertRun(i) \/ WriteLogs(i) \/ HandlerEnds(i)
             \/ CloseLog(i) \/ FinishRun(i)
      PROVE  /\ phase[i] \in ExecPhases \ {"end"}
             /\ \E to \in ExecPhases : phase' = [phase EXCEPT ![i] = to]
  BY <1>1 DEF Start, InsertRun, WriteLogs, HandlerEnds, CloseLog, FinishRun
<1>2. ASSUME Reclaim(i) \/ SelectCutoff(i) \/ SelectIds(i) \/ DeleteSelected(i)
      PROVE  /\ phase[i] \in ExecPhases \ {"end"}
             /\ \E to \in ExecPhases : phase' = [phase EXCEPT ![i] = to]
  BY <1>0, <1>2 DEF Reclaim, SelectCutoff, SelectIds, DeleteSelected
<1>3. CASE EndRun(i)
  BY <1>3 DEF EndRun
<1>4. CASE ~EndRun(i)
  BY <1>1, <1>2, <1>4 DEF ExecStep
<1> QED
  BY <1>3, <1>4

LEMMA QueueInvStays ==
  ASSUME Types, QueueInv, [Next]_vars, Types'
  PROVE  QueueInv'
<1>0. phase \in [Invocations -> Phases] /\ phase' \in [Invocations -> Phases]
  BY DEF Types, ExecTypes
<1>1. ASSUME NEW i \in Invocations, ExecStep(i) PROVE QueueInv'
  <2>1. \A q \in Invocations :
          phase[q] \in {"new", "accepted"} => phase'[q] = phase[q]
    BY <1>1, ExecMoves DEF ExecPhases
  <2> QED
    BY <1>0, <1>1, <2>1, ExecLeaves, WaitingStays
<1>2. CASE Trigger
  <2>0. triggered + 1 \in Invocations
    BY <1>2, WorkerAssumption DEF Trigger, Invocations, Types, QueueTypes
  <2>1. PICK next \in Invocations :
          /\ next = triggered + 1
          /\ triggered' = next
          /\ senders' = Append(senders, next)
          /\ phase' = [phase EXCEPT ![next] = "accepted"]
          /\ UNCHANGED <<held, queue>>
    BY <1>2, <2>0 DEF Trigger
  <2>2. /\ Len(senders') = Len(senders) + 1
        /\ \A m \in 1 .. Len(senders) : senders'[m] = senders[m]
        /\ senders'[Len(senders) + 1] = next
    <3>1. senders \in Seq(Invocations)
      BY DEF Types, QueueTypes
    <3> QED
      BY <2>1, <3>1
  <2>3. next = triggered + 1 /\ next \in Nat
    BY <2>1, QueueNumbers
  <2>4. ASSUME NEW q \in Invocations, Waits(q) PROVE Waits(q)' /\ q < next
    BY <1>0, <2>1, <2>3, <2>4, QueueNumbers DEF Waits
  <2>5. Waits(next)'
    BY <1>0, <2>1, <2>3 DEF Waits
  <2>6. \A i \in Invocations : i > triggered' => phase'[i] = "new"
    BY <1>0, <2>1, <2>3, QueueNumbers DEF QueueInv
  <2>7. /\ held # 0 => Waits(held)' /\ held < next
        /\ \A m \in 1 .. Len(queue) : Waits(queue[m])' /\ queue[m] < next
        /\ \A m \in 1 .. Len(senders) : Waits(senders[m])' /\ senders[m] < next
    BY <2>1, <2>2, <2>4, QueueNumbers DEF QueueInv
  <2>8. held < next
    BY <2>3, <2>7, QueueNumbers
  <2> QED
    BY <2>1, <2>2, <2>5, <2>6, <2>7, <2>8, QueueNumbers DEF QueueInv
<1>3. CASE Enqueue
  <2>1. /\ senders' = Tail(senders) /\ queue' = Append(queue, senders[1])
        /\ senders # <<>>
        /\ UNCHANGED <<triggered, held, phase>>
    BY <1>3 DEF Enqueue, Types, QueueTypes
  <2>s. senders \in Seq(Invocations) /\ queue \in Seq(Invocations)
    BY DEF Types, QueueTypes
  <2>2. /\ Len(senders) # 0
        /\ Len(senders') = Len(senders) - 1
        /\ \A m \in 1 .. Len(senders') : senders'[m] = senders[m + 1]
    BY <2>1, <2>s
  <2>3. /\ Len(queue') = Len(queue) + 1
        /\ \A m \in 1 .. Len(queue) : queue'[m] = queue[m]
        /\ queue'[Len(queue) + 1] = senders[1]
    BY <2>1, <2>s
  <2> QED
    BY <2>1, <2>2, <2>3, QueueNumbers DEF QueueInv, Waits
<1>4. CASE Wake \/ Suspend
  BY <1>0, <1>4, WaitingStays DEF Wake, Suspend
<1>5. CASE Receive
  <2>1. /\ queue' = Tail(queue) /\ held' = queue[1] /\ queue # <<>>
        /\ UNCHANGED <<triggered, senders, phase>>
    BY <1>5 DEF Receive, Types, QueueTypes
  <2>2. /\ Len(queue) # 0
        /\ Len(queue') = Len(queue) - 1
        /\ \A m \in 1 .. Len(queue') : queue'[m] = queue[m + 1]
    BY <2>1 DEF Types, QueueTypes
  <2> QED
    BY <2>1, <2>2, QueueNumbers DEF QueueInv, Waits
<1>6. CASE Dispatch
  <2>1. /\ held # 0 /\ held' = 0
        /\ phase' = [phase EXCEPT ![held] = "spawned"]
        /\ UNCHANGED <<triggered, senders, queue>>
    BY <1>6 DEF Dispatch
  <2>2. /\ \A i \in Invocations : i > triggered' => phase'[i] = "new"
        /\ \A i \in Invocations : i > held /\ Waits(i) => Waits(i)'
    BY <1>0, <2>1, QueueNumbers DEF QueueInv, Waits
  <2> QED
    BY <2>1, <2>2, QueueNumbers DEF QueueInv
<1>7. ASSUME /\ senders' = <<>> /\ queue' = <<>> /\ held' = 0
             /\ UNCHANGED triggered
             /\ \A i \in Invocations : phase[i] = "new" => phase'[i] = "new"
      PROVE  QueueInv'
  BY <1>7 DEF QueueInv
<1>8. CASE Cancel
  BY <1>7, <1>8 DEF Cancel, Unspawned
<1>9. CASE Exit \/ Crash
  BY <1>7, <1>9 DEF Exit, Crash, Die, Unspawned, ExecPhases
<1>10. CASE \/ Stop \/ Drain \/ Drained \/ DrainTimesOut \/ BootStep
            \/ SixHoursPass \/ UNCHANGED vars
  BY <1>0, <1>10, WaitingStays
  DEF Stop, Drain, Drained, DrainTimesOut, BootStep, BootMark, BootClean,
      SixHoursPass, vars, queueVars
<1> QED
  BY <1>1, <1>2, <1>3, <1>4, <1>5, <1>6, <1>8, <1>9, <1>10
  DEF Next, DispatchStep, ShutdownStep

-----------------------------------------------------------------------------
(***************************************************************************)
(* Permits.                                                                *)
(***************************************************************************)
LEMMA RunningFinite == IsFiniteSet(Running) /\ Cardinality(Running) \in Nat
<1>1. IsFiniteSet(Invocations)
  BY WorkerAssumption, FS_Interval DEF Invocations
<1>2. Running \in SUBSET Invocations
  BY DEF Running
<1> QED
  BY <1>1, <1>2, FS_Subset, FS_CardinalityType

\* Every step takes a permit with an execution, gives it back with it, or
\* changes neither.
LEMMA PermitMoves ==
  ASSUME Types, QueueInv, [Next]_vars
  PROVE  \/ Running' = Running /\ permits' = permits
         \/ \E i \in Invocations \ Running :
              Running' = Running \cup {i} /\ permits > 0 /\ permits' = permits - 1
         \/ \E i \in Running : Running' = Running \ {i} /\ permits' = permits + 1
         \/ Running' = {} /\ permits' = MaxConcurrent
<1>0. phase \in [Invocations -> Phases] /\ Running \subseteq Invocations
  BY DEF Types, ExecTypes, Running
<1>1. ASSUME NEW i \in Invocations, ExecStep(i)
      PROVE  \/ Running' = Running /\ permits' = permits
             \/ i \in Running /\ Running' = Running \ {i} /\ permits' = permits + 1
  <2>1. CASE EndRun(i)
    BY <1>0, <1>1, <2>1, ExecMoves DEF EndRun, Running, ExecPhases
  <2>2. CASE ~EndRun(i)
    BY <1>0, <1>1, <2>2, ExecMoves, ExecLeaves DEF Running
  <2> QED
    BY <2>1, <2>2
<1>2. CASE Dispatch
  <2>1. /\ held \in Invocations /\ phase[held] = "accepted"
        /\ phase' = [phase EXCEPT ![held] = "spawned"]
        /\ permits > 0 /\ permits' = permits - 1
    BY <1>2, QueueNumbers DEF Dispatch, MayAcquire, QueueInv, Waits
  <2>2. held \notin Running /\ Running' = Running \cup {held}
    BY <1>0, <2>1 DEF Running, ExecPhases
  <2> QED
    BY <2>1, <2>2
<1>3. CASE Exit \/ Crash
  BY <1>3 DEF Exit, Crash, Die, Running, Unspawned, ExecPhases
<1>4. CASE Trigger
  <2>1. /\ triggered + 1 \in Invocations /\ phase[triggered + 1] = "new"
        /\ phase' = [phase EXCEPT ![triggered + 1] = "accepted"]
        /\ permits' = permits
    BY <1>4, WorkerAssumption, QueueNumbers
    DEF Trigger, Invocations, QueueInv, Types, QueueTypes
  <2> QED
    BY <1>0, <2>1 DEF Running, ExecPhases
<1>5. CASE Cancel
  BY <1>0, <1>5 DEF Cancel, Running, Unspawned, ExecPhases
<1>6. CASE \/ Enqueue \/ Wake \/ Receive \/ Suspend \/ Stop \/ Drain \/ Drained
           \/ DrainTimesOut \/ BootStep \/ SixHoursPass \/ UNCHANGED vars
  BY <1>6
  DEF Enqueue, Wake, Receive, Suspend, Stop, Drain, Drained, DrainTimesOut,
      BootStep, BootMark, BootClean, SixHoursPass, vars, Running
<1> QED
  BY <1>1, <1>2, <1>3, <1>4, <1>5, <1>6 DEF Next, DispatchStep, ShutdownStep

LEMMA PermitsStay ==
  ASSUME Types, QueueInv, PermitsConserved, [Next]_vars
  PROVE  PermitsConserved' /\ permits' \in Nat
<1>0. permits \in Nat /\ MaxConcurrent \in Nat
  BY WorkerAssumption DEF Types, Counts
<1>1. CASE Running' = Running /\ permits' = permits
  BY <1>0, <1>1 DEF PermitsConserved
<1>2. ASSUME NEW i \in Invocations \ Running, Running' = Running \cup {i},
             permits > 0, permits' = permits - 1
      PROVE  PermitsConserved' /\ permits' \in Nat
  <2>1. Cardinality(Running') = Cardinality(Running) + 1
    BY <1>2, RunningFinite, FS_AddElement
  <2> QED
    BY <1>0, <1>2, <2>1, RunningFinite DEF PermitsConserved
<1>3. ASSUME NEW i \in Running, Running' = Running \ {i}, permits' = permits + 1
      PROVE  PermitsConserved' /\ permits' \in Nat
  <2>1. Cardinality(Running') = Cardinality(Running) - 1
    BY <1>3, RunningFinite, FS_RemoveElement
  <2> QED
    BY <1>0, <1>3, <2>1, RunningFinite DEF PermitsConserved
<1>4. CASE Running' = {} /\ permits' = MaxConcurrent
  BY <1>0, <1>4, FS_EmptySet DEF PermitsConserved
<1> QED
  BY <1>1, <1>2, <1>3, <1>4, PermitMoves

PoolInv == Types /\ QueueInv /\ PermitsConserved

LEMMA PoolInvHolds == Spec => []PoolInv
<1>1. Init => PoolInv
  <2> SUFFICES ASSUME Init PROVE PoolInv
    OBVIOUS
  <2>1. QueueInv
    BY DEF Init, QueueInv
  <2>2. Running = {} /\ permits = MaxConcurrent /\ MaxConcurrent \in Nat
    BY WorkerAssumption DEF Init, Running, ExecPhases
  <2>3. PermitsConserved
    BY <2>2, FS_EmptySet DEF PermitsConserved
  <2> QED
    BY <2>1, <2>3, InitTypes DEF PoolInv
<1>2. PoolInv /\ [Next]_vars => PoolInv'
  BY TypesStay, QueueInvStays, PermitsStay DEF PoolInv
<1> QED
  BY <1>1, <1>2, PTL DEF Spec

\* A permit is free or belongs to one execution, whatever fails or restarts.
THEOREM PermitsConservedHolds == Spec => []PermitsConserved
BY PoolInvHolds, PTL DEF PoolInv

\* The variables keep their types, and there are never more free permits
\* than the semaphore has.
THEOREM TypeCorrect == Spec => []TypeOK
<1>1. PoolInv => TypeOK
  <2> SUFFICES ASSUME PoolInv PROVE TypeOK
    OBVIOUS
  <2>1. permits \in 0 .. MaxConcurrent
    BY RunningFinite, WorkerAssumption DEF PoolInv, PermitsConserved, Types, Counts
  <2> QED
    BY <2>1 DEF PoolInv, Types, PoolTypes, QueueTypes, ExecTypes, DbTypes, Counts, TypeOK
<1> QED
  BY <1>1, PoolInvHolds, PTL

-----------------------------------------------------------------------------
(***************************************************************************)
(* What the steps outside the executions do to them and to their rows.     *)
(***************************************************************************)
Same(q) ==
  /\ phase'[q] = phase[q]
  /\ doomed'[q] = doomed[q]
  /\ cutoff'[q] = cutoff[q]

OutsideMoves ==
  /\ UNCHANGED <<job, started, persisted, clock>>
  /\ \A q \in Invocations :
       \/ runs'[q] = runs[q]
       \/ runs[q] = "running" /\ runs'[q] = "failed"
  /\ \A q \in Invocations :
       \/ Same(q)
       \/ phase[q] = "new" /\ phase'[q] = "accepted"
       \/ phase[q] = "accepted" /\ phase'[q] \in {"spawned", "dropped"}
       \/ phase[q] \in ExecPhases /\ phase'[q] = "killed"

LEMMA StepsMove ==
  ASSUME PoolInv, [Next]_vars
  PROVE  OutsideMoves \/ \E i \in Invocations : ExecStep(i)
<1> USE DEF OutsideMoves, Same
<1>0. phase \in [Invocations -> Phases] /\ runs \in [Invocations -> RunStatus \cup {"none"}]
  BY DEF PoolInv, Types, ExecTypes, DbTypes
<1>1. CASE Trigger
  <2>1. /\ triggered + 1 \in Invocations /\ phase[triggered + 1] = "new"
        /\ phase' = [phase EXCEPT ![triggered + 1] = "accepted"]
    BY <1>1, WorkerAssumption, QueueNumbers
    DEF Trigger, Invocations, PoolInv, QueueInv, Types, QueueTypes
  <2> QED
    BY <1>0, <1>1, <2>1 DEF Trigger, execVars, dbVars, timeVars
<1>2. CASE Dispatch
  <2>1. /\ held \in Invocations /\ phase[held] = "accepted"
        /\ phase' = [phase EXCEPT ![held] = "spawned"]
    BY <1>2, QueueNumbers DEF Dispatch, PoolInv, QueueInv, Waits
  <2> QED
    BY <1>0, <1>2, <2>1 DEF Dispatch, execVars, dbVars, timeVars
<1>3. CASE Cancel
  BY <1>0, <1>3 DEF Cancel, Unspawned, execVars, dbVars, timeVars
<1>4. CASE Exit \/ Crash
  <2>1. Die
    BY <1>4 DEF Exit, Crash
  <2>2. ASSUME NEW q \in Invocations
        PROVE  \/ Same(q)
               \/ phase[q] = "accepted" /\ phase'[q] = "dropped"
               \/ phase[q] \in ExecPhases /\ phase'[q] = "killed"
    BY <1>0, <2>1 DEF Die, Forget, Running, Unspawned, ExecPhases, PoolInv, Types, ExecTypes
  <2> QED
    BY <2>1, <2>2 DEF Die, Forget, dbVars, timeVars
<1>5. CASE BootMark
  BY <1>0, <1>5 DEF BootMark, queueVars, execVars, timeVars
<1>6. CASE \/ Enqueue \/ Wake \/ Receive \/ Suspend \/ Stop \/ Drain \/ Drained
           \/ DrainTimesOut \/ BootClean \/ SixHoursPass \/ UNCHANGED vars
  BY <1>6
  DEF Enqueue, Wake, Receive, Suspend, Stop, Drain, Drained, DrainTimesOut,
      BootClean, SixHoursPass, vars, queueVars, execVars, dbVars, timeVars
<1> QED
  BY <1>1, <1>2, <1>3, <1>4, <1>5, <1>6
  DEF Next, DispatchStep, ShutdownStep, BootStep

\* An execution changes what belongs to it only.
LEMMA OthersSame ==
  ASSUME Types, NEW i \in Invocations, ExecStep(i)
  PROVE  /\ \A q \in Invocations \ {i} :
              Same(q) /\ started'[q] = started[q] /\ persisted'[q] = persisted[q]
         /\ job' = job
<1> USE DEF Same, Types, ExecTypes
<1>0. ASSUME NEW from, PruneFails(i, from)
      PROVE  UNCHANGED <<started, persisted, doomed, cutoff>>
  BY <1>0 DEF PruneFails, execVars
<1>1. \A q \in Invocations \ {i} : phase'[q] = phase[q]
  BY ExecMoves
<1>2. job' = job
  BY ExecLeaves DEF queueVars
<1>3. CASE \/ Start(i) \/ InsertRun(i) \/ WriteLogs(i) \/ HandlerEnds(i)
           \/ CloseLog(i) \/ FinishRun(i) \/ EndRun(i)
  BY <1>1, <1>2, <1>3
  DEF Start, InsertRun, WriteLogs, HandlerEnds, CloseLog, FinishRun, EndRun,
      Forget, execVars
<1>4. CASE Reclaim(i) \/ SelectCutoff(i) \/ SelectIds(i) \/ DeleteSelected(i)
  BY <1>0, <1>1, <1>2, <1>4
  DEF Reclaim, SelectCutoff, SelectIds, DeleteSelected, execVars
<1> QED
  BY <1>3, <1>4 DEF ExecStep

-----------------------------------------------------------------------------
(***************************************************************************)
(* Rows.  An execution has a row only after it has started, and what no    *)
(* longer has one is known by persisted.                                   *)
(***************************************************************************)
RowsInv ==
  /\ \A i \in Invocations :
       /\ phase[i] \in {"new", "accepted", "spawned"} => started[i] = 0
       /\ phase[i] \in {"new", "accepted", "spawned", "insert"} => ~persisted[i]
       /\ phase[i] = "insert" => started[i] > 0
       /\ runs[i] # "none" => persisted[i] /\ started[i] > 0
       /\ started[i] <= clock
  /\ \A i, q \in Invocations : started[i] = started[q] => i = q \/ started[i] = 0

\* Only the insert lets an execution have a row.
LEMMA RowsMove ==
  ASSUME Types, NEW i \in Invocations, ExecStep(i), ~InsertRun(i)
  PROVE  /\ persisted' = persisted
         /\ started' = started \/ Start(i)
         /\ \A q \in Invocations :
              \/ runs'[q] = runs[q]
              \/ runs[q] = "running" /\ runs'[q] \in {"success", "failed"}
              \/ DeleteSelected(i) /\ q \in doomed[i] /\ runs'[q] = "none"
<1> USE DEF Types, DbTypes
<1>0. ASSUME NEW from, PruneFails(i, from)
      PROVE  UNCHANGED <<started, persisted, runs>>
  BY <1>0 DEF PruneFails, execVars, dbVars
<1>1. CASE \/ Start(i) \/ WriteLogs(i) \/ HandlerEnds(i) \/ CloseLog(i) \/ EndRun(i)
  BY <1>1
  DEF Start, WriteLogs, HandlerEnds, CloseLog, EndRun, Forget, execVars, dbVars
<1>2. CASE FinishRun(i)
  BY <1>2 DEF FinishRun, Outcome, execVars
<1>3. CASE Reclaim(i) \/ SelectCutoff(i) \/ SelectIds(i) \/ DeleteSelected(i)
  BY <1>0, <1>3
  DEF Reclaim, SelectCutoff, SelectIds, DeleteSelected, execVars, dbVars
<1> QED
  BY <1>1, <1>2, <1>3 DEF ExecStep

LEMMA Progress ==
  ASSUME Types, NEW i \in Invocations, ExecStep(i), ~Start(i)
  PROVE  phase'[i] \notin {"new", "accepted", "spawned", "insert"}
<1> USE DEF Types, ExecTypes, Goto
<1>0. ASSUME NEW from, PruneFails(i, from) PROVE phase'[i] = "end"
  BY <1>0 DEF PruneFails
<1>1. CASE \/ InsertRun(i) \/ WriteLogs(i) \/ HandlerEnds(i) \/ CloseLog(i)
           \/ FinishRun(i) \/ EndRun(i)
  BY <1>1 DEF InsertRun, WriteLogs, HandlerEnds, CloseLog, FinishRun, EndRun
<1>2. CASE Reclaim(i) \/ SelectCutoff(i) \/ SelectIds(i) \/ DeleteSelected(i)
  BY <1>0, <1>2 DEF Reclaim, SelectCutoff, SelectIds, DeleteSelected
<1> QED
  BY <1>1, <1>2 DEF ExecStep

LEMMA RowsInvStays ==
  ASSUME PoolInv, RowsInv, [Next]_vars
  PROVE  RowsInv'
<1>0. /\ Types /\ phase \in [Invocations -> Phases]
      /\ started \in [Invocations -> Nat] /\ clock \in Nat
      /\ persisted \in [Invocations -> BOOLEAN]
      /\ runs \in [Invocations -> RunStatus \cup {"none"}]
  BY DEF PoolInv, Types, ExecTypes, Counts, DbTypes
<1>1. CASE OutsideMoves
  <2>1. ASSUME NEW i \in Invocations
        PROVE  /\ phase'[i] = "insert" => phase[i] = "insert"
               /\ phase'[i] \in {"new", "accepted", "spawned"} =>
                    phase[i] \in {"new", "accepted", "spawned"}
               /\ runs'[i] # "none" => runs[i] # "none"
    BY <1>1 DEF OutsideMoves, Same
  <2> QED
    BY <1>0, <1>1, <2>1 DEF OutsideMoves, RowsInv
<1>2. ASSUME NEW i \in Invocations, ExecStep(i) PROVE RowsInv'
  <2>1. CASE Start(i)
    BY <1>0, <2>1 DEF Start, Goto, dbVars, RowsInv
  <2>2. CASE InsertRun(i)
    BY <1>0, <2>2 DEF InsertRun, Goto, timeVars, RowsInv
  <2>3. CASE ~Start(i) /\ ~InsertRun(i)
    <3>1. /\ phase'[i] \notin {"new", "accepted", "spawned", "insert"}
          /\ \A q \in Invocations \ {i} : phase'[q] = phase[q]
      BY <1>0, <1>2, <2>3, ExecMoves, Progress DEF ExecPhases
    <3>2. clock' = clock
      BY <1>2, <2>3, ExecLeaves
    <3> QED
      BY <1>0, <1>2, <2>3, <3>1, <3>2, RowsMove DEF RowsInv, RunStatus
  <2> QED
    BY <2>1, <2>2, <2>3
<1> QED
  BY <1>1, <1>2, StepsMove

LEMMA RowsInvHolds == Spec => []RowsInv
<1>1. Init => RowsInv
  BY DEF Init, RowsInv
<1>2. PoolInv /\ RowsInv /\ [Next]_vars => RowsInv'
  BY RowsInvStays
<1> QED
  BY <1>1, <1>2, PoolInvHolds, PTL DEF Spec

-----------------------------------------------------------------------------
(***************************************************************************)
(* What is listed as running, and what loses its row.                      *)
(***************************************************************************)
\* A listed execution that is running is one that will close its row.
THEOREM RunningIsLiveHolds == Spec => []RunningIsLive
<1>1. Init => RunningIsLive
  BY DEF Init, RunningIsLive
<1>2. ASSUME PoolInv, RowsInv, RunningIsLive, [Next]_vars PROVE RunningIsLive'
  <2>0. /\ Types /\ phase \in [Invocations -> Phases] /\ errors \in Nat
        /\ runs \in [Invocations -> RunStatus \cup {"none"}]
    BY <1>2 DEF PoolInv, Types, ExecTypes, Counts, DbTypes
  <2>1. ASSUME NEW i \in Invocations, ExecStep(i), errors' = 0
        PROVE  RunningIsLive'
    <3>1. errors = 0 /\ ~DbError /\ process' = process
      BY <2>0, <2>1, ExecLeaves DEF DbError, poolVars
    <3>2. /\ \A q \in Invocations \ {i} : phase'[q] = phase[q]
          /\ \A q \in Invocations \ {i} : runs'[q] = "running" => runs[q] = "running"
      <4>1. CASE InsertRun(i)
        BY <2>0, <2>1, <4>1, ExecMoves DEF InsertRun
      <4>2. CASE ~InsertRun(i)
        BY <2>0, <2>1, <4>2, ExecMoves, RowsMove
      <4> QED
        BY <4>1, <4>2
    <3>3. runs'[i] = "running" /\ process # "down" =>
            phase'[i] \in {"handler", "close", "finish"}
      <4>1. CASE Start(i)
        BY <1>2, <2>0, <3>1, <4>1 DEF Start, Goto, dbVars, RunningIsLive
      <4>2. CASE InsertRun(i)
        BY <2>0, <4>2 DEF InsertRun, Goto
      <4>3. CASE WriteLogs(i) \/ HandlerEnds(i)
        BY <2>0, <4>3 DEF WriteLogs, HandlerEnds, Goto
      <4>4. CASE CloseLog(i)
        BY <1>2, <2>0, <4>4 DEF CloseLog, Goto, RowsInv
      <4>5. CASE FinishRun(i)
        BY <2>0, <3>1, <4>5 DEF FinishRun, Outcome
      <4>6. ASSUME phase[i] \notin {"handler", "close", "finish"}, ~InsertRun(i)
            PROVE  runs'[i] # "running" \/ process = "down"
        BY <1>2, <2>0, <2>1, <3>1, <4>6, RowsMove DEF RunningIsLive
      <4>7. CASE Reclaim(i) \/ SelectCutoff(i) \/ SelectIds(i) \/ DeleteSelected(i)
                 \/ EndRun(i)
        <5>1. phase[i] \in {"reclaim", "select", "ids", "delete", "end"}
          BY <4>7 DEF Reclaim, SelectCutoff, SelectIds, DeleteSelected, EndRun,
                      PruneFails, Goto
        <5>2. ~InsertRun(i)
          BY <5>1 DEF InsertRun, Goto
        <5> QED
          BY <4>6, <5>1, <5>2
      <4> QED
        BY <2>1, <4>1, <4>2, <4>3, <4>4, <4>5, <4>7 DEF ExecStep
    <3> QED
      BY <1>2, <3>1, <3>2, <3>3 DEF RunningIsLive
  <2>2. CASE BootStep
    BY <1>2, <2>0, <2>2
    DEF BootStep, BootMark, BootClean, DbError, queueVars, RunningIsLive
  <2>3. CASE OutsideMoves /\ ~BootStep /\ ~(\E i \in Invocations : ExecStep(i))
    <3>1. /\ errors' = errors
          /\ process' # "down" =>
               /\ process # "down"
               /\ \A q \in Invocations : phase[q] \in ExecPhases => phase'[q] = phase[q]
      <4>1. CASE Exit \/ Crash
        BY <4>1 DEF Exit, Crash, Die
      <4>2. CASE Cancel
        BY <2>0, <4>2 DEF Cancel, Unspawned, ExecPhases
      <4>3. CASE Trigger
        <5>1. triggered + 1 \in Invocations /\ phase[triggered + 1] = "new"
          BY <1>2, <4>3, WorkerAssumption, QueueNumbers
          DEF Trigger, Invocations, PoolInv, QueueInv, Types, QueueTypes
        <5> QED
          BY <2>0, <4>3, <5>1 DEF Trigger, poolVars, ExecPhases
      <4>4. CASE Dispatch
        <5>1. held \in Invocations /\ phase[held] = "accepted"
          BY <1>2, <4>4, QueueNumbers DEF Dispatch, PoolInv, QueueInv, Waits
        <5> QED
          BY <2>0, <4>4, <5>1 DEF Dispatch, poolVars, ExecPhases
      <4>5. CASE \/ Enqueue \/ Wake \/ Receive \/ Suspend \/ Stop \/ Drain
                 \/ Drained \/ DrainTimesOut \/ SixHoursPass \/ UNCHANGED vars
        BY <4>5
        DEF Enqueue, Wake, Receive, Suspend, Stop, Drain, Drained, DrainTimesOut,
            SixHoursPass, vars, poolVars
      <4> QED
        BY <1>2, <2>3, <4>1, <4>2, <4>3, <4>4, <4>5
        DEF Next, DispatchStep, ShutdownStep
    <3> QED
      BY <1>2, <2>0, <2>3, <3>1 DEF OutsideMoves, Same, RunningIsLive, ExecPhases
  <2> QED
    BY <1>2, <2>1, <2>2, <2>3, StepsMove DEF RunningIsLive
<1> QED
  BY <1>1, <1>2, PoolInvHolds, RowsInvHolds, PTL DEF Spec

\* Rows of the log that lose their run row were flushed after it was pruned.
THEOREM OrphansAreFlushesHolds == Spec => OrphansAreFlushes
<1>1. ASSUME PoolInv, [Next]_vars, NEW i \in Orphans' \ Orphans
      PROVE  runs' = runs /\ RowStatus(i) = "dropped"
  <2>0. /\ Types /\ logs \subseteq Invocations
        /\ runs \in [Invocations -> RunStatus \cup {"none"}]
        /\ i \in logs' /\ runs'[i] = "none" /\ ~(i \in logs /\ runs[i] = "none")
    BY <1>1 DEF PoolInv, Types, DbTypes, Orphans
  <2>1. ASSUME NEW k \in Invocations, WriteLogs(k) \/ CloseLog(k)
        PROVE  runs' = runs /\ RowStatus(i) = "dropped"
    BY <2>0, <2>1 DEF WriteLogs, CloseLog, RowStatus
  <2>2. CASE OutsideMoves /\ (logs' \subseteq logs)
    <3>1. i \in Invocations /\ i \in logs
      BY <2>0, <2>2
    <3> QED
      BY <2>0, <2>2, <3>1 DEF OutsideMoves
  <2>3. ASSUME NEW k \in Invocations, DeleteSelected(k) PROVE FALSE
    <3>1. i \in logs
      BY <2>0, <2>3 DEF DeleteSelected, PruneFails, dbVars
    <3> QED
      BY <2>0, <2>3, <3>1 DEF DeleteSelected, PruneFails, dbVars
  <2>4. ASSUME NEW k \in Invocations, ExecStep(k), ~WriteLogs(k), ~CloseLog(k),
               ~DeleteSelected(k)
        PROVE  FALSE
    <3>1. logs' = logs
      BY <2>4
      DEF ExecStep, Start, InsertRun, HandlerEnds, FinishRun, Reclaim,
          SelectCutoff, SelectIds, EndRun, PruneFails, dbVars
    <3>2. CASE InsertRun(k)
      BY <2>0, <3>1, <3>2 DEF InsertRun
    <3>3. CASE ~InsertRun(k)
      BY <2>0, <2>4, <3>1, <3>3, RowsMove DEF RunStatus
    <3> QED
      BY <3>2, <3>3
  <2>5. (\E k \in Invocations : ExecStep(k)) \/ logs' \subseteq logs
    BY <1>1, <2>0
    DEF Next, Trigger, DispatchStep, Enqueue, Wake, Receive, Dispatch, Suspend,
        Cancel, Stop, ShutdownStep, Drain, Drained, DrainTimesOut, Exit, Crash,
        Die, BootStep, BootMark, BootClean, SixHoursPass, vars, dbVars
  <2> QED
    BY <1>1, <2>1, <2>2, <2>3, <2>4, <2>5, StepsMove
<1>2. PoolInv /\ [Next]_vars =>
        [\A i \in Orphans' \ Orphans : runs' = runs /\ RowStatus(i) = "dropped"]_vars
  BY <1>1
<1> QED
  BY <1>2, PoolInvHolds, PTL DEF Spec, OrphansAreFlushes

-----------------------------------------------------------------------------
(***************************************************************************)
(* Pruning.  While a prune is under way, Keep rows of its job are at least *)
(* as new as its cutoff, and nobody deletes those: another prune either    *)
(* has an older cutoff, or Keep rows of its own that are newer.            *)
(***************************************************************************)
Kept(i) == {q \in RowsOf(job[i]) : started[q] >= cutoff[i]}

PruneOK(i) ==
  /\ phase[i] \in {"ids", "delete"} => Cardinality(Kept(i)) >= Keep
  /\ phase[i] = "delete" =>
       \A q \in doomed[i] :
         persisted[q] /\ job[q] = job[i] /\ started[q] < cutoff[i]

PruneInv == \A i \in Invocations : PruneOK(i)

LEMMA RowsFinite ==
  ASSUME NEW S \in SUBSET Invocations
  PROVE  IsFiniteSet(S) /\ Cardinality(S) \in Nat
<1>1. IsFiniteSet(Invocations)
  BY WorkerAssumption, FS_Interval DEF Invocations
<1>2. IsFiniteSet(S)
  BY <1>1, FS_Subset
<1> QED
  BY <1>2, FS_CardinalityType

LEMMA KeptGrows ==
  ASSUME NEW S \in SUBSET Invocations, NEW T \in SUBSET S, Cardinality(T) >= Keep
  PROVE  Cardinality(S) >= Keep
<1>1. Cardinality(T) <= Cardinality(S)
  BY RowsFinite, FS_Subset
<1> QED
  BY <1>1, RowsFinite, WorkerAssumption

\* What has been a row keeps its start.
LEMMA StartsStay ==
  ASSUME PoolInv, RowsInv, [Next]_vars
  PROVE  /\ job' = job
         /\ \A q \in Invocations :
              persisted[q] => persisted'[q] /\ started'[q] = started[q]
<1>0. /\ Types /\ phase \in [Invocations -> Phases]
      /\ persisted \in [Invocations -> BOOLEAN] /\ started \in [Invocations -> Nat]
  BY DEF PoolInv, Types, ExecTypes
<1>1. CASE OutsideMoves
  BY <1>1 DEF OutsideMoves
<1>2. ASSUME NEW i \in Invocations, ExecStep(i)
      PROVE  /\ job' = job
             /\ \A q \in Invocations :
                  persisted[q] => persisted'[q] /\ started'[q] = started[q]
  <2>1. CASE Start(i)
    BY <1>0, <1>2, <2>1, OthersSame DEF Start, Goto, RowsInv
  <2>2. CASE InsertRun(i)
    BY <1>0, <1>2, <2>2, OthersSame DEF InsertRun, Goto, RowsInv
  <2>3. CASE ~Start(i) /\ ~InsertRun(i)
    BY <1>0, <1>2, <2>3, OthersSame, RowsMove
  <2> QED
    BY <2>1, <2>2, <2>3
<1> QED
  BY <1>1, <1>2, StepsMove

\* A prune goes on as long as the rows it spares stay.
LEMMA PruneFrame ==
  ASSUME PoolInv, RowsInv, [Next]_vars, NEW i \in Invocations, PruneOK(i),
         Same(i), \A q \in Kept(i) : runs'[q] # "none"
  PROVE  PruneOK(i)'
<1>0. /\ job \in [Invocations -> Jobs] /\ started \in [Invocations -> Nat]
      /\ doomed \in [Invocations -> SUBSET Invocations]
  BY DEF PoolInv, Types, QueueTypes, ExecTypes
<1>1. \A q \in Kept(i) : q \in Invocations /\ persisted[q] /\ started'[q] = started[q]
  BY StartsStay DEF Kept, RowsOf, RowsInv
<1>2. Kept(i) \subseteq Kept(i)'
  BY <1>1, StartsStay DEF Kept, RowsOf, Same
<1>3. Kept(i)' \subseteq Invocations
  BY DEF Kept, RowsOf
<1>4. Cardinality(Kept(i)) >= Keep => Cardinality(Kept(i)') >= Keep
  BY <1>2, <1>3, KeptGrows
<1>5. phase'[i] = "delete" =>
        \A q \in doomed'[i] :
          persisted'[q] /\ job'[q] = job'[i] /\ started'[q] < cutoff'[i]
  BY <1>0, StartsStay DEF PruneOK, Same
<1> QED
  BY <1>4, <1>5 DEF PruneOK, Same

\* The prune of one execution does not touch what another one spares.
LEMMA DeleteSpares ==
  ASSUME PoolInv, RowsInv, PruneInv, [Next]_vars,
         NEW k \in Invocations, DeleteSelected(k),
         NEW i \in Invocations \ {k}
  PROVE  PruneOK(i)'
<1>0. /\ job \in [Invocations -> Jobs] /\ started \in [Invocations -> Nat]
      /\ cutoff \in [Invocations -> Nat]
      /\ doomed \in [Invocations -> SUBSET Invocations]
      /\ runs \in [Invocations -> RunStatus \cup {"none"}]
      /\ phase \in [Invocations -> Phases]
      /\ Types /\ ExecStep(k) /\ PruneOK(i) /\ Same(i)
  BY OthersSame DEF PoolInv, Types, QueueTypes, ExecTypes, DbTypes, ExecStep, PruneInv
<1>1. CASE PruneFails(k, "delete")
  BY <1>0, <1>1, PruneFrame DEF PruneFails, dbVars, Kept, RowsOf
<1>2. CASE ~PruneFails(k, "delete")
  <2>1. /\ phase[k] = "delete" /\ PruneOK(k)
        /\ runs' = [q \in Invocations |-> IF q \in doomed[k] THEN "none" ELSE runs[q]]
        /\ UNCHANGED <<job, started, cutoff>>
    BY <1>0, <1>2, OthersSame DEF DeleteSelected, Goto, execVars, PruneInv
  <2>2. CASE job[i] # job[k] \/ cutoff[k] <= cutoff[i]
    <3>1. \A q \in Kept(i) : q \in Invocations /\ q \notin doomed[k] /\ runs[q] # "none"
      BY <1>0, <2>1, <2>2 DEF Kept, RowsOf, PruneOK
    <3> QED
      BY <1>0, <2>1, <3>1, PruneFrame
  <2>3. CASE job[i] = job[k] /\ cutoff[k] > cutoff[i]
    <3>1. Kept(k) \subseteq Kept(i)'
      <4>1. ASSUME NEW q \in Kept(k)
            PROVE  /\ q \in Invocations /\ runs'[q] # "none" /\ job'[q] = job'[i]
                   /\ started'[q] >= cutoff'[i]
        BY <1>0, <2>1, <2>3, <4>1 DEF Kept, RowsOf, PruneOK
      <4> QED
        BY <4>1 DEF Kept, RowsOf
    <3>2. Kept(i)' \subseteq Invocations
      BY DEF Kept, RowsOf
    <3>3. Cardinality(Kept(i)') >= Keep
      BY <2>1, <3>1, <3>2, KeptGrows DEF PruneOK
    <3>4. phase'[i] = "delete" =>
            \A q \in doomed'[i] :
              persisted'[q] /\ job'[q] = job'[i] /\ started'[q] < cutoff'[i]
      BY <1>0, StartsStay DEF PruneOK, Same
    <3> QED
      BY <3>3, <3>4 DEF PruneOK
  <2> QED
    BY <1>0, <2>2, <2>3
<1> QED
  BY <1>1, <1>2

\* A prune that has read its cutoff spares the rows down to it.
LEMMA CutoffSpares ==
  ASSUME PoolInv, RowsInv, NEW i \in Invocations, SelectCutoff(i)
  PROVE  PruneOK(i)'
<1>0. /\ job \in [Invocations -> Jobs] /\ started \in [Invocations -> Nat]
      /\ cutoff \in [Invocations -> Nat] /\ phase \in [Invocations -> Phases]
  BY DEF PoolInv, Types, QueueTypes, ExecTypes
<1>1. CASE phase'[i] # "ids"
  <2>1. phase'[i] # "delete"
    BY <1>0, <1>1 DEF SelectCutoff, PruneFails, Goto
  <2> QED
    BY <1>1, <2>1 DEF PruneOK
<1>2. CASE phase'[i] = "ids"
  <2>1. /\ UNCHANGED <<runs, job, started>>
        /\ phase'[i] = "ids"
        /\ \E q \in RowsOf(job[i]) :
             /\ Cardinality(NewerThan(q)) = Keep - 1
             /\ cutoff' = [cutoff EXCEPT ![i] = started[q]]
    BY <1>0, <1>2 DEF SelectCutoff, PruneFails, Goto, dbVars, queueVars
  <2>2. PICK q \in RowsOf(job[i]) :
             /\ Cardinality(NewerThan(q)) = Keep - 1
             /\ cutoff' = [cutoff EXCEPT ![i] = started[q]]
    BY <2>1
  <2>3. q \in Invocations /\ job[q] = job[i] /\ q \notin NewerThan(q)
    BY <1>0, <2>2 DEF RowsOf, NewerThan
  <2>4. NewerThan(q) \subseteq Invocations
    BY DEF NewerThan, RowsOf
  <2>5. Cardinality(NewerThan(q) \cup {q}) = Keep - 1 + 1
    BY <2>2, <2>3, <2>4, RowsFinite, FS_AddElement
  <2>6. NewerThan(q) \cup {q} \subseteq Kept(i)'
    BY <1>0, <2>1, <2>2, <2>3 DEF NewerThan, Kept, RowsOf
  <2>7. Kept(i)' \subseteq Invocations
    BY DEF Kept, RowsOf
  <2>8. Keep - 1 + 1 >= Keep
    BY WorkerAssumption
  <2>9. Cardinality(Kept(i)') >= Keep
    BY <2>5, <2>6, <2>7, <2>8, KeptGrows
  <2> QED
    BY <1>2, <2>9 DEF PruneOK
<1> QED
  BY <1>1, <1>2

\* The rows it selects are older than those.
LEMMA IdsSpare ==
  ASSUME PoolInv, RowsInv, NEW i \in Invocations, PruneOK(i), SelectIds(i)
  PROVE  PruneOK(i)'
<1>0. /\ job \in [Invocations -> Jobs] /\ started \in [Invocations -> Nat]
      /\ cutoff \in [Invocations -> Nat] /\ phase \in [Invocations -> Phases]
      /\ doomed \in [Invocations -> SUBSET Invocations]
  BY DEF PoolInv, Types, QueueTypes, ExecTypes
<1>1. CASE phase'[i] # "delete"
  <2>1. phase'[i] # "ids"
    BY <1>0 DEF SelectIds, PruneFails, Goto
  <2> QED
    BY <1>1, <2>1 DEF PruneOK
<1>2. CASE phase'[i] = "delete"
  <2>1. /\ UNCHANGED <<runs, job, started, persisted, cutoff>>
        /\ phase[i] = "ids" /\ doomed'[i] = OlderRows(i)
    BY <1>0, <1>2 DEF SelectIds, PruneFails, Goto, dbVars, queueVars
  <2>2. Kept(i)' = Kept(i)
    BY <2>1 DEF Kept, RowsOf
  <2>3. \A q \in OlderRows(i) :
          persisted[q] /\ job[q] = job[i] /\ started[q] < cutoff[i]
    BY DEF OlderRows, RowsOf, RowsInv
  <2> QED
    BY <2>1, <2>2, <2>3 DEF PruneOK
<1> QED
  BY <1>1, <1>2

LEMMA PruneInvStays ==
  ASSUME PoolInv, RowsInv, PruneInv, [Next]_vars
  PROVE  PruneInv'
<1>0. Types /\ phase \in [Invocations -> Phases]
      /\ runs \in [Invocations -> RunStatus \cup {"none"}]
  BY DEF PoolInv, Types, ExecTypes, DbTypes
<1> SUFFICES ASSUME NEW i \in Invocations PROVE PruneOK(i)'
  BY DEF PruneInv
<1>1. PruneOK(i)
  BY DEF PruneInv
<1>2. CASE OutsideMoves
  <2>1. \A q \in Kept(i) : runs'[q] # "none"
    BY <1>0, <1>2 DEF OutsideMoves, Kept, RowsOf
  <2>2. CASE Same(i)
    BY <1>1, <2>1, <2>2, PruneFrame
  <2>3. CASE phase'[i] \notin {"ids", "delete"}
    BY <2>3 DEF PruneOK
  <2> QED
    BY <1>2, <2>2, <2>3 DEF OutsideMoves
<1>3. ASSUME NEW k \in Invocations, ExecStep(k), k # i PROVE PruneOK(i)'
  <2>1. Same(i)
    BY <1>0, <1>3, OthersSame
  <2>2. CASE DeleteSelected(k)
    BY <1>3, <2>2, DeleteSpares
  <2>3. CASE InsertRun(k)
    <3>1. \A q \in Kept(i) : runs'[q] # "none"
      BY <1>0, <2>3 DEF InsertRun, Kept, RowsOf
    <3> QED
      BY <1>1, <2>1, <3>1, PruneFrame
  <2>4. CASE ~DeleteSelected(k) /\ ~InsertRun(k)
    <3>1. \A q \in Kept(i) : runs'[q] # "none"
      BY <1>0, <1>3, <2>4, RowsMove DEF Kept, RowsOf
    <3> QED
      BY <1>1, <2>1, <3>1, PruneFrame
  <2> QED
    BY <2>2, <2>3, <2>4
<1>4. CASE ExecStep(i)
  <2>1. CASE SelectCutoff(i)
    BY <2>1, CutoffSpares
  <2>2. CASE SelectIds(i)
    BY <1>1, <2>2, IdsSpare
  <2>3. CASE ~SelectCutoff(i) /\ ~SelectIds(i)
    <3>1. phase'[i] \notin {"ids", "delete"}
      BY <1>0, <1>4, <2>3
      DEF ExecStep, Start, InsertRun, WriteLogs, HandlerEnds, CloseLog, FinishRun,
          Reclaim, DeleteSelected, EndRun, PruneFails, Goto
    <3> QED
      BY <3>1 DEF PruneOK
  <2> QED
    BY <2>1, <2>2, <2>3
<1> QED
  BY <1>2, <1>3, <1>4, StepsMove

LEMMA PruneInvHolds == Spec => []PruneInv
<1>1. Init => PruneInv
  BY DEF Init, PruneInv, PruneOK
<1>2. PoolInv /\ RowsInv /\ PruneInv /\ [Next]_vars => PruneInv'
  BY PruneInvStays
<1> QED
  BY <1>1, <1>2, PoolInvHolds, RowsInvHolds, PTL DEF Spec

-----------------------------------------------------------------------------
(***************************************************************************)
(* The worker implements RunHistory.                                       *)
(***************************************************************************)
Status == [i \in Invocations |-> RowStatus(i)]

LEMMA StatusIs ==
  ASSUME Types
  PROVE  \A i \in Invocations :
           /\ Status[i] = IF runs[i] = "none" /\ persisted[i] THEN "dropped" ELSE runs[i]
           /\ Status[i] \in {"running", "success", "failed"} <=> runs[i] # "none"
BY DEF Status, RowStatus, Types, DbTypes, RunStatus

\* The library module is the same one there.
LEMMA SameCardinality == \A S : History!Cardinality(S) = Cardinality(S)
BY DEF History!Cardinality, Cardinality

\* A step that changes no row is outside the history.
LEMMA QuietRefines ==
  ASSUME PoolInv, RowsInv, [Next]_vars, UNCHANGED <<runs, persisted>>
  PROVE  History!Prepare
<1>1. Status' = Status
  BY DEF Status, RowStatus
<1>2. \A q \in History!Listed(Status) :
        job'[q] = job[q] /\ started'[q] = started[q]
  BY StartsStay, StatusIs DEF History!Listed, PoolInv, RowsInv
<1> QED
  BY <1>1, <1>2 DEF History!Prepare, Status

\* The row of an execution enters the history.
LEMMA InsertRefines ==
  ASSUME PoolInv, RowsInv, NEW i \in Invocations, InsertRun(i), persisted' # persisted
  PROVE  History!Enter
<1>0. /\ Types /\ persisted \in [Invocations -> BOOLEAN]
      /\ runs \in [Invocations -> RunStatus \cup {"none"}]
  BY DEF PoolInv, Types, ExecTypes, DbTypes
<1>1. /\ phase[i] = "insert"
      /\ runs' = [runs EXCEPT ![i] = "running"]
      /\ persisted' = [persisted EXCEPT ![i] = TRUE]
      /\ UNCHANGED <<started, job>>
  BY DEF InsertRun, Goto, queueVars
<1>2. ~persisted[i] /\ started[i] > 0
  BY <1>1 DEF RowsInv
<1>3. runs[i] = "none"
  BY <1>2 DEF RowsInv
<1>4. Status[i] = "none"
  BY <1>0, <1>2, <1>3, StatusIs
<1>5. Status'[i] = "running"
  BY <1>0, <1>1 DEF Status, RowStatus
<1>6. ASSUME NEW q \in Invocations \ {i} PROVE Status'[q] = Status[q]
  <2>1. runs'[q] = runs[q]
    BY <1>0, <1>1
  <2>2. persisted'[q] = persisted[q]
    BY <1>0, <1>1
  <2> QED
    BY <2>1, <2>2 DEF Status, RowStatus
<1>7. Status' = [Status EXCEPT ![i] = "running"]
  BY <1>5, <1>6 DEF Status
<1> QED
  BY <1>1, <1>2, <1>4, <1>7 DEF History!Enter, Status

\* Running rows get an outcome.
LEMMA CloseRefines ==
  ASSUME PoolInv, UNCHANGED <<started, persisted, job>>,
         \A q \in Invocations :
           \/ runs'[q] = runs[q]
           \/ runs[q] = "running" /\ runs'[q] \in {"success", "failed"}
  PROVE  History!Close
<1>1. ASSUME NEW q \in Invocations
      PROVE  \/ Status'[q] = Status[q]
             \/ Status[q] = "running" /\ Status'[q] \in {"success", "failed"}
  <2>1. CASE runs'[q] = runs[q]
    BY <2>1 DEF Status, RowStatus
  <2>2. CASE runs[q] = "running" /\ runs'[q] \in {"success", "failed"}
    BY <2>2 DEF Status, RowStatus
  <2> QED
    BY <2>1, <2>2
<1> QED
  BY <1>1 DEF History!Close, Status

\* A prune drops rows that are older than Keep which stay.
LEMMA DeleteRefines ==
  ASSUME PoolInv, RowsInv, PruneInv, [Next]_vars,
         NEW i \in Invocations, DeleteSelected(i), phase[i] = "delete",
         ~PruneFails(i, "delete")
  PROVE  History!Drop
<1>0. /\ Types /\ PruneOK(i) /\ ExecStep(i)
      /\ runs \in [Invocations -> RunStatus \cup {"none"}]
      /\ started \in [Invocations -> Nat] /\ cutoff \in [Invocations -> Nat]
  BY DEF PoolInv, Types, DbTypes, ExecTypes, PruneInv, ExecStep
<1>1. /\ runs' = [q \in Invocations |-> IF q \in doomed[i] THEN "none" ELSE runs[q]]
      /\ UNCHANGED <<job, started, persisted>>
  BY DEF DeleteSelected, Goto, execVars, queueVars
<1>2. ASSUME NEW q \in Invocations, Status'[q] # Status[q]
      PROVE  /\ q \in History!Listed(Status)
             /\ Status'[q] = "dropped"
             /\ Cardinality(History!Later(Status', q)) >= Keep
  <2>1. q \in doomed[i] /\ runs[q] # "none"
    BY <1>0, <1>1, <1>2 DEF Status, RowStatus
  <2>2. persisted[q] /\ job[q] = job[i] /\ started[q] < cutoff[i]
    BY <1>0, <2>1 DEF PruneOK
  <2>3. Status'[q] = "dropped"
    BY <1>1, <2>1, <2>2 DEF Status, RowStatus
  <2>4. ASSUME NEW p \in Kept(i)
        PROVE  /\ p \in Invocations
               /\ Status'[p] \in {"running", "success", "failed"}
               /\ job[p] = job[q] /\ started[p] > started[q]
    <3>1. /\ p \in Invocations /\ runs[p] # "none" /\ job[p] = job[i]
          /\ started[p] >= cutoff[i] /\ p \notin doomed[i]
      BY <1>0, <2>4 DEF Kept, RowsOf, PruneOK
    <3>2. runs'[p] \in RunStatus
      BY <1>0, <1>1, <3>1
    <3> QED
      BY <1>0, <2>2, <3>1, <3>2 DEF Status, RowStatus, RunStatus
  <2>5. Kept(i) \subseteq History!Later(Status', q)
    BY <2>4 DEF History!Later, History!Listed
  <2>6. History!Later(Status', q) \subseteq Invocations
    BY DEF History!Later, History!Listed
  <2>7. Cardinality(History!Later(Status', q)) >= Keep
    BY <1>0, <2>5, <2>6, KeptGrows DEF PruneOK
  <2>8. q \in History!Listed(Status)
    BY <1>0, <2>1, StatusIs DEF History!Listed
  <2> QED
    BY <2>3, <2>7, <2>8
<1>3. \A q \in Invocations :
        \/ Status'[q] = Status[q]
        \/ /\ q \in History!Listed(Status)
           /\ Status'[q] = "dropped"
           /\ Cardinality(History!Later(Status', q)) >= Keep
  BY <1>2
<1>4. UNCHANGED <<job, started>>
  BY <1>1
<1> QED
  BY <1>3, <1>4, SameCardinality DEF History!Drop, Status

LEMMA StepRefines ==
  ASSUME PoolInv, RowsInv, PruneInv, [Next]_vars
  PROVE  History!HistoryNext
<1>0. /\ Types /\ persisted \in [Invocations -> BOOLEAN]
      /\ runs \in [Invocations -> RunStatus \cup {"none"}]
  BY DEF PoolInv, Types, ExecTypes, DbTypes
<1>1. CASE OutsideMoves
  <2>1. History!Close
    BY <1>1, CloseRefines DEF OutsideMoves
  <2> QED
    BY <2>1 DEF History!HistoryNext
<1>2. ASSUME NEW i \in Invocations, InsertRun(i) PROVE History!HistoryNext
  <2>1. CASE persisted' # persisted
    BY <1>2, <2>1, InsertRefines DEF History!HistoryNext
  <2>2. CASE persisted' = persisted
    <3>1. ~persisted[i]
      BY <1>2 DEF InsertRun, Goto, RowsInv
    <3>2. persisted' # [persisted EXCEPT ![i] = TRUE]
      BY <1>0, <2>2, <3>1, Zenon
    <3>3. runs' = runs
      BY <1>2, <3>2 DEF InsertRun
    <3> QED
      BY <2>2, <3>3, QuietRefines DEF History!HistoryNext
  <2> QED
    BY <2>1, <2>2
<1>3. ASSUME NEW i \in Invocations, DeleteSelected(i) PROVE History!HistoryNext
  <2>1. CASE PruneFails(i, "delete")
    BY <2>1, QuietRefines DEF PruneFails, dbVars, execVars, History!HistoryNext
  <2>2. CASE ~PruneFails(i, "delete")
    BY <1>3, <2>2, DeleteRefines DEF DeleteSelected, Goto, History!HistoryNext
  <2> QED
    BY <2>1, <2>2
<1>4. ASSUME NEW i \in Invocations, ExecStep(i), ~InsertRun(i), ~DeleteSelected(i)
      PROVE  History!HistoryNext
  <2>1. CASE Start(i)
    BY <2>1, QuietRefines DEF Start, dbVars, History!HistoryNext
  <2>2. CASE ~Start(i)
    <3>1. /\ UNCHANGED <<started, persisted, job>>
          /\ \A q \in Invocations :
               \/ runs'[q] = runs[q]
               \/ runs[q] = "running" /\ runs'[q] \in {"success", "failed"}
      BY <1>0, <1>4, <2>2, RowsMove, OthersSame
    <3> QED
      BY <3>1, CloseRefines DEF History!HistoryNext
  <2> QED
    BY <2>1, <2>2
<1> QED
  BY <1>1, <1>2, <1>3, <1>4, StepsMove

\* Executions enter the history once, get one outcome and are dropped only
\* when Keep later ones of their job stay.
THEOREM WorkerRefinesRunHistory == Spec => RefinesRunHistory
<1>1. Init => History!HistoryInit
  BY DEF Init, History!HistoryInit, RowStatus
<1>2. PoolInv /\ RowsInv /\ PruneInv /\ [Next]_vars
        => [History!HistoryNext]_(History!hvars)
  BY StepRefines
<1> QED
  BY <1>1, <1>2, PoolInvHolds, RowsInvHolds, PruneInvHolds, PTL
  DEF Spec, RefinesRunHistory, History!HistorySpec

-----------------------------------------------------------------------------
(***************************************************************************)
(* The bound of the history.  Executions overlap, so one may have read its *)
(* cutoff before another came to its end, and prunes may be cut off.  What *)
(* is left is bounded whichever of the prunes under way are ignored, with  *)
(* the executions they belong to.                                          *)
(***************************************************************************)
Selected == {i \in Invocations : phase[i] \in {"ids", "delete", "end", "done"}}

Pending == {i \in Invocations : phase[i] \in {"ids", "delete"}}

Prunes(i) == IF phase[i] = "ids" THEN OlderRows(i) ELSE doomed[i]

Left(j, Q) ==
  {r \in RowsOf(j) :
     r \in Selected /\ r \notin Q /\ \A i \in Pending \ Q : r \notin Prunes(i)}

BoundInv ==
  errors = 0 =>
    \A j \in Jobs, Q \in SUBSET Pending : Cardinality(Left(j, Q)) <= Keep

LEMMA LeftShrinks ==
  ASSUME BoundInv, errors = 0, NEW j \in Jobs, NEW Q \in SUBSET Pending,
         NEW T \in SUBSET Left(j, Q)
  PROVE  Cardinality(T) <= Keep
<1>1. Left(j, Q) \in SUBSET Invocations
  BY DEF Left, RowsOf
<1>2. Cardinality(T) <= Cardinality(Left(j, Q))
  BY <1>1, RowsFinite, FS_Subset
<1>3. /\ Cardinality(T) \in Nat /\ Cardinality(Left(j, Q)) \in Nat
      /\ Cardinality(Left(j, Q)) <= Keep /\ Keep \in Nat
  BY <1>1, RowsFinite, WorkerAssumption DEF BoundInv
<1> QED
  BY <1>2, <1>3

\* A row that stays is pruned by the same executions.
LEMMA PrunesSame ==
  ASSUME PoolInv, RowsInv, [Next]_vars, NEW k \in Invocations, Same(k),
         NEW r \in Invocations, runs[r] # "none", runs'[r] # "none"
  PROVE  r \in Prunes(k)' <=> r \in Prunes(k)
<1>1. /\ job' = job /\ started'[r] = started[r]
  BY StartsStay DEF RowsInv
<1> QED
  BY <1>1 DEF Prunes, OlderRows, RowsOf, Same

LEMMA OutsideBound ==
  ASSUME PoolInv, RowsInv, BoundInv, [Next]_vars, OutsideMoves, errors = 0,
         NEW j \in Jobs, NEW Q \in SUBSET Pending'
  PROVE  Cardinality(Left(j, Q)') <= Keep
<1>0. runs \in [Invocations -> RunStatus \cup {"none"}] /\ job' = job
  BY DEF PoolInv, Types, DbTypes, OutsideMoves
<1>1. PICK gone \in SUBSET Pending :
        \A i \in Invocations : i \in gone <=> i \in Pending /\ i \notin Pending'
  <2>1. Pending \ Pending' \in SUBSET Pending
    OBVIOUS
  <2> QED
    BY <2>1
<1>2. \A r \in Invocations :
        /\ r \in Selected' => Same(r) /\ r \in Selected
        /\ r \in Pending' => Same(r) /\ r \in Pending
        /\ runs'[r] # "none" => runs[r] # "none"
  BY DEF OutsideMoves, Same, Selected, Pending
<1>3. Q \cup gone \in SUBSET Pending
  BY <1>1, <1>2 DEF Pending
<1>4. ASSUME NEW r \in Left(j, Q)'
      PROVE  r \in Left(j, Q \cup gone)
  <2>1. /\ r \in Invocations /\ runs'[r] # "none" /\ job'[r] = j /\ r \in Selected'
        /\ r \notin Q
    BY <1>4 DEF Left, RowsOf
  <2>2. r \in Selected /\ Same(r) /\ r \in RowsOf(j)
    BY <1>0, <1>2, <2>1 DEF RowsOf
  <2>3. r \notin gone
    BY <1>1, <2>1, <2>2 DEF Pending, Same
  <2>4. ASSUME NEW k \in Pending \ (Q \cup gone) PROVE r \notin Prunes(k)
    <3>1. k \in Invocations /\ k \in Pending' /\ k \notin Q
      BY <1>1, <2>4 DEF Pending
    <3>2. r \notin Prunes(k)'
      BY <1>4, <3>1 DEF Left
    <3> QED
      BY <1>2, <2>1, <3>1, <3>2, PrunesSame
  <2> QED
    BY <2>1, <2>2, <2>3, <2>4 DEF Left
<1> QED
  BY <1>3, <1>4, LeftShrinks

\* The steps of an execution that neither begin nor carry on a prune.
LEMMA FrameBound ==
  ASSUME PoolInv, RowsInv, BoundInv, [Next]_vars, errors = 0,
         NEW i \in Invocations, ExecStep(i),
         i \notin Pending, i \notin Pending',
         i \in Selected' /\ runs'[i] # "none" => i \in Selected,
         \A r \in Invocations \ {i} : runs'[r] # "none" => runs[r] # "none",
         i \in Selected => (runs'[i] # "none" => runs[i] # "none"),
         NEW j \in Jobs, NEW Q \in SUBSET Pending'
  PROVE  Cardinality(Left(j, Q)') <= Keep
<1>0. job' = job /\ \A k \in Invocations \ {i} : Same(k)
  BY OthersSame DEF PoolInv
<1>1. \A k \in Invocations : k \in Pending' <=> k \in Pending
  BY <1>0 DEF Pending, Same
<1>2. Q \in SUBSET Pending
  BY <1>1 DEF Pending
<1>3. ASSUME NEW r \in Left(j, Q)'
      PROVE  r \in Left(j, Q)
  <2>1. /\ r \in Invocations /\ runs'[r] # "none" /\ job'[r] = j /\ r \in Selected'
        /\ r \notin Q
    BY <1>3 DEF Left, RowsOf
  <2>2. r \in Selected /\ runs[r] # "none"
    BY <1>0, <2>1 DEF Selected, Same
  <2>3. ASSUME NEW k \in Pending \ Q PROVE r \notin Prunes(k)
    <3>1. k \in Invocations /\ k # i /\ k \in Pending' /\ Same(k)
      BY <1>0, <1>1, <2>3 DEF Pending
    <3>2. r \notin Prunes(k)'
      BY <1>3, <2>3, <3>1 DEF Left
    <3> QED
      BY <2>1, <2>2, <3>1, <3>2, PrunesSame
  <2> QED
    BY <1>0, <2>1, <2>2, <2>3 DEF Left, RowsOf
<1> QED
  BY <1>2, <1>3, LeftShrinks

\* A prune that goes on: its rows are the ones it was going to delete.
LEMMA PruneBound ==
  ASSUME PoolInv, RowsInv, BoundInv, [Next]_vars, errors = 0, errors' = 0,
         NEW i \in Invocations, SelectIds(i) \/ DeleteSelected(i),
         NEW j \in Jobs, NEW Q \in SUBSET Pending'
  PROVE  Cardinality(Left(j, Q)') <= Keep
<1>0. /\ job' = job /\ \A k \in Invocations \ {i} : Same(k)
      /\ phase \in [Invocations -> Phases]
      /\ runs \in [Invocations -> RunStatus \cup {"none"}]
      /\ doomed \in [Invocations -> SUBSET Invocations]
  BY OthersSame DEF PoolInv, Types, ExecTypes, DbTypes, ExecStep
<1>1. \A from : ~PruneFails(i, from)
  BY DEF PruneFails, DbError
<1>2. /\ i \in Pending /\ i \in Selected
      /\ \A r \in Invocations :
           runs'[r] # "none" /\ r \in Prunes(i) => i \in Pending' /\ r \in Prunes(i)'
      /\ \A r \in Invocations : runs'[r] # "none" => runs[r] # "none"
  <2>1. CASE SelectIds(i)
    BY <1>0, <1>1, <2>1
    DEF SelectIds, Goto, dbVars, Pending, Selected, Prunes
  <2>2. CASE DeleteSelected(i)
    BY <1>0, <1>1, <2>2 DEF DeleteSelected, Goto, Pending, Selected, Prunes
  <2> QED
    BY <2>1, <2>2
<1>3. \A k \in Invocations :
        /\ k \in Pending' => k \in Pending
        /\ k \in Selected' => k \in Selected
        /\ k # i => (k \in Pending => k \in Pending')
  BY <1>0, <1>2 DEF Pending, Selected, Same
<1>4. Q \in SUBSET Pending
  BY <1>3 DEF Pending
<1>5. ASSUME NEW r \in Left(j, Q)'
      PROVE  r \in Left(j, Q)
  <2>1. /\ r \in Invocations /\ runs'[r] # "none" /\ job'[r] = j /\ r \in Selected'
        /\ r \notin Q
    BY <1>5 DEF Left, RowsOf
  <2>2. r \in Selected /\ runs[r] # "none"
    BY <1>2, <1>3, <2>1
  <2>3. ASSUME NEW k \in Pending \ Q PROVE r \notin Prunes(k)
    <3>1. k \in Pending' \ Q => r \notin Prunes(k)'
      BY <1>5 DEF Left
    <3>2. CASE k = i
      BY <1>2, <2>1, <2>3, <3>1, <3>2
    <3>3. CASE k # i
      <4>1. k \in Invocations /\ k \in Pending' /\ Same(k)
        BY <1>0, <1>3, <2>3, <3>3 DEF Pending
      <4> QED
        BY <2>1, <2>2, <2>3, <3>1, <4>1, PrunesSame
    <3> QED
      BY <3>2, <3>3
  <2> QED
    BY <1>0, <2>1, <2>2, <2>3 DEF Left, RowsOf
<1> QED
  BY <1>4, <1>5, LeftShrinks

\* A prune begins: whatever is older than its cutoff will go, and Keep rows
\* are not, since no two executions start at the same time.
LEMMA CutoffBound ==
  ASSUME PoolInv, RowsInv, BoundInv, [Next]_vars, errors = 0, errors' = 0,
         NEW i \in Invocations, SelectCutoff(i),
         NEW j \in Jobs, NEW Q \in SUBSET Pending'
  PROVE  Cardinality(Left(j, Q)') <= Keep
<1>0. /\ job' = job /\ \A k \in Invocations \ {i} : Same(k)
      /\ phase \in [Invocations -> Phases] /\ cutoff \in [Invocations -> Nat]
      /\ started \in [Invocations -> Nat]
      /\ ExecStep(i)
  BY OthersSame DEF PoolInv, Types, ExecTypes, ExecStep
<1>1. /\ phase[i] = "select" /\ UNCHANGED <<runs, started, doomed>>
      /\ ~PruneFails(i, "select")
  BY DEF SelectCutoff, PruneFails, DbError, dbVars
<1>2. i \notin Pending /\ i \notin Selected
  BY <1>1 DEF Pending, Selected
<1>3. \A k \in Invocations \ {i} :
        /\ k \in Pending' <=> k \in Pending
        /\ k \in Selected' <=> k \in Selected
  BY <1>0 DEF Pending, Selected, Same
<1>4. Left(j, Q)' \subseteq RowsOf(j)
  BY <1>0, <1>1 DEF Left, RowsOf
\* What is left without i.
<1>5. CASE i \in Q \/ i \notin RowsOf(j)
  <2>1. Q \ {i} \in SUBSET Pending
    BY <1>3 DEF Pending
  <2>2. ASSUME NEW r \in Left(j, Q)'
        PROVE  r \in Left(j, Q \ {i})
    <3>1. /\ r \in Invocations /\ r \in RowsOf(j) /\ r \in Selected' /\ r \notin Q
          /\ runs[r] # "none" /\ runs'[r] # "none" /\ r # i
      BY <1>1, <1>4, <1>5, <2>2 DEF Left, RowsOf
    <3>2. ASSUME NEW k \in Pending \ (Q \ {i}) PROVE r \notin Prunes(k)
      <4>1. k \in Invocations /\ k # i /\ k \in Pending' /\ k \notin Q /\ Same(k)
        BY <1>0, <1>2, <1>3, <3>2 DEF Pending
      <4>2. r \notin Prunes(k)'
        BY <2>2, <4>1 DEF Left
      <4> QED
        BY <3>1, <4>1, <4>2, PrunesSame
    <3> QED
      BY <1>3, <3>1, <3>2 DEF Left
  <2> QED
    BY <2>1, <2>2, LeftShrinks
\* What is left of the job that i prunes.
<1>6. CASE i \notin Q /\ i \in RowsOf(j)
  <2>1. job[i] = j /\ RowsOf(j) \in SUBSET Invocations
    BY <1>6 DEF RowsOf
  <2>2. CASE Cardinality(RowsOf(j)) <= Keep
    <3>1. Left(j, Q)' \in SUBSET RowsOf(j)
      BY <1>4
    <3>2. Cardinality(Left(j, Q)') <= Cardinality(RowsOf(j))
      BY <2>1, <3>1, RowsFinite, FS_Subset
    <3>3. Cardinality(Left(j, Q)') \in Nat
      BY <2>1, <3>1, RowsFinite
    <3> QED
      BY <2>1, <2>2, <3>2, <3>3, RowsFinite, WorkerAssumption
  <2>3. CASE ~(Cardinality(RowsOf(j)) <= Keep)
    <3>1. /\ phase'[i] = "ids"
          /\ \E q \in RowsOf(j) :
               /\ Cardinality(NewerThan(q)) = Keep - 1
               /\ cutoff' = [cutoff EXCEPT ![i] = started[q]]
      BY <1>0, <1>1, <2>1, <2>3 DEF SelectCutoff, Goto
    <3>2. PICK q \in RowsOf(j) :
               /\ Cardinality(NewerThan(q)) = Keep - 1
               /\ cutoff' = [cutoff EXCEPT ![i] = started[q]]
      BY <3>1
    <3>3. q \in Invocations /\ job[q] = j /\ runs[q] # "none"
      BY <3>2 DEF RowsOf
    <3>4. ASSUME NEW r \in Left(j, Q)' PROVE r \in NewerThan(q) \cup {q}
      <4>1. r \in RowsOf(j) /\ r \in Invocations /\ job[r] = j /\ runs[r] # "none"
        BY <1>4, <3>4 DEF RowsOf
      <4>2. i \in Pending' \ Q
        BY <1>6, <3>1 DEF Pending
      <4>3. r \notin OlderRows(i)'
        BY <3>1, <3>4, <4>2 DEF Left, Prunes
      <4>4. ~(started[r] < started[q])
        BY <1>0, <1>1, <2>1, <3>2, <4>1, <4>3 DEF OlderRows, RowsOf
      <4>5. started[r] = started[q] => r = q
        BY <3>3, <4>1 DEF RowsInv
      <4> QED
        BY <1>0, <3>3, <4>1, <4>4, <4>5 DEF NewerThan
    <3>5. NewerThan(q) \in SUBSET Invocations
      BY DEF NewerThan, RowsOf
    <3>6. NewerThan(q) \cup {q} \in SUBSET Invocations
      BY <3>3, <3>5
    <3>7. Cardinality(NewerThan(q) \cup {q}) <= Keep
      <4>1. Cardinality(NewerThan(q) \cup {q}) =
              IF q \in NewerThan(q) THEN Cardinality(NewerThan(q))
              ELSE Cardinality(NewerThan(q)) + 1
        BY <3>5, RowsFinite, FS_AddElement
      <4> QED
        BY <3>2, <4>1, WorkerAssumption
    <3>8. Left(j, Q)' \in SUBSET (NewerThan(q) \cup {q})
      BY <3>4
    <3>9. /\ Cardinality(Left(j, Q)') <= Cardinality(NewerThan(q) \cup {q})
          /\ Cardinality(Left(j, Q)') \in Nat
          /\ Cardinality(NewerThan(q) \cup {q}) \in Nat
      BY <3>6, <3>8, RowsFinite, FS_Subset
    <3> QED
      BY <3>7, <3>9, WorkerAssumption
  <2> QED
    BY <2>2, <2>3
<1> QED
  BY <1>5, <1>6

LEMMA BoundInvStays ==
  ASSUME PoolInv, RowsInv, BoundInv, [Next]_vars
  PROVE  BoundInv'
<1>0. /\ Types /\ phase \in [Invocations -> Phases] /\ errors \in Nat
      /\ runs \in [Invocations -> RunStatus \cup {"none"}]
      /\ persisted \in [Invocations -> BOOLEAN]
  BY DEF PoolInv, Types, ExecTypes, Counts, DbTypes
<1>1. errors' = 0 => errors = 0
  <2>1. errors' = errors \/ errors' = errors + 1
    <3>1. CASE \E i \in Invocations : ExecStep(i)
      BY <3>1, ExecLeaves DEF DbError
    <3>2. CASE ~(\E i \in Invocations : ExecStep(i))
      BY <3>2
      DEF Next, Trigger, DispatchStep, Enqueue, Wake, Receive, Dispatch, Suspend,
          Cancel, Stop, ShutdownStep, Drain, Drained, DrainTimesOut, Exit, Crash,
          Die, BootStep, BootMark, BootClean, DbError, SixHoursPass, vars
    <3> QED
      BY <3>1, <3>2
  <2> QED
    BY <1>0, <2>1
<1> SUFFICES ASSUME errors = 0, errors' = 0, NEW j \in Jobs, NEW Q \in SUBSET Pending'
             PROVE  Cardinality(Left(j, Q)') <= Keep
  BY <1>1 DEF BoundInv
<1>2. CASE OutsideMoves
  BY <1>2, OutsideBound
<1>3. ASSUME NEW i \in Invocations, ExecStep(i)
      PROVE  Cardinality(Left(j, Q)') <= Keep
  <2>1. CASE SelectCutoff(i)
    BY <2>1, CutoffBound
  <2>2. CASE SelectIds(i) \/ DeleteSelected(i)
    BY <2>2, PruneBound
  <2>3. CASE ~SelectCutoff(i) /\ ~SelectIds(i) /\ ~DeleteSelected(i)
    <3>1. /\ i \notin Pending /\ i \notin Pending'
          /\ i \in Selected' => i \in Selected \/ (CloseLog(i) /\ ~persisted[i])
      BY <1>0, <1>3, <2>3
      DEF ExecStep, Start, InsertRun, WriteLogs, HandlerEnds, CloseLog, FinishRun,
          Reclaim, EndRun, PruneFails, DbError, Goto, Pending, Selected
    <3>2. CASE InsertRun(i)
      <4>1. /\ i \notin Selected /\ i \notin Selected'
            /\ \A r \in Invocations \ {i} : runs'[r] # "none" => runs[r] # "none"
        BY <1>0, <3>2 DEF InsertRun, Goto, Selected
      <4> QED
        BY <1>3, <3>1, <4>1, FrameBound
    <3>3. CASE ~InsertRun(i)
      <4>1. \A r \in Invocations : runs'[r] # "none" => runs[r] # "none"
        BY <1>0, <1>3, <2>3, <3>3, RowsMove
      <4>2. i \in Selected' /\ runs'[i] # "none" => i \in Selected
        BY <3>1, <4>1 DEF RowsInv
      <4> QED
        BY <1>3, <3>1, <4>1, <4>2, FrameBound
    <3> QED
      BY <3>2, <3>3
  <2> QED
    BY <2>1, <2>2, <2>3
<1> QED
  BY <1>2, <1>3, StepsMove

\* Without failing writes at most Keep executions of a job that came to
\* their end are listed, however they overlapped.
THEOREM HistoryBoundedHolds == Spec => []HistoryBounded
<1>1. Init => BoundInv
  <2> SUFFICES ASSUME Init, NEW j \in Jobs, NEW Q \in SUBSET Pending
               PROVE  Cardinality(Left(j, Q)) <= Keep
    BY DEF BoundInv
  <2>1. Left(j, Q) = {}
    BY DEF Init, Left, RowsOf
  <2> QED
    BY <2>1, FS_EmptySet, WorkerAssumption
<1>2. PoolInv /\ RowsInv /\ BoundInv /\ [Next]_vars => BoundInv'
  BY BoundInvStays
<1>3. BoundInv => HistoryBounded
  <2> SUFFICES ASSUME BoundInv, errors = 0, NEW j \in Jobs
               PROVE  Cardinality({i \in RowsOf(j) : phase[i] = "done"}) <= Keep
    BY DEF HistoryBounded
  <2>1. {i \in RowsOf(j) : phase[i] = "done"} \subseteq Left(j, Pending)
    BY DEF Left, RowsOf, Selected, Pending
  <2> QED
    BY <2>1, LeftShrinks
<1> QED
  BY <1>1, <1>2, <1>3, PoolInvHolds, RowsInvHolds, PTL DEF Spec

-----------------------------------------------------------------------------
(***************************************************************************)
(* No invocation is forgotten.  What was accepted and not spawned is with  *)
(* the dispatch loop, in the queue or with a sender that waits for room,   *)
(* so that the invocation that is dispatched is the oldest one there is.   *)
(***************************************************************************)
Placed(i) ==
  \/ held = i
  \/ \E m \in 1 .. Len(queue) : queue[m] = i
  \/ \E m \in 1 .. Len(senders) : senders[m] = i

PlacedInv == \A i \in Invocations : phase[i] = "accepted" => Placed(i)

LEMMA PlacedStays ==
  ASSUME PoolInv, PlacedInv, [Next]_vars
  PROVE  PlacedInv'
<1>0. /\ Types /\ QueueInv /\ phase \in [Invocations -> Phases]
      /\ queue \in Seq(Invocations) /\ senders \in Seq(Invocations)
      /\ Len(queue) \in Nat /\ Len(senders) \in Nat
  BY QueueNumbers DEF PoolInv, Types, ExecTypes, QueueTypes
<1>1. ASSUME UNCHANGED <<held, queue, senders>>,
             \A i \in Invocations : phase'[i] = "accepted" => phase[i] = "accepted"
      PROVE  PlacedInv'
  BY <1>1 DEF PlacedInv, Placed
<1>2. ASSUME NEW i \in Invocations, ExecStep(i) PROVE PlacedInv'
  <2>1. \A q \in Invocations : phase'[q] = "accepted" => phase[q] = "accepted"
    BY <1>0, <1>2, ExecMoves DEF ExecPhases
  <2> QED
    BY <1>0, <1>1, <1>2, <2>1, ExecLeaves DEF queueVars
<1>3. CASE Trigger
  <2>0. triggered + 1 \in Invocations
    BY <1>0, <1>3, WorkerAssumption DEF Trigger, Invocations, Types, QueueTypes
  <2>1. PICK next \in Invocations :
          /\ senders' = Append(senders, next)
          /\ phase' = [phase EXCEPT ![next] = "accepted"]
          /\ UNCHANGED <<held, queue>>
    BY <1>3, <2>0 DEF Trigger
  <2>2. /\ Len(senders') = Len(senders) + 1
        /\ \A m \in 1 .. Len(senders) : senders'[m] = senders[m]
        /\ senders'[Len(senders) + 1] = next
    BY <1>0, <2>1
  <2>3. ASSUME NEW i \in Invocations, phase'[i] = "accepted" PROVE Placed(i)'
    <3>1. CASE i = next
      <4>1. Len(senders') \in 1 .. Len(senders') /\ senders'[Len(senders')] = next
        BY <1>0, <2>2
      <4> QED
        BY <3>1, <4>1 DEF Placed
    <3>2. CASE i # next
      <4>1. Placed(i)
        BY <1>0, <2>1, <2>3, <3>2 DEF PlacedInv
      <4> QED
        BY <1>0, <2>1, <2>2, <4>1 DEF Placed
    <3> QED
      BY <3>1, <3>2
  <2> QED
    BY <2>3 DEF PlacedInv
<1>4. CASE Enqueue
  <2>1. /\ senders' = Tail(senders) /\ queue' = Append(queue, senders[1])
        /\ senders # <<>>
        /\ UNCHANGED <<held, phase>>
    BY <1>4 DEF Enqueue
  <2>2. /\ Len(senders) # 0
        /\ Len(senders') = Len(senders) - 1
        /\ \A m \in 1 .. Len(senders') : senders'[m] = senders[m + 1]
    BY <1>0, <2>1
  <2>3. /\ Len(queue') = Len(queue) + 1
        /\ \A m \in 1 .. Len(queue) : queue'[m] = queue[m]
        /\ queue'[Len(queue) + 1] = senders[1]
    BY <1>0, <2>1, <2>2
  <2>4. ASSUME NEW i, NEW m \in 1 .. Len(senders), senders[m] = i PROVE Placed(i)'
    <3>1. CASE m = 1
      <4>1. Len(queue') \in 1 .. Len(queue') /\ queue'[Len(queue')] = i
        BY <1>0, <2>3, <2>4, <3>1
      <4> QED
        BY <4>1 DEF Placed
    <3>2. CASE m # 1
      <4>1. m - 1 \in 1 .. Len(senders') /\ senders'[m - 1] = i
        BY <1>0, <2>2, <2>4, <3>2
      <4> QED
        BY <4>1 DEF Placed
    <3> QED
      BY <3>1, <3>2
  <2>5. ASSUME NEW i \in Invocations, Placed(i) PROVE Placed(i)'
    <3>1. CASE \E m \in 1 .. Len(senders) : senders[m] = i
      BY <2>4, <3>1
    <3>2. ASSUME NEW m \in 1 .. Len(queue), queue[m] = i PROVE Placed(i)'
      <4>1. m \in 1 .. Len(queue') /\ queue'[m] = i
        BY <1>0, <2>3, <3>2
      <4> QED
        BY <4>1 DEF Placed
    <3>3. CASE held = i
      BY <2>1, <3>3 DEF Placed
    <3> QED
      BY <2>5, <3>1, <3>2, <3>3 DEF Placed
  <2> QED
    BY <2>1, <2>5 DEF PlacedInv
<1>5. CASE Receive
  <2>1. /\ queue' = Tail(queue) /\ held' = queue[1] /\ queue # <<>> /\ held = 0
        /\ UNCHANGED <<senders, phase>>
    BY <1>5 DEF Receive
  <2>2. /\ Len(queue) # 0
        /\ Len(queue') = Len(queue) - 1
        /\ \A m \in 1 .. Len(queue') : queue'[m] = queue[m + 1]
    BY <1>0, <2>1
  <2>3. ASSUME NEW i, NEW m \in 1 .. Len(queue), queue[m] = i PROVE Placed(i)'
    <3>1. CASE m = 1
      BY <2>1, <2>3, <3>1 DEF Placed
    <3>2. CASE m # 1
      <4>1. m - 1 \in 1 .. Len(queue') /\ queue'[m - 1] = i
        BY <1>0, <2>2, <2>3, <3>2
      <4> QED
        BY <4>1 DEF Placed
    <3> QED
      BY <3>1, <3>2
  <2>4. ASSUME NEW i \in Invocations, Placed(i) PROVE Placed(i)'
    <3>1. held # i
      BY <1>0, <2>1, QueueNumbers
    <3>2. CASE \E m \in 1 .. Len(queue) : queue[m] = i
      BY <2>3, <3>2
    <3>3. CASE \E m \in 1 .. Len(senders) : senders[m] = i
      BY <2>1, <3>3 DEF Placed
    <3> QED
      BY <2>4, <3>1, <3>2, <3>3 DEF Placed
  <2> QED
    BY <2>1, <2>4 DEF PlacedInv
<1>6. CASE Dispatch
  <2>1. /\ held \in Invocations
        /\ phase' = [phase EXCEPT ![held] = "spawned"]
        /\ UNCHANGED <<queue, senders>>
    BY <1>0, <1>6, QueueNumbers DEF Dispatch
  <2> QED
    BY <1>0, <2>1 DEF PlacedInv, Placed
<1>7. CASE Cancel \/ Exit \/ Crash
  BY <1>0, <1>7 DEF Cancel, Exit, Crash, Die, Unspawned, ExecPhases, PlacedInv
<1>8. CASE \/ Wake \/ Suspend \/ Stop \/ Drain \/ Drained \/ DrainTimesOut \/ BootStep
           \/ SixHoursPass \/ UNCHANGED vars
  <2>1. UNCHANGED <<held, queue, senders, phase>>
    BY <1>8
    DEF Wake, Suspend, Stop, Drain, Drained, DrainTimesOut, BootStep, BootMark, BootClean,
        SixHoursPass, vars, queueVars
  <2> QED
    BY <1>1, <2>1
<1> QED
  BY <1>2, <1>3, <1>4, <1>5, <1>6, <1>7, <1>8 DEF Next, DispatchStep, ShutdownStep

LEMMA PlacedInvHolds == Spec => [](PoolInv /\ PlacedInv)
<1>1. Init => PlacedInv
  BY DEF Init, PlacedInv
<1>2. PoolInv /\ PlacedInv /\ [Next]_vars => PlacedInv'
  BY PlacedStays
<1> QED
  BY <1>1, <1>2, PoolInvHolds, PTL DEF Spec

\* An execution that has begun does not begin again.
LEMMA NoneBeginsAgain ==
  ASSUME Types, NEW i \in Invocations, ExecStep(i)
  PROVE  phase'[i] = phase[i] \/ phase'[i] # "spawned"
<1> USE DEF Goto, Types, ExecTypes
<1>1. ASSUME \/ Start(i) \/ InsertRun(i) \/ WriteLogs(i) \/ HandlerEnds(i)
             \/ CloseLog(i) \/ FinishRun(i) \/ EndRun(i)
      PROVE  phase'[i] = phase[i] \/ phase'[i] # "spawned"
  BY <1>1
  DEF Start, InsertRun, WriteLogs, HandlerEnds, CloseLog, FinishRun, EndRun
<1>2. ASSUME Reclaim(i) \/ SelectCutoff(i) \/ SelectIds(i) \/ DeleteSelected(i)
      PROVE  phase'[i] # "spawned"
  BY <1>2 DEF Reclaim, SelectCutoff, SelectIds, DeleteSelected, PruneFails
<1> QED
  BY <1>1, <1>2 DEF ExecStep

\* Dispatch in order: what the worker begins to execute was accepted before,
\* was never begun, and nothing that was accepted earlier still waits, in the
\* loop's hand, in the full queue or with a caller that waits for room.
Begun(k) == phase[k] # "spawned" /\ phase'[k] = "spawned"

ServedInOrder ==
  [][\A k \in Invocations : Begun(k) =>
       /\ phase[k] = "accepted"
       /\ \A i \in Invocations : phase[i] = "accepted" => k <= i]_vars

THEOREM ServedInOrderHolds == Spec => ServedInOrder
<1>1. ASSUME PoolInv, PlacedInv, [Next]_vars, NEW k \in Invocations, Begun(k)
      PROVE  /\ phase[k] = "accepted"
             /\ \A i \in Invocations : phase[i] = "accepted" => k <= i
  <2>0. Types /\ QueueInv /\ phase \in [Invocations -> Phases]
    BY <1>1 DEF PoolInv, Types, ExecTypes
  <2>1. ASSUME NEW i \in Invocations, ExecStep(i) PROVE FALSE
    BY <1>1, <2>0, <2>1, NoneBeginsAgain, ExecMoves DEF Begun
  <2>2. ~Trigger
    BY <1>1, <2>0 DEF Trigger, Begun
  <2>3. ~(Cancel \/ Exit \/ Crash)
    BY <1>1, <2>0 DEF Cancel, Exit, Crash, Die, Unspawned, Begun
  <2>4. ~(\/ Enqueue \/ Wake \/ Receive \/ Suspend \/ Stop \/ Drain \/ Drained
          \/ DrainTimesOut \/ BootStep \/ SixHoursPass \/ UNCHANGED vars)
    BY <1>1
    DEF Enqueue, Wake, Receive, Suspend, Stop, Drain, Drained, DrainTimesOut, BootStep,
        BootMark, BootClean, SixHoursPass, vars, Begun
  <2>5. Dispatch
    BY <1>1, <2>1, <2>2, <2>3, <2>4 DEF Next, DispatchStep, ShutdownStep
  <2>6. k = held /\ Waits(held)
    BY <1>1, <2>0, <2>5, QueueNumbers DEF Dispatch, QueueInv, Begun
  <2>7. ASSUME NEW i \in Invocations, phase[i] = "accepted" PROVE k <= i
    <3>1. Placed(i)
      BY <1>1, <2>7 DEF PlacedInv
    <3>2. \A m \in 1 .. Len(queue) : held < queue[m]
      BY <2>0 DEF QueueInv
    <3>3. \A m \in 1 .. Len(senders) : held < senders[m]
      BY <2>0 DEF QueueInv
    <3>4. k = i \/ k < i
      BY <2>6, <3>1, <3>2, <3>3 DEF Placed
    <3> QED
      BY <2>0, <3>4, QueueNumbers
  <2> QED
    BY <2>6, <2>7 DEF Waits
<1>2. PoolInv /\ PlacedInv /\ [Next]_vars =>
        [\A k \in Invocations : Begun(k) =>
           /\ phase[k] = "accepted"
           /\ \A i \in Invocations : phase[i] = "accepted" => k <= i]_vars
  BY <1>1
<1> QED
  BY <1>2, PlacedInvHolds, PTL DEF Spec, ServedInOrder
=====
