---------------------------- MODULE RunLogProofs ----------------------------
(***************************************************************************)
(* Proofs about RunLog.tla, for every limit, every channel size and every  *)
(* number of lines, foreign events and failed inserts.                     *)
(***************************************************************************)
EXTENDS RunLog, FiniteSetTheorems, TLAPS

-----------------------------------------------------------------------------
(***************************************************************************)
(* The sink.  Whatever flush does with a buffer p and a flag t is one of   *)
(* three moves.                                                            *)
(***************************************************************************)
SinkMove(p, t) == Hold(p, t) \/ Persist(p, t) \/ Retain(p, t)

LEMMA FlushIsMove ==
  ASSUME NEW p, NEW t, Flush(p, t)
  PROVE  SinkMove(p, t)
BY DEF Flush, SinkMove

LEMMA FlushIfFullIsMove ==
  ASSUME NEW p, NEW t, FlushIfFull(p, t)
  PROVE  SinkMove(p, t)
BY DEF FlushIfFull, Flush, SinkMove

(***************************************************************************)
(* What the execution task may do to the sink in one step: nothing, or one *)
(* move on its buffer with at most one line added.                         *)
(***************************************************************************)
LEMMA NoteLostMoves ==
  ASSUME NoteLost
  PROVE  \/ UNCHANGED sinkVars
         \/ /\ enabled
            /\ ~truncated
            /\ SinkMove(Append(pending, NoticeLine), TRUE)
BY FlushIfFullIsMove DEF NoteLost

LEMMA ConsumeMoves ==
  ASSUME NEW e, Consume(e)
  PROVE  \/ UNCHANGED sinkVars
         \/ /\ enabled
            /\ ~truncated
            /\ SinkMove(Append(pending, NoticeLine), TRUE)
         \/ /\ enabled
            /\ e # 0
            /\ logCount < MaxLogPerRun \/ ~(logCount >= MaxLogPerRun)
            /\ SinkMove(Append(pending, HandlerLine(e)), truncated)
BY FlushIfFullIsMove DEF Consume, AppendLine, SinkMove

-----------------------------------------------------------------------------
(***************************************************************************)
(* Types.                                                                  *)
(***************************************************************************)
SinkTypeOK ==
  /\ seq \in Nat
  /\ logCount \in Nat
  /\ truncated \in BOOLEAN
  /\ pending \in Seq(Line)
  /\ logs \in Seq(LogRow)
  /\ writeErrors \in Nat

LEMMA LinesTyped ==
  /\ NoticeLine \in Line
  /\ FailureLine \in Line
  /\ \A c \in Nat : HandlerLine(c) \in Line
BY DEF NoticeLine, FailureLine, HandlerLine, Line

LEMMA RowsOfTyped ==
  ASSUME SinkTypeOK, NEW p \in Seq(Line)
  PROVE  /\ RowsOf(p) \in Seq(LogRow)
         /\ Len(RowsOf(p)) = Len(p)
<1>1. \A i \in 1 .. Len(p) :
        [seq |-> seq + i, kind |-> p[i].kind, cap |-> p[i].cap] \in LogRow
  <2> SUFFICES ASSUME NEW i \in 1 .. Len(p)
               PROVE [seq |-> seq + i, kind |-> p[i].kind, cap |-> p[i].cap] \in LogRow
    OBVIOUS
  <2>1. p[i] \in Line
    OBVIOUS
  <2> QED BY <2>1 DEF Line, LogRow, SinkTypeOK
<1> QED BY <1>1 DEF RowsOf

LEMMA NewestTyped ==
  ASSUME NEW p \in Seq(Line)
  PROVE  /\ Newest(p) \in Seq(Line)
         /\ Len(Newest(p)) = IF Len(p) > MaxPending THEN MaxPending ELSE Len(p)
         /\ \A i \in 1 .. Len(Newest(p)) :
              Newest(p)[i] = p[i + (Len(p) - Len(Newest(p)))]
<1>1. MaxPending \in Nat
  BY LimitsAssumption
<1>2. CASE Len(p) > MaxPending
  <2>1. /\ Len(p) - MaxPending + 1 \in 1 .. Len(p) + 1
        /\ Len(p) \in Nat
    BY <1>1, <1>2
  <2>2. Newest(p) = SubSeq(p, Len(p) - MaxPending + 1, Len(p))
    BY <1>2 DEF Newest
  <2> QED BY <1>1, <1>2, <2>1, <2>2
<1>3. CASE ~(Len(p) > MaxPending)
  BY <1>1, <1>3 DEF Newest
<1> QED BY <1>2, <1>3

LEMMA CountedFinite ==
  ASSUME NEW p, Len(p) \in Nat
  PROVE  /\ IsFiniteSet(Counted(p))
         /\ Cardinality(Counted(p)) \in Nat
         /\ Cardinality(Counted(p)) <= Len(p)
<1>a. 1 \in Int /\ Len(p) \in Int /\ (1 > Len(p) => Len(p) = 0)
  OBVIOUS
<1>b. /\ IsFiniteSet(1 .. Len(p))
      /\ Cardinality(1 .. Len(p)) = IF 1 > Len(p) THEN 0 ELSE Len(p) - 1 + 1
  BY <1>a, FS_Interval, Zenon
<1>1. /\ IsFiniteSet(1 .. Len(p))
      /\ Cardinality(1 .. Len(p)) = Len(p)
  BY <1>a, <1>b
<1>2. Counted(p) \in SUBSET (1 .. Len(p))
  BY DEF Counted
<1>3. /\ IsFiniteSet(Counted(p))
      /\ Cardinality(Counted(p)) <= Cardinality(1 .. Len(p))
  BY <1>1, <1>2, FS_Subset
<1> QED BY <1>1, <1>3, FS_CardinalityType

LEMMA SinkMoveTyped ==
  ASSUME SinkTypeOK,
         NEW p \in Seq(Line), NEW t \in BOOLEAN,
         SinkMove(p, t)
  PROVE  SinkTypeOK'
<1>1. CASE Hold(p, t)
  BY <1>1 DEF Hold, SinkTypeOK
<1>2. CASE Persist(p, t)
  <2>1. Len(p) \in Nat
    OBVIOUS
  <2>2. logs' \in Seq(LogRow)
    BY <1>2, RowsOfTyped DEF Persist, SinkTypeOK
  <2>3. logCount' \in Nat
    BY <1>2, <2>1, CountedFinite DEF Persist, SinkTypeOK
  <2>4. <<>> \in Seq(Line)
    OBVIOUS
  <2> QED BY <1>2, <2>1, <2>2, <2>3, <2>4 DEF Persist, SinkTypeOK
<1>3. CASE Retain(p, t)
  <2>1. truncated' \in BOOLEAN
    BY <1>3 DEF Retain
  <2> QED BY <1>3, <2>1, NewestTyped DEF Retain, SinkTypeOK
<1> QED BY <1>1, <1>2, <1>3 DEF SinkMove

LEMMA SendTyped ==
  ASSUME chan \in Seq(Nat), lost \in Nat, NEW e \in Nat, Send(e)
  PROVE  chan' \in Seq(Nat) /\ lost' \in Nat
<1>1. ChannelSize \in Nat \ {0}
  BY LimitsAssumption
<1>2. CASE Len(chan) < ChannelSize
  BY <1>2 DEF Send
<1>3. CASE ~(Len(chan) < ChannelSize)
  <2>1. chan # <<>>
    BY <1>1, <1>3
  <2>2. Tail(chan) \in Seq(Nat)
    BY <2>1
  <2>3. Append(Tail(chan), e) \in Seq(Nat)
    BY <2>2
  <2>4. chan' = Append(Tail(chan), e) /\ lost' = lost + 1
    BY <1>3 DEF Send
  <2> QED BY <2>3, <2>4
<1> QED BY <1>2, <1>3

LEMMA RunTyped ==
  /\ NoRun \in [status : Status, logCount : Nat, truncated : BOOLEAN]
  /\ [NoRun EXCEPT !.status = "running"]
       \in [status : Status, logCount : Nat, truncated : BOOLEAN]
<1>1. /\ "absent" \in Status
      /\ "running" \in Status
      /\ 0 \in Nat
      /\ FALSE \in BOOLEAN
  BY DEF Status
<1>2. NoRun \in [status : Status, logCount : Nat, truncated : BOOLEAN]
  BY <1>1 DEF NoRun
<1> QED BY <1>1, <1>2

LEMMA TypeStep == TypeOK /\ [Next]_vars => TypeOK'
<1> SUFFICES ASSUME TypeOK, [Next]_vars
             PROVE  TypeOK'
  OBVIOUS
<1>0. SinkTypeOK
  BY DEF TypeOK, SinkTypeOK
<1>s. ASSUME UNCHANGED sinkVars
      PROVE  SinkTypeOK'
  BY <1>0, <1>s DEF sinkVars, SinkTypeOK
<1>n. ASSUME SinkMove(Append(pending, NoticeLine), TRUE)
      PROVE  SinkTypeOK'
  <2>1. Append(pending, NoticeLine) \in Seq(Line)
    BY LinesTyped DEF TypeOK
  <2> QED BY <1>0, <1>n, <2>1, SinkMoveTyped
<1>1. CASE RegisterRun
  <2>1. chan' \in Seq(Nat) /\ lost' \in Nat
    BY <1>1, SendTyped DEF RegisterRun, TypeOK
  <2>2. run' \in [status : Status, logCount : Nat, truncated : BOOLEAN]
    BY <1>1, RunTyped DEF RegisterRun, TypeOK
  <2>3. SinkTypeOK'
    BY <1>1, <1>s DEF RegisterRun
  <2>4. enabled' \in BOOLEAN
    BY <1>1 DEF RegisterRun, TypeOK
  <2> QED BY <1>1, <2>1, <2>2, <2>3, <2>4 DEF RegisterRun, TypeOK, SinkTypeOK
<1>2. CASE ReceiveLag
  <2>1. SinkTypeOK'
    BY <1>2, <1>s, <1>n, NoteLostMoves DEF ReceiveLag
  <2> QED BY <1>2, <2>1 DEF ReceiveLag, TypeOK, SinkTypeOK
<1>3. CASE ReceiveEvent
  <2>1. /\ Head(chan) \in Nat
        /\ Tail(chan) \in Seq(Nat)
    BY <1>3 DEF ReceiveEvent, TypeOK
  <2>2. Append(pending, HandlerLine(Head(chan))) \in Seq(Line)
    BY <2>1, LinesTyped DEF TypeOK
  <2>3. SinkTypeOK'
    <3>1. Consume(Head(chan))
      BY <1>3 DEF ReceiveEvent
    <3>2. ASSUME SinkMove(Append(pending, HandlerLine(Head(chan))), truncated)
          PROVE  SinkTypeOK'
      BY <1>0, <2>2, <3>2, SinkMoveTyped DEF TypeOK
    <3> QED BY <3>1, <3>2, <1>s, <1>n, ConsumeMoves
  <2> QED BY <1>3, <2>1, <2>3 DEF ReceiveEvent, TypeOK, SinkTypeOK
<1>4. CASE IdleFlush
  <2>1. SinkTypeOK'
    BY <1>0, <1>4, FlushIsMove, SinkMoveTyped DEF IdleFlush, TypeOK
  <2> QED BY <1>4, <2>1 DEF IdleFlush, busVars, TypeOK, SinkTypeOK
<1>5. CASE HandlerDone
  BY <1>5, <1>s DEF HandlerDone, busVars, TypeOK, SinkTypeOK
<1>6. CASE DrainEmpty
  BY <1>6, <1>s DEF DrainEmpty, busVars, TypeOK, SinkTypeOK
<1>7. CASE CloseSink
  <2> DEFINE p == IF enabled /\ handler = "err"
                    THEN Append(pending, FailureLine) ELSE pending
  <2>1. p \in Seq(Line)
    BY LinesTyped DEF TypeOK
  <2>2. Flush(p, truncated)
    BY <1>7 DEF CloseSink
  <2>3. SinkTypeOK'
    BY <1>0, <2>1, <2>2, FlushIsMove, SinkMoveTyped DEF TypeOK
  <2> QED BY <1>7, <2>3 DEF CloseSink, busVars, TypeOK, SinkTypeOK
<1>8. CASE FinishRun
  <2>1. SinkTypeOK'
    BY <1>8, <1>s DEF FinishRun
  <2>2. run' \in [status : Status, logCount : Nat, truncated : BOOLEAN]
    BY <1>8 DEF FinishRun, TypeOK, Status
  <2> QED BY <1>8, <2>1, <2>2 DEF FinishRun, busVars, TypeOK, SinkTypeOK
<1>9. CASE HandlerLogs
  <2>1. chan' \in Seq(Nat) /\ lost' \in Nat
    BY <1>9, SendTyped DEF HandlerLogs, TypeOK
  <2> QED BY <1>9, <1>s, <2>1 DEF HandlerLogs, TypeOK, SinkTypeOK
<1>10. CASE HandlerEnds
  BY <1>10, <1>s DEF HandlerEnds, busVars, TypeOK, SinkTypeOK
<1>11. CASE ForeignEvent
  <2>1. chan' \in Seq(Nat) /\ lost' \in Nat
    BY <1>11, SendTyped DEF ForeignEvent, TypeOK
  <2> QED BY <1>11, <1>s, <2>1 DEF ForeignEvent, TypeOK, SinkTypeOK
<1>12. CASE UNCHANGED vars
  BY <1>12 DEF vars, TypeOK
<1> QED BY <1>1, <1>2, <1>3, <1>4, <1>5, <1>6, <1>7, <1>8, <1>9, <1>10,
           <1>11, <1>12 DEF Next, TaskStep

\* Every variable of the model keeps its type, for every limit.
THEOREM TypeCorrect == Spec => []TypeOK
<1>1. Init => TypeOK
  <2> SUFFICES ASSUME Init
               PROVE  TypeOK
    OBVIOUS
  <2>1. /\ chan \in Seq(Nat)
        /\ pending \in Seq(Line)
        /\ logs \in Seq(LogRow)
    <3>1. /\ <<>> \in Seq(Nat)
          /\ <<>> \in Seq(Line)
          /\ <<>> \in Seq(LogRow)
      OBVIOUS
    <3> QED BY <3>1, Zenon DEF Init
  <2>2. run \in [status : Status, logCount : Nat, truncated : BOOLEAN]
    BY RunTyped DEF Init
  <2>3. enabled \in BOOLEAN /\ truncated \in BOOLEAN
    BY DEF Init
  <2>4. /\ captured \in Nat /\ lost \in Nat /\ seq \in Nat
        /\ logCount \in Nat /\ foreign \in Nat /\ writeErrors \in Nat
    BY DEF Init
  <2>5. phase = "register" /\ handler = "idle"
    BY DEF Init
  <2> QED BY <2>1, <2>2, <2>3, <2>4, <2>5 DEF TypeOK
<1> QED BY <1>1, TypeStep, PTL DEF Spec

-----------------------------------------------------------------------------
(***************************************************************************)
(* The numbers of the rows.                                                *)
(***************************************************************************)

\* Nothing but a move of the sink touches its variables.
LEMMA SinkOnlyMoves ==
  ASSUME TypeOK, [Next]_vars
  PROVE  \/ UNCHANGED sinkVars
         \/ \E p \in Seq(Line), t \in BOOLEAN : SinkMove(p, t)
<1>1. /\ pending \in Seq(Line)
      /\ truncated \in BOOLEAN
      /\ TRUE \in BOOLEAN
      /\ Append(pending, NoticeLine) \in Seq(Line)
      /\ Append(pending, FailureLine) \in Seq(Line)
  BY LinesTyped DEF TypeOK
<1>2. CASE ReceiveLag
  BY <1>1, <1>2, NoteLostMoves DEF ReceiveLag
<1>3. CASE ReceiveEvent
  <2>1. Head(chan) \in Nat
    BY <1>3 DEF ReceiveEvent, TypeOK
  <2>2. Append(pending, HandlerLine(Head(chan))) \in Seq(Line)
    BY <1>1, <2>1, LinesTyped
  <2>3. Consume(Head(chan))
    BY <1>3 DEF ReceiveEvent
  <2> QED BY <1>1, <2>2, <2>3, ConsumeMoves
<1>4. CASE IdleFlush
  BY <1>1, <1>4, FlushIsMove DEF IdleFlush
<1>5. CASE CloseSink
  BY <1>1, <1>5, FlushIsMove DEF CloseSink
<1>6. CASE RegisterRun \/ HandlerDone \/ DrainEmpty \/ FinishRun
           \/ HandlerLogs \/ HandlerEnds \/ ForeignEvent
  BY <1>6 DEF RegisterRun, HandlerDone, DrainEmpty, FinishRun,
              HandlerLogs, HandlerEnds, ForeignEvent
<1>7. CASE UNCHANGED vars
  BY <1>7 DEF vars, sinkVars
<1> QED BY <1>2, <1>3, <1>4, <1>5, <1>6, <1>7 DEF Next, TaskStep

LEMMA ConcatParts ==
  ASSUME NEW S, NEW s \in Seq(S), NEW u \in Seq(S)
  PROVE  /\ Len(s \o u) = Len(s) + Len(u)
         /\ \A i \in 1 .. Len(s) : (s \o u)[i] = s[i]
         /\ \A i \in 1 .. Len(u) : (s \o u)[Len(s) + i] = u[i]
OBVIOUS

\* What a persisted batch looks like behind the rows that are there already.
RowsAdded(p) ==
  /\ Len(logs') = Len(logs) + Len(p)
  /\ \A i \in 1 .. Len(logs) : logs'[i] = logs[i]
  /\ \A i \in 1 .. Len(p) :
       /\ logs'[Len(logs) + i].seq = seq + i
       /\ logs'[Len(logs) + i].kind = p[i].kind
       /\ logs'[Len(logs) + i].cap = p[i].cap

LEMMA PersistedRows ==
  ASSUME SinkTypeOK, NEW p \in Seq(Line), NEW t, Persist(p, t)
  PROVE  RowsAdded(p)
<1> DEFINE rows == RowsOf(p)
<1>1. /\ rows \in Seq(LogRow)
      /\ Len(rows) = Len(p)
  BY RowsOfTyped
<1>2. logs \in Seq(LogRow) /\ logs' = logs \o rows
  BY DEF Persist, SinkTypeOK
<1>3. \A i \in 1 .. Len(p) :
        /\ rows[i].seq = seq + i
        /\ rows[i].kind = p[i].kind
        /\ rows[i].cap = p[i].cap
  BY DEF RowsOf
<1> HIDE DEF rows
<1>4. Len(logs') = Len(logs) + Len(p)
  BY <1>1, <1>2, ConcatParts
<1>5. \A i \in 1 .. Len(logs) : logs'[i] = logs[i]
  BY <1>1, <1>2, ConcatParts
<1>6. \A i \in 1 .. Len(p) : logs'[Len(logs) + i] = rows[i]
  BY <1>1, <1>2, ConcatParts
<1> QED BY <1>3, <1>4, <1>5, <1>6 DEF RowsAdded

LEMMA NumberedStep ==
  ASSUME TypeOK, RowsNumberedInOrder, [Next]_vars
  PROVE  RowsNumberedInOrder'
<1>0. SinkTypeOK
  BY DEF TypeOK, SinkTypeOK
<1>1. CASE UNCHANGED sinkVars
  BY <1>1 DEF sinkVars, RowsNumberedInOrder
<1>2. ASSUME NEW p \in Seq(Line), NEW t \in BOOLEAN, SinkMove(p, t)
      PROVE  RowsNumberedInOrder'
  <2>1. CASE Hold(p, t) \/ Retain(p, t)
    BY <2>1 DEF Hold, Retain, RowsNumberedInOrder
  <2>2. CASE Persist(p, t)
    <3>1. RowsAdded(p)
      BY <1>0, <2>2, PersistedRows
    <3>2. seq' = Len(logs')
      <4>1. Len(logs') = Len(logs) + Len(p)
        BY <3>1 DEF RowsAdded
      <4>2. seq' = seq + Len(p)
        BY <2>2 DEF Persist
      <4> QED BY <4>1, <4>2 DEF RowsNumberedInOrder
    <3>3. ASSUME NEW i \in 1 .. Len(logs')
          PROVE  logs'[i].seq = i
      <4>1. CASE i \in 1 .. Len(logs)
        BY <3>1, <4>1 DEF RowsAdded, RowsNumberedInOrder
      <4>2. CASE i \notin 1 .. Len(logs)
        <5>1. Len(logs) \in Nat /\ Len(p) \in Nat
          BY <1>0 DEF SinkTypeOK
        <5>a. i \in Nat /\ i > Len(logs) /\ i <= Len(logs) + Len(p)
          BY <3>1, <4>2, <5>1 DEF RowsAdded
        <5>2. /\ i - Len(logs) \in 1 .. Len(p)
              /\ i = Len(logs) + (i - Len(logs))
          BY <5>1, <5>a
        <5>3. logs'[Len(logs) + (i - Len(logs))].seq = seq + (i - Len(logs))
          BY <3>1, <5>2 DEF RowsAdded
        <5> QED BY <5>1, <5>2, <5>3 DEF RowsNumberedInOrder
      <4> QED BY <4>1, <4>2
    <3> QED BY <3>2, <3>3 DEF RowsNumberedInOrder
  <2> QED BY <1>2, <2>1, <2>2 DEF SinkMove
<1> QED BY <1>1, <1>2, SinkOnlyMoves

\* For every limit and every pattern of failed inserts, row i of a run has
\* the number i: no gap, no duplicate.
THEOREM RowsNumbered == Spec => []RowsNumberedInOrder
<1>1. Init => RowsNumberedInOrder
  BY DEF Init, RowsNumberedInOrder
<1> QED BY <1>1, NumberedStep, TypeCorrect, PTL DEF Spec

-----------------------------------------------------------------------------
(***************************************************************************)
(* The order of the lines.  A handler line moves from the channel to the   *)
(* buffer to the table; lg, p, ch are those three and n the counter of the *)
(* capture layer.  What is behind is always smaller than what is ahead.    *)
(***************************************************************************)
InOrder(s) ==
  \A i, j \in 1 .. Len(s) :
    (i < j /\ s[i].kind = "log" /\ s[j].kind = "log") => s[i].cap < s[j].cap

Before(s, u) ==
  \A i \in 1 .. Len(s), j \in 1 .. Len(u) :
    (s[i].kind = "log" /\ u[j].kind = "log") => s[i].cap < u[j].cap

BeforeChan(s, ch) ==
  \A i \in 1 .. Len(s), j \in 1 .. Len(ch) :
    (s[i].kind = "log" /\ ch[j] # 0) => s[i].cap < ch[j]

UpTo(s, n) == \A i \in 1 .. Len(s) : s[i].kind = "log" => s[i].cap <= n

ChanOrder(ch, n) ==
  /\ \A i, j \in 1 .. Len(ch) :
       (i < j /\ ch[i] # 0 /\ ch[j] # 0) => ch[i] < ch[j]
  /\ \A i \in 1 .. Len(ch) : ch[i] <= n

PendingOrder(lg, p, ch, n) ==
  /\ InOrder(p)
  /\ Before(lg, p)
  /\ BeforeChan(p, ch)
  /\ UpTo(p, n)

LogOrder(lg, ch, n) ==
  /\ InOrder(lg)
  /\ BeforeChan(lg, ch)
  /\ UpTo(lg, n)

\* s2 is s with the lines of p behind it.
Joined(s, p, s2) ==
  /\ Len(s2) = Len(s) + Len(p)
  /\ \A i \in 1 .. Len(s) : s2[i] = s[i]
  /\ \A i \in 1 .. Len(p) :
       /\ s2[Len(s) + i].kind = p[i].kind
       /\ s2[Len(s) + i].cap = p[i].cap

LEMMA JoinedSplit ==
  ASSUME NEW lg \in Seq(LogRow), NEW p \in Seq(Line), NEW lg2 \in Seq(LogRow),
         Joined(lg, p, lg2)
  PROVE  \A i \in 1 .. Len(lg2) :
           \/ i \in 1 .. Len(lg) /\ lg2[i] = lg[i]
           \/ \E k \in 1 .. Len(p) : /\ i = Len(lg) + k
                                     /\ lg2[i].kind = p[k].kind
                                     /\ lg2[i].cap = p[k].cap
<1> SUFFICES ASSUME NEW i \in 1 .. Len(lg2), i \notin 1 .. Len(lg)
             PROVE  \E k \in 1 .. Len(p) : /\ i = Len(lg) + k
                                           /\ lg2[i].kind = p[k].kind
                                           /\ lg2[i].cap = p[k].cap
  BY DEF Joined
<1>0. Len(lg) \in Nat /\ Len(p) \in Nat
  OBVIOUS
<1>1. /\ i \in Nat /\ i > Len(lg) /\ i <= Len(lg) + Len(p)
  BY <1>0 DEF Joined
<1>2. /\ i - Len(lg) \in 1 .. Len(p)
      /\ i = Len(lg) + (i - Len(lg))
  BY <1>0, <1>1
<1>3. /\ lg2[Len(lg) + (i - Len(lg))].kind = p[i - Len(lg)].kind
      /\ lg2[Len(lg) + (i - Len(lg))].cap = p[i - Len(lg)].cap
  BY <1>2 DEF Joined
<1> QED BY <1>2, <1>3

LEMMA JoinOrder ==
  ASSUME NEW lg \in Seq(LogRow), NEW p \in Seq(Line), NEW lg2 \in Seq(LogRow),
         NEW ch \in Seq(Nat), NEW n \in Nat,
         Joined(lg, p, lg2), LogOrder(lg, ch, n), PendingOrder(lg, p, ch, n)
  PROVE  LogOrder(lg2, ch, n)
<1>0. Len(lg) \in Nat /\ Len(p) \in Nat
  OBVIOUS
<1> DEFINE old(i) == i \in 1 .. Len(lg) /\ lg2[i] = lg[i]
           new(i, k) == /\ i = Len(lg) + k
                        /\ lg2[i].kind = p[k].kind
                        /\ lg2[i].cap = p[k].cap
<1>a. \A i \in 1 .. Len(lg2) : old(i) \/ \E k \in 1 .. Len(p) : new(i, k)
  BY JoinedSplit
<1>1. InOrder(lg2)
  <2> SUFFICES ASSUME NEW i \in 1 .. Len(lg2), NEW j \in 1 .. Len(lg2),
                      i < j, lg2[i].kind = "log", lg2[j].kind = "log"
               PROVE  lg2[i].cap < lg2[j].cap
    BY DEF InOrder
  <2>1. CASE old(i) /\ old(j)
    BY <2>1 DEF LogOrder, InOrder
  <2>2. ASSUME NEW k \in 1 .. Len(p), old(i), new(j, k)
        PROVE  lg2[i].cap < lg2[j].cap
    BY <2>2 DEF PendingOrder, Before
  <2>3. ASSUME NEW k \in 1 .. Len(p), NEW m \in 1 .. Len(p), new(i, k), new(j, m)
        PROVE  lg2[i].cap < lg2[j].cap
    <3>1. k < m
      BY <1>0, <2>3
    <3> QED BY <2>3, <3>1 DEF PendingOrder, InOrder
  <2>4. ASSUME NEW k \in 1 .. Len(p), new(i, k), old(j)
        PROVE  FALSE
    BY <1>0, <2>4
  <2> HIDE DEF old, new
  <2> QED BY <1>a, <2>1, <2>2, <2>3, <2>4
<1>2. ASSUME NEW i \in 1 .. Len(lg2), lg2[i].kind = "log"
      PROVE  /\ lg2[i].cap <= n
             /\ \A j \in 1 .. Len(ch) : ch[j] # 0 => lg2[i].cap < ch[j]
  <2>1. CASE old(i)
    BY <1>2, <2>1 DEF LogOrder, BeforeChan, UpTo
  <2>2. ASSUME NEW k \in 1 .. Len(p), new(i, k)
        PROVE  /\ lg2[i].cap <= n
               /\ \A j \in 1 .. Len(ch) : ch[j] # 0 => lg2[i].cap < ch[j]
    BY <1>2, <2>2 DEF PendingOrder, BeforeChan, UpTo
  <2> HIDE DEF old, new
  <2> QED BY <1>a, <2>1, <2>2
<1> QED BY <1>1, <1>2 DEF LogOrder, BeforeChan, UpTo

LEMMA EmptyOrder ==
  ASSUME NEW lg \in Seq(LogRow), NEW ch \in Seq(Nat), NEW n \in Nat
  PROVE  PendingOrder(lg, <<>>, ch, n)
BY DEF PendingOrder, InOrder, Before, BeforeChan, UpTo

LEMMA NewestOrder ==
  ASSUME NEW lg \in Seq(LogRow), NEW p \in Seq(Line), NEW ch \in Seq(Nat),
         NEW n \in Nat, PendingOrder(lg, p, ch, n)
  PROVE  PendingOrder(lg, Newest(p), ch, n)
<1> DEFINE q == Newest(p)
           d == Len(p) - Len(q)
<1>1. /\ Len(q) \in Nat
      /\ d \in Nat
      /\ \A i \in 1 .. Len(q) : i + d \in 1 .. Len(p) /\ q[i] = p[i + d]
  <2>1. MaxPending \in Nat
    BY LimitsAssumption
  <2> HIDE DEF q
  <2>2. /\ q \in Seq(Line)
        /\ Len(q) = IF Len(p) > MaxPending THEN MaxPending ELSE Len(p)
        /\ \A i \in 1 .. Len(q) : q[i] = p[i + (Len(p) - Len(q))]
    BY NewestTyped DEF q
  <2>3. Len(q) \in Nat /\ Len(p) \in Nat /\ Len(q) <= Len(p)
    BY <2>1, <2>2
  <2> QED BY <2>2, <2>3
<1> HIDE DEF q, d
<1>2. InOrder(q)
  <2> SUFFICES ASSUME NEW i \in 1 .. Len(q), NEW j \in 1 .. Len(q),
                      i < j, q[i].kind = "log", q[j].kind = "log"
               PROVE  q[i].cap < q[j].cap
    BY DEF InOrder
  <2>1. /\ i + d \in 1 .. Len(p) /\ j + d \in 1 .. Len(p)
        /\ q[i] = p[i + d] /\ q[j] = p[j + d]
        /\ i + d < j + d
    BY <1>1
  <2> QED BY <2>1 DEF PendingOrder, InOrder
<1>3. Before(lg, q)
  BY <1>1 DEF PendingOrder, Before
<1>4. BeforeChan(q, ch)
  BY <1>1 DEF PendingOrder, BeforeChan
<1>5. UpTo(q, n)
  BY <1>1 DEF PendingOrder, UpTo
<1> QED BY <1>2, <1>3, <1>4, <1>5 DEF PendingOrder, q

LEMMA AddNote ==
  ASSUME NEW lg \in Seq(LogRow), NEW p \in Seq(Line), NEW ch \in Seq(Nat),
         NEW n \in Nat, NEW x \in Line, x.kind # "log",
         PendingOrder(lg, p, ch, n)
  PROVE  PendingOrder(lg, Append(p, x), ch, n)
<1> DEFINE q == Append(p, x)
<1>1. /\ Len(q) = Len(p) + 1
      /\ q[Len(p) + 1] = x
      /\ \A i \in 1 .. Len(p) : q[i] = p[i]
  OBVIOUS
<1>2. \A i \in 1 .. Len(q) : q[i].kind = "log" => (i \in 1 .. Len(p) /\ q[i] = p[i])
  BY <1>1
<1> HIDE DEF q
<1>3. InOrder(q)
  BY <1>2 DEF PendingOrder, InOrder
<1>4. Before(lg, q) /\ BeforeChan(q, ch) /\ UpTo(q, n)
  BY <1>2 DEF PendingOrder, Before, BeforeChan, UpTo
<1> QED BY <1>3, <1>4 DEF PendingOrder, q

LEMMA TailParts ==
  ASSUME NEW ch \in Seq(Nat), ch # <<>>
  PROVE  /\ Tail(ch) \in Seq(Nat)
         /\ Len(Tail(ch)) = Len(ch) - 1
         /\ Len(ch) \in Nat \ {0}
         /\ \A j \in 1 .. Len(Tail(ch)) : /\ j + 1 \in 1 .. Len(ch)
                                          /\ Tail(ch)[j] = ch[j + 1]
OBVIOUS

LEMMA ReceiveOrder ==
  ASSUME NEW lg \in Seq(LogRow), NEW p \in Seq(Line), NEW ch \in Seq(Nat),
         NEW n \in Nat, ch # <<>>,
         LogOrder(lg, ch, n), PendingOrder(lg, p, ch, n), ChanOrder(ch, n)
  PROVE  /\ LogOrder(lg, Tail(ch), n)
         /\ PendingOrder(lg, p, Tail(ch), n)
         /\ ChanOrder(Tail(ch), n)
         /\ Head(ch) # 0 =>
              PendingOrder(lg, Append(p, HandlerLine(Head(ch))), Tail(ch), n)
<1> DEFINE tl == Tail(ch)
           x == HandlerLine(Head(ch))
           q == Append(p, x)
<1>1. /\ Len(tl) \in Nat
      /\ \A j \in 1 .. Len(tl) : j + 1 \in 1 .. Len(ch) /\ tl[j] = ch[j + 1]
      /\ Len(ch) \in Nat \ {0}
  BY TailParts
<1>2. /\ Head(ch) = ch[1]
      /\ ch[1] \in Nat
      /\ 1 \in 1 .. Len(ch)
  OBVIOUS
<1>3. x \in Line /\ x.kind = "log" /\ x.cap = ch[1]
  BY <1>2, LinesTyped DEF HandlerLine
<1> HIDE DEF tl, x
<1>4. /\ Len(q) = Len(p) + 1
      /\ q[Len(p) + 1] = x
      /\ \A i \in 1 .. Len(p) : q[i] = p[i]
      /\ \A i \in 1 .. Len(q) : i \in 1 .. Len(p) \/ i = Len(p) + 1
  BY <1>3
<1> HIDE DEF q
<1>5. LogOrder(lg, tl, n)
  BY <1>1 DEF LogOrder, BeforeChan
<1>6. PendingOrder(lg, p, tl, n)
  BY <1>1 DEF PendingOrder, BeforeChan
<1>7. ChanOrder(tl, n)
  <2>1. ASSUME NEW i \in 1 .. Len(tl), NEW j \in 1 .. Len(tl),
               i < j, tl[i] # 0, tl[j] # 0
        PROVE  tl[i] < tl[j]
    <3>1. /\ i + 1 \in 1 .. Len(ch) /\ j + 1 \in 1 .. Len(ch)
          /\ tl[i] = ch[i + 1] /\ tl[j] = ch[j + 1]
          /\ i + 1 < j + 1
      BY <1>1, <2>1
    <3> QED BY <2>1, <3>1 DEF ChanOrder
  <2>2. \A i \in 1 .. Len(tl) : tl[i] <= n
    BY <1>1 DEF ChanOrder
  <2> QED BY <2>1, <2>2 DEF ChanOrder
<1>8. ASSUME ch[1] # 0
      PROVE  PendingOrder(lg, q, tl, n)
  <2>1. InOrder(q)
    <3> SUFFICES ASSUME NEW i \in 1 .. Len(q), NEW j \in 1 .. Len(q),
                        i < j, q[i].kind = "log", q[j].kind = "log"
                 PROVE  q[i].cap < q[j].cap
      BY DEF InOrder
    <3>1. i \in 1 .. Len(p)
      BY <1>4
    <3>2. CASE j \in 1 .. Len(p)
      BY <1>4, <3>1, <3>2 DEF PendingOrder, InOrder
    <3>3. CASE j = Len(p) + 1
      BY <1>2, <1>3, <1>4, <1>8, <3>1, <3>3 DEF PendingOrder, BeforeChan
    <3> QED BY <1>4, <3>2, <3>3
  <2>2. Before(lg, q)
    <3> SUFFICES ASSUME NEW i \in 1 .. Len(lg), NEW j \in 1 .. Len(q),
                        lg[i].kind = "log", q[j].kind = "log"
                 PROVE  lg[i].cap < q[j].cap
      BY DEF Before
    <3>1. CASE j \in 1 .. Len(p)
      BY <1>4, <3>1 DEF PendingOrder, Before
    <3>2. CASE j = Len(p) + 1
      BY <1>2, <1>3, <1>4, <1>8, <3>2 DEF LogOrder, BeforeChan
    <3> QED BY <1>4, <3>1, <3>2
  <2>3. BeforeChan(q, tl)
    <3> SUFFICES ASSUME NEW i \in 1 .. Len(q), NEW j \in 1 .. Len(tl),
                        q[i].kind = "log", tl[j] # 0
                 PROVE  q[i].cap < tl[j]
      BY DEF BeforeChan
    <3>1. CASE i \in 1 .. Len(p)
      BY <1>4, <1>6, <3>1 DEF PendingOrder, BeforeChan
    <3>2. CASE i = Len(p) + 1
      <4>1. /\ j + 1 \in 1 .. Len(ch) /\ tl[j] = ch[j + 1]
            /\ 1 < j + 1
        BY <1>1
      <4>2. ch[1] < ch[j + 1]
        BY <1>2, <1>8, <4>1 DEF ChanOrder
      <4> QED BY <1>3, <1>4, <3>2, <4>1, <4>2
    <3> QED BY <1>4, <3>1, <3>2
  <2>4. UpTo(q, n)
    <3> SUFFICES ASSUME NEW i \in 1 .. Len(q), q[i].kind = "log"
                 PROVE  q[i].cap <= n
      BY DEF UpTo
    <3>1. CASE i \in 1 .. Len(p)
      BY <1>4, <3>1 DEF PendingOrder, UpTo
    <3>2. CASE i = Len(p) + 1
      BY <1>2, <1>3, <1>4, <3>2 DEF ChanOrder
    <3> QED BY <1>4, <3>1, <3>2
  <2> QED BY <2>1, <2>2, <2>3, <2>4 DEF PendingOrder
<1> QED BY <1>2, <1>5, <1>6, <1>7, <1>8 DEF tl, q, x

LEMMA AppendOrder ==
  ASSUME NEW lg \in Seq(LogRow), NEW p \in Seq(Line), NEW ch \in Seq(Nat),
         NEW n \in Nat, NEW m \in Nat, NEW e \in Nat,
         (e = 0 /\ m = n) \/ (e = n + 1 /\ m = n + 1),
         LogOrder(lg, ch, n), PendingOrder(lg, p, ch, n), ChanOrder(ch, n)
  PROVE  /\ LogOrder(lg, Append(ch, e), m)
         /\ PendingOrder(lg, p, Append(ch, e), m)
         /\ ChanOrder(Append(ch, e), m)
<1> DEFINE c == Append(ch, e)
<1>1. /\ Len(c) = Len(ch) + 1
      /\ Len(ch) \in Nat
      /\ c[Len(ch) + 1] = e
      /\ \A i \in 1 .. Len(ch) : c[i] = ch[i] /\ ch[i] \in Nat
      /\ \A i \in 1 .. Len(c) : i \in 1 .. Len(ch) \/ i = Len(ch) + 1
  <2>1. /\ Len(c) = Len(ch) + 1
        /\ Len(ch) \in Nat
        /\ c[Len(ch) + 1] = e
    OBVIOUS
  <2>2. \A i \in 1 .. Len(ch) : c[i] = ch[i] /\ ch[i] \in Nat
    OBVIOUS
  <2> HIDE DEF c
  <2> QED BY <2>1, <2>2
<1> HIDE DEF c
<1>2. n <= m /\ (e # 0 => e = n + 1) /\ e <= m
  OBVIOUS
<1>l. /\ \A i \in 1 .. Len(lg) : lg[i].cap \in Nat
      /\ \A i \in 1 .. Len(p) : p[i].cap \in Nat
  <2>1. \A i \in 1 .. Len(lg) : lg[i] \in LogRow
    OBVIOUS
  <2>2. \A i \in 1 .. Len(p) : p[i] \in Line
    OBVIOUS
  <2> QED BY <2>1, <2>2 DEF LogRow, Line
<1>3. LogOrder(lg, c, m)
  <2>1. BeforeChan(lg, c)
    <3> SUFFICES ASSUME NEW i \in 1 .. Len(lg), NEW j \in 1 .. Len(c),
                        lg[i].kind = "log", c[j] # 0
                 PROVE  lg[i].cap < c[j]
      BY DEF BeforeChan
    <3>1. CASE j \in 1 .. Len(ch)
      BY <1>1, <3>1 DEF LogOrder, BeforeChan
    <3>2. CASE j = Len(ch) + 1
      <4>1. lg[i].cap <= n
        BY DEF LogOrder, UpTo
      <4> QED BY <1>1, <1>2, <1>l, <3>2, <4>1
    <3> QED BY <1>1, <3>1, <3>2
  <2>2. UpTo(lg, m)
    BY <1>2, <1>l DEF LogOrder, UpTo
  <2> QED BY <2>1, <2>2 DEF LogOrder
<1>4. PendingOrder(lg, p, c, m)
  <2>1. BeforeChan(p, c)
    <3> SUFFICES ASSUME NEW i \in 1 .. Len(p), NEW j \in 1 .. Len(c),
                        p[i].kind = "log", c[j] # 0
                 PROVE  p[i].cap < c[j]
      BY DEF BeforeChan
    <3>1. CASE j \in 1 .. Len(ch)
      BY <1>1, <3>1 DEF PendingOrder, BeforeChan
    <3>2. CASE j = Len(ch) + 1
      <4>1. p[i].cap <= n
        BY DEF PendingOrder, UpTo
      <4> QED BY <1>1, <1>2, <1>l, <3>2, <4>1
    <3> QED BY <1>1, <3>1, <3>2
  <2>2. UpTo(p, m)
    BY <1>2, <1>l DEF PendingOrder, UpTo
  <2> QED BY <2>1, <2>2 DEF PendingOrder
<1>5. ChanOrder(c, m)
  <2>1. ASSUME NEW i \in 1 .. Len(c), NEW j \in 1 .. Len(c),
               i < j, c[i] # 0, c[j] # 0
        PROVE  c[i] < c[j]
    <3>1. i \in 1 .. Len(ch)
      BY <1>1, <2>1
    <3>2. CASE j \in 1 .. Len(ch)
      BY <1>1, <2>1, <3>1, <3>2 DEF ChanOrder
    <3>3. CASE j = Len(ch) + 1
      <4>1. ch[i] <= n
        BY <3>1 DEF ChanOrder
      <4> QED BY <1>1, <1>2, <2>1, <3>1, <3>3, <4>1
    <3> QED BY <1>1, <3>2, <3>3
  <2>2. ASSUME NEW i \in 1 .. Len(c)
        PROVE  c[i] <= m
    <3>1. CASE i \in 1 .. Len(ch)
      <4>1. ch[i] <= n
        BY <3>1 DEF ChanOrder
      <4> QED BY <1>1, <1>2, <3>1, <4>1
    <3>2. CASE i = Len(ch) + 1
      BY <1>1, <1>2, <3>2
    <3> QED BY <1>1, <3>1, <3>2
  <2> QED BY <2>1, <2>2 DEF ChanOrder
<1> QED BY <1>3, <1>4, <1>5 DEF c

OrderInv ==
  /\ LogOrder(logs, chan, captured)
  /\ PendingOrder(logs, pending, chan, captured)
  /\ ChanOrder(chan, captured)

LEMMA MoveOrder ==
  ASSUME SinkTypeOK, NEW p \in Seq(Line), NEW t \in BOOLEAN, SinkMove(p, t),
         NEW ch \in Seq(Nat), NEW n \in Nat,
         LogOrder(logs, ch, n), PendingOrder(logs, p, ch, n)
  PROVE  /\ LogOrder(logs', ch, n)
         /\ PendingOrder(logs', pending', ch, n)
<1>1. CASE Hold(p, t)
  BY <1>1 DEF Hold
<1>2. CASE Persist(p, t)
  <2>1. RowsAdded(p)
    BY <1>2, PersistedRows
  <2>2. Joined(logs, p, logs')
    BY <2>1 DEF RowsAdded, Joined
  <2>3. logs \in Seq(LogRow) /\ logs' \in Seq(LogRow)
    BY SinkMoveTyped DEF SinkTypeOK
  <2>4. pending' = <<>>
    BY <1>2 DEF Persist
  <2> QED BY <2>2, <2>3, <2>4, JoinOrder, EmptyOrder
<1>3. CASE Retain(p, t)
  BY <1>3, NewestOrder DEF Retain, SinkTypeOK
<1> QED BY <1>1, <1>2, <1>3 DEF SinkMove

LEMMA SendOrder ==
  ASSUME TypeOK, OrderInv, NEW e \in Nat, NEW m \in Nat,
         (e = 0 /\ m = captured) \/ (e = captured + 1 /\ m = captured + 1),
         Send(e), UNCHANGED <<logs, pending>>, captured' = m
  PROVE  OrderInv'
<1>0. /\ chan \in Seq(Nat) /\ logs \in Seq(LogRow)
      /\ pending \in Seq(Line) /\ captured \in Nat
  BY DEF TypeOK
<1>1. CASE chan' = Append(chan, e)
  BY <1>0, <1>1, AppendOrder DEF OrderInv
<1>2. CASE chan # <<>> /\ chan' = Append(Tail(chan), e)
  <2> DEFINE c == Tail(chan)
  <2>1. c \in Seq(Nat)
    BY <1>0, <1>2
  <2>2. /\ LogOrder(logs, c, captured)
        /\ PendingOrder(logs, pending, c, captured)
        /\ ChanOrder(c, captured)
    BY <1>0, <1>2, ReceiveOrder DEF OrderInv
  <2>3. chan' = Append(c, e)
    BY <1>2
  <2> HIDE DEF c
  <2> QED BY <1>0, <2>1, <2>2, <2>3, AppendOrder DEF OrderInv
<1>3. Len(chan) < ChannelSize \/ chan # <<>>
  BY <1>0, LimitsAssumption
<1> QED BY <1>1, <1>2, <1>3 DEF Send

LEMMA OrderStep ==
  ASSUME TypeOK, OrderInv, [Next]_vars
  PROVE  OrderInv'
<1>0. /\ SinkTypeOK
      /\ chan \in Seq(Nat) /\ logs \in Seq(LogRow)
      /\ pending \in Seq(Line) /\ captured \in Nat
      /\ truncated \in BOOLEAN
  BY DEF TypeOK, SinkTypeOK
<1>k. NoticeLine.kind # "log" /\ FailureLine.kind # "log"
  BY DEF NoticeLine, FailureLine
<1>n. ASSUME NEW ch \in Seq(Nat),
             LogOrder(logs, ch, captured),
             PendingOrder(logs, pending, ch, captured),
             SinkMove(Append(pending, NoticeLine), TRUE)
      PROVE  /\ LogOrder(logs', ch, captured)
             /\ PendingOrder(logs', pending', ch, captured)
  <2>1. PendingOrder(logs, Append(pending, NoticeLine), ch, captured)
    BY <1>0, <1>k, <1>n, AddNote, LinesTyped
  <2>2. Append(pending, NoticeLine) \in Seq(Line)
    BY <1>0, LinesTyped
  <2> QED BY <1>0, <1>n, <2>1, <2>2, MoveOrder
<1>1. CASE RegisterRun
  BY <1>0, <1>1, SendOrder DEF RegisterRun, sinkVars
<1>2. CASE ReceiveLag
  <2>1. UNCHANGED <<chan, captured>> /\ NoteLost
    BY <1>2 DEF ReceiveLag
  <2>2. CASE UNCHANGED sinkVars
    BY <2>1, <2>2 DEF OrderInv, sinkVars
  <2>3. CASE SinkMove(Append(pending, NoticeLine), TRUE)
    BY <1>0, <1>n, <2>1, <2>3 DEF OrderInv
  <2> QED BY <2>1, <2>2, <2>3, NoteLostMoves
<1>3. CASE ReceiveEvent
  <2> DEFINE e == Head(chan)
             c == Tail(chan)
  <2>1. /\ chan # <<>>
        /\ chan' = c
        /\ captured' = captured
        /\ Consume(e)
    BY <1>3 DEF ReceiveEvent
  <2>2. /\ c \in Seq(Nat)
        /\ e \in Nat
    BY <1>0, <2>1
  <2>3. /\ LogOrder(logs, c, captured)
        /\ PendingOrder(logs, pending, c, captured)
        /\ ChanOrder(c, captured)
        /\ e # 0 => PendingOrder(logs, Append(pending, HandlerLine(e)), c, captured)
    BY <1>0, <2>1, ReceiveOrder DEF OrderInv
  <2> HIDE DEF e, c
  <2>4. CASE UNCHANGED sinkVars
    BY <2>1, <2>3, <2>4 DEF OrderInv, sinkVars
  <2>5. CASE SinkMove(Append(pending, NoticeLine), TRUE)
    BY <1>n, <2>1, <2>2, <2>3, <2>5 DEF OrderInv
  <2>6. CASE e # 0 /\ SinkMove(Append(pending, HandlerLine(e)), truncated)
    <3>1. Append(pending, HandlerLine(e)) \in Seq(Line)
      BY <1>0, <2>2, LinesTyped
    <3>2. /\ LogOrder(logs', c, captured)
          /\ PendingOrder(logs', pending', c, captured)
      BY <1>0, <2>2, <2>3, <2>6, <3>1, MoveOrder
    <3> QED BY <2>1, <2>3, <3>2 DEF OrderInv
  <2> QED BY <2>1, <2>4, <2>5, <2>6, ConsumeMoves
<1>4. CASE IdleFlush
  <2>1. SinkMove(pending, truncated) /\ UNCHANGED <<chan, captured>>
    BY <1>4, FlushIsMove DEF IdleFlush, busVars
  <2> QED BY <1>0, <2>1, MoveOrder DEF OrderInv
<1>5. CASE CloseSink
  <2> DEFINE p == IF enabled /\ handler = "err"
                    THEN Append(pending, FailureLine) ELSE pending
  <2>1. SinkMove(p, truncated) /\ UNCHANGED <<chan, captured>>
    BY <1>5, FlushIsMove DEF CloseSink, busVars
  <2>2. p \in Seq(Line) /\ PendingOrder(logs, p, chan, captured)
    BY <1>0, <1>k, AddNote, LinesTyped DEF OrderInv
  <2> HIDE DEF p
  <2> QED BY <1>0, <2>1, <2>2, MoveOrder DEF OrderInv
<1>6. CASE HandlerLogs
  BY <1>0, <1>6, SendOrder DEF HandlerLogs, sinkVars
<1>7. CASE ForeignEvent
  BY <1>0, <1>7, SendOrder DEF ForeignEvent, sinkVars
<1>8. CASE HandlerDone \/ DrainEmpty \/ FinishRun \/ HandlerEnds
  BY <1>8 DEF HandlerDone, DrainEmpty, FinishRun, HandlerEnds, busVars,
              sinkVars, OrderInv
<1>9. CASE UNCHANGED vars
  BY <1>9 DEF vars, OrderInv
<1> QED BY <1>1, <1>2, <1>3, <1>4, <1>5, <1>6, <1>7, <1>8, <1>9
        DEF Next, TaskStep

LEMMA OrderInit == Init => OrderInv
<1> SUFFICES ASSUME Init
             PROVE  OrderInv
  OBVIOUS
<1>1. chan = <<>> /\ logs = <<>> /\ pending = <<>> /\ captured = 0
  BY DEF Init
<1>2. /\ LogOrder(<<>>, <<>>, 0)
      /\ PendingOrder(<<>>, <<>>, <<>>, 0)
      /\ ChanOrder(<<>>, 0)
  BY DEF LogOrder, PendingOrder, ChanOrder, InOrder, Before, BeforeChan, UpTo
<1> QED BY <1>1, <1>2 DEF OrderInv

-----------------------------------------------------------------------------
(***************************************************************************)
(* The row of the run, and the refinement of RunRecord.                    *)
(***************************************************************************)
RunInv ==
  /\ phase = "register" => ~enabled
  /\ ~enabled => run.status = "absent"
  /\ (enabled /\ phase # "done") => run.status = "running"

LEMMA RunInit == Init => RunInv
BY DEF Init, RunInv, NoRun

LEMMA RunStep ==
  ASSUME TypeOK, RunInv, [Next]_vars
  PROVE  RunInv'
<1>1. CASE RegisterRun
  <2>1. CASE enabled' = TRUE /\ run' = [NoRun EXCEPT !.status = "running"]
    <3>1. run'.status = "running"
      BY <2>1 DEF NoRun
    <3> QED BY <1>1, <2>1, <3>1 DEF RegisterRun, RunInv
  <2>2. CASE UNCHANGED <<enabled, run>>
    BY <1>1, <2>2 DEF RegisterRun, RunInv
  <2> QED BY <1>1, <2>1, <2>2 DEF RegisterRun
<1>2. CASE FinishRun
  BY <1>2 DEF FinishRun, RunInv
<1>3. CASE ReceiveLag \/ ReceiveEvent \/ IdleFlush \/ HandlerDone
           \/ DrainEmpty \/ CloseSink
  BY <1>3 DEF ReceiveLag, ReceiveEvent, IdleFlush, HandlerDone, DrainEmpty,
              CloseSink, RunInv
<1>4. CASE HandlerLogs \/ HandlerEnds \/ ForeignEvent
  BY <1>4 DEF HandlerLogs, HandlerEnds, ForeignEvent, RunInv
<1>5. CASE UNCHANGED vars
  BY <1>5 DEF vars, RunInv
<1> QED BY <1>1, <1>2, <1>3, <1>4, <1>5 DEF Next, TaskStep

\* Rows are only added while the run is running.
LEMMA RowsGrow ==
  ASSUME TypeOK, RunInv, [Next]_vars
  PROVE  \/ logs' = logs
         \/ /\ run.status = "running"
            /\ run' = run
            /\ \E p \in Seq(Line) : RowsAdded(p)
<1>0. /\ SinkTypeOK
      /\ pending \in Seq(Line)
      /\ Append(pending, NoticeLine) \in Seq(Line)
      /\ Append(pending, FailureLine) \in Seq(Line)
  BY LinesTyped DEF TypeOK, SinkTypeOK
<1>m. ASSUME NEW p \in Seq(Line), NEW t, SinkMove(p, t)
      PROVE  logs' = logs \/ RowsAdded(p)
  BY <1>0, <1>m, PersistedRows DEF SinkMove, Hold, Retain
<1>1. CASE ReceiveLag
  <2>1. run' = run /\ NoteLost /\ phase # "done"
    BY <1>1 DEF ReceiveLag
  <2>2. CASE UNCHANGED sinkVars
    BY <2>2 DEF sinkVars
  <2>3. CASE enabled /\ SinkMove(Append(pending, NoticeLine), TRUE)
    BY <1>0, <1>m, <2>1, <2>3 DEF RunInv
  <2> QED BY <2>1, <2>2, <2>3, NoteLostMoves
<1>2. CASE ReceiveEvent
  <2>1. run' = run /\ Consume(Head(chan)) /\ phase # "done"
    BY <1>2 DEF ReceiveEvent
  <2>2. CASE UNCHANGED sinkVars
    BY <2>2 DEF sinkVars
  <2>3. CASE enabled /\ SinkMove(Append(pending, NoticeLine), TRUE)
    BY <1>0, <1>m, <2>1, <2>3 DEF RunInv
  <2>4. CASE enabled /\ SinkMove(Append(pending, HandlerLine(Head(chan))), truncated)
    <3>1. Head(chan) \in Nat
      BY <1>2 DEF ReceiveEvent, TypeOK
    <3>2. Append(pending, HandlerLine(Head(chan))) \in Seq(Line)
      BY <1>0, <3>1, LinesTyped
    <3> QED BY <1>m, <2>1, <2>4, <3>2 DEF RunInv
  <2> QED BY <2>1, <2>2, <2>3, <2>4, ConsumeMoves
<1>3. CASE IdleFlush
  <2>1. run' = run /\ Flush(pending, truncated) /\ phase # "done"
    BY <1>3 DEF IdleFlush
  <2>2. logs' = logs \/ enabled
    BY <2>1 DEF Flush, Hold
  <2> QED BY <1>0, <1>m, <2>1, <2>2, FlushIsMove DEF RunInv
<1>4. CASE CloseSink
  <2> DEFINE p == IF enabled /\ handler = "err"
                    THEN Append(pending, FailureLine) ELSE pending
  <2>1. run' = run /\ Flush(p, truncated) /\ phase # "done"
    BY <1>4 DEF CloseSink
  <2>2. p \in Seq(Line)
    BY <1>0
  <2> HIDE DEF p
  <2>3. logs' = logs \/ enabled
    BY <2>1 DEF Flush, Hold
  <2> QED BY <1>m, <2>1, <2>2, <2>3, FlushIsMove DEF RunInv
<1>5. CASE RegisterRun \/ HandlerDone \/ DrainEmpty \/ FinishRun
           \/ HandlerLogs \/ HandlerEnds \/ ForeignEvent
  BY <1>5 DEF RegisterRun, HandlerDone, DrainEmpty, FinishRun, HandlerLogs,
              HandlerEnds, ForeignEvent, sinkVars
<1>6. CASE UNCHANGED vars
  BY <1>6 DEF vars
<1> QED BY <1>1, <1>2, <1>3, <1>4, <1>5, <1>6 DEF Next, TaskStep

\* What a step does to the row of the run.
LEMMA StatusChange ==
  ASSUME TypeOK, RunInv, [Next]_vars
  PROVE  \/ run' = run
         \/ /\ logs' = logs
            /\ run.status = "absent"
            /\ run'.status = "running"
         \/ /\ logs' = logs
            /\ run.status = "running"
            /\ run'.status \in {"success", "failed"}
<1>1. CASE RegisterRun
  <2>1. CASE run' = [NoRun EXCEPT !.status = "running"]
    <3>1. run'.status = "running"
      BY <2>1 DEF NoRun
    <3>2. run.status = "absent" /\ logs' = logs
      BY <1>1 DEF RegisterRun, RunInv, sinkVars
    <3> QED BY <3>1, <3>2
  <2> QED BY <1>1, <2>1 DEF RegisterRun
<1>2. CASE FinishRun
  BY <1>2 DEF FinishRun, sinkVars
<1>3. CASE ReceiveLag \/ ReceiveEvent \/ IdleFlush \/ HandlerDone
           \/ DrainEmpty \/ CloseSink \/ HandlerLogs \/ HandlerEnds
           \/ ForeignEvent
  BY <1>3 DEF ReceiveLag, ReceiveEvent, IdleFlush, HandlerDone, DrainEmpty,
              CloseSink, HandlerLogs, HandlerEnds, ForeignEvent
<1>4. CASE UNCHANGED vars
  BY <1>4 DEF vars
<1> QED BY <1>1, <1>2, <1>3, <1>4 DEF Next, TaskStep

LEMMA RefinementStep ==
  ASSUME TypeOK, RunInv, OrderInv', [Next]_vars
  PROVE  [Record!RecordNext]_(Record!rvars)
<1>1. CASE run' = run /\ logs' = logs
  BY <1>1 DEF Record!rvars
<1>2. CASE /\ run.status = "running"
           /\ run' = run
           /\ \E p \in Seq(Line) : RowsAdded(p)
  <2>1. PICK p \in Seq(Line) : RowsAdded(p)
    BY <1>2
  <2>2. Record!Continues(logs, logs')
    <3>1. Len(logs) \in Nat /\ Len(p) \in Nat
      BY DEF TypeOK
    <3>2. Len(logs) <= Len(logs')
      BY <2>1, <3>1 DEF RowsAdded
    <3>3. \A i \in 1 .. Len(logs) : logs'[i] = logs[i]
      BY <2>1 DEF RowsAdded
    <3> QED BY <3>2, <3>3 DEF Record!Continues
  <2>3. Record!InCaptureOrder(logs')
    BY DEF OrderInv, LogOrder, InOrder, Record!InCaptureOrder
  <2>4. Record!AddLines
    BY <1>2, <2>2, <2>3 DEF Record!AddLines
  <2> QED BY <2>4 DEF Record!RecordNext
<1>3. CASE /\ logs' = logs
           /\ run.status = "absent"
           /\ run'.status = "running"
  BY <1>3 DEF Record!RecordNext, Record!Register
<1>4. CASE /\ logs' = logs
           /\ run.status = "running"
           /\ run'.status \in {"success", "failed"}
  BY <1>4 DEF Record!RecordNext, Record!RecordOutcome
<1> QED BY <1>1, <1>2, <1>3, <1>4, RowsGrow, StatusChange

\* The sink, the channel and the execution task implement the append-only,
\* ordered, once-closed record of RunRecord.tla.
THEOREM RunLogRefinesRunRecord == Spec => RefinesRunRecord
<1>1. Init => Record!RecordInit
  BY DEF Init, NoRun, Record!RecordInit
<1>2. TypeOK /\ RunInv /\ OrderInv /\ [Next]_vars => RunInv' /\ OrderInv'
  BY RunStep, OrderStep
<1>3. Spec => [](TypeOK /\ RunInv /\ OrderInv)
  BY <1>2, TypeCorrect, RunInit, OrderInit, PTL DEF Spec
<1>4. TypeOK /\ RunInv /\ OrderInv' /\ [Next]_vars
        => [Record!RecordNext]_(Record!rvars)
  BY RefinementStep
<1> QED BY <1>1, <1>3, <1>4, PTL
        DEF Spec, RefinesRunRecord, Record!RecordSpec

-----------------------------------------------------------------------------
(***************************************************************************)
(* Nothing is missing as long as nothing was reported missing.  Until the  *)
(* run is marked truncated, position i of table and buffer together holds  *)
(* line i of the handler, and the lines after those are on the channel.    *)
(***************************************************************************)
Whole(lg, p, n) ==
  /\ \A i \in 1 .. Len(lg) :
       IF lg[i].kind = "log" THEN lg[i].cap = i /\ i <= n ELSE i > n
  /\ \A i \in 1 .. Len(p) :
       IF p[i].kind = "log" THEN p[i].cap = Len(lg) + i /\ Len(lg) + i <= n
                            ELSE Len(lg) + i > n

Received == Len(logs) + Len(pending)

Receiving == phase \in {"register", "receive", "drain"}

PhaseInv ==
  /\ phase = "register" => handler = "idle" /\ captured = 0
  /\ phase \in {"drain", "close", "finish", "done"} => handler \in {"ok", "err"}
  /\ ~enabled => Len(logs) = 0 /\ Len(pending) = 0

Caught ==
  /\ Whole(logs, pending, captured)
  /\ Receiving \/ phase = "close" => Received <= captured
  /\ (enabled /\ Receiving) =>
       \A k \in 1 .. Len(chan) : chan[k] = 0 \/ chan[k] > Received
  /\ (enabled /\ Receiving /\ lost = 0) =>
       \A c \in 1 .. captured :
         c > Received => \E k \in 1 .. Len(chan) : chan[k] = c
  /\ (enabled /\ ~Receiving) => Received >= captured

WholeInv == PhaseInv /\ (~truncated => Caught)

LEMMA MoveWhole ==
  ASSUME SinkTypeOK, NEW p \in Seq(Line), NEW t \in BOOLEAN, SinkMove(p, t),
         NEW n \in Nat, Whole(logs, p, n), ~truncated'
  PROVE  /\ Whole(logs', pending', n)
         /\ Received' = Len(logs) + Len(p)
         /\ ~t
<1>0. Len(logs) \in Nat /\ Len(p) \in Nat /\ logs \in Seq(LogRow)
  BY DEF SinkTypeOK
<1>1. CASE Hold(p, t)
  BY <1>1 DEF Hold, Received
<1>2. CASE Persist(p, t)
  <2>1. Joined(logs, p, logs')
    BY <1>2, PersistedRows DEF RowsAdded, Joined
  <2>2. logs' \in Seq(LogRow)
    BY SinkMoveTyped DEF SinkTypeOK
  <2>3. pending' = <<>> /\ ~t
    BY <1>2 DEF Persist
  <2>4. Received' = Len(logs) + Len(p)
    BY <1>0, <2>1, <2>3 DEF Received, Joined
  <2>5. ASSUME NEW i \in 1 .. Len(logs')
        PROVE  IF logs'[i].kind = "log" THEN logs'[i].cap = i /\ i <= n
                                        ELSE i > n
    <3>1. CASE i \in 1 .. Len(logs) /\ logs'[i] = logs[i]
      BY <3>1 DEF Whole
    <3>2. ASSUME NEW k \in 1 .. Len(p), i = Len(logs) + k,
                 logs'[i].kind = p[k].kind, logs'[i].cap = p[k].cap
          PROVE  IF logs'[i].kind = "log" THEN logs'[i].cap = i /\ i <= n
                                          ELSE i > n
      BY <3>2 DEF Whole
    <3> QED BY <1>0, <2>1, <2>2, <3>1, <3>2, JoinedSplit
  <2>6. Len(<<>>) = 0
    OBVIOUS
  <2> QED BY <2>3, <2>4, <2>5, <2>6 DEF Whole
<1>3. CASE Retain(p, t)
  <2>1. ~(Len(p) > MaxPending) /\ ~t
    BY <1>3 DEF Retain
  <2>2. pending' = p /\ logs' = logs
    BY <1>3, <2>1 DEF Retain, Newest
  <2> QED BY <2>1, <2>2 DEF Received
<1> QED BY <1>1, <1>2, <1>3 DEF SinkMove

\* The buffer with one more line.
LEMMA AppendParts ==
  ASSUME NEW p \in Seq(Line), NEW x \in Line
  PROVE  /\ Append(p, x) \in Seq(Line)
         /\ Len(Append(p, x)) = Len(p) + 1
         /\ \A i \in 1 .. Len(p) : Append(p, x)[i] = p[i]
         /\ Append(p, x)[Len(p) + 1] = x
         /\ \A i \in 1 .. Len(Append(p, x)) : i \in 1 .. Len(p) \/ i = Len(p) + 1
<1> DEFINE q == Append(p, x)
<1>1. /\ q \in Seq(Line)
      /\ Len(q) = Len(p) + 1
      /\ Len(p) \in Nat
      /\ q[Len(p) + 1] = x
  OBVIOUS
<1>2. \A i \in 1 .. Len(p) : q[i] = p[i]
  OBVIOUS
<1> HIDE DEF q
<1>3. \A i \in 1 .. Len(q) : i \in 1 .. Len(p) \/ i = Len(p) + 1
  BY <1>1
<1> QED BY <1>1, <1>2, <1>3 DEF q

LEMMA WholeAppend ==
  ASSUME NEW lg \in Seq(LogRow), NEW p \in Seq(Line), NEW n \in Nat,
         NEW x \in Line, Whole(lg, p, n),
         IF x.kind = "log" THEN /\ x.cap = Len(lg) + Len(p) + 1
                                /\ Len(lg) + Len(p) + 1 <= n
                           ELSE Len(lg) + Len(p) + 1 > n
  PROVE  Whole(lg, Append(p, x), n)
<1> DEFINE q == Append(p, x)
<1>0. Len(lg) \in Nat /\ Len(p) \in Nat
  OBVIOUS
<1>1. /\ Len(q) = Len(p) + 1
      /\ \A i \in 1 .. Len(p) : q[i] = p[i]
      /\ q[Len(p) + 1] = x
      /\ \A i \in 1 .. Len(q) : i \in 1 .. Len(p) \/ i = Len(p) + 1
  BY AppendParts
<1> HIDE DEF q
<1>2. ASSUME NEW i \in 1 .. Len(q)
      PROVE  IF q[i].kind = "log" THEN q[i].cap = Len(lg) + i /\ Len(lg) + i <= n
                                  ELSE Len(lg) + i > n
  <2>1. CASE i \in 1 .. Len(p)
    BY <1>1, <2>1 DEF Whole
  <2>2. CASE i = Len(p) + 1
    <3>1. q[i] = x /\ Len(lg) + i = Len(lg) + Len(p) + 1
      BY <1>0, <1>1, <2>2
    <3> QED BY <3>1
  <2> QED BY <1>1, <2>1, <2>2
<1>3. Whole(lg, q, n)
  BY <1>2 DEF Whole
<1> QED BY <1>3 DEF q

LEMMA WholeInit == Init => WholeInv
<1> SUFFICES ASSUME Init
             PROVE  WholeInv
  OBVIOUS
<1>1. /\ phase = "register" /\ handler = "idle" /\ ~enabled
      /\ chan = <<>> /\ logs = <<>> /\ pending = <<>> /\ captured = 0
  BY DEF Init
<1>2. Whole(<<>>, <<>>, 0) /\ Len(<<>>) = 0
  BY DEF Whole
<1> QED BY <1>1, <1>2 DEF WholeInv, PhaseInv, Caught, Received, Receiving

\* The end of the channel after a broadcast.
LEMMA SendParts ==
  ASSUME chan \in Seq(Nat), lost \in Nat, NEW e \in Nat, Send(e)
  PROVE  /\ \A k \in 1 .. Len(chan') :
              chan'[k] = e \/ \E m \in 1 .. Len(chan) : chan'[k] = chan[m]
         /\ lost' = 0 =>
              /\ lost = 0
              /\ \E k \in 1 .. Len(chan') : chan'[k] = e
              /\ \A m \in 1 .. Len(chan) :
                   \E k \in 1 .. Len(chan') : chan'[k] = chan[m]
<1>a. ASSUME NEW c \in Seq(Nat)
      PROVE  /\ Len(Append(c, e)) = Len(c) + 1
             /\ Len(c) \in Nat
             /\ Append(c, e)[Len(c) + 1] = e
             /\ \A i \in 1 .. Len(c) : Append(c, e)[i] = c[i]
  OBVIOUS
<1>1. CASE Len(chan) < ChannelSize
  <2>1. chan' = Append(chan, e) /\ lost' = lost
    BY <1>1 DEF Send
  <2>2. /\ Len(chan') = Len(chan) + 1
        /\ Len(chan) \in Nat
        /\ chan'[Len(chan) + 1] = e
        /\ \A i \in 1 .. Len(chan) : chan'[i] = chan[i]
    BY <1>a, <2>1
  <2>3. ASSUME NEW k \in 1 .. Len(chan')
        PROVE  k \in 1 .. Len(chan) \/ k = Len(chan) + 1
    BY <2>2
  <2>4. /\ Len(chan) + 1 \in 1 .. Len(chan')
        /\ \A m \in 1 .. Len(chan) : m \in 1 .. Len(chan')
    BY <2>2
  <2> QED BY <2>1, <2>2, <2>3, <2>4
<1>2. CASE ~(Len(chan) < ChannelSize)
  <2> DEFINE c == Tail(chan)
  <2>1. chan # <<>>
    BY <1>2, LimitsAssumption
  <2>2. /\ c \in Seq(Nat)
        /\ \A j \in 1 .. Len(c) : j + 1 \in 1 .. Len(chan) /\ c[j] = chan[j + 1]
    BY <2>1, TailParts
  <2>3. chan' = Append(c, e) /\ lost' = lost + 1
    BY <1>2 DEF Send
  <2> HIDE DEF c
  <2>4. /\ Len(chan') = Len(c) + 1
        /\ Len(c) \in Nat
        /\ chan'[Len(c) + 1] = e
        /\ \A i \in 1 .. Len(c) : chan'[i] = c[i]
    BY <1>a, <2>2, <2>3
  <2>5. ASSUME NEW k \in 1 .. Len(chan')
        PROVE  chan'[k] = e \/ \E m \in 1 .. Len(chan) : chan'[k] = chan[m]
    <3>1. k \in 1 .. Len(c) \/ k = Len(c) + 1
      BY <2>4
    <3> QED BY <2>2, <2>4, <3>1
  <2>6. lost' # 0
    BY <2>3
  <2> QED BY <2>5, <2>6
<1> QED BY <1>1, <1>2

\* A broadcast, by the handler (e is the next capture number) or by anyone
\* else (e is 0), seen by a task whose run is registered and still receives.
LEMMA CaughtSend ==
  ASSUME TypeOK, Caught, NEW e \in Nat, Send(e),
         (e = 0 /\ captured' = captured)
           \/ (e = captured + 1 /\ captured' = captured + 1 /\ Receiving),
         UNCHANGED <<logs, pending>>,
         Receiving' = Receiving, (phase' = "close") = (phase = "close"),
         enabled' = enabled
  PROVE  Caught'
<1>0. /\ logs \in Seq(LogRow) /\ pending \in Seq(Line) /\ captured \in Nat
      /\ chan \in Seq(Nat) /\ lost \in Nat
      /\ Len(logs) \in Nat /\ Len(pending) \in Nat /\ Received \in Nat
      /\ Received' = Received /\ logs' = logs /\ pending' = pending
  BY DEF TypeOK, Received
<1>1. /\ \A k \in 1 .. Len(chan') :
           chan'[k] = e \/ \E m \in 1 .. Len(chan) : chan'[k] = chan[m]
      /\ lost' = 0 =>
           /\ lost = 0
           /\ \E k \in 1 .. Len(chan') : chan'[k] = e
           /\ \A m \in 1 .. Len(chan) :
                \E k \in 1 .. Len(chan') : chan'[k] = chan[m]
  BY <1>0, SendParts
<1>2. /\ Whole(logs, pending, captured)
      /\ Receiving \/ phase = "close" => Received <= captured
      /\ (enabled /\ Receiving) =>
            \A k \in 1 .. Len(chan) : chan[k] = 0 \/ chan[k] > Received
      /\ (enabled /\ Receiving /\ lost = 0) =>
            \A c \in 1 .. captured :
              c > Received => \E k \in 1 .. Len(chan) : chan[k] = c
      /\ (enabled /\ ~Receiving) => Received >= captured
  BY DEF Caught
<1>3. CASE e = 0 /\ captured' = captured
  <2>1. Whole(logs, pending, captured')
    BY <1>2, <1>3
  <2>2. ASSUME enabled, Receiving
        PROVE  \A k \in 1 .. Len(chan') : chan'[k] = 0 \/ chan'[k] > Received
    BY <1>1, <1>2, <1>3, <2>2
  <2>3. ASSUME enabled, Receiving, lost' = 0, NEW c \in 1 .. captured, c > Received
        PROVE  \E k \in 1 .. Len(chan') : chan'[k] = c
    BY <1>1, <1>2, <2>3
  <2> QED BY <1>0, <1>2, <1>3, <2>1, <2>2, <2>3 DEF Caught
<1>4. CASE e = captured + 1 /\ captured' = captured + 1 /\ Receiving
  <2>0. Received <= captured
    BY <1>2, <1>4
  <2>1. Whole(logs, pending, captured')
    <3>1. ASSUME NEW i \in 1 .. Len(logs)
          PROVE  IF logs[i].kind = "log" THEN logs[i].cap = i /\ i <= captured'
                                         ELSE i > captured'
      <4>1. i <= captured
        BY <1>0, <2>0 DEF Received
      <4> QED BY <1>0, <1>2, <1>4, <4>1 DEF Whole
    <3>2. ASSUME NEW i \in 1 .. Len(pending)
          PROVE  IF pending[i].kind = "log"
                 THEN pending[i].cap = Len(logs) + i /\ Len(logs) + i <= captured'
                 ELSE Len(logs) + i > captured'
      <4>1. Len(logs) + i <= captured
        BY <1>0, <2>0 DEF Received
      <4>a. Whole(logs, pending, captured)
        BY <1>2
      <4>b. IF pending[i].kind = "log"
            THEN pending[i].cap = Len(logs) + i /\ Len(logs) + i <= captured
            ELSE Len(logs) + i > captured
        BY <4>a DEF Whole
      <4>c. Len(logs) + i \in Nat /\ captured \in Nat
        BY <1>0
      <4>2. pending[i].kind = "log" /\ pending[i].cap = Len(logs) + i
        BY <4>1, <4>b, <4>c
      <4>3. Len(logs) + i <= captured'
        BY <1>0, <1>4, <4>1
      <4> QED BY <4>2, <4>3
    <3> QED BY <3>1, <3>2 DEF Whole
  <2>2. ASSUME enabled
        PROVE  \A k \in 1 .. Len(chan') : chan'[k] = 0 \/ chan'[k] > Received
    <3>1. e > Received
      BY <1>0, <1>4, <2>0
    <3> QED BY <1>1, <1>2, <1>4, <2>2, <3>1
  <2>3. ASSUME enabled, lost' = 0, NEW c \in 1 .. captured', c > Received
        PROVE  \E k \in 1 .. Len(chan') : chan'[k] = c
    <3>1. c \in 1 .. captured \/ c = e
      BY <1>0, <1>4
    <3> QED BY <1>1, <1>2, <1>4, <2>3, <3>1
  <2>4. Received' <= captured'
    BY <1>0, <1>4, <2>0
  <2> QED BY <1>0, <1>4, <2>1, <2>2, <2>3, <2>4 DEF Caught
<1> QED BY <1>3, <1>4

\* Every move of the sink keeps or sets the flag it is given.
LEMMA MoveFlag ==
  ASSUME NEW p, NEW t \in BOOLEAN, SinkMove(p, t), ~truncated'
  PROVE  ~t
BY DEF SinkMove, Hold, Persist, Retain

\* An event is received.  Its capture number is the next one: the lines
\* below it are in table and buffer, and the one above them is on the
\* channel, which is in order.
LEMMA NextOnChannel ==
  ASSUME TypeOK, OrderInv, Caught, enabled, Receiving, lost = 0, chan # <<>>,
         chan[1] # 0
  PROVE  chan[1] = Received + 1 /\ chan[1] <= captured
<1>1. /\ chan \in Seq(Nat) /\ captured \in Nat /\ Received \in Nat
      /\ 1 \in 1 .. Len(chan) /\ chan[1] \in Nat
  BY DEF TypeOK, Received
<1>2. chan[1] > Received /\ chan[1] <= captured
  BY <1>1 DEF Caught, OrderInv, ChanOrder
<1>3. Received + 1 \in 1 .. captured /\ Received + 1 > Received
  BY <1>1, <1>2
<1>4. PICK k \in 1 .. Len(chan) : chan[k] = Received + 1
  BY <1>3 DEF Caught
<1>5. k = 1 \/ chan[1] < chan[k]
  <2>1. k = 1 \/ 1 < k
    BY <1>1
  <2>2. chan[k] # 0
    BY <1>1, <1>4
  <2> QED BY <1>1, <2>1, <2>2 DEF OrderInv, ChanOrder
<1> QED BY <1>1, <1>2, <1>4, <1>5

\* What is left on the channel after its first event was received.
LEMMA ChannelAfter ==
  ASSUME chan \in Seq(Nat), chan # <<>>, captured \in Nat,
         NEW r \in Nat, NEW r1 \in Nat,
         \/ chan[1] = 0 /\ r1 = r
         \/ chan[1] = r + 1 /\ r1 = r + 1,
         ChanOrder(chan, captured),
         \A k \in 1 .. Len(chan) : chan[k] = 0 \/ chan[k] > r,
         \A c \in 1 .. captured : c > r => \E k \in 1 .. Len(chan) : chan[k] = c
  PROVE  /\ \A k \in 1 .. Len(Tail(chan)) : Tail(chan)[k] = 0 \/ Tail(chan)[k] > r1
         /\ \A c \in 1 .. captured :
              c > r1 => \E k \in 1 .. Len(Tail(chan)) : Tail(chan)[k] = c
<1> DEFINE tl == Tail(chan)
<1>1. /\ Len(tl) = Len(chan) - 1
      /\ Len(chan) \in Nat \ {0}
      /\ \A j \in 1 .. Len(tl) : j + 1 \in 1 .. Len(chan) /\ tl[j] = chan[j + 1]
      /\ \A j \in 1 .. Len(chan) : chan[j] \in Nat
  BY TailParts
<1> HIDE DEF tl
<1>2. ASSUME NEW k \in 1 .. Len(tl), tl[k] # 0
      PROVE  tl[k] > r1
  <2>1. k + 1 \in 1 .. Len(chan) /\ tl[k] = chan[k + 1] /\ chan[k + 1] \in Nat
    BY <1>1
  <2>2. chan[k + 1] > r
    BY <1>2, <2>1
  <2>3. CASE chan[1] = r + 1
    <3>1. 1 \in 1 .. Len(chan) /\ 1 < k + 1 /\ chan[1] # 0
      BY <1>1, <2>3
    <3>2. chan[1] < chan[k + 1]
      BY <1>2, <2>1, <3>1 DEF ChanOrder
    <3> QED BY <2>1, <2>3, <3>2
  <2> QED BY <2>1, <2>2, <2>3
<1>3. ASSUME NEW c \in 1 .. captured, c > r1
      PROVE  \E k \in 1 .. Len(tl) : tl[k] = c
  <2>1. PICK m \in 1 .. Len(chan) : chan[m] = c
    BY <1>3
  <2>2. m # 1
    BY <1>3, <2>1
  <2>3. /\ m - 1 \in 1 .. Len(tl)
        /\ (m - 1) + 1 = m
    BY <1>1, <2>2
  <2>4. tl[m - 1] = c
    BY <1>1, <2>1, <2>3
  <2> QED BY <2>3, <2>4
<1> QED BY <1>2, <1>3 DEF tl

LEMMA CaughtReceive ==
  ASSUME TypeOK, OrderInv, PhaseInv, ~truncated => Caught, ReceiveEvent, ~truncated'
  PROVE  Caught'
<1> DEFINE e == Head(chan)
           x == HandlerLine(e)
<1>0. /\ SinkTypeOK /\ logs \in Seq(LogRow) /\ pending \in Seq(Line)
      /\ captured \in Nat /\ chan \in Seq(Nat) /\ truncated \in BOOLEAN
      /\ Len(logs) \in Nat /\ Len(pending) \in Nat /\ Received \in Nat
  BY DEF TypeOK, SinkTypeOK, Received
<1>1. /\ phase' = phase /\ captured' = captured /\ lost' = lost /\ lost = 0
      /\ enabled' = enabled /\ chan # <<>> /\ chan' = Tail(chan) /\ Consume(e)
      /\ Receiving /\ Receiving'
  BY DEF ReceiveEvent, Receiving
<1>2. e = chan[1] /\ e \in Nat
  BY <1>0, <1>1
<1> HIDE DEF e
<1>3. CASE ~(enabled /\ e # 0)
  <2>1. UNCHANGED sinkVars
    BY <1>1, <1>3 DEF Consume
  <2>2. /\ logs' = logs /\ pending' = pending /\ Received' = Received
        /\ ~truncated
    BY <2>1 DEF sinkVars, Received
  <2>3. CASE ~enabled
    BY <1>1, <2>2, <2>3 DEF Caught
  <2>4. CASE enabled /\ e = 0
    <3>1. /\ \A k \in 1 .. Len(chan') : chan'[k] = 0 \/ chan'[k] > Received
          /\ \A c \in 1 .. captured :
               c > Received => \E k \in 1 .. Len(chan') : chan'[k] = c
      <4>1. /\ \A k \in 1 .. Len(chan) : chan[k] = 0 \/ chan[k] > Received
            /\ \A c \in 1 .. captured :
                 c > Received => \E k \in 1 .. Len(chan) : chan[k] = c
        BY <1>1, <2>2, <2>4 DEF Caught
      <4>2. ChanOrder(chan, captured) /\ chan[1] = 0
        BY <1>2, <2>4 DEF OrderInv
      <4>3. /\ \A j \in 1 .. Len(chan') : /\ j + 1 \in 1 .. Len(chan)
                                            /\ chan'[j] = chan[j + 1]
            /\ Len(chan') = Len(chan) - 1
            /\ Len(chan) \in Nat \ {0}
        BY <1>0, <1>1, TailParts
      <4>4. ASSUME NEW c \in 1 .. captured, c > Received
            PROVE  \E k \in 1 .. Len(chan') : chan'[k] = c
        <5>1. PICK m \in 1 .. Len(chan) : chan[m] = c
          BY <4>1, <4>4
        <5>2. m - 1 \in 1 .. Len(chan') /\ (m - 1) + 1 = m
          BY <4>2, <4>3, <5>1
        <5> QED BY <4>3, <5>1, <5>2
      <4> QED BY <4>1, <4>3, <4>4
    <3> QED BY <1>1, <2>2, <3>1 DEF Caught
  <2> QED BY <1>3, <2>3, <2>4
<1>4. CASE enabled /\ e # 0
  <2>1. AppendLine(e)
    BY <1>1, <1>4 DEF Consume
  <2>2. SinkMove(Append(pending, x), truncated)
    BY <2>1, FlushIfFullIsMove DEF AppendLine, Hold, sinkVars
  <2>3. ~truncated
    BY <1>0, <2>2, MoveFlag
  <2>4. e = Received + 1 /\ e <= captured
    BY <1>1, <1>2, <1>4, <2>3, NextOnChannel
  <2>5. x \in Line /\ x.kind = "log" /\ x.cap = e
    BY <1>2, LinesTyped DEF HandlerLine
  <2> HIDE DEF x
  <2>6. Whole(logs, Append(pending, x), captured)
    BY <1>0, <2>3, <2>4, <2>5, WholeAppend DEF Caught, Received
  <2>7. /\ Whole(logs', pending', captured)
        /\ Received' = Received + 1
    <3>1. Append(pending, x) \in Seq(Line) /\ Len(Append(pending, x)) = Len(pending) + 1
      BY <1>0, <2>5
    <3>2. /\ Whole(logs', pending', captured)
          /\ Received' = Len(logs) + Len(Append(pending, x))
      BY <1>0, <2>2, <2>6, <3>1, MoveWhole
    <3> QED BY <1>0, <3>1, <3>2 DEF Received
  <2>8. /\ \A k \in 1 .. Len(chan') : chan'[k] = 0 \/ chan'[k] > Received + 1
        /\ \A c \in 1 .. captured :
             c > Received + 1 => \E k \in 1 .. Len(chan') : chan'[k] = c
    <3>1. Received + 1 \in Nat
      BY <1>0
    <3> QED BY <1>0, <1>1, <1>2, <1>4, <2>3, <2>4, <3>1, ChannelAfter
            DEF Caught, OrderInv
  <2>9. Received' <= captured
    BY <2>4, <2>7
  <2> QED BY <1>1, <2>7, <2>8, <2>9 DEF Caught
<1> QED BY <1>3, <1>4

LEMMA CaughtClose ==
  ASSUME TypeOK, PhaseInv, ~truncated => Caught, CloseSink, ~truncated'
  PROVE  Caught'
<1> DEFINE p == IF enabled /\ handler = "err"
                  THEN Append(pending, FailureLine) ELSE pending
<1>0. /\ SinkTypeOK /\ logs \in Seq(LogRow) /\ pending \in Seq(Line)
      /\ captured \in Nat /\ truncated \in BOOLEAN
      /\ Len(logs) \in Nat /\ Len(pending) \in Nat /\ Received \in Nat
      /\ FailureLine \in Line /\ FailureLine.kind # "log"
  BY LinesTyped DEF TypeOK, SinkTypeOK, Received, FailureLine
<1>1. /\ phase = "close" /\ phase' = "finish" /\ captured' = captured
      /\ enabled' = enabled /\ SinkMove(p, truncated)
  BY FlushIsMove DEF CloseSink, busVars
<1>2. ~truncated /\ Caught
  BY <1>0, <1>1, MoveFlag
<1>3. /\ Whole(logs, pending, captured) /\ Received <= captured
      /\ enabled => Received >= captured
  BY <1>1, <1>2 DEF Caught, Receiving
<1>4. p \in Seq(Line) /\ Len(p) >= Len(pending)
  BY <1>0
<1>5. Whole(logs, p, captured)
  <2>1. CASE enabled /\ handler = "err"
    BY <1>0, <1>3, <2>1, WholeAppend DEF Received
  <2>2. CASE ~(enabled /\ handler = "err")
    BY <1>3, <2>2
  <2> QED BY <2>1, <2>2
<1> HIDE DEF p
<1>6. /\ Whole(logs', pending', captured)
      /\ Received' = Len(logs) + Len(p)
  BY <1>0, <1>1, <1>4, <1>5, MoveWhole
<1>7. enabled => Received' >= captured
  BY <1>0, <1>3, <1>4, <1>6 DEF Received
<1> QED BY <1>1, <1>6, <1>7 DEF Caught, Receiving

LEMMA PhaseStep ==
  ASSUME TypeOK, PhaseInv, [Next]_vars
  PROVE  PhaseInv'
<1>1. CASE RegisterRun \/ HandlerDone \/ DrainEmpty \/ FinishRun \/ HandlerLogs
           \/ HandlerEnds \/ ForeignEvent
  BY <1>1 DEF RegisterRun, HandlerDone, DrainEmpty, FinishRun, HandlerLogs,
              HandlerEnds, ForeignEvent, sinkVars, busVars, PhaseInv, TypeOK
<1>2. CASE ReceiveLag \/ ReceiveEvent
  <2>1. ~enabled => UNCHANGED <<logs, pending>>
    BY <1>2 DEF ReceiveLag, ReceiveEvent, NoteLost, Consume, sinkVars
  <2>2. UNCHANGED <<phase, handler, captured, enabled>>
        /\ phase \in {"receive", "drain"}
    BY <1>2 DEF ReceiveLag, ReceiveEvent
  <2> QED BY <2>1, <2>2 DEF PhaseInv
<1>3. CASE IdleFlush \/ CloseSink
  <2>1. ~enabled => UNCHANGED <<logs, pending>>
    BY <1>3 DEF IdleFlush, CloseSink, Flush, Hold
  <2> QED BY <1>3, <2>1 DEF IdleFlush, CloseSink, busVars, PhaseInv
<1>4. CASE UNCHANGED vars
  BY <1>4 DEF vars, PhaseInv
<1> QED BY <1>1, <1>2, <1>3, <1>4 DEF Next, TaskStep

LEMMA CaughtStep ==
  ASSUME TypeOK, OrderInv, PhaseInv, ~truncated => Caught, [Next]_vars,
         ~truncated'
  PROVE  Caught'
<1>0. /\ SinkTypeOK /\ pending \in Seq(Line) /\ captured \in Nat
      /\ Len(logs) \in Nat /\ Len(pending) \in Nat
      /\ truncated \in BOOLEAN /\ captured + 1 \in Nat
  BY DEF TypeOK, SinkTypeOK
<1>1. CASE RegisterRun
  <2>1. /\ phase = "register" /\ phase' = "receive" /\ ~truncated
        /\ UNCHANGED <<logs, pending, captured>> /\ captured = 0
        /\ Send(0)
    BY <1>1 DEF RegisterRun, sinkVars, PhaseInv
  <2> QED
    <3>1. Whole(logs', pending', captured')
      BY <2>1 DEF Caught
    <3>2. Received' <= captured'
      BY <2>1 DEF Caught, Receiving, Received
    <3>3. \A k \in 1 .. Len(chan') : chan'[k] = 0 \/ chan'[k] > Received'
      <4>1. chan' \in Seq(Nat)
        BY <2>1, SendTyped DEF TypeOK
      <4>2. Received' = 0
        BY <1>0, <2>1, <3>2 DEF Received
      <4> QED BY <4>1, <4>2
    <3> QED BY <2>1, <3>1, <3>2, <3>3 DEF Caught, Receiving
<1>2. CASE ReceiveLag
  <2>1. NoteLost /\ UNCHANGED <<phase, captured, chan, enabled>> /\ Receiving
    BY <1>2 DEF ReceiveLag, Receiving
  <2>2. UNCHANGED sinkVars /\ ~enabled
    <3>1. CASE enabled /\ ~truncated
      <4>1. SinkMove(Append(pending, NoticeLine), TRUE)
        BY <2>1, <3>1, FlushIfFullIsMove DEF NoteLost
      <4> QED BY <4>1, MoveFlag
    <3>2. CASE ~(enabled /\ ~truncated)
      BY <2>1, <3>2 DEF NoteLost, sinkVars
    <3> QED BY <3>1, <3>2
  <2> QED BY <2>1, <2>2 DEF sinkVars, Caught, Receiving, Received
<1>3. CASE ReceiveEvent
  BY <1>3, CaughtReceive
<1>4. CASE IdleFlush
  <2>1. /\ SinkMove(pending, truncated)
        /\ UNCHANGED <<phase, captured, chan, lost, enabled>>
    BY <1>4, FlushIsMove DEF IdleFlush, busVars
  <2>2. ~truncated
    BY <1>0, <2>1, MoveFlag
  <2>3. Whole(logs', pending', captured) /\ Received' = Received
    BY <1>0, <2>1, <2>2, MoveWhole DEF Caught, Received
  <2> QED BY <2>1, <2>2, <2>3 DEF Caught, Receiving
<1>5. CASE HandlerDone \/ HandlerEnds
  BY <1>5 DEF HandlerDone, HandlerEnds, busVars, sinkVars, Caught, Receiving, Received
<1>6. CASE DrainEmpty
  <2>1. /\ UNCHANGED <<logs, pending, captured, enabled, chan>> /\ ~truncated
        /\ phase = "drain" /\ phase' = "close" /\ lost = 0 /\ Len(chan) = 0
    BY <1>6 DEF DrainEmpty, busVars, sinkVars
  <2>2. Received' = Received
    BY <2>1 DEF Received
  <2>3. enabled => Received >= captured
    <3>1. ASSUME enabled, ~(Received >= captured)
          PROVE  FALSE
      <4>1. captured \in 1 .. captured /\ captured > Received
        BY <1>0, <3>1 DEF Received
      <4>2. \E k \in 1 .. Len(chan) : chan[k] = captured
        BY <2>1, <3>1, <4>1 DEF Caught, Receiving
      <4> QED BY <2>1, <4>2
    <3> QED BY <3>1
  <2> QED BY <2>1, <2>2, <2>3 DEF Caught, Receiving
<1>7. CASE CloseSink
  BY <1>7, CaughtClose
<1>8. CASE FinishRun
  BY <1>8 DEF FinishRun, busVars, sinkVars, Caught, Receiving, Received
<1>9. CASE HandlerLogs
  <2>1. phase = "receive"
    BY <1>9 DEF HandlerLogs, PhaseInv, TypeOK
  <2> QED BY <1>0, <1>9, <2>1, CaughtSend DEF HandlerLogs, sinkVars, Receiving
<1>10. CASE ForeignEvent
  <2>1. UNCHANGED <<phase, logs, pending, enabled, captured, truncated>> /\ Send(0)
    BY <1>10 DEF ForeignEvent, sinkVars
  <2> QED BY <1>0, <2>1, CaughtSend DEF Receiving
<1>11. CASE UNCHANGED vars
  BY <1>11 DEF vars, Caught, Receiving, Received
<1> QED BY <1>1, <1>2, <1>3, <1>4, <1>5, <1>6, <1>7, <1>8, <1>9, <1>10, <1>11
        DEF Next, TaskStep

LEMMA WholeAlways == Spec => []WholeInv
<1>1. TypeOK /\ OrderInv /\ WholeInv /\ [Next]_vars => WholeInv'
  BY PhaseStep, CaughtStep DEF WholeInv
<1>2. TypeOK /\ OrderInv /\ [Next]_vars => OrderInv'
  BY OrderStep
<1> QED BY <1>1, <1>2, TypeCorrect, WholeInit, OrderInit, PTL DEF Spec

\* As long as nothing was reported as lost, a line is stored under the
\* number under which it was broadcast.
THEOREM SeqIsCaptureSeqHolds == Spec => []SeqIsCaptureSeqUntilTruncated
<1>1. WholeInv /\ RowsNumberedInOrder => SeqIsCaptureSeqUntilTruncated
  BY DEF WholeInv, Caught, Whole, RowsNumberedInOrder,
         SeqIsCaptureSeqUntilTruncated, HandlerLines
<1> QED BY <1>1, WholeAlways, RowsNumbered, PTL

\* Lag, retries, drops and the limit never lose a line of the handler
\* silently: without the truncation flag, and with the last flush through,
\* the table holds every line.
THEOREM NoUnreportedLossHolds == Spec => []NoUnreportedLoss
<1>1. TypeOK /\ WholeInv => NoUnreportedLoss
  <2> SUFFICES ASSUME TypeOK, WholeInv, phase \in {"finish", "done"}, enabled,
                      ~truncated, pending = <<>>
               PROVE  {logs[i].cap : i \in HandlerLines(logs)} = 1 .. captured
    BY DEF NoUnreportedLoss
  <2>1. /\ Len(logs) \in Nat /\ captured \in Nat /\ Len(pending) = 0
    BY DEF TypeOK
  <2>2. Whole(logs, pending, captured) /\ Len(logs) >= captured
    BY <2>1 DEF WholeInv, Caught, Receiving, Received
  <2>3. ASSUME NEW c \in 1 .. captured
        PROVE  c \in HandlerLines(logs) /\ logs[c].cap = c
    BY <2>1, <2>2 DEF Whole, HandlerLines
  <2>4. ASSUME NEW i \in HandlerLines(logs)
        PROVE  logs[i].cap \in 1 .. captured
    BY <2>1, <2>2 DEF Whole, HandlerLines
  <2> QED BY <2>3, <2>4
<1> QED BY <1>1, WholeAlways, TypeCorrect, PTL

-----------------------------------------------------------------------------
(***************************************************************************)
(* The buffer.  Only the notice of the limit is pushed without a flush, so *)
(* the buffer exceeds its cap by one line, and only once the limit was     *)
(* reached and announced; after that nothing but the failure line comes,   *)
(* which is flushed.                                                       *)
(***************************************************************************)
BufferInv ==
  /\ ~enabled => Len(pending) = 0
  /\ Len(pending) <= MaxPending + 1
  /\ Len(pending) > MaxPending => truncated /\ logCount >= MaxLogPerRun

\* A flush that is tried brings the buffer back under its cap.
LEMMA FlushBounds ==
  ASSUME NEW p \in Seq(Line), NEW t, enabled, Flush(p, t)
  PROVE  Len(pending') <= MaxPending
<1>0. MaxPending \in Nat /\ Len(p) \in Nat
  BY LimitsAssumption
<1>1. CASE Persist(p, t)
  BY <1>0, <1>1 DEF Persist
<1>2. CASE Retain(p, t)
  BY <1>0, <1>2, NewestTyped DEF Retain
<1>3. CASE Len(p) = 0 /\ Hold(p, t)
  BY <1>0, <1>3 DEF Hold
<1> QED BY <1>0, <1>1, <1>2, <1>3 DEF Flush

LEMMA FlushIfFullBounds ==
  ASSUME NEW p \in Seq(Line), NEW t, enabled, FlushIfFull(p, t)
  PROVE  Len(pending') <= MaxPending
<1>0. /\ MaxPending \in Nat /\ BatchSize \in Nat /\ BatchSize <= MaxPending
      /\ Len(p) \in Nat
  BY LimitsAssumption
<1>1. CASE Len(p) >= BatchSize
  BY <1>1, FlushBounds DEF FlushIfFull
<1>2. CASE ~(Len(p) >= BatchSize)
  BY <1>0, <1>2 DEF FlushIfFull, Hold
<1> QED BY <1>1, <1>2

LEMMA BufferStep ==
  ASSUME TypeOK, PhaseInv, BufferInv, [Next]_vars
  PROVE  BufferInv'
<1>0. /\ MaxPending \in Nat /\ MaxLogPerRun \in Nat
      /\ pending \in Seq(Line) /\ Len(pending) \in Nat /\ logCount \in Nat
  BY LimitsAssumption DEF TypeOK
<1>k. ASSUME enabled' = enabled, enabled, Len(pending') <= MaxPending,
             pending' \in Seq(Line)
      PROVE  BufferInv'
  BY <1>0, <1>k DEF BufferInv
<1>p. pending' \in Seq(Line)
  BY TypeStep DEF TypeOK
<1>1. CASE UNCHANGED sinkVars /\ (enabled' = enabled \/ enabled')
  BY <1>1 DEF sinkVars, BufferInv
<1>2. CASE ReceiveLag
  <2>1. enabled' = enabled /\ NoteLost
    BY <1>2 DEF ReceiveLag
  <2>2. CASE enabled /\ ~truncated
    <3>1. FlushIfFull(Append(pending, NoticeLine), TRUE)
      BY <2>1, <2>2 DEF NoteLost
    <3>2. Append(pending, NoticeLine) \in Seq(Line)
      BY <1>0, LinesTyped
    <3> QED BY <1>k, <1>p, <2>1, <2>2, <3>1, <3>2, FlushIfFullBounds
  <2> QED BY <1>1, <2>1, <2>2 DEF NoteLost
<1>3. CASE ReceiveEvent
  <2>1. enabled' = enabled /\ Consume(Head(chan)) /\ Head(chan) \in Nat
    BY <1>3 DEF ReceiveEvent, TypeOK
  <2>2. CASE enabled /\ Head(chan) # 0
    <3>1. AppendLine(Head(chan))
      BY <2>1, <2>2 DEF Consume
    <3>2. CASE logCount >= MaxLogPerRun
      <4>1. CASE ~truncated
        <5>1. Hold(Append(pending, NoticeLine), TRUE)
          BY <3>1, <3>2, <4>1 DEF AppendLine
        <5>2. /\ pending' = Append(pending, NoticeLine) /\ truncated'
              /\ logCount' = logCount
          BY <5>1 DEF Hold
        <5>3. Len(pending') = Len(pending) + 1
          BY <1>0, <5>2, AppendParts, LinesTyped
        <5>4. Len(pending) <= MaxPending
          BY <1>0, <4>1 DEF BufferInv
        <5> QED BY <1>0, <2>1, <2>2, <3>2, <5>2, <5>3, <5>4 DEF BufferInv
      <4>2. CASE truncated
        BY <1>1, <2>1, <3>1, <3>2, <4>2 DEF AppendLine
      <4> QED BY <4>1, <4>2
    <3>3. CASE ~(logCount >= MaxLogPerRun)
      <4>1. FlushIfFull(Append(pending, HandlerLine(Head(chan))), truncated)
        BY <3>1, <3>3 DEF AppendLine
      <4>2. Append(pending, HandlerLine(Head(chan))) \in Seq(Line)
        BY <1>0, <2>1, LinesTyped
      <4> QED BY <1>k, <1>p, <2>1, <2>2, <4>1, <4>2, FlushIfFullBounds
    <3> QED BY <3>2, <3>3
  <2>3. CASE ~(enabled /\ Head(chan) # 0)
    BY <1>1, <2>1, <2>3 DEF Consume
  <2> QED BY <2>2, <2>3
<1>4. CASE IdleFlush
  <2>1. enabled' = enabled /\ Flush(pending, truncated)
    BY <1>4 DEF IdleFlush
  <2>2. CASE enabled
    BY <1>0, <1>k, <1>p, <2>1, <2>2, FlushBounds
  <2>3. CASE ~enabled
    BY <2>1, <2>3 DEF Flush, Hold, BufferInv
  <2> QED BY <2>2, <2>3
<1>5. CASE CloseSink
  <2> DEFINE p == IF enabled /\ handler = "err"
                    THEN Append(pending, FailureLine) ELSE pending
  <2>1. enabled' = enabled /\ Flush(p, truncated)
    BY <1>5 DEF CloseSink
  <2>2. p \in Seq(Line) /\ (~enabled => p = pending)
    BY <1>0, LinesTyped
  <2> HIDE DEF p
  <2>3. CASE enabled
    BY <1>k, <1>p, <2>1, <2>2, <2>3, FlushBounds
  <2>4. CASE ~enabled
    BY <2>1, <2>2, <2>4 DEF Flush, Hold, BufferInv
  <2> QED BY <2>3, <2>4
<1>6. CASE RegisterRun \/ HandlerDone \/ DrainEmpty \/ FinishRun
           \/ HandlerLogs \/ HandlerEnds \/ ForeignEvent
  <2>1. UNCHANGED sinkVars /\ (enabled' = enabled \/ enabled')
    BY <1>6 DEF RegisterRun, HandlerDone, DrainEmpty, FinishRun, HandlerLogs,
                HandlerEnds, ForeignEvent
  <2> QED BY <1>1, <2>1
<1>7. CASE UNCHANGED vars
  BY <1>7 DEF vars, BufferInv
<1> QED BY <1>2, <1>3, <1>4, <1>5, <1>6, <1>7 DEF Next, TaskStep

\* No outage of the database makes the buffer grow beyond its cap by more
\* than the one notice.
THEOREM PendingBoundedHolds == Spec => []PendingBounded
<1>1. Init => BufferInv /\ PhaseInv
  <2> SUFFICES ASSUME Init
               PROVE  BufferInv /\ PhaseInv
    OBVIOUS
  <2>1. pending = <<>> /\ phase = "register" /\ Len(<<>>) = 0
    BY DEF Init
  <2>2. MaxPending \in Nat
    BY LimitsAssumption
  <2> QED BY <2>1, <2>2, WholeInit DEF BufferInv, WholeInv
<1>2. TypeOK /\ PhaseInv /\ BufferInv /\ [Next]_vars => PhaseInv' /\ BufferInv'
  BY PhaseStep, BufferStep
<1>3. BufferInv => PendingBounded
  BY DEF BufferInv, PendingBounded
<1> QED BY <1>1, <1>2, <1>3, TypeCorrect, PTL DEF Spec

-----------------------------------------------------------------------------
(***************************************************************************)
(* The account of the lines.  The only lines besides those of the handler  *)
(* are one notice and one failure, so what a table and a buffer hold is    *)
(* known from their lengths and from whether they hold these two.          *)
(***************************************************************************)
One(s, k) == IF \E i \in 1 .. Len(s) : s[i].kind = k THEN 1 ELSE 0

Unique(s, k) ==
  \A i, j \in 1 .. Len(s) : s[i].kind = k /\ s[j].kind = k => i = j

\* A buffer p behind a table lg, with log_count c and truncation flag t.
Tallied(lg, p, c, t) ==
  /\ \A k \in {"notice", "failure"} :
       Unique(lg, k) /\ Unique(p, k) /\ One(lg, k) + One(p, k) <= 1
  /\ ~t => One(lg, "notice") = 0 /\ One(p, "notice") = 0
  /\ c = Len(lg) - One(lg, "notice")

\* The lines that count, stored or waiting.
Load(c, p) == c + Len(p) - One(p, "notice")

\* How many lines the buffer may hold below the limit, after w failed inserts,
\* and with that the most lines that may ever count.
Spare(w) == IF w = 0 THEN BatchSize - 1 ELSE MaxPending
Cap(w)   == MaxLogPerRun + Spare(w)

Open == phase \in {"register", "receive", "drain", "close"}

(***************************************************************************)
(* append compares log_count, the flushed lines, with the limit: a line it *)
(* lets in finds at most Spare lines waiting, and Load is bounded by Cap.  *)
(* Only the failure line of close comes on top.                            *)
(***************************************************************************)
AccountInv ==
  /\ Tallied(logs, pending, logCount, truncated)
  /\ Open => /\ One(logs, "failure") = 0
             /\ One(pending, "failure") = 0
             /\ Load(logCount, pending) <= Cap(writeErrors)
             /\ logCount < MaxLogPerRun => Len(pending) <= Spare(writeErrors)
  /\ ~Open => logCount <= Cap(writeErrors) + One(logs, "failure")

LEMMA OneTyped ==
  ASSUME NEW s, NEW k
  PROVE  One(s, k) \in {0, 1} /\ One(s, k) \in Nat
BY DEF One

LEMMA OneAt ==
  ASSUME NEW s, NEW k, NEW i \in 1 .. Len(s), s[i].kind = k
  PROVE  One(s, k) = 1
BY DEF One

LEMMA NoneAt ==
  ASSUME NEW s, NEW k, One(s, k) = 0
  PROVE  \A i \in 1 .. Len(s) : s[i].kind # k
BY DEF One

\* A line is pushed.
LEMMA PushTally ==
  ASSUME NEW p \in Seq(Line), NEW x \in Line, NEW k
  PROVE  /\ One(Append(p, x), k) = IF x.kind = k THEN 1 ELSE One(p, k)
         /\ Unique(p, k) /\ (x.kind = k => One(p, k) = 0)
              => Unique(Append(p, x), k)
<1> DEFINE q == Append(p, x)
<1>1. /\ Len(q) = Len(p) + 1
      /\ Len(p) \in Nat
      /\ q[Len(p) + 1] = x
      /\ \A i \in 1 .. Len(p) : q[i] = p[i]
  OBVIOUS
<1> HIDE DEF q
<1>2. /\ \A i \in 1 .. Len(p) : i \in 1 .. Len(q)
      /\ Len(p) + 1 \in 1 .. Len(q)
      /\ \A i \in 1 .. Len(q) : i \in 1 .. Len(p) \/ i = Len(p) + 1
  BY <1>1
<1>3. One(q, k) = IF x.kind = k THEN 1 ELSE One(p, k)
  BY <1>1, <1>2 DEF One
<1>4. ASSUME Unique(p, k), x.kind = k => One(p, k) = 0
      PROVE  Unique(q, k)
  BY <1>1, <1>2, <1>4, NoneAt DEF Unique
<1> QED BY <1>3, <1>4 DEF q

\* The oldest lines are dropped.
LEMMA NewestTally ==
  ASSUME NEW p \in Seq(Line), NEW k
  PROVE  /\ One(Newest(p), k) <= One(p, k)
         /\ Unique(p, k) => Unique(Newest(p), k)
         /\ Len(Newest(p)) - One(Newest(p), k) <= Len(p) - One(p, k)
<1> DEFINE q == Newest(p)
           d == Len(p) - Len(q)
<1>0. Len(p) \in Nat /\ MaxPending \in Nat
  BY LimitsAssumption
<1>1. /\ q \in Seq(Line)
      /\ Len(q) = IF Len(p) > MaxPending THEN MaxPending ELSE Len(p)
      /\ \A i \in 1 .. Len(q) : q[i] = p[i + d]
  BY NewestTyped
<1>2. d = 0 => q = p
  BY <1>0, <1>1 DEF Newest
<1> HIDE DEF q
<1>3. d \in Nat /\ Len(q) \in Nat /\ Len(q) = Len(p) - d
  BY <1>0, <1>1
<1> HIDE DEF d
<1>4. \A i \in 1 .. Len(q) : i + d \in 1 .. Len(p) /\ q[i] = p[i + d]
  BY <1>0, <1>1, <1>3
<1>5. One(q, k) <= One(p, k)
  BY <1>4 DEF One
<1>6. ASSUME Unique(p, k)
      PROVE  Unique(q, k)
  <2> SUFFICES ASSUME NEW i \in 1 .. Len(q), NEW j \in 1 .. Len(q),
                      q[i].kind = k, q[j].kind = k
               PROVE  i = j
    BY DEF Unique
  <2>1. i + d = j + d
    BY <1>4, <1>6 DEF Unique
  <2> QED BY <1>3, <2>1
<1>7. Len(q) - One(q, k) <= Len(p) - One(p, k)
  <2>1. /\ One(q, k) = 0 \/ One(q, k) = 1
        /\ One(p, k) = 0 \/ One(p, k) = 1
    BY OneTyped
  <2>2. CASE d = 0
    BY <1>0, <1>2, <2>1, <2>2
  <2>3. CASE d > 0
    BY <1>0, <1>3, <2>1, <2>3
  <2> QED BY <1>3, <2>2, <2>3
<1> QED BY <1>5, <1>6, <1>7 DEF q

\* A buffer is written behind the rows.
LEMMA JoinTally ==
  ASSUME NEW lg \in Seq(LogRow), NEW p \in Seq(Line), NEW lg2 \in Seq(LogRow),
         Joined(lg, p, lg2), NEW k,
         Unique(lg, k), Unique(p, k), One(lg, k) + One(p, k) <= 1
  PROVE  Unique(lg2, k) /\ One(lg2, k) = One(lg, k) + One(p, k)
<1>0. /\ Len(lg) \in Nat /\ Len(p) \in Nat
      /\ Len(lg2) = Len(lg) + Len(p)
  BY DEF Joined
<1>1. /\ One(lg, k) = 0 \/ One(lg, k) = 1
      /\ One(p, k) = 0 \/ One(p, k) = 1
      /\ One(lg2, k) = 0 \/ One(lg2, k) = 1
  BY OneTyped
<1>2. \A i \in 1 .. Len(lg2) : lg2[i].kind = k =>
        \/ i \in 1 .. Len(lg) /\ lg[i].kind = k
        \/ \E m \in 1 .. Len(p) : i = Len(lg) + m /\ p[m].kind = k
  <2>1. \A i \in 1 .. Len(lg2) :
          \/ i \in 1 .. Len(lg) /\ lg2[i] = lg[i]
          \/ \E m \in 1 .. Len(p) : /\ i = Len(lg) + m
                                    /\ lg2[i].kind = p[m].kind
                                    /\ lg2[i].cap = p[m].cap
    BY JoinedSplit
  <2> QED BY <2>1
<1>3. ASSUME NEW i \in 1 .. Len(lg), lg[i].kind = k
      PROVE  i \in 1 .. Len(lg2) /\ lg2[i].kind = k
  BY <1>0, <1>3 DEF Joined
<1>4. ASSUME NEW m \in 1 .. Len(p), p[m].kind = k
      PROVE  Len(lg) + m \in 1 .. Len(lg2) /\ lg2[Len(lg) + m].kind = k
  BY <1>0, <1>4 DEF Joined
<1>5. CASE One(lg, k) = 0 /\ One(p, k) = 0
  <2>1. \A i \in 1 .. Len(lg2) : lg2[i].kind # k
    BY <1>2, <1>5, NoneAt
  <2> QED BY <1>5, <2>1 DEF One, Unique
<1>6. CASE One(lg, k) = 1 /\ One(p, k) = 0
  <2>1. One(lg2, k) = 1
    BY <1>3, <1>6 DEF One
  <2>2. \A i \in 1 .. Len(lg2) :
          lg2[i].kind = k => i \in 1 .. Len(lg) /\ lg[i].kind = k
    BY <1>2, <1>6, NoneAt
  <2> QED BY <1>6, <2>1, <2>2 DEF Unique
<1>7. CASE One(lg, k) = 0 /\ One(p, k) = 1
  <2>1. One(lg2, k) = 1
    BY <1>4, <1>7 DEF One
  <2>2. \A i \in 1 .. Len(lg2) : lg2[i].kind = k =>
          \E m \in 1 .. Len(p) : i = Len(lg) + m /\ p[m].kind = k
    BY <1>2, <1>7, NoneAt
  <2>3. ASSUME NEW i \in 1 .. Len(lg2), NEW j \in 1 .. Len(lg2),
               lg2[i].kind = k, lg2[j].kind = k
        PROVE  i = j
    <3>1. PICK m \in 1 .. Len(p) : i = Len(lg) + m /\ p[m].kind = k
      BY <2>2, <2>3
    <3>2. PICK n \in 1 .. Len(p) : j = Len(lg) + n /\ p[n].kind = k
      BY <2>2, <2>3
    <3>3. m = n
      BY <3>1, <3>2 DEF Unique
    <3> QED BY <3>1, <3>2, <3>3
  <2>4. Unique(lg2, k)
    BY <2>3 DEF Unique
  <2> QED BY <1>7, <2>1, <2>4
<1> QED BY <1>1, <1>5, <1>6, <1>7

\* What persisting a batch adds to log_count.
LEMMA CountedLines ==
  ASSUME NEW p \in Seq(Line), Unique(p, "notice")
  PROVE  Cardinality(Counted(p)) = Len(p) - One(p, "notice")
<1>0. Len(p) \in Nat
  OBVIOUS
<1>a. 1 \in Int /\ Len(p) \in Int /\ (1 > Len(p) => Len(p) = 0)
  BY <1>0
<1>b. /\ IsFiniteSet(1 .. Len(p))
      /\ Cardinality(1 .. Len(p)) = IF 1 > Len(p) THEN 0 ELSE Len(p) - 1 + 1
  BY <1>a, FS_Interval, Zenon
<1>1. IsFiniteSet(1 .. Len(p)) /\ Cardinality(1 .. Len(p)) = Len(p)
  BY <1>a, <1>b
<1>2. CASE One(p, "notice") = 0
  <2>1. Counted(p) = 1 .. Len(p)
    BY <1>2, NoneAt DEF Counted
  <2> QED BY <1>0, <1>1, <1>2, <2>1
<1>3. CASE One(p, "notice") = 1
  <2>1. PICK i \in 1 .. Len(p) : p[i].kind = "notice"
    BY <1>3 DEF One
  <2>2. Counted(p) = (1 .. Len(p)) \ {i}
    BY <2>1 DEF Counted, Unique
  <2>3. Cardinality((1 .. Len(p)) \ {i}) = Cardinality(1 .. Len(p)) - 1
    BY <1>1, FS_RemoveElement
  <2> QED BY <1>1, <1>3, <2>2, <2>3
<1> QED BY <1>2, <1>3, OneTyped

\* A line is pushed: one of the handler at any time, a notice or a failure
\* only where there is none yet.
LEMMA TalliedPush ==
  ASSUME NEW lg \in Seq(LogRow), NEW p \in Seq(Line), NEW c \in Nat,
         NEW t \in BOOLEAN, NEW t2 \in BOOLEAN, NEW x \in Line,
         Tallied(lg, p, c, t), t => t2,
         x.kind # "log" => One(lg, x.kind) = 0 /\ One(p, x.kind) = 0,
         x.kind = "notice" => t2
  PROVE  /\ Tallied(lg, Append(p, x), c, t2)
         /\ Load(c, Append(p, x)) =
              Load(c, p) + IF x.kind = "notice" THEN 0 ELSE 1
<1>1. x.kind \in {"log", "notice", "failure"}
  BY DEF Line
<1>2. \A k : /\ One(Append(p, x), k) = IF x.kind = k THEN 1 ELSE One(p, k)
             /\ Unique(p, k) /\ (x.kind = k => One(p, k) = 0)
                  => Unique(Append(p, x), k)
  BY PushTally
<1>3. One(p, "notice") \in Nat /\ Load(c, p) \in Int
  <2>1. One(p, "notice") \in {0, 1}
    BY OneTyped
  <2> QED BY <2>1 DEF Load
<1>4. Len(Append(p, x)) = Len(p) + 1 /\ Len(p) \in Nat
  OBVIOUS
<1>5. ASSUME NEW k \in {"notice", "failure"}
      PROVE  /\ Unique(lg, k) /\ Unique(Append(p, x), k)
             /\ One(lg, k) + One(Append(p, x), k) <= 1
  <2>1. Unique(lg, k) /\ Unique(p, k) /\ One(lg, k) + One(p, k) <= 1
    BY <1>5 DEF Tallied
  <2>2. CASE x.kind = k
    BY <1>2, <1>5, <2>1, <2>2
  <2>3. CASE x.kind # k
    BY <1>2, <2>1, <2>3
  <2> QED BY <2>2, <2>3
<1>6. ~t2 => One(lg, "notice") = 0 /\ One(Append(p, x), "notice") = 0
  BY <1>2 DEF Tallied
<1>7. Tallied(lg, Append(p, x), c, t2)
  BY <1>5, <1>6 DEF Tallied
<1>8. Load(c, Append(p, x)) = Load(c, p) + IF x.kind = "notice" THEN 0 ELSE 1
  <2>1. CASE x.kind = "notice"
    <3>1. One(Append(p, x), "notice") = 1 /\ One(p, "notice") = 0
      BY <1>2, <2>1
    <3> QED BY <1>4, <2>1, <3>1 DEF Load
  <2>2. CASE x.kind # "notice"
    <3>1. One(Append(p, x), "notice") = One(p, "notice")
      BY <1>2, <2>2
    <3> QED BY <1>3, <1>4, <2>2, <3>1 DEF Load
  <2> QED BY <2>1, <2>2
<1> QED BY <1>7, <1>8

\* Any move of the sink keeps the tally, and nothing that counts appears.
LEMMA TalliedMove ==
  ASSUME SinkTypeOK, SinkTypeOK', NEW p \in Seq(Line), NEW t \in BOOLEAN,
         Tallied(logs, p, logCount, t), SinkMove(p, t)
  PROVE  /\ Tallied(logs', pending', logCount', truncated')
         /\ Load(logCount', pending') <= Load(logCount, p)
         /\ One(logs, "failure") = 0 /\ One(p, "failure") = 0
              => One(logs', "failure") = 0 /\ One(pending', "failure") = 0
<1>0. /\ logs \in Seq(LogRow) /\ logCount \in Nat /\ Len(logs) \in Nat
      /\ Len(p) \in Nat
      /\ logs' \in Seq(LogRow) /\ logCount' \in Nat
  BY DEF SinkTypeOK
<1>1. \A k : One(p, k) \in {0, 1} /\ One(logs, k) \in {0, 1}
  BY OneTyped
<1>a. One(p, "notice") \in Nat /\ One(logs, "notice") \in Nat
  BY <1>1
<1>b. Load(logCount, p) \in Int
  BY <1>0, <1>a DEF Load
<1>2. CASE Hold(p, t)
  <2>1. /\ pending' = p /\ truncated' = t
        /\ logs' = logs /\ logCount' = logCount
    BY <1>2 DEF Hold
  <2> QED BY <1>b, <2>1
<1>3. CASE Persist(p, t)
  <2>1. /\ logCount' = logCount + Cardinality(Counted(p))
        /\ pending' = <<>> /\ truncated' = t
    BY <1>3 DEF Persist
  <2>2. Joined(logs, p, logs')
    BY <1>3, PersistedRows DEF RowsAdded, Joined
  <2>3. \A k \in {"notice", "failure"} :
          Unique(logs', k) /\ One(logs', k) = One(logs, k) + One(p, k)
    BY <1>0, <2>2, JoinTally DEF Tallied
  <2>4. \A k : One(<<>>, k) = 0 /\ Unique(<<>>, k)
    BY DEF One, Unique
  <2>5. Cardinality(Counted(p)) = Len(p) - One(p, "notice")
    BY CountedLines DEF Tallied
  <2>6. \A k \in {"notice", "failure"} :
          /\ Unique(logs', k) /\ Unique(pending', k)
          /\ One(logs', k) + One(pending', k) <= 1
    BY <1>1, <2>1, <2>3, <2>4 DEF Tallied
  <2>7. ~truncated' => One(logs', "notice") = 0 /\ One(pending', "notice") = 0
    BY <2>1, <2>3, <2>4 DEF Tallied
  <2>8. logCount' = Len(logs') - One(logs', "notice")
    <3>1. Len(logs') = Len(logs) + Len(p)
      BY <2>2 DEF Joined
    <3>2. logCount = Len(logs) - One(logs, "notice")
      BY DEF Tallied
    <3>3. One(logs', "notice") = One(logs, "notice") + One(p, "notice")
      BY <2>3
    <3>4. logCount' = logCount + (Len(p) - One(p, "notice"))
      BY <2>1, <2>5
    <3>5. \A a, b, x, y \in Nat : a - x + (b - y) = (a + b) - (x + y)
      OBVIOUS
    <3> QED BY <1>0, <1>a, <3>1, <3>2, <3>3, <3>4, <3>5
  <2>9. Load(logCount', pending') = Load(logCount, p)
    <3>1. Len(pending') = 0 /\ One(pending', "notice") = 0
      BY <2>1, <2>4
    <3> QED BY <1>0, <1>a, <2>1, <2>5, <3>1 DEF Load
  <2>10. One(logs, "failure") = 0 /\ One(p, "failure") = 0
           => One(logs', "failure") = 0 /\ One(pending', "failure") = 0
    BY <2>1, <2>3, <2>4
  <2> QED BY <1>b, <2>6, <2>7, <2>8, <2>9, <2>10 DEF Tallied
<1>4. CASE Retain(p, t)
  <2> DEFINE q == Newest(p)
  <2>1. /\ pending' = q /\ truncated' = (t \/ Len(p) > MaxPending)
        /\ logs' = logs /\ logCount' = logCount
    BY <1>4 DEF Retain
  <2>2. \A k : /\ One(q, k) <= One(p, k)
               /\ Unique(p, k) => Unique(q, k)
               /\ Len(q) - One(q, k) <= Len(p) - One(p, k)
               /\ One(q, k) \in {0, 1}
    BY NewestTally, OneTyped
  <2>3. Len(q) \in Nat
    <3>1. q \in Seq(Line)
      BY NewestTyped
    <3> QED BY <3>1
  <2> HIDE DEF q
  <2>4. ASSUME NEW k \in {"notice", "failure"}
        PROVE  Unique(logs, k) /\ Unique(q, k) /\ One(logs, k) + One(q, k) <= 1
    <3>1. Unique(logs, k) /\ Unique(p, k) /\ One(logs, k) + One(p, k) <= 1
      BY <2>4 DEF Tallied
    <3> QED BY <1>1, <2>2, <3>1
  <2>5. \A k : One(p, k) = 0 => One(q, k) = 0
    BY <1>1, <2>2
  <2>6. ~truncated' => One(logs, "notice") = 0 /\ One(q, "notice") = 0
    BY <2>1, <2>5 DEF Tallied
  <2>7. Tallied(logs', pending', logCount', truncated')
    BY <2>1, <2>4, <2>6 DEF Tallied
  <2>8. Load(logCount', pending') <= Load(logCount, p)
    <3>1. Len(q) - One(q, "notice") <= Len(p) - One(p, "notice")
      BY <2>2
    <3>2. One(q, "notice") \in Nat /\ One(p, "notice") \in Nat
      BY <1>1, <2>2
    <3> QED BY <1>0, <2>1, <2>3, <3>1, <3>2 DEF Load
  <2> QED BY <2>1, <2>5, <2>7, <2>8
<1> QED BY <1>2, <1>3, <1>4 DEF SinkMove

\* After a push that may flush, and after a flush that is tried, the buffer
\* of a run below the limit is as short as the spare room says.
LEMMA SpareRoom ==
  ASSUME NEW p \in Seq(Line), NEW t, enabled, writeErrors \in Nat,
         \/ FlushIfFull(p, t)
         \/ Flush(p, t)
  PROVE  Len(pending') <= Spare(writeErrors')
<1>0. /\ MaxPending \in Nat /\ BatchSize \in Nat \ {0}
      /\ BatchSize <= MaxPending /\ Len(p) \in Nat
  BY LimitsAssumption
<1>a. \A w : Spare(w) <= MaxPending /\ BatchSize - 1 <= Spare(w) /\ Spare(w) \in Nat
  BY <1>0 DEF Spare
<1>1. CASE Persist(p, t)
  <2>1. Len(pending') = 0
    BY <1>1 DEF Persist
  <2> QED BY <1>a, <2>1
<1>2. CASE Retain(p, t)
  <2>1. writeErrors' # 0
    BY <1>2 DEF Retain
  <2>2. Len(pending') <= MaxPending
    BY <1>0, <1>2, NewestTyped DEF Retain
  <2> QED BY <2>1, <2>2 DEF Spare
<1>3. CASE Len(p) < BatchSize /\ Hold(p, t)
  <2>1. Len(pending') <= BatchSize - 1
    BY <1>0, <1>3 DEF Hold
  <2>2. Spare(writeErrors') \in Nat /\ BatchSize - 1 <= Spare(writeErrors')
    BY <1>a
  <2>3. Len(pending') \in Nat
    BY <1>0, <1>3 DEF Hold
  <2> QED BY <1>0, <2>1, <2>2, <2>3
<1>4. \/ Persist(p, t)
      \/ Retain(p, t)
      \/ Len(p) < BatchSize /\ Hold(p, t)
  BY <1>0 DEF FlushIfFull, Flush
<1> QED BY <1>1, <1>2, <1>3, <1>4

\* A failed insert only makes more room.
LEMMA SpareGrows ==
  ASSUME NEW p, NEW t, SinkMove(p, t), writeErrors \in Nat
  PROVE  /\ Cap(writeErrors) \in Nat /\ Cap(writeErrors') \in Nat
         /\ Cap(writeErrors) <= Cap(writeErrors')
         /\ Spare(writeErrors) <= Spare(writeErrors')
<1>0. /\ MaxPending \in Nat /\ BatchSize \in Nat \ {0}
      /\ BatchSize <= MaxPending /\ MaxLogPerRun \in Nat
  BY LimitsAssumption
<1>1. CASE writeErrors' = writeErrors
  BY <1>0, <1>1 DEF Cap, Spare
<1>2. CASE writeErrors' = writeErrors + 1
  <2>1. writeErrors' # 0
    BY <1>2
  <2>2. Spare(writeErrors') = MaxPending
    BY <2>1 DEF Spare
  <2>3. Spare(writeErrors) \in Nat /\ Spare(writeErrors) <= MaxPending
    BY <1>0 DEF Spare
  <2> QED BY <1>0, <2>2, <2>3 DEF Cap
<1> QED BY <1>1, <1>2 DEF SinkMove, Hold, Persist, Retain

LEMMA OneInside ==
  ASSUME NEW s, NEW k, Len(s) \in Nat
  PROVE  One(s, k) <= Len(s)
<1>1. CASE \E i \in 1 .. Len(s) : s[i].kind = k
  <2>1. Len(s) >= 1
    BY <1>1
  <2> QED BY <1>1, <2>1 DEF One
<1>2. CASE ~\E i \in 1 .. Len(s) : s[i].kind = k
  BY <1>2 DEF One
<1> QED BY <1>1, <1>2

LEMMA LoadTyped ==
  ASSUME NEW c \in Nat, NEW s, Len(s) \in Nat
  PROVE  /\ Load(c, s) \in Int
         /\ c <= Load(c, s)
         /\ Load(c, s) <= c + Len(s)
<1>1. One(s, "notice") \in Nat /\ One(s, "notice") <= Len(s)
  BY OneTyped, OneInside
<1> QED BY <1>1 DEF Load

\* The notice is pushed, which is done only while the flag is not set.
LEMMA TalliedNotice ==
  ASSUME NEW lg \in Seq(LogRow), NEW p \in Seq(Line), NEW c \in Nat,
         Tallied(lg, p, c, FALSE)
  PROVE  /\ Append(p, NoticeLine) \in Seq(Line)
         /\ Tallied(lg, Append(p, NoticeLine), c, TRUE)
         /\ Load(c, Append(p, NoticeLine)) = Load(c, p)
         /\ One(Append(p, NoticeLine), "failure") = One(p, "failure")
<1> DEFINE x == NoticeLine
<1>1. x \in Line /\ x.kind = "notice"
  BY LinesTyped DEF NoticeLine
<1>2. One(lg, "notice") = 0 /\ One(p, "notice") = 0
  BY DEF Tallied
<1> HIDE DEF x
<1>3. \A k : /\ One(Append(p, x), k) = IF x.kind = k THEN 1 ELSE One(p, k)
             /\ Unique(p, k) /\ (x.kind = k => One(p, k) = 0)
                  => Unique(Append(p, x), k)
  BY <1>1, PushTally
<1>4. One(Append(p, x), "notice") = 1
  BY <1>1, <1>3
<1>7. One(Append(p, x), "failure") = One(p, "failure")
  BY <1>1, <1>3
<1>5. Tallied(lg, Append(p, x), c, TRUE)
  BY <1>1, <1>2, <1>3, <1>4, <1>7 DEF Tallied
<1>6. Load(c, Append(p, x)) = Load(c, p)
  <2>1. Len(Append(p, x)) = Len(p) + 1 /\ Len(p) \in Nat
    BY <1>1
  <2> QED BY <1>2, <1>4, <2>1 DEF Load
<1>8. Append(p, x) \in Seq(Line)
  BY <1>1
<1> QED BY <1>5, <1>6, <1>7, <1>8 DEF x

\* A move of the sink before the end, on a buffer p that keeps the account.
LEMMA AccountMove ==
  ASSUME SinkTypeOK, SinkTypeOK', NEW p \in Seq(Line), NEW t \in BOOLEAN,
         Open', SinkMove(p, t), Tallied(logs, p, logCount, t),
         One(logs, "failure") = 0, One(p, "failure") = 0,
         Load(logCount, p) <= Cap(writeErrors),
         logCount' < MaxLogPerRun => Len(pending') <= Spare(writeErrors')
  PROVE  AccountInv'
<1>1. /\ Tallied(logs', pending', logCount', truncated')
      /\ Load(logCount', pending') <= Load(logCount, p)
      /\ One(logs', "failure") = 0 /\ One(pending', "failure") = 0
  BY TalliedMove
<1>2. /\ Cap(writeErrors) \in Nat /\ Cap(writeErrors') \in Nat
      /\ Cap(writeErrors) <= Cap(writeErrors')
  BY SpareGrows DEF SinkTypeOK
<1>3. Load(logCount', pending') \in Int /\ Load(logCount, p) \in Int
  <2>1. /\ Len(pending') \in Nat /\ Len(p) \in Nat
        /\ logCount \in Nat /\ logCount' \in Nat
    BY DEF SinkTypeOK
  <2> QED BY <2>1, LoadTyped
<1>4. Load(logCount', pending') <= Cap(writeErrors')
  BY <1>1, <1>2, <1>3
<1> QED BY <1>1, <1>4 DEF AccountInv

LEMMA AccountReceive ==
  ASSUME TypeOK, TypeOK', AccountInv, ReceiveEvent
  PROVE  AccountInv'
<1> DEFINE e == Head(chan)
           x == HandlerLine(e)
<1>0. /\ SinkTypeOK /\ SinkTypeOK' /\ pending \in Seq(Line)
      /\ logs \in Seq(LogRow) /\ logCount \in Nat /\ truncated \in BOOLEAN
      /\ Len(pending) \in Nat /\ writeErrors \in Nat /\ logCount' \in Nat
      /\ MaxLogPerRun \in Nat
  BY LimitsAssumption DEF TypeOK, SinkTypeOK
<1>1. /\ phase' = phase /\ Open /\ Open' /\ Consume(e) /\ e \in Nat
  BY DEF ReceiveEvent, Open, TypeOK
<1>2. /\ Tallied(logs, pending, logCount, truncated)
      /\ One(logs, "failure") = 0 /\ One(pending, "failure") = 0
      /\ Load(logCount, pending) <= Cap(writeErrors)
      /\ logCount < MaxLogPerRun => Len(pending) <= Spare(writeErrors)
  BY <1>1 DEF AccountInv
<1>3. x \in Line /\ x.kind = "log"
  BY <1>1, LinesTyped DEF HandlerLine
<1> HIDE DEF e, x
<1>4. CASE UNCHANGED sinkVars
  BY <1>1, <1>4 DEF AccountInv, Open, sinkVars
<1>5. CASE enabled /\ ~(logCount >= MaxLogPerRun)
           /\ FlushIfFull(Append(pending, x), truncated)
  <2> DEFINE p == Append(pending, x)
  <2>1. p \in Seq(Line)
    BY <1>0, <1>3
  <2>2. /\ Tallied(logs, p, logCount, truncated)
        /\ Load(logCount, p) = Load(logCount, pending) + 1
    BY <1>0, <1>2, <1>3, TalliedPush
  <2>3. One(p, "failure") = 0
    BY <1>0, <1>2, <1>3, PushTally
  <2>4. Len(p) = Len(pending) + 1
    BY <1>0, <1>3
  <2> HIDE DEF p
  <2>6. Load(logCount, p) <= Cap(writeErrors)
    <3>1. Len(pending) <= Spare(writeErrors) /\ Spare(writeErrors) \in Nat
      BY <1>0, <1>2, <1>5, LimitsAssumption DEF Spare
    <3>2. logCount + 1 <= MaxLogPerRun
      BY <1>0, <1>5
    <3>3. logCount + Len(p) <= MaxLogPerRun + Spare(writeErrors)
      BY <1>0, <2>4, <3>1, <3>2
    <3>4. Len(p) \in Nat
      BY <2>1
    <3>5. Load(logCount, p) \in Int /\ Load(logCount, p) <= logCount + Len(p)
      BY <1>0, <3>4, LoadTyped
    <3> QED BY <1>0, <3>1, <3>3, <3>4, <3>5 DEF Cap
  <2>7. SinkMove(p, truncated)
    BY <1>5, FlushIfFullIsMove DEF p
  <2>8. Len(pending') <= Spare(writeErrors')
    BY <1>0, <1>5, <2>1, SpareRoom DEF p
  <2> QED BY <1>0, <1>1, <1>2, <2>1, <2>2, <2>3, <2>6, <2>7, <2>8, AccountMove
<1>6. CASE enabled /\ logCount >= MaxLogPerRun /\ ~truncated
           /\ Hold(Append(pending, NoticeLine), TRUE)
  <2> DEFINE p == Append(pending, NoticeLine)
  <2>1. truncated = FALSE
    BY <1>0, <1>6
  <2>2. /\ p \in Seq(Line)
        /\ Tallied(logs, p, logCount, TRUE)
        /\ Load(logCount, p) = Load(logCount, pending)
        /\ One(p, "failure") = One(pending, "failure")
    BY <1>0, <1>2, <2>1, TalliedNotice
  <2>6. SinkMove(p, TRUE) /\ logCount' = logCount
    BY <1>6 DEF SinkMove, Hold
  <2> HIDE DEF p
  <2>7. ~(logCount' < MaxLogPerRun)
    BY <1>0, <1>6, <2>6
  <2> QED BY <1>0, <1>1, <1>2, <2>2, <2>6, <2>7, AccountMove
<1> QED BY <1>1, <1>4, <1>5, <1>6 DEF Consume, AppendLine, x

LEMMA AccountLag ==
  ASSUME TypeOK, TypeOK', AccountInv, ReceiveLag
  PROVE  AccountInv'
<1> DEFINE p == Append(pending, NoticeLine)
<1>0. /\ SinkTypeOK /\ SinkTypeOK' /\ pending \in Seq(Line)
      /\ logs \in Seq(LogRow) /\ logCount \in Nat /\ truncated \in BOOLEAN
      /\ Len(pending) \in Nat /\ writeErrors \in Nat
  BY DEF TypeOK, SinkTypeOK
<1>1. phase' = phase /\ Open /\ Open' /\ NoteLost
  BY DEF ReceiveLag, Open
<1>2. /\ Tallied(logs, pending, logCount, truncated)
      /\ One(logs, "failure") = 0 /\ One(pending, "failure") = 0
      /\ Load(logCount, pending) <= Cap(writeErrors)
  BY <1>1 DEF AccountInv
<1>3. CASE UNCHANGED sinkVars
  BY <1>1, <1>3 DEF AccountInv, Open, sinkVars
<1>4. CASE enabled /\ ~truncated /\ FlushIfFull(p, TRUE)
  <2>1. truncated = FALSE
    BY <1>0, <1>4
  <2>2. /\ p \in Seq(Line)
        /\ Tallied(logs, p, logCount, TRUE)
        /\ Load(logCount, p) = Load(logCount, pending)
        /\ One(p, "failure") = One(pending, "failure")
    BY <1>0, <1>2, <2>1, TalliedNotice
  <2>6. SinkMove(p, TRUE)
    BY <1>4, FlushIfFullIsMove
  <2> HIDE DEF p
  <2>7. Len(pending') <= Spare(writeErrors')
    BY <1>0, <1>4, <2>2, SpareRoom
  <2> QED BY <1>0, <1>1, <1>2, <2>2, <2>6, <2>7, AccountMove
<1> QED BY <1>1, <1>3, <1>4 DEF NoteLost

LEMMA AccountIdle ==
  ASSUME TypeOK, TypeOK', AccountInv, IdleFlush
  PROVE  AccountInv'
<1>0. /\ SinkTypeOK /\ SinkTypeOK' /\ pending \in Seq(Line)
      /\ logs \in Seq(LogRow) /\ logCount \in Nat /\ truncated \in BOOLEAN
      /\ Len(pending) \in Nat /\ writeErrors \in Nat
  BY DEF TypeOK, SinkTypeOK
<1>1. Open /\ Open' /\ Flush(pending, truncated)
  BY DEF IdleFlush, Open
<1>2. /\ Tallied(logs, pending, logCount, truncated)
      /\ One(logs, "failure") = 0 /\ One(pending, "failure") = 0
      /\ Load(logCount, pending) <= Cap(writeErrors)
      /\ logCount < MaxLogPerRun => Len(pending) <= Spare(writeErrors)
  BY <1>1 DEF AccountInv
<1>3. SinkMove(pending, truncated)
  BY <1>1, FlushIsMove
<1>4. logCount' < MaxLogPerRun => Len(pending') <= Spare(writeErrors')
  <2>1. CASE enabled
    BY <1>0, <1>1, <2>1, SpareRoom
  <2>2. CASE ~enabled
    BY <1>1, <1>2, <2>2 DEF Flush, Hold
  <2> QED BY <2>1, <2>2
<1> QED BY <1>0, <1>1, <1>2, <1>3, <1>4, AccountMove

\* The last flush, with the failure line if there is one.
LEMMA AccountClose ==
  ASSUME TypeOK, TypeOK', AccountInv, CloseSink
  PROVE  AccountInv'
<1> DEFINE p == IF enabled /\ handler = "err"
                  THEN Append(pending, FailureLine) ELSE pending
<1>0. /\ SinkTypeOK /\ SinkTypeOK' /\ pending \in Seq(Line)
      /\ logs \in Seq(LogRow) /\ logCount \in Nat /\ truncated \in BOOLEAN
      /\ Len(pending) \in Nat /\ writeErrors \in Nat
      /\ FailureLine \in Line /\ FailureLine.kind = "failure"
  BY LinesTyped DEF TypeOK, SinkTypeOK, FailureLine
<1>1. Open /\ ~Open' /\ Flush(p, truncated)
  BY DEF CloseSink, Open
<1>2. /\ Tallied(logs, pending, logCount, truncated)
      /\ One(logs, "failure") = 0 /\ One(pending, "failure") = 0
      /\ Load(logCount, pending) <= Cap(writeErrors)
  BY <1>1 DEF AccountInv
<1>3. SinkMove(p, truncated)
  BY <1>1, FlushIsMove
<1>l. Load(logCount, pending) \in Int
  BY <1>0, LoadTyped
<1>4. /\ p \in Seq(Line)
      /\ Tallied(logs, p, logCount, truncated)
      /\ Load(logCount, p) <= Load(logCount, pending) + One(p, "failure")
  <2>1. CASE enabled /\ handler = "err"
    <3>1. p = Append(pending, FailureLine)
      BY <2>1
    <3> HIDE DEF p
    <3>2. One(p, "failure") = 1
      BY <1>0, <3>1, PushTally
    <3>3. /\ Tallied(logs, p, logCount, truncated)
          /\ Load(logCount, p) = Load(logCount, pending) + 1
      BY <1>0, <1>2, <3>1, TalliedPush
    <3> QED BY <1>0, <1>l, <3>1, <3>2, <3>3
  <2>2. CASE ~(enabled /\ handler = "err")
    BY <1>0, <1>2, <1>l, <2>2
  <2> QED BY <2>1, <2>2
<1> HIDE DEF p
<1>5. Tallied(logs', pending', logCount', truncated')
  BY <1>0, <1>3, <1>4, TalliedMove
<1>6. /\ Cap(writeErrors) \in Nat /\ Cap(writeErrors') \in Nat
      /\ Cap(writeErrors) <= Cap(writeErrors')
  BY <1>0, <1>3, SpareGrows
<1>7. logCount <= Load(logCount, pending)
  BY <1>0, LoadTyped
<1>8. logCount' <= Cap(writeErrors') + One(logs', "failure")
  <2>0. One(logs', "failure") \in Nat /\ One(p, "failure") \in Nat
    BY OneTyped
  <2>1. CASE Hold(p, truncated) \/ Retain(p, truncated)
    <3>1. logCount' = logCount
      BY <2>1 DEF Hold, Retain
    <3> QED BY <1>0, <1>2, <1>6, <1>7, <1>l, <2>0, <3>1
  <2>2. CASE Persist(p, truncated)
    <3>1. logCount' = Load(logCount, p)
      <4>1. /\ logCount' = logCount + Cardinality(Counted(p))
            /\ Cardinality(Counted(p)) = Len(p) - One(p, "notice")
        BY <1>4, <2>2, CountedLines DEF Persist, Tallied
      <4>2. Len(p) \in Nat /\ One(p, "notice") \in Nat
        BY <1>4, OneTyped
      <4> QED BY <1>0, <4>1, <4>2 DEF Load
    <3>2. One(logs', "failure") = One(p, "failure")
      <4>1. Joined(logs, p, logs')
        BY <1>0, <1>4, <2>2, PersistedRows DEF RowsAdded, Joined
      <4>2. One(logs', "failure") = One(logs, "failure") + One(p, "failure")
        BY <1>0, <1>4, <4>1, JoinTally DEF Tallied, SinkTypeOK
      <4> QED BY <1>2, <2>0, <4>2
    <3>3. logCount' <= Load(logCount, pending) + One(logs', "failure")
      BY <1>4, <3>1, <3>2
    <3>4. logCount' \in Nat
      BY <1>0 DEF SinkTypeOK
    <3> QED BY <1>2, <1>6, <1>l, <2>0, <3>3, <3>4
  <2> QED BY <1>3, <2>1, <2>2 DEF SinkMove
<1> QED BY <1>1, <1>5, <1>8 DEF AccountInv

LEMMA AccountStep ==
  ASSUME TypeOK, AccountInv, [Next]_vars
  PROVE  AccountInv'
<1>0. TypeOK'
  BY TypeStep
<1>1. CASE UNCHANGED sinkVars /\ Open' = Open
  BY <1>1 DEF AccountInv, sinkVars
<1>2. CASE RegisterRun \/ HandlerDone \/ DrainEmpty \/ FinishRun
           \/ HandlerLogs \/ HandlerEnds \/ ForeignEvent
  <2>1. UNCHANGED sinkVars
    BY <1>2 DEF RegisterRun, HandlerDone, DrainEmpty, FinishRun,
                HandlerLogs, HandlerEnds, ForeignEvent
  <2>2. Open' = Open
    BY <1>2 DEF RegisterRun, HandlerDone, DrainEmpty, FinishRun,
                HandlerLogs, HandlerEnds, ForeignEvent, Open
  <2> QED BY <1>1, <2>1, <2>2
<1>3. CASE UNCHANGED vars
  BY <1>3 DEF vars, Open, AccountInv
<1> QED BY <1>0, <1>2, <1>3, AccountReceive, AccountLag, AccountIdle, AccountClose
        DEF Next, TaskStep

LEMMA AccountInit == Init => AccountInv
<1> SUFFICES ASSUME Init
             PROVE  AccountInv
  OBVIOUS
<1>1. /\ phase = "register" /\ logs = <<>> /\ pending = <<>> /\ ~truncated
      /\ logCount = 0 /\ writeErrors = 0
  BY DEF Init
<1>2. \A k : One(<<>>, k) = 0 /\ Unique(<<>>, k)
  BY DEF One, Unique
<1>3. Len(<<>>) = 0
  OBVIOUS
<1>4. Tallied(logs, pending, logCount, truncated)
  BY <1>1, <1>2, <1>3 DEF Tallied
<1>5. Spare(0) \in Nat /\ Cap(0) \in Nat
  BY LimitsAssumption DEF Spare, Cap
<1>6. Load(0, <<>>) = 0
  BY <1>2, <1>3 DEF Load
<1> QED BY <1>1, <1>2, <1>3, <1>4, <1>5, <1>6 DEF AccountInv, Open

\* The positions of a table, divided by kind.
LEMMA KindsDivide ==
  ASSUME NEW s, Len(s) \in Nat, NEW k, Unique(s, k)
  PROVE  LET K == {i \in 1 .. Len(s) : s[i].kind = k}
         IN  IsFiniteSet(K) /\ Cardinality(K) = One(s, k)
<1> DEFINE K == {i \in 1 .. Len(s) : s[i].kind = k}
<1>1. CASE \E i \in 1 .. Len(s) : s[i].kind = k
  <2>1. PICK i \in 1 .. Len(s) : s[i].kind = k
    BY <1>1
  <2>2. K = {i}
    BY <2>1 DEF Unique
  <2>3. IsFiniteSet({i}) /\ Cardinality({i}) = 1
    BY FS_Singleton
  <2> QED BY <1>1, <2>2, <2>3 DEF One
<1>2. CASE ~\E i \in 1 .. Len(s) : s[i].kind = k
  <2>1. K = {}
    BY <1>2
  <2>2. IsFiniteSet({}) /\ Cardinality({}) = 0
    BY FS_EmptySet
  <2> QED BY <1>2, <2>1, <2>2 DEF One
<1> QED BY <1>1, <1>2

\* However the limit, the lag, failed inserts and retries combine, a reader
\* of the table finds at most one notice, a log_count that is the number of
\* the other rows, and no more lines of the handler than the limit and one
\* buffer: one batch, if no insert failed.
THEOREM StoredLinesAccountedHolds == Spec => []StoredLinesAccounted
<1>1. TypeOK /\ AccountInv => StoredLinesAccounted
  <2> SUFFICES ASSUME TypeOK, AccountInv
               PROVE  StoredLinesAccounted
    OBVIOUS
  <2> DEFINE H == HandlerLines(logs)
             N == {i \in 1 .. Len(logs) : logs[i].kind = "notice"}
             F == {i \in 1 .. Len(logs) : logs[i].kind = "failure"}
             W == {i \in 1 .. Len(pending) : pending[i].kind = "notice"}
             n == Len(logs)
  <2>0. /\ n \in Nat /\ Len(pending) \in Nat /\ logCount \in Nat
        /\ writeErrors \in Nat
        /\ logs \in Seq(LogRow)
    BY DEF TypeOK
  <2>1. /\ Unique(logs, "notice") /\ Unique(logs, "failure")
        /\ Unique(pending, "notice")
        /\ One(logs, "notice") + One(pending, "notice") <= 1
        /\ logCount = n - One(logs, "notice")
    BY DEF AccountInv, Tallied
  <2>2. /\ IsFiniteSet(N) /\ Cardinality(N) = One(logs, "notice")
        /\ IsFiniteSet(F) /\ Cardinality(F) = One(logs, "failure")
        /\ Cardinality(W) = One(pending, "notice")
    BY <2>0, <2>1, KindsDivide
  <2>3. One(logs, "notice") \in Nat /\ One(logs, "failure") \in Nat
    BY OneTyped
  <2>4. IsFiniteSet(1 .. n) /\ Cardinality(1 .. n) = n
    <3>1. 1 \in Int /\ n \in Int /\ (1 > n => n = 0)
      BY <2>0
    <3>2. /\ IsFiniteSet(1 .. n)
          /\ Cardinality(1 .. n) = IF 1 > n THEN 0 ELSE n - 1 + 1
      BY <3>1, FS_Interval, Zenon
    <3> QED BY <3>1, <3>2
  <2>5. IsFiniteSet(H) /\ Cardinality(H) + Cardinality(N) + Cardinality(F) <= n
    <3> HIDE DEF n
    <3>1. H \in SUBSET (1 .. n) /\ N \in SUBSET (1 .. n) /\ F \in SUBSET (1 .. n)
      BY DEF HandlerLines, n
    <3>2. IsFiniteSet(H)
      BY <2>4, <3>1, FS_Subset
    <3>3. H \cap N = {} /\ (H \cup N) \cap F = {}
      BY DEF HandlerLines
    <3> HIDE DEF H, N, F
    <3>4. /\ IsFiniteSet(H \cup N)
          /\ Cardinality(H \cup N) = Cardinality(H) + Cardinality(N)
      <4>1. /\ IsFiniteSet(H \cup N)
            /\ Cardinality(H \cup N)
                 = Cardinality(H) + Cardinality(N) - Cardinality(H \cap N)
        BY <2>2, <3>2, FS_Union
      <4>2. Cardinality(H \cap N) = 0
        BY <3>3, FS_EmptySet
      <4>3. Cardinality(H) \in Nat /\ Cardinality(N) \in Nat
        BY <2>2, <3>2, FS_CardinalityType
      <4> QED BY <4>1, <4>2, <4>3
    <3>5. /\ IsFiniteSet((H \cup N) \cup F)
          /\ Cardinality((H \cup N) \cup F) = Cardinality(H \cup N) + Cardinality(F)
      <4>1. /\ IsFiniteSet((H \cup N) \cup F)
            /\ Cardinality((H \cup N) \cup F)
                 = Cardinality(H \cup N) + Cardinality(F)
                     - Cardinality((H \cup N) \cap F)
        BY <2>2, <3>4, FS_Union
      <4>2. Cardinality((H \cup N) \cap F) = 0
        BY <3>3, FS_EmptySet
      <4>3. Cardinality(H \cup N) \in Nat /\ Cardinality(F) \in Nat
        BY <2>2, <3>4, FS_CardinalityType
      <4> QED BY <4>1, <4>2, <4>3
    <3>6. (H \cup N) \cup F \in SUBSET (1 .. n)
      BY <3>1
    <3>7. Cardinality((H \cup N) \cup F) <= n
      BY <2>4, <3>6, FS_Subset
    <3> QED BY <3>2, <3>4, <3>5, <3>7
  <2> HIDE DEF H, N, F, W, n
  <2>6. /\ Cardinality(H) \in Nat
        /\ Cardinality(H) <= logCount - One(logs, "failure")
    <3>1. Cardinality(H) \in Nat
      BY <2>5, FS_CardinalityType
    <3>2. Cardinality(H) + One(logs, "notice") + One(logs, "failure") <= n
      BY <2>2, <2>5
    <3> QED BY <2>0, <2>1, <2>3, <3>1, <3>2
  <2>7. Cap(writeErrors) \in Nat
    BY LimitsAssumption DEF Cap, Spare
  <2>8. Cardinality(H) <= Cap(writeErrors)
    <3>1. CASE Open
      <4>1. Load(logCount, pending) <= Cap(writeErrors)
        BY <3>1 DEF AccountInv
      <4>2. /\ Load(logCount, pending) \in Int
            /\ logCount <= Load(logCount, pending)
        BY <2>0, LoadTyped
      <4> QED BY <2>0, <2>3, <2>6, <2>7, <4>1, <4>2
    <3>2. CASE ~Open
      <4>1. logCount <= Cap(writeErrors) + One(logs, "failure")
        BY <3>2 DEF AccountInv
      <4> QED BY <2>0, <2>3, <2>6, <2>7, <4>1
    <3> QED BY <3>1, <3>2
  <2>9. Cap(writeErrors) =
          MaxLogPerRun + IF writeErrors = 0 THEN BatchSize - 1 ELSE MaxPending
    BY DEF Cap, Spare
  <2> QED BY <2>1, <2>2, <2>8, <2>9 DEF StoredLinesAccounted, H, N, W, n
<1>2. TypeOK /\ AccountInv /\ [Next]_vars => AccountInv'
  BY AccountStep
<1> QED BY <1>1, <1>2, AccountInit, TypeCorrect, PTL DEF Spec
=====
