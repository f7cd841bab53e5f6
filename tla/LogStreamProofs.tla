-------------------------- MODULE LogStreamProofs ---------------------------
(***************************************************************************)
(* The live log, for any number of executions, lines, lags, failures and   *)
(* connections.                                                            *)
(***************************************************************************)
EXTENDS LogStream, FunctionTheorems, FiniteSetTheorems, SequenceTheorems, TLAPS

-----------------------------------------------------------------------------
(***************************************************************************)
(* Sorting.  BySeq lists a finite set of entries with different numbers in *)
(* the order of the numbers: the number of entries up to an entry is       *)
(* different for each, so every place is taken.                            *)
(***************************************************************************)
Numbered(S) ==
  /\ IsFiniteSet(S)
  /\ \A e \in S : e.seq \in Nat
  /\ \A d, e \in S : d.seq = e.seq => d = e

LEMMA RankOfEntry ==
  ASSUME NEW S, Numbered(S), NEW e \in S
  PROVE  /\ IsFiniteSet(UpTo(S, e))
         /\ Cardinality(UpTo(S, e)) \in 1 .. Cardinality(S)
<1>1. UpTo(S, e) \subseteq S /\ e \in UpTo(S, e)
  BY DEF UpTo, Numbered
<1>2. IsFiniteSet(UpTo(S, e)) /\ Cardinality(UpTo(S, e)) <= Cardinality(S)
  BY <1>1, FS_Subset DEF Numbered
<1>3. Cardinality(UpTo(S, e)) \in Nat /\ Cardinality(S) \in Nat
  BY <1>2, FS_CardinalityType DEF Numbered
<1>4. Cardinality(UpTo(S, e)) # 0
  BY <1>1, <1>2, FS_EmptySet
<1> QED
  BY <1>2, <1>3, <1>4

LEMMA RankGrows ==
  ASSUME NEW S, Numbered(S), NEW d \in S, NEW e \in S, d.seq < e.seq
  PROVE  Cardinality(UpTo(S, d)) < Cardinality(UpTo(S, e))
<1>1. UpTo(S, d) \subseteq UpTo(S, e) /\ e \notin UpTo(S, d) /\ e \in UpTo(S, e)
  BY DEF UpTo, Numbered
<1>2. Cardinality(UpTo(S, d)) <= Cardinality(UpTo(S, e))
  BY <1>1, RankOfEntry, FS_Subset
<1>3. Cardinality(UpTo(S, d)) # Cardinality(UpTo(S, e))
  BY <1>1, RankOfEntry, FS_Subset
<1> QED
  BY <1>2, <1>3, RankOfEntry

\* Every place from 1 to the number of entries is that of one entry.
LEMMA PlacesTaken ==
  ASSUME NEW S, Numbered(S)
  PROVE  \A i \in 1 .. Cardinality(S) : \E e \in S : Cardinality(UpTo(S, e)) = i
<1> DEFINE n == Cardinality(S)
           f == [e \in S |-> Cardinality(UpTo(S, e))]
<1>1. n \in Nat /\ IsFiniteSet(1 .. n) /\ Cardinality(1 .. n) = n
  BY FS_CardinalityType, FS_Interval DEF Numbered
<1>2. f \in [S -> 1 .. n]
  BY RankOfEntry
<1>3. ASSUME NEW d \in S, NEW e \in S, f[d] = f[e] PROVE d = e
  <2>1. d.seq \in Nat /\ e.seq \in Nat
    BY DEF Numbered
  <2>2. ~(d.seq < e.seq) /\ ~(e.seq < d.seq)
    BY <1>3, RankGrows, RankOfEntry
  <2> QED
    BY <2>1, <2>2 DEF Numbered
<1>4. f \in Injection(S, 1 .. n)
  BY <1>2, <1>3 DEF Injection, IsInjective
<1>5. f \in Surjection(S, 1 .. n)
  BY <1>1, <1>4, FS_Injection
<1>6. \A i \in 1 .. n : \E e \in S : f[e] = i
  BY <1>5 DEF Surjection
<1> QED
  BY <1>6

LEMMA SortedBySeq ==
  ASSUME NEW S, Numbered(S)
  PROVE  /\ BySeq(S) \in Seq(S)
         /\ Range(BySeq(S)) = S
         /\ \A i, j \in DOMAIN BySeq(S) : i < j => BySeq(S)[i].seq < BySeq(S)[j].seq
<1> DEFINE n == Cardinality(S)
           s == BySeq(S)
<1>1. n \in Nat
  BY FS_CardinalityType DEF Numbered
<1>2. /\ DOMAIN s = 1 .. n
      /\ \A i \in 1 .. n : s[i] \in S /\ Cardinality(UpTo(S, s[i])) = i
  <2>1. s = [i \in 1 .. n |-> CHOOSE e \in S : Cardinality(UpTo(S, e)) = i]
    BY DEF BySeq
  <2>2. ASSUME NEW i \in 1 .. n
        PROVE  LET e == CHOOSE e \in S : Cardinality(UpTo(S, e)) = i
               IN  e \in S /\ Cardinality(UpTo(S, e)) = i
    <3>1. \E e \in S : Cardinality(UpTo(S, e)) = i
      BY PlacesTaken
    <3> QED
      BY <3>1
  <2> HIDE DEF s
  <2> QED
    BY <2>1, <2>2
<1>3. s \in Seq(S)
  <2>1. s = [i \in 1 .. Cardinality(S) |-> s[i]]
    BY DEF BySeq
  <2> HIDE DEF s
  <2> QED
    BY <1>1, <1>2, <2>1, IsASeq
<1>4. ASSUME NEW e \in S PROVE \E i \in 1 .. n : s[i] = e
  <2> DEFINE k == Cardinality(UpTo(S, e))
  <2>1. k \in 1 .. n /\ s[k] \in S /\ Cardinality(UpTo(S, s[k])) = k
    BY <1>2, RankOfEntry
  <2>2. s[k].seq \in Nat /\ e.seq \in Nat /\ (s[k].seq = e.seq => s[k] = e)
    BY <2>1 DEF Numbered
  <2>3. ~(s[k].seq < e.seq) /\ ~(e.seq < s[k].seq)
    BY <2>1, RankGrows
  <2> QED
    BY <2>1, <2>2, <2>3
<1>5. ASSUME NEW i \in 1 .. n, NEW j \in 1 .. n, i < j PROVE s[i].seq < s[j].seq
  <2>1. s[i] \in S /\ s[j] \in S /\ s[i].seq \in Nat /\ s[j].seq \in Nat
    BY <1>2 DEF Numbered
  <2>2. s[i] # s[j] /\ ~(s[j].seq < s[i].seq)
    BY <1>2, <1>5, <2>1, RankGrows
  <2> QED
    BY <2>1, <2>2 DEF Numbered
<1> QED
  BY <1>2, <1>3, <1>4, <1>5 DEF Range

-----------------------------------------------------------------------------
(***************************************************************************)
(* Types.                                                                  *)
(***************************************************************************)
LEMMA StoredTypes ==
  ASSUME NEW r \in Runs, rows[r] \in Seq(Lines)
  PROVE  /\ Stored(r) \in Seq(Entries)
         /\ DOMAIN Stored(r) = DOMAIN rows[r]
         /\ \A i \in DOMAIN rows[r] :
              Stored(r)[i] = [run |-> r, seq |-> i, line |-> rows[r][i]]
<1>1. Len(rows[r]) \in Nat /\ DOMAIN rows[r] = 1 .. Len(rows[r])
  BY LenProperties
<1>2. \A i \in 1 .. Len(rows[r]) : rows[r][i] \in Lines
  BY ElementOfSeq
<1>3. \A i \in 1 .. Len(rows[r]) : [run |-> r, seq |-> i, line |-> rows[r][i]] \in Entries
  BY <1>2 DEF Entries
<1>4. [i \in 1 .. Len(rows[r]) |-> [run |-> r, seq |-> i, line |-> rows[r][i]]]
        \in Seq(Entries)
  BY <1>1, <1>3, IsASeq
<1> QED
  BY <1>1, <1>4 DEF Stored

RunTypes ==
  /\ phase \in [Runs -> {"new", "inserted", "running", "drained", "finished",
                         "ended"}]
  /\ captured \in [Runs -> Lines]
  /\ taken \in [Runs -> Lines]
  /\ pending \in [Runs -> Seq(Lines)]
  /\ truncated \in SUBSET Runs
  /\ rows \in [Runs -> Seq(Lines)]
  /\ status \in [Runs -> {"none", "running", "ended"}]

LinkTypes ==
  /\ conn \in {"closed", "subscribed", "listed", "open"}
  /\ found \in Runs \cup {0}
  /\ conn = "listed" => found \in Runs
  /\ initial \in [kind : {"none", "idle", "snapshot"}, run : Runs \cup {0},
                  logs : Seq(Entries)]
  /\ ring \in Seq(Events)
  /\ lagged \in BOOLEAN

HookTypes ==
  /\ view \in [run : Runs \cup {0}, logs : Seq(Entries), ended : BOOLEAN]
  /\ ref \in Runs \cup {0}
  /\ fetch \in [Runs -> [state : {"none", "asked", "read"}, logs : Seq(Entries)]]

Types ==
  /\ RunTypes
  /\ LinkTypes
  /\ HookTypes
  /\ blind \in SUBSET (Runs \X Lines)
  /\ {faults, connects} \subseteq Nat

\* The steps of an execution.
Execute(r) ==
  \/ InsertRun(r)
  \/ AnnounceStart(r)
  \/ HandlerLogs(r)
  \/ Receive(r)
  \/ SinkLags(r)
  \/ Flush(r)
  \/ Drain(r)
  \/ CloseRun(r)

Sends(kind, r, n) ==
  IF conn = "closed" THEN ring' = ring
  ELSE ring' = Append(ring, [kind |-> kind, run |-> r, seq |-> n])

LEMMA ExecutionMoves ==
  ASSUME NEW r \in Runs, Execute(r)
  PROVE  /\ UNCHANGED <<conn, found, initial, lagged, connects, hookVars, blind>>
         /\ \/ ring' = ring /\ captured' = captured /\ phase[r] # "finished"
            \/ AnnounceStart(r) /\ Sends("run_started", r, 0)
            \/ HandlerLogs(r) /\ Sends("log", r, captured[r] + 1)
            \/ phase[r] = "finished" /\ CloseRun(r) /\ Sends("run_ended", r, 0)
<1> USE DEF linkVars, hookVars, Sends
<1>1. CASE InsertRun(r)
  BY <1>1 DEF InsertRun
<1>2. CASE AnnounceStart(r)
  BY <1>2 DEF AnnounceStart, Broadcast
<1>3. CASE HandlerLogs(r)
  BY <1>3 DEF HandlerLogs, Broadcast
<1>4. CASE Flush(r)
  BY <1>4 DEF Flush
<1>5. CASE SinkLags(r)
  BY <1>5 DEF SinkLags
<1>6. CASE Drain(r)
  BY <1>6 DEF Drain
<1>7. CASE CloseRun(r)
  BY <1>7 DEF CloseRun, Broadcast
<1>8. CASE Receive(r)
  BY <1>8 DEF Receive
<1> QED
  BY <1>1, <1>2, <1>3, <1>4, <1>5, <1>6, <1>7, <1>8 DEF Execute

\* What a sink has not stored yet grows by at most the notice, or loses its
\* oldest rows.
LEMMA DropTypes ==
  ASSUME RunTypes, NEW r \in Runs, Drop(r)
  PROVE  /\ pending' \in [Runs -> Seq(Lines)] /\ truncated' \in SUBSET Runs
         /\ Len(pending'[r]) <= Len(pending[r]) + 1
         /\ \A q \in Runs : q # r => pending'[q] = pending[q]
<1>1. pending \in [Runs -> Seq(Lines)] /\ truncated \in SUBSET Runs
  BY DEF RunTypes
<1>2. /\ Append(pending[r], 0) \in Seq(Lines) /\ Len(pending[r]) \in Nat
      /\ Len(Append(pending[r], 0)) = Len(pending[r]) + 1
  BY <1>1, AppendProperties, LenProperties DEF Lines
<1> QED
  BY <1>1, <1>2 DEF Drop

LEMMA ReceiveTypes ==
  ASSUME RunTypes, NEW r \in Runs, Receive(r)
  PROVE  /\ pending' \in [Runs -> Seq(Lines)] /\ truncated' \in SUBSET Runs
         /\ taken' \in [Runs -> Lines]
         /\ taken'[r] = taken[r] + 1 /\ taken'[r] <= captured[r]
         /\ Len(pending'[r]) <= Len(pending[r]) + 1
         /\ \A q \in Runs : q # r => pending'[q] = pending[q] /\ taken'[q] = taken[q]
<1>1. /\ pending \in [Runs -> Seq(Lines)] /\ truncated \in SUBSET Runs
      /\ taken \in [Runs -> Nat] /\ captured \in [Runs -> Nat]
  BY DEF RunTypes, Lines
<1>2. taken' = [taken EXCEPT ![r] = @ + 1] /\ taken[r] < captured[r]
  BY DEF Receive
<1>3. /\ taken' \in [Runs -> Lines] /\ taken'[r] = taken[r] + 1
      /\ taken'[r] <= captured[r] /\ \A q \in Runs : q # r => taken'[q] = taken[q]
  BY <1>1, <1>2 DEF Lines
<1>4. CASE /\ pending' = [pending EXCEPT ![r] = Append(@, taken'[r])]
           /\ UNCHANGED truncated
  <2>1. /\ Append(pending[r], taken'[r]) \in Seq(Lines) /\ Len(pending[r]) \in Nat
        /\ Len(Append(pending[r], taken'[r])) = Len(pending[r]) + 1
    BY <1>1, <1>3, AppendProperties, LenProperties
  <2> QED
    BY <1>1, <1>3, <1>4, <2>1
<1>5. CASE Drop(r)
  BY <1>3, <1>5, DropTypes
<1> QED
  BY <1>4, <1>5 DEF Receive

LEMMA SinkLagsTypes ==
  ASSUME RunTypes, NEW r \in Runs, SinkLags(r)
  PROVE  /\ pending' \in [Runs -> Seq(Lines)] /\ truncated' \in SUBSET Runs
         /\ taken' \in [Runs -> Lines]
         /\ taken'[r] >= taken[r] + 1 /\ taken'[r] <= captured[r]
         /\ Len(pending'[r]) <= Len(pending[r]) + 1
         /\ \A q \in Runs : q # r => pending'[q] = pending[q] /\ taken'[q] = taken[q]
<1>1. taken \in [Runs -> Nat] /\ captured \in [Runs -> Nat]
  BY DEF RunTypes, Lines
<1>2. PICK n \in taken[r] + 1 .. captured[r] : taken' = [taken EXCEPT ![r] = n]
  BY DEF SinkLags
<1>3. n \in Nat /\ taken[r] + 1 <= n /\ n <= captured[r]
  BY <1>1, <1>2
<1>4. /\ taken' \in [Runs -> Lines] /\ taken'[r] = n
      /\ \A q \in Runs : q # r => taken'[q] = taken[q]
  BY <1>1, <1>2, <1>3 DEF Lines
<1>5. Drop(r)
  BY DEF SinkLags
<1> QED
  BY <1>1, <1>3, <1>4, <1>5, DropTypes

LEMMA FlushTypes ==
  ASSUME RunTypes, NEW r \in Runs, Flush(r)
  PROVE  /\ pending' \in [Runs -> Seq(Lines)] /\ truncated' \in SUBSET Runs
         /\ rows' \in [Runs -> Seq(Lines)]
         /\ Len(rows'[r]) + Len(pending'[r]) <= Len(rows[r]) + Len(pending[r])
         /\ DOMAIN rows[r] \subseteq DOMAIN rows'[r]
         /\ \A i \in DOMAIN rows[r] : rows'[r][i] = rows[r][i]
         /\ \A q \in Runs : q # r => pending'[q] = pending[q] /\ rows'[q] = rows[q]
<1>1. /\ pending \in [Runs -> Seq(Lines)] /\ truncated \in SUBSET Runs
      /\ rows \in [Runs -> Seq(Lines)]
      /\ Len(pending[r]) \in Nat /\ Len(rows[r]) \in Nat
      /\ DOMAIN rows[r] = 1 .. Len(rows[r])
  BY LenProperties DEF RunTypes
<1>2. CASE /\ rows' = [rows EXCEPT ![r] = @ \o pending[r]]
           /\ pending' = [pending EXCEPT ![r] = <<>>]
           /\ UNCHANGED truncated
  <2>1. /\ rows[r] \o pending[r] \in Seq(Lines) /\ <<>> \in Seq(Lines) /\ Len(<<>>) = 0
        /\ Len(rows[r] \o pending[r]) = Len(rows[r]) + Len(pending[r])
        /\ DOMAIN rows[r] \subseteq DOMAIN (rows[r] \o pending[r])
        /\ \A i \in DOMAIN rows[r] : (rows[r] \o pending[r])[i] = rows[r][i]
    BY <1>1, ConcatProperties, LenProperties, EmptySeq
  <2> QED
    BY <1>1, <1>2, <2>1
<1>3. CASE rows' = rows
  <2> DEFINE excess == Len(pending[r]) - MaxPending
             kept   == SubSeq(pending[r], excess + 1, Len(pending[r]))
  <2>1. CASE UNCHANGED <<pending, truncated>>
    BY <1>1, <1>3, <2>1
  <2>2. CASE /\ excess > 0 /\ truncated' = truncated \cup {r}
             /\ pending' = [pending EXCEPT ![r] = kept]
    <3>0. MaxPending \in Nat
      BY StreamAssumption
    <3>1. kept \in Seq(Lines) /\ Len(kept) <= Len(pending[r])
      <4>1. \A i \in excess + 1 .. Len(pending[r]) : pending[r][i] \in Lines
        BY <1>1, <2>2, <3>0, ElementOfSeq
      <4> QED
        BY <1>1, <2>2, <3>0, <4>1, SubSeqProperties
    <3>2. pending'[r] = kept
      BY <1>1, <2>2
    <3>3. pending' \in [Runs -> Seq(Lines)] /\ Len(pending'[r]) <= Len(pending[r])
      BY <1>1, <2>2, <3>1, <3>2
    <3>4. Len(pending'[r]) \in Nat
      BY <3>3, LenProperties
    <3> QED
      BY <1>1, <1>3, <2>2, <3>3, <3>4
  <2>3. \/ UNCHANGED <<pending, truncated>>
        \/ /\ excess > 0 /\ truncated' = truncated \cup {r}
           /\ pending' = [pending EXCEPT ![r] = kept]
        \/ /\ rows' = [rows EXCEPT ![r] = @ \o pending[r]]
           /\ pending' = [pending EXCEPT ![r] = <<>>]
           /\ UNCHANGED truncated
    BY DEF Flush
  <2> QED
    BY <1>2, <2>1, <2>2, <2>3
<1> QED
  BY <1>2, <1>3 DEF Flush

LEMMA DrainTypes ==
  ASSUME RunTypes, NEW r \in Runs, Drain(r)
  PROVE  /\ pending' \in [Runs -> Seq(Lines)] /\ truncated' \in SUBSET Runs
         /\ rows' \in [Runs -> Seq(Lines)] /\ taken' \in [Runs -> Lines]
         /\ DOMAIN rows[r] \subseteq DOMAIN rows'[r]
         /\ \A i \in DOMAIN rows[r] : rows'[r][i] = rows[r][i]
         /\ \A q \in Runs : q # r =>
              pending'[q] = pending[q] /\ rows'[q] = rows[q] /\ taken'[q] = taken[q]
<1>1. /\ pending \in [Runs -> Seq(Lines)] /\ truncated \in SUBSET Runs
      /\ rows \in [Runs -> Seq(Lines)] /\ taken \in [Runs -> Lines]
      /\ Len(rows[r]) \in Nat /\ DOMAIN rows[r] = 1 .. Len(rows[r])
  BY LenProperties DEF RunTypes
<1> DEFINE last == pending[r] \o IF r \in Failing THEN <<0>> ELSE <<>>
<1>2. <<>> \in Seq(Lines) /\ <<0>> \in Seq(Lines) /\ 0 \in Lines
  BY EmptySeq DEF Lines
<1>3. last \in Seq(Lines)
  BY <1>1, <1>2, ConcatProperties
<1>4. /\ pending' = [pending EXCEPT ![r] = <<>>] /\ truncated' = truncated \ {r}
      /\ taken' = [taken EXCEPT ![r] = 0]
      /\ rows' = rows \/ rows' = [rows EXCEPT ![r] = @ \o last]
  BY DEF Drain
<1> HIDE DEF last
<1>5. /\ rows[r] \o last \in Seq(Lines)
      /\ DOMAIN rows[r] \subseteq DOMAIN (rows[r] \o last)
      /\ \A i \in DOMAIN rows[r] : (rows[r] \o last)[i] = rows[r][i]
  <2>1. Len(last) \in Nat
    BY <1>3, LenProperties
  <2> QED
    BY <1>1, <1>3, <2>1, ConcatProperties, LenProperties
<1>6. /\ rows' \in [Runs -> Seq(Lines)]
      /\ rows'[r] = rows[r] \/ rows'[r] = rows[r] \o last
      /\ \A q \in Runs : q # r => rows'[q] = rows[q]
  BY <1>1, <1>4, <1>5
<1>7. /\ pending' \in [Runs -> Seq(Lines)] /\ truncated' \in SUBSET Runs
      /\ taken' \in [Runs -> Lines]
      /\ \A q \in Runs : q # r => pending'[q] = pending[q] /\ taken'[q] = taken[q]
  BY <1>1, <1>2, <1>4
<1> QED
  BY <1>5, <1>6, <1>7

LEMMA ExecutionTypes ==
  ASSUME Types, NEW r \in Runs, Execute(r)
  PROVE  RunTypes' /\ {faults', connects'} \subseteq Nat
<1>0. RunTypes /\ {faults, connects} \subseteq Nat
  BY DEF Types
<1> USE <1>0 DEF RunTypes, Fault
<1>1. CASE InsertRun(r)
  <2>1. /\ phase' = [phase EXCEPT ![r] = "inserted"]
        /\ status' = status \/ status' = [status EXCEPT ![r] = "running"]
        /\ faults' = faults \/ faults' = faults + 1
        /\ UNCHANGED <<captured, sinkVars, rows, connects>>
    BY <1>1 DEF InsertRun, linkVars
  <2>2. /\ phase' \in [Runs -> {"new", "inserted", "running", "drained",
                               "finished", "ended"}]
        /\ status' \in [Runs -> {"none", "running", "ended"}]
    BY <2>1
  <2>3. faults' \in Nat
    BY <2>1
  <2> QED
    BY <2>1, <2>2, <2>3 DEF sinkVars
<1>2. CASE AnnounceStart(r)
  BY <1>2 DEF AnnounceStart, sinkVars
<1>3. CASE HandlerLogs(r)
  BY <1>3 DEF HandlerLogs, Lines, sinkVars
<1>4. CASE Flush(r)
  <2>1. faults' \in Nat /\ UNCHANGED <<phase, captured, taken, status, connects>>
    BY <1>4 DEF Flush, linkVars
  <2> QED
    BY <1>4, <2>1, FlushTypes
<1>5. CASE SinkLags(r)
  <2>1. faults' \in Nat /\ UNCHANGED <<phase, captured, rows, status, connects>>
    BY <1>5 DEF SinkLags, linkVars
  <2> QED
    BY <1>5, <2>1, SinkLagsTypes
<1>6. CASE Drain(r)
  <2>1. /\ phase' = [phase EXCEPT ![r] = "drained"]
        /\ UNCHANGED <<captured, status, connects>>
    BY <1>6 DEF Drain, linkVars
  <2>2. faults' \in Nat
    BY <1>6 DEF Drain
  <2>3. phase' \in [Runs -> {"new", "inserted", "running", "drained", "finished",
                             "ended"}]
    BY <2>1
  <2> QED
    BY <1>6, <2>1, <2>2, <2>3, DrainTypes
<1>7. CASE CloseRun(r)
  <2>1. /\ \/ phase' = [phase EXCEPT ![r] = "finished"]
           \/ phase' = [phase EXCEPT ![r] = "ended"]
        /\ \/ status' = status
           \/ status' = [status EXCEPT ![r] = "ended"]
        /\ faults' = faults \/ faults' = faults + 1
        /\ UNCHANGED <<captured, sinkVars, rows, connects>>
    BY <1>7 DEF CloseRun, FinishRow
  <2>2. /\ phase' \in [Runs -> {"new", "inserted", "running", "drained",
                               "finished", "ended"}]
        /\ status' \in [Runs -> {"none", "running", "ended"}]
    BY <2>1
  <2>3. faults' \in Nat
    BY <2>1
  <2> QED
    BY <2>1, <2>2, <2>3 DEF sinkVars
<1>8. CASE Receive(r)
  <2>1. UNCHANGED <<phase, captured, rows, status, faults, connects>>
    BY <1>8 DEF Receive, linkVars
  <2> QED
    BY <1>8, <2>1, ReceiveTypes
<1> QED
  BY <1>1, <1>2, <1>3, <1>4, <1>5, <1>6, <1>7, <1>8 DEF Execute

\* What is on its way to the browser.
LEMMA RingTypes ==
  ASSUME ring \in Seq(Events)
  PROVE  /\ \A k \in DOMAIN ring : SubSeq(ring, k + 1, Len(ring)) \in Seq(Events)
         /\ \A k \in DOMAIN ring : ring[k] \in Events
         /\ ring # <<>> => Head(ring) = ring[1] /\ ring[1] \in Events
                           /\ Tail(ring) \in Seq(Events)
         /\ \A e \in Events : Append(ring, e) \in Seq(Events)
<1>1. Len(ring) \in Nat /\ DOMAIN ring = 1 .. Len(ring)
  BY LenProperties
<1>2. \A k \in DOMAIN ring : SubSeq(ring, k + 1, Len(ring)) \in Seq(Events)
  BY <1>1, SubSeqProperties, ElementOfSeq
<1>3. \A k \in DOMAIN ring : ring[k] \in Events
  BY <1>1, ElementOfSeq
<1>4. ring # <<>> => Head(ring) = ring[1] /\ ring[1] \in Events
                     /\ Tail(ring) \in Seq(Events)
  BY <1>1, <1>3, HeadTailProperties, EmptySeq
<1> QED
  BY <1>2, <1>3, <1>4, AppendProperties

LEMMA ExecutionLink ==
  ASSUME Types, NEW r \in Runs, Execute(r)
  PROVE  LinkTypes' /\ HookTypes' /\ blind' \in SUBSET (Runs \X Lines)
<1>1. /\ HookTypes /\ LinkTypes /\ blind \in SUBSET (Runs \X Lines)
      /\ captured \in [Runs -> Nat]
  BY DEF Types, RunTypes, Lines
<1>2. /\ [kind |-> "run_started", run |-> r, seq |-> 0] \in Events
      /\ [kind |-> "run_ended", run |-> r, seq |-> 0] \in Events
      /\ [kind |-> "log", run |-> r, seq |-> captured[r] + 1] \in Events
  BY <1>1 DEF Events, Lines
<1>3. ring' \in Seq(Events)
  BY <1>1, <1>2, ExecutionMoves, RingTypes DEF LinkTypes, Sends
<1> QED
  BY <1>1, <1>3, ExecutionMoves DEF LinkTypes, HookTypes, hookVars

-----------------------------------------------------------------------------
(***************************************************************************)
(* The hook shows the lines of one run in their order, and so does what it *)
(* is about to be given.                                                   *)
(***************************************************************************)
Ordered(r, logs) ==
  /\ \A i \in DOMAIN logs : logs[i].run = r
  /\ \A i, j \in DOMAIN logs : i < j => logs[i].seq < logs[j].seq

OrderInv ==
  /\ Ordered(view.run, view.logs)
  /\ Ordered(initial.run, initial.logs)
  /\ \A r \in Runs : Ordered(r, fetch[r].logs)

LEMMA EmptyOrdered == \A r : Ordered(r, <<>>)
BY DEF Ordered

LEMMA StoredOrdered ==
  ASSUME NEW r \in Runs, rows[r] \in Seq(Lines)
  PROVE  Ordered(r, Stored(r))
<1>1. \A i \in DOMAIN rows[r] : i \in Nat
  BY LenProperties
<1>2. \A i \in DOMAIN rows[r] : Stored(r)[i].run = r /\ Stored(r)[i].seq = i
  <2>1. \A i \in DOMAIN rows[r] : Stored(r)[i] = [run |-> r, seq |-> i, line |-> rows[r][i]]
    BY StoredTypes
  <2> SUFFICES ASSUME NEW i \in DOMAIN rows[r]
               PROVE  Stored(r)[i].run = r /\ Stored(r)[i].seq = i
    OBVIOUS
  <2>2. Stored(r)[i] = [run |-> r, seq |-> i, line |-> rows[r][i]]
    BY <2>1
  <2> QED
    BY <2>2
<1> QED
  BY <1>1, <1>2, StoredTypes DEF Ordered

\* An ordered log is a set of entries of one run with different numbers.
LEMMA OrderedNumbers ==
  ASSUME NEW logs \in Seq(Entries), NEW r, Ordered(r, logs)
  PROVE  /\ Range(logs) \in SUBSET Entries
         /\ Numbered(Range(logs))
         /\ \A e \in Range(logs) : e.run = r
<1>1. Len(logs) \in Nat /\ DOMAIN logs = 1 .. Len(logs)
  BY LenProperties
<1>2. \A i \in 1 .. Len(logs) : logs[i] \in Entries
  BY ElementOfSeq
<1>3. Range(logs) \in SUBSET Entries /\ \A e \in Range(logs) : e.run = r
  BY <1>1, <1>2 DEF Range, Ordered
<1>4. \A e \in Entries : e.seq \in Nat
  BY DEF Entries
<1>5. logs \in Surjection(DOMAIN logs, Range(logs))
  <2>1. logs \in [DOMAIN logs -> Entries]
    BY <1>1, <1>2, LenProperties
  <2> QED
    BY <2>1, Fun_RangeProperties
<1>6. IsFiniteSet(Range(logs))
  BY <1>1, <1>5, FS_Interval, FS_Surjection
<1>7. ASSUME NEW i \in 1 .. Len(logs), NEW j \in 1 .. Len(logs), logs[i].seq = logs[j].seq
      PROVE  logs[i] = logs[j]
  <2>1. logs[i].seq \in Nat /\ logs[j].seq \in Nat
    BY <1>2, <1>4
  <2>2. ~(i < j) /\ ~(j < i)
    BY <1>1, <1>7, <2>1 DEF Ordered
  <2> QED
    BY <2>2
<1> QED
  BY <1>1, <1>3, <1>4, <1>6, <1>7 DEF Numbered, Range

\* What a reload makes of the view.
LEMMA MergedLogs ==
  ASSUME view.logs \in Seq(Entries), Ordered(view.run, view.logs),
         NEW logs \in Seq(Entries), Ordered(view.run, logs)
  PROVE  /\ Merged(logs) \in Seq(Entries)
         /\ Ordered(view.run, Merged(logs))
         /\ Range(view.logs) \subseteq Range(Merged(logs))
         /\ Range(Merged(logs)) \subseteq Range(view.logs) \cup Range(logs)
         /\ \A e \in Range(logs) : \E d \in Range(Merged(logs)) : d.seq = e.seq
<1> DEFINE kept == Range(view.logs)
           new  == {e \in Range(logs) : \A k \in kept : k.seq # e.seq}
           all  == kept \cup new
<1>1. /\ kept \in SUBSET Entries /\ Numbered(kept)
      /\ Range(logs) \in SUBSET Entries /\ Numbered(Range(logs))
      /\ \A e \in kept \cup Range(logs) : e.run = view.run
  BY OrderedNumbers
<1>2. IsFiniteSet(all)
  BY <1>1, FS_Union, FS_Subset DEF Numbered
<1>3. Numbered(all)
  BY <1>1, <1>2 DEF Numbered
<1>4. /\ BySeq(all) \in Seq(all)
      /\ Range(BySeq(all)) = all
      /\ \A i, j \in DOMAIN BySeq(all) : i < j => BySeq(all)[i].seq < BySeq(all)[j].seq
  BY <1>3, SortedBySeq
<1>5. Merged(logs) = BySeq(all)
  BY DEF Merged
<1>6. BySeq(all) \in Seq(Entries)
  BY <1>1, <1>4, SeqMonotonic
<1>7. \A i \in DOMAIN BySeq(all) : BySeq(all)[i].run = view.run
  <2>1. \A i \in DOMAIN BySeq(all) : BySeq(all)[i] \in all
    BY <1>4 DEF Range
  <2> QED
    BY <1>1, <2>1
<1>8. \A e \in Range(logs) : \E d \in all : d.seq = e.seq
  OBVIOUS
<1> HIDE DEF all
<1>9. kept \subseteq all /\ all \subseteq kept \cup Range(logs)
  BY DEF all
<1> QED
  BY <1>4, <1>5, <1>6, <1>7, <1>8, <1>9 DEF Ordered

-----------------------------------------------------------------------------
\* What the stream still has to deliver makes no difference to the order.
StreamInv == Types /\ OrderInv

LEMMA StreamInvInit == Init => StreamInv
<1> SUFFICES ASSUME Init PROVE StreamInv
  OBVIOUS
<1>1. <<>> \in Seq(Lines) /\ <<>> \in Seq(Entries) /\ <<>> \in Seq(Events)
  BY EmptySeq
<1>2. RunTypes
  BY <1>1 DEF Init, RunTypes, Lines
<1>3. LinkTypes /\ HookTypes
  BY <1>1 DEF Init, LinkTypes, HookTypes, Nothing, NoView, NoFetch
<1>4. OrderInv
  BY EmptyOrdered DEF Init, OrderInv, Nothing, NoView, NoFetch
<1> QED
  BY <1>2, <1>3, <1>4 DEF StreamInv, Types, Init

LEMMA RouteSteps ==
  ASSUME StreamInv, Connect \/ ListRuns \/ ListLogs \/ StreamLags
  PROVE  StreamInv'
<1>0. /\ RunTypes /\ LinkTypes /\ HookTypes /\ OrderInv
      /\ blind \in SUBSET (Runs \X Lines)
      /\ {faults, connects} \subseteq Nat
  BY DEF StreamInv, Types
<1>1. <<>> \in Seq(Entries) /\ <<>> \in Seq(Events)
  BY EmptySeq
<1>2. CASE Connect
  <2>1. RunTypes' /\ HookTypes' /\ blind' \in SUBSET (Runs \X Lines)
    BY <1>0, <1>2 DEF Connect, runVars, sinkVars, hookVars, RunTypes, HookTypes
  <2>2. LinkTypes'
    BY <1>0, <1>1, <1>2 DEF Connect, LinkTypes, Nothing
  <2>3. OrderInv'
    BY <1>0, <1>2, EmptyOrdered DEF Connect, hookVars, OrderInv, Nothing
  <2>4. {faults', connects'} \subseteq Nat
    BY <1>0, <1>2 DEF Connect
  <2> QED
    BY <2>1, <2>2, <2>3, <2>4 DEF StreamInv, Types
<1>3. CASE ListRuns
  <2>1. RunTypes' /\ HookTypes' /\ blind' \in SUBSET (Runs \X Lines)
    BY <1>0, <1>3 DEF ListRuns, runVars, sinkVars, hookVars, RunTypes, HookTypes
  <2>2. /\ conn' \in {"listed", "open"} /\ found' \in Runs \cup {0}
        /\ conn' = "listed" => found' \in Runs
        /\ initial' = initial \/ initial' = Idle
        /\ UNCHANGED <<ring, lagged, hookVars>>
    BY <1>0, <1>3 DEF ListRuns, Recorded, LinkTypes
  <2>3. LinkTypes'
    <3>1. initial' \in [kind : {"none", "idle", "snapshot"}, run : Runs \cup {0},
                        logs : Seq(Entries)]
      <4>1. CASE initial' = initial
        BY <1>0, <4>1 DEF LinkTypes
      <4>2. CASE initial' = Idle
        BY <1>1, <4>2 DEF Idle
      <4> QED
        BY <2>2, <4>1, <4>2
    <3> QED
      BY <1>0, <2>2, <3>1 DEF LinkTypes
  <2>4. OrderInv'
    BY <1>0, <2>2, EmptyOrdered DEF OrderInv, Idle, hookVars
  <2>5. faults' \in Nat /\ connects' \in Nat
    BY <1>0, <1>3 DEF ListRuns, Fault
  <2> QED
    BY <2>1, <2>3, <2>4, <2>5 DEF StreamInv, Types
<1>4. CASE ListLogs
  <2>1. RunTypes' /\ HookTypes'
    BY <1>0, <1>4 DEF ListLogs, runVars, sinkVars, hookVars, RunTypes, HookTypes
  <2>2. found \in Runs
    BY <1>0, <1>4 DEF ListLogs, LinkTypes
  <2>3. PICK logs \in {Stored(found), <<>>} :
          /\ Snapshot(logs)
          /\ conn' = "open"
          /\ UNCHANGED <<ring, lagged, connects, hookVars>>
    BY <1>4 DEF ListLogs
  <2>4. logs \in Seq(Entries) /\ Ordered(found, logs)
    BY <1>0, <1>1, <2>2, <2>3, StoredTypes, StoredOrdered, EmptyOrdered DEF RunTypes
  <2>5. LinkTypes'
    BY <1>0, <2>2, <2>3, <2>4 DEF LinkTypes, Snapshot
  <2>6. OrderInv'
    BY <1>0, <2>3, <2>4 DEF OrderInv, Snapshot, hookVars
  <2>7. blind' \in SUBSET (Runs \X Lines)
    BY <1>0, <2>2, <2>3 DEF Snapshot, Missed, Lines
  <2>8. faults' \in Nat /\ connects' \in Nat
    BY <1>0, <1>4, <2>3 DEF ListLogs, Fault
  <2> QED
    BY <2>1, <2>5, <2>6, <2>7, <2>8 DEF StreamInv, Types
<1>5. CASE StreamLags
  <2>1. RunTypes' /\ HookTypes' /\ OrderInv'
    BY <1>0, <1>5 DEF StreamLags, runVars, sinkVars, hookVars, RunTypes, HookTypes, OrderInv
  <2>2. PICK k \in DOMAIN ring :
          /\ ring' = SubSeq(ring, k + 1, Len(ring))
          /\ blind' = blind \cup {<<ring[i].run, ring[i].seq>> :
                        i \in {j \in 1 .. k : ring[j].kind # "run_started"}}
    BY <1>5 DEF StreamLags
  <2>3. ring' \in Seq(Events)
    BY <1>0, <2>2, RingTypes DEF LinkTypes
  <2>4. LinkTypes'
    BY <1>0, <1>5, <2>3 DEF StreamLags, LinkTypes
  <2>5. \A i \in 1 .. k : ring[i] \in Events
    BY <1>0, <2>2, RingTypes, LenProperties DEF LinkTypes
  <2>6. blind' \in SUBSET (Runs \X Lines)
    BY <1>0, <2>2, <2>5 DEF Events
  <2>7. {faults', connects'} \subseteq Nat
    BY <1>0, <1>5 DEF StreamLags, Fault
  <2> QED
    BY <2>1, <2>4, <2>6, <2>7 DEF StreamInv, Types
<1> QED
  BY <1>2, <1>3, <1>4, <1>5

\* The hook appends a line only if its number is larger than all it shows.
LEMMA LastIsLargest ==
  ASSUME view.logs \in Seq(Entries), Ordered(view.run, view.logs)
  PROVE  /\ LastSeq \in Nat
         /\ \A i \in DOMAIN view.logs :
              view.logs[i].seq \in Nat /\ view.logs[i].seq <= LastSeq
         /\ \A e \in Range(view.logs) : e.seq \in Nat /\ e.seq <= LastSeq
<1>1. Len(view.logs) \in Nat /\ DOMAIN view.logs = 1 .. Len(view.logs)
  BY LenProperties
<1>2. \A i \in 1 .. Len(view.logs) : view.logs[i] \in Entries
  BY ElementOfSeq
<1>3. \A i \in 1 .. Len(view.logs) : view.logs[i].seq \in Nat
  BY <1>2 DEF Entries
<1>4. CASE view.logs = <<>>
  BY <1>1, <1>4 DEF LastSeq, Range
<1>5. CASE view.logs # <<>>
  <2>1. Len(view.logs) \in 1 .. Len(view.logs) /\ LastSeq = view.logs[Len(view.logs)].seq
    BY <1>1, <1>5, EmptySeq DEF LastSeq, Last
  <2>2. \A i \in 1 .. Len(view.logs) : i < Len(view.logs) \/ i = Len(view.logs)
    BY <1>1
  <2>3. \A i \in 1 .. Len(view.logs) : view.logs[i].seq <= LastSeq
    BY <1>1, <1>3, <2>1, <2>2 DEF Ordered
  <2> QED
    BY <1>1, <1>3, <2>1, <2>3 DEF Range
<1> QED
  BY <1>4, <1>5

LEMMA AppendKeepsOrder ==
  ASSUME view.logs \in Seq(Entries), Ordered(view.run, view.logs),
         NEW d \in Entries, d.run = view.run, LastSeq < d.seq
  PROVE  /\ Append(view.logs, d) \in Seq(Entries)
         /\ Ordered(view.run, Append(view.logs, d))
         /\ Range(Append(view.logs, d)) = Range(view.logs) \cup {d}
<1> DEFINE n == Len(view.logs)
           s == Append(view.logs, d)
<1>1. n \in Nat /\ DOMAIN view.logs = 1 .. n
  BY LenProperties
<1>2. /\ s \in Seq(Entries) /\ DOMAIN s = 1 .. n + 1
      /\ \A i \in 1 .. n : s[i] = view.logs[i]
      /\ s[n + 1] = d
  BY <1>1, AppendProperties, LenProperties
<1>3. d.seq \in Nat
  BY DEF Entries
<1>4. \A i \in 1 .. n + 1 : i \in 1 .. n \/ i = n + 1
  BY <1>1
<1> HIDE DEF n, s
<1>5. \A i \in 1 .. n + 1 : s[i].run = view.run
  BY <1>1, <1>2, <1>4 DEF Ordered
<1>6. ASSUME NEW i \in 1 .. n + 1, NEW j \in 1 .. n + 1, i < j PROVE s[i].seq < s[j].seq
  <2>1. i \in 1 .. n
    BY <1>1, <1>6
  <2>2. view.logs[i].seq \in Nat /\ view.logs[i].seq <= LastSeq /\ LastSeq \in Nat
    BY <1>1, <2>1, LastIsLargest
  <2>3. CASE j \in 1 .. n
    BY <1>1, <1>2, <1>6, <2>1, <2>3 DEF Ordered
  <2>4. CASE j = n + 1
    BY <1>2, <1>3, <2>1, <2>2, <2>4
  <2> QED
    BY <1>4, <2>3, <2>4
<1>7. Range(s) = Range(view.logs) \cup {d}
  <2>1. Range(s) = {s[i] : i \in 1 .. n + 1} /\ Range(view.logs) = {view.logs[i] : i \in 1 .. n}
    BY <1>1, <1>2 DEF Range
  <2>2. 1 .. n + 1 = (1 .. n) \cup {n + 1}
    BY <1>1
  <2> QED
    BY <1>2, <2>1, <2>2
<1> QED
  BY <1>2, <1>5, <1>6, <1>7 DEF s, Ordered

LEMMA ShowKeepsOrder ==
  ASSUME StreamInv, NEW e \in Events, Show(e)
  PROVE  /\ view' \in [run : Runs \cup {0}, logs : Seq(Entries), ended : BOOLEAN]
         /\ Ordered(view'.run, view'.logs)
         /\ view'.run = view.run /\ view'.ended = view.ended
<1>1. /\ view \in [run : Runs \cup {0}, logs : Seq(Entries), ended : BOOLEAN]
      /\ Ordered(view.run, view.logs)
  BY DEF StreamInv, Types, HookTypes, OrderInv
<1>2. CASE view.run = e.run /\ LastSeq < e.seq
  <2>1. Entry(e) \in Entries /\ Entry(e).run = view.run /\ Entry(e).seq = e.seq
    BY <1>2 DEF Entry, Entries, Events, Lines
  <2>2. /\ Append(view.logs, Entry(e)) \in Seq(Entries)
        /\ Ordered(view.run, Append(view.logs, Entry(e)))
    BY <1>1, <1>2, <2>1, AppendKeepsOrder
  <2>3. view' = [view EXCEPT !.logs = Append(@, Entry(e))]
    BY <1>2 DEF Show
  <2>4. /\ view'.logs = Append(view.logs, Entry(e)) /\ view'.run = view.run
        /\ view'.ended = view.ended
    BY <1>1, <2>3
  <2> QED
    BY <1>1, <2>2, <2>3, <2>4
<1>3. CASE ~(view.run = e.run /\ LastSeq < e.seq)
  BY <1>1, <1>3 DEF Show
<1> QED
  BY <1>2, <1>3

LEMMA MergeKeepsOrder ==
  ASSUME StreamInv, NEW r \in Runs, Merge(r)
  PROVE  /\ view' \in [run : Runs \cup {0}, logs : Seq(Entries), ended : BOOLEAN]
         /\ Ordered(view'.run, view'.logs)
         /\ view'.run = view.run /\ view'.ended = view.ended
         /\ Range(view.logs) \subseteq Range(view'.logs)
         /\ view.run # r => view' = view
         /\ view.run = r =>
              /\ Range(view'.logs) \subseteq Range(view.logs) \cup Range(fetch[r].logs)
              /\ \A e \in Range(fetch[r].logs) : \E d \in Range(view'.logs) : d.seq = e.seq
<1>1. /\ view \in [run : Runs \cup {0}, logs : Seq(Entries), ended : BOOLEAN]
      /\ Ordered(view.run, view.logs)
      /\ fetch[r].logs \in Seq(Entries)
      /\ Ordered(r, fetch[r].logs)
  BY DEF StreamInv, Types, HookTypes, OrderInv
<1>2. CASE view.run = r
  <2> DEFINE logs == Merged(fetch[r].logs)
  <2>1. view' = [view EXCEPT !.logs = logs]
    BY <1>2 DEF Merge
  <2>2. view'.logs = logs /\ view'.run = view.run /\ view'.ended = view.ended
    BY <1>1, <2>1
  <2>3. /\ logs \in Seq(Entries)
        /\ Ordered(view.run, logs)
        /\ Range(view.logs) \subseteq Range(logs)
        /\ Range(logs) \subseteq Range(view.logs) \cup Range(fetch[r].logs)
        /\ \A e \in Range(fetch[r].logs) : \E d \in Range(logs) : d.seq = e.seq
    BY <1>1, <1>2, MergedLogs
  <2> HIDE DEF logs
  <2>4. view' \in [run : Runs \cup {0}, logs : Seq(Entries), ended : BOOLEAN]
    BY <1>1, <2>1, <2>3
  <2> QED
    BY <1>2, <2>2, <2>3, <2>4
<1>3. CASE view.run # r
  BY <1>1, <1>3 DEF Merge
<1> QED
  BY <1>2, <1>3

\* The steps of the hook.
HookStep ==
  \/ \E r \in Runs : ListRunLogs(r) \/ Merge(r)
  \/ HandleInitial
  \/ HandleEvent
  \/ HandleReset
  \/ Render

LEMMA HookSteps ==
  ASSUME StreamInv, HookStep
  PROVE  StreamInv'
<1>0. /\ RunTypes /\ LinkTypes /\ HookTypes /\ OrderInv
      /\ blind \in SUBSET (Runs \X Lines)
      /\ {faults, connects} \subseteq Nat
  BY DEF StreamInv, Types
<1>1. <<>> \in Seq(Entries) /\ <<>> \in Seq(Events)
  BY EmptySeq
<1>2. RunTypes' /\ {faults', connects'} \subseteq Nat
  <2>1. UNCHANGED <<runVars, connects>>
    BY DEF HookStep, ListRunLogs, Merge, HandleInitial, HandleEvent, HandleReset,
           Render, linkVars
  <2>2. faults' \in Nat
    BY <1>0 DEF HookStep, ListRunLogs, Merge, HandleInitial, HandleEvent, HandleReset,
                Render, Fault
  <2> QED
    BY <1>0, <2>1, <2>2 DEF runVars, sinkVars, RunTypes
<1>3. ASSUME NEW r \in Runs, ListRunLogs(r) PROVE StreamInv'
  <2>1. PICK answer \in {NoFetch, [state |-> "read", logs |-> Stored(r)]} :
          fetch' = [fetch EXCEPT ![r] = answer]
    BY <1>3 DEF ListRunLogs
  <2>2. /\ answer \in [state : {"none", "asked", "read"}, logs : Seq(Entries)]
        /\ Ordered(r, answer.logs)
    <3>1. CASE answer = NoFetch
      BY <1>1, <3>1, EmptyOrdered DEF NoFetch
    <3>2. CASE answer = [state |-> "read", logs |-> Stored(r)]
      BY <1>0, <3>2, StoredTypes, StoredOrdered DEF RunTypes
    <3> QED
      BY <2>1, <3>1, <3>2
  <2>3. UNCHANGED <<linkVars, view, ref, blind>>
    BY <1>3 DEF ListRunLogs
  <2>4. fetch' \in [Runs -> [state : {"none", "asked", "read"}, logs : Seq(Entries)]]
    BY <1>0, <2>1, <2>2 DEF HookTypes
  <2>5. \A q \in Runs : Ordered(q, fetch'[q].logs)
    BY <1>0, <2>1, <2>2 DEF HookTypes, OrderInv
  <2>6. LinkTypes' /\ HookTypes' /\ OrderInv'
    BY <1>0, <2>3, <2>4, <2>5 DEF LinkTypes, HookTypes, OrderInv, linkVars
  <2> QED
    BY <1>0, <1>2, <2>3, <2>6 DEF StreamInv, Types
<1>4. ASSUME NEW r \in Runs, Merge(r) PROVE StreamInv'
  <2>1. /\ fetch' = [fetch EXCEPT ![r] = NoFetch]
        /\ UNCHANGED <<linkVars, ref, blind>>
    BY <1>4 DEF Merge
  <2>2. fetch' \in [Runs -> [state : {"none", "asked", "read"}, logs : Seq(Entries)]]
    BY <1>0, <1>1, <2>1 DEF HookTypes, NoFetch
  <2>3. \A q \in Runs : Ordered(q, fetch'[q].logs)
    BY <1>0, <2>1, EmptyOrdered DEF HookTypes, OrderInv, NoFetch
  <2>4. LinkTypes' /\ HookTypes' /\ OrderInv'
    BY <1>0, <1>4, <2>1, <2>2, <2>3, MergeKeepsOrder
    DEF LinkTypes, HookTypes, OrderInv, linkVars
  <2> QED
    BY <1>0, <1>2, <2>1, <2>4 DEF StreamInv, Types
<1>5. CASE HandleInitial
  <2>1. /\ view' = [run |-> initial.run, logs |-> initial.logs, ended |-> FALSE]
        /\ initial' = Nothing
        /\ UNCHANGED <<conn, found, ring, lagged, ref, fetch, blind>>
    BY <1>5 DEF HandleInitial
  <2>2. LinkTypes'
    BY <1>0, <1>1, <2>1 DEF LinkTypes, Nothing
  <2>3. HookTypes'
    BY <1>0, <2>1 DEF LinkTypes, HookTypes
  <2>4. OrderInv'
    BY <1>0, <2>1, EmptyOrdered DEF OrderInv, Nothing
  <2> QED
    BY <1>0, <1>2, <2>1, <2>2, <2>3, <2>4 DEF StreamInv, Types
<1>6. CASE HandleEvent
  <2>1. PICK e \in Events : /\ e = Head(ring)
                            /\ ring' = Tail(ring) /\ ring' \in Seq(Events)
    BY <1>0, <1>6, RingTypes DEF HandleEvent, LinkTypes
  <2>2. UNCHANGED <<conn, found, initial, lagged, ref, fetch>>
    BY <1>6 DEF HandleEvent
  <2>3. \/ Show(e) /\ blind' = blind
        \/ view' = [run |-> e.run, logs |-> <<>>, ended |-> FALSE] /\ blind' = {}
        \/ view' = [view EXCEPT !.ended = @ \/ view.run = e.run] /\ blind' = blind
    BY <1>6, <2>1 DEF HandleEvent
  <2>4. /\ view' \in [run : Runs \cup {0}, logs : Seq(Entries), ended : BOOLEAN]
        /\ Ordered(view'.run, view'.logs)
    <3>1. CASE Show(e)
      BY <3>1, ShowKeepsOrder
    <3>2. CASE view' = [run |-> e.run, logs |-> <<>>, ended |-> FALSE]
      BY <1>1, <2>1, <3>2, EmptyOrdered DEF Events
    <3>3. CASE view' = [view EXCEPT !.ended = @ \/ view.run = e.run]
      BY <1>0, <3>3 DEF HookTypes, OrderInv
    <3> QED
      BY <2>3, <3>1, <3>2, <3>3
  <2>5. blind' \in SUBSET (Runs \X Lines)
    BY <1>0, <2>3
  <2>6. LinkTypes' /\ HookTypes' /\ OrderInv'
    BY <1>0, <2>1, <2>2, <2>4 DEF LinkTypes, HookTypes, OrderInv
  <2> QED
    BY <1>2, <2>5, <2>6 DEF StreamInv, Types
<1>7. CASE HandleReset
  <2>1. /\ lagged' = FALSE
        /\ UNCHANGED <<conn, found, initial, ring, view, ref, blind>>
        /\ \/ fetch' = fetch
           \/ ref \in Runs /\ fetch' = [fetch EXCEPT ![ref].state = "asked"]
    BY <1>0, <1>7 DEF HandleReset, HookTypes
  <2>2. /\ fetch' \in [Runs -> [state : {"none", "asked", "read"}, logs : Seq(Entries)]]
        /\ \A q \in Runs : fetch'[q].logs = fetch[q].logs
    <3>1. CASE fetch' = fetch
      BY <1>0, <3>1 DEF HookTypes
    <3>2. CASE ref \in Runs /\ fetch' = [fetch EXCEPT ![ref].state = "asked"]
      BY <1>0, <3>2 DEF HookTypes
    <3> QED
      BY <2>1, <3>1, <3>2
  <2>3. LinkTypes' /\ HookTypes' /\ OrderInv'
    BY <1>0, <2>1, <2>2 DEF LinkTypes, HookTypes, OrderInv
  <2> QED
    BY <1>0, <1>2, <2>1, <2>3 DEF StreamInv, Types
<1>8. CASE Render
  <2>1. ref' = view.run /\ UNCHANGED <<linkVars, view, fetch, blind>>
    BY <1>8 DEF Render
  <2>2. LinkTypes' /\ HookTypes' /\ OrderInv'
    BY <1>0, <2>1 DEF LinkTypes, HookTypes, OrderInv, linkVars
  <2> QED
    BY <1>0, <1>2, <2>1, <2>2 DEF StreamInv, Types
<1> QED
  BY <1>3, <1>4, <1>5, <1>6, <1>7, <1>8 DEF HookStep

RouteStep == Connect \/ ListRuns \/ ListLogs \/ StreamLags

LEMMA NextSteps ==
  Next <=> (\E r \in Runs : Execute(r)) \/ RouteStep \/ HookStep
BY DEF Next, Execute, RouteStep, HookStep

LEMMA StreamInvStays == StreamInv /\ [Next]_vars => StreamInv'
<1>1. ASSUME StreamInv, NEW r \in Runs, Execute(r) PROVE StreamInv'
  <2>1. OrderInv'
    BY <1>1, ExecutionMoves DEF StreamInv, OrderInv, hookVars
  <2> QED
    BY <1>1, <2>1, ExecutionTypes, ExecutionLink DEF StreamInv, Types
<1>2. ASSUME StreamInv, UNCHANGED vars PROVE StreamInv'
  BY <1>2 DEF vars, sinkVars, StreamInv, Types, RunTypes, LinkTypes, HookTypes, OrderInv
<1> QED
  BY <1>1, <1>2, NextSteps, RouteSteps, HookSteps DEF RouteStep

LEMMA StreamInvHolds == Spec => []StreamInv
BY StreamInvInit, StreamInvStays, PTL DEF Spec

\* All variables keep their types.
THEOREM TypeCorrect == Spec => []TypeOK
<1>1. StreamInv => TypeOK
  BY DEF StreamInv, Types, RunTypes, LinkTypes, HookTypes, TypeOK
<1> QED
  BY <1>1, StreamInvHolds, PTL

\* The hook shows the lines of one run in ascending order, each number once,
\* however snapshots, the stream, resets and reloads interleave.
THEOREM ShownInOrderHolds == Spec => []ShownInOrder
<1>1. StreamInv => ShownInOrder
  BY DEF StreamInv, OrderInv, Ordered, ShownInOrder
<1> QED
  BY <1>1, StreamInvHolds, PTL

\* A reload takes away nothing that is shown: apart from it, only what the
\* stream delivers changes the view.
THEOREM ReloadOnlyAddsHolds == Spec => ReloadOnlyAdds
<1>1. ASSUME StreamInv, [Next]_vars, UNCHANGED linkVars
      PROVE  Range(view.logs) \subseteq Range(view'.logs)
  <2>1. ASSUME NEW r \in Runs, Merge(r) PROVE Range(view.logs) \subseteq Range(view'.logs)
    BY <1>1, <2>1, MergeKeepsOrder
  <2>2. ~HandleInitial
    BY <1>1 DEF HandleInitial, linkVars
  <2>3. ~HandleEvent
    <3>1. ring \in Seq(Events) /\ ring' = ring
      BY <1>1 DEF StreamInv, Types, LinkTypes, linkVars
    <3>2. ring # <<>> => Tail(ring) # ring
      BY <3>1, HeadTailProperties, LenProperties
    <3> QED
      BY <3>1, <3>2 DEF HandleEvent
  <2>4. view' = view \/ \E r \in Runs : Merge(r)
    <3>1. ASSUME NEW r \in Runs, Execute(r) PROVE view' = view
      BY <3>1, ExecutionMoves DEF hookVars
    <3>2. ASSUME RouteStep PROVE view' = view
      BY <3>2 DEF RouteStep, Connect, ListRuns, ListLogs, StreamLags, hookVars
    <3>3. ASSUME HookStep PROVE view' = view \/ \E r \in Runs : Merge(r)
      BY <2>2, <2>3, <3>3 DEF HookStep, ListRunLogs, HandleReset, Render
    <3> QED
      BY <1>1, <3>1, <3>2, <3>3, NextSteps DEF vars
  <2> QED
    BY <2>1, <2>4
<1>2. StreamInv /\ [Next]_vars
        => [UNCHANGED linkVars => Range(view.logs) \subseteq Range(view'.logs)]_vars
  BY <1>1
<1> QED
  BY <1>2, StreamInvHolds, PTL DEF Spec, ReloadOnlyAdds

-----------------------------------------------------------------------------
(***************************************************************************)
(* What the stream has yet to deliver: places in it move when events are   *)
(* added, delivered or overwritten.                                        *)
(***************************************************************************)
RingGrows(e) ==
  /\ DOMAIN ring' = 1 .. Len(ring) + 1
  /\ \A i \in DOMAIN ring : ring'[i] = ring[i]
  /\ ring'[Len(ring) + 1] = e

RingDrops(k) ==
  /\ k \in DOMAIN ring
  /\ DOMAIN ring' = 1 .. Len(ring) - k
  /\ \A i \in DOMAIN ring' : ring'[i] = ring[i + k]

LEMMA RingPlaces ==
  ASSUME ring \in Seq(Events)
  PROVE  /\ Len(ring) \in Nat
         /\ DOMAIN ring = 1 .. Len(ring)
         /\ \A i \in DOMAIN ring : ring[i] \in Events
BY LenProperties, ElementOfSeq

LEMMA SendGrows ==
  ASSUME ring \in Seq(Events), NEW e \in Events, ring' = Append(ring, e)
  PROVE  RingGrows(e)
<1>1. Len(ring) \in Nat /\ DOMAIN ring = 1 .. Len(ring)
  BY RingPlaces
<1> QED
  BY <1>1, AppendProperties, LenProperties DEF RingGrows

LEMMA TailDrops ==
  ASSUME ring \in Seq(Events), ring # <<>>, ring' = Tail(ring)
  PROVE  RingDrops(1) /\ ring[1] = Head(ring)
<1>1. Len(ring) \in Nat /\ DOMAIN ring = 1 .. Len(ring) /\ Len(ring) # 0
  BY RingPlaces, EmptySeq
<1>2. /\ Tail(ring) \in Seq(Events) /\ Len(Tail(ring)) = Len(ring) - 1
      /\ \A i \in 1 .. Len(Tail(ring)) : Tail(ring)[i] = ring[i + 1]
      /\ Head(ring) = ring[1]
  BY HeadTailProperties
<1>3. DOMAIN Tail(ring) = 1 .. Len(ring) - 1
  BY <1>2, LenProperties
<1> QED
  BY <1>1, <1>2, <1>3 DEF RingDrops

LEMMA LagDrops ==
  ASSUME ring \in Seq(Events), NEW k \in DOMAIN ring,
         ring' = SubSeq(ring, k + 1, Len(ring))
  PROVE  RingDrops(k)
<1>1. Len(ring) \in Nat /\ DOMAIN ring = 1 .. Len(ring)
  BY RingPlaces
<1>2. \A i \in k + 1 .. Len(ring) : ring[i] \in Events
  BY <1>1, RingPlaces
<1>3. /\ ring' \in Seq(Events)
      /\ Len(ring') = IF k + 1 <= Len(ring) THEN Len(ring) - (k + 1) + 1 ELSE 0
      /\ \A i \in 1 .. Len(ring') : ring'[i] = ring[(k + 1) + i - 1]
  BY <1>1, <1>2, SubSeqProperties
<1>4. DOMAIN ring' = 1 .. Len(ring')
  BY <1>3, LenProperties
<1>5. Len(ring') = Len(ring) - k
  BY <1>1, <1>3
<1>6. \A i \in 1 .. Len(ring) - k : (k + 1) + i - 1 = i + k
  BY <1>1
<1> QED
  BY <1>3, <1>4, <1>5, <1>6 DEF RingDrops

\* Where an event is before and after.
LEMMA GrownPlaces ==
  ASSUME ring \in Seq(Events), NEW e, RingGrows(e)
  PROVE  /\ \A i \in DOMAIN ring : i \in DOMAIN ring' /\ ring'[i] = ring[i]
         /\ Len(ring) + 1 \in DOMAIN ring' /\ ring'[Len(ring) + 1] = e
         /\ \A i \in DOMAIN ring : i < Len(ring) + 1
         /\ \A i \in DOMAIN ring' : i \in DOMAIN ring \/ i = Len(ring) + 1
BY RingPlaces DEF RingGrows

LEMMA DroppedPlaces ==
  ASSUME ring \in Seq(Events), NEW k, RingDrops(k)
  PROVE  /\ k \in Nat /\ k \in DOMAIN ring
         /\ \A i \in DOMAIN ring' : i \in Nat /\ i + k \in DOMAIN ring /\ ring'[i] = ring[i + k]
         /\ \A i \in DOMAIN ring :
              \/ i \in 1 .. k
              \/ i - k \in DOMAIN ring' /\ i = (i - k) + k
         /\ \A i \in 1 .. k : i \in DOMAIN ring
<1>1. Len(ring) \in Nat /\ DOMAIN ring = 1 .. Len(ring)
  BY RingPlaces
<1> QED
  BY <1>1 DEF RingDrops

\* The stream has what it may deliver from when it is connected.
RingForm ==
  /\ conn = "closed" => ring = <<>> /\ initial = Nothing /\ found = 0
  /\ \A i \in DOMAIN ring :
       /\ ring[i].kind # "log" => ring[i].seq = 0
       /\ ring[i].kind = "log" => ring[i].seq \in 1 .. captured[ring[i].run]
  /\ \A i, j \in DOMAIN ring :
       /\ i < j
       /\ ring[i].kind = "log" /\ ring[j].kind = "log"
       /\ ring[i].run = ring[j].run
       => ring[i].seq < ring[j].seq

LEMMA RingFormInit == Init => RingForm
BY DEF Init, RingForm

\* What an execution adds, if anything.
LEMMA ExecutionSends ==
  ASSUME StreamInv, NEW r \in Runs, Execute(r)
  PROVE  /\ \A q \in Runs : q # r =>
              /\ captured'[q] = captured[q] /\ phase'[q] = phase[q]
              /\ status'[q] = status[q] /\ taken'[q] = taken[q]
              /\ pending'[q] = pending[q] /\ rows'[q] = rows[q]
         /\ \/ ring' = ring /\ captured' = captured /\ phase[r] # "finished"
            \/ conn = "closed" /\ ring' = ring
            \/ /\ RingGrows([kind |-> "run_started", run |-> r, seq |-> 0])
               /\ captured' = captured /\ AnnounceStart(r) /\ conn # "closed"
            \/ /\ RingGrows([kind |-> "log", run |-> r, seq |-> captured[r] + 1])
               /\ HandlerLogs(r) /\ conn # "closed"
            \/ /\ RingGrows([kind |-> "run_ended", run |-> r, seq |-> 0])
               /\ captured' = captured /\ phase[r] = "finished" /\ CloseRun(r)
               /\ conn # "closed"
<1>1. RunTypes /\ ring \in Seq(Events) /\ captured \in [Runs -> Nat]
  BY DEF StreamInv, Types, LinkTypes, RunTypes, Lines
<1>2. \A q \in Runs : q # r =>
        /\ captured'[q] = captured[q] /\ phase'[q] = phase[q]
        /\ status'[q] = status[q] /\ taken'[q] = taken[q]
        /\ pending'[q] = pending[q] /\ rows'[q] = rows[q]
  <2>1. CASE InsertRun(r)
    BY <1>1, <2>1 DEF InsertRun, sinkVars, RunTypes
  <2>2. CASE AnnounceStart(r)
    BY <1>1, <2>2 DEF AnnounceStart, sinkVars, RunTypes
  <2>3. CASE HandlerLogs(r)
    BY <1>1, <2>3 DEF HandlerLogs, sinkVars, RunTypes
  <2>4. CASE Receive(r)
    BY <1>1, <2>4, ReceiveTypes DEF Receive
  <2>5. CASE SinkLags(r)
    BY <1>1, <2>5, SinkLagsTypes DEF SinkLags
  <2>6. CASE Flush(r)
    BY <1>1, <2>6, FlushTypes DEF Flush
  <2>7. CASE Drain(r)
    <3>1. /\ phase' = [phase EXCEPT ![r] = "drained"] /\ UNCHANGED <<captured, status>>
      BY <2>7 DEF Drain
    <3> QED
      BY <1>1, <2>7, <3>1, DrainTypes DEF RunTypes
  <2>8. CASE CloseRun(r)
    BY <1>1, <2>8 DEF CloseRun, FinishRow, sinkVars, RunTypes
  <2> QED
    BY <2>1, <2>2, <2>3, <2>4, <2>5, <2>6, <2>7, <2>8 DEF Execute
<1>3. /\ [kind |-> "run_started", run |-> r, seq |-> 0] \in Events
      /\ [kind |-> "run_ended", run |-> r, seq |-> 0] \in Events
      /\ [kind |-> "log", run |-> r, seq |-> captured[r] + 1] \in Events
  BY <1>1 DEF Events, Lines
<1>4. CASE ring' = ring /\ captured' = captured /\ phase[r] # "finished"
  BY <1>2, <1>4
<1>5. CASE AnnounceStart(r) /\ Sends("run_started", r, 0)
  <2>1. captured' = captured
    BY <1>5 DEF AnnounceStart
  <2> QED
    BY <1>1, <1>2, <1>3, <1>5, <2>1, SendGrows DEF Sends
<1>6. CASE HandlerLogs(r) /\ Sends("log", r, captured[r] + 1)
  BY <1>1, <1>2, <1>3, <1>6, SendGrows DEF Sends
<1>7. CASE phase[r] = "finished" /\ CloseRun(r) /\ Sends("run_ended", r, 0)
  <2>1. captured' = captured
    BY <1>7 DEF CloseRun
  <2> QED
    BY <1>1, <1>2, <1>3, <1>7, <2>1, SendGrows DEF Sends
<1> QED
  BY <1>4, <1>5, <1>6, <1>7, ExecutionMoves

LEMMA RingFormExecution ==
  ASSUME StreamInv, RingForm, NEW r \in Runs, Execute(r)
  PROVE  RingForm'
<1>1. /\ UNCHANGED <<conn, found, initial>>
      /\ ring \in Seq(Events) /\ captured \in [Runs -> Nat]
  BY ExecutionMoves DEF StreamInv, Types, LinkTypes, RunTypes, Lines
<1>2. \A i \in DOMAIN ring : ring[i].run \in Runs
  BY <1>1, RingPlaces DEF Events
<1>3. CASE ring' = ring /\ \A q \in Runs : captured'[q] \in Nat /\ captured'[q] >= captured[q]
  BY <1>1, <1>2, <1>3 DEF RingForm
<1>4. ASSUME NEW kind \in {"run_started", "run_ended"}, captured' = captured,
             RingGrows([kind |-> kind, run |-> r, seq |-> 0]), conn # "closed"
      PROVE  RingForm'
  <2>1. /\ \A i \in DOMAIN ring : i \in DOMAIN ring' /\ ring'[i] = ring[i]
        /\ ring'[Len(ring) + 1] = [kind |-> kind, run |-> r, seq |-> 0]
        /\ \A i \in DOMAIN ring' : i \in DOMAIN ring \/ i = Len(ring) + 1
    BY <1>1, <1>4, GrownPlaces
  <2>2. ring'[Len(ring) + 1].kind # "log" /\ ring'[Len(ring) + 1].seq = 0
    BY <2>1
  <2>3. \A i \in DOMAIN ring' :
          /\ ring'[i].kind # "log" => ring'[i].seq = 0
          /\ ring'[i].kind = "log" =>
               i \in DOMAIN ring /\ ring'[i].seq \in 1 .. captured'[ring'[i].run]
    BY <1>4, <2>1, <2>2 DEF RingForm
  <2>4. \A i, j \in DOMAIN ring' :
          (i < j /\ ring'[i].kind = "log" /\ ring'[j].kind = "log"
             /\ ring'[i].run = ring'[j].run) => ring'[i].seq < ring'[j].seq
    BY <2>1, <2>3 DEF RingForm
  <2> QED
    BY <1>1, <1>4, <2>3, <2>4 DEF RingForm
<1>5. ASSUME HandlerLogs(r), conn # "closed",
             RingGrows([kind |-> "log", run |-> r, seq |-> captured[r] + 1])
      PROVE  RingForm'
  <2> DEFINE n == captured[r] + 1
  <2>1. /\ \A i \in DOMAIN ring : i \in DOMAIN ring' /\ ring'[i] = ring[i]
        /\ ring'[Len(ring) + 1] = [kind |-> "log", run |-> r, seq |-> n]
        /\ \A i \in DOMAIN ring : i < Len(ring) + 1
        /\ \A i \in DOMAIN ring' : i \in DOMAIN ring \/ i = Len(ring) + 1
        /\ DOMAIN ring = 1 .. Len(ring) /\ Len(ring) \in Nat
    BY <1>1, <1>5, GrownPlaces, RingPlaces
  <2>2. /\ captured' = [captured EXCEPT ![r] = n] /\ n \in Nat /\ n > 0
        /\ \A q \in Runs : captured'[q] \in Nat /\ captured'[q] >= captured[q]
        /\ captured'[r] = n
    BY <1>1, <1>5 DEF HandlerLogs
  <2>3. \A i \in DOMAIN ring' :
          /\ ring'[i].kind # "log" => ring'[i].seq = 0
          /\ ring'[i].kind = "log" => ring'[i].seq \in 1 .. captured'[ring'[i].run]
    <3>1. ASSUME NEW i \in DOMAIN ring
          PROVE  /\ ring'[i].kind # "log" => ring'[i].seq = 0
                 /\ ring'[i].kind = "log" => ring'[i].seq \in 1 .. captured'[ring'[i].run]
      BY <1>1, <1>2, <2>1, <2>2 DEF RingForm
    <3>2. /\ ring'[Len(ring) + 1].kind = "log" /\ ring'[Len(ring) + 1].run = r
          /\ ring'[Len(ring) + 1].seq \in 1 .. captured'[r]
      BY <2>1, <2>2
    <3> QED
      BY <2>1, <3>1, <3>2
  <2>4. ASSUME NEW i \in DOMAIN ring', NEW j \in DOMAIN ring', i < j,
               ring'[i].kind = "log", ring'[j].kind = "log", ring'[i].run = ring'[j].run
        PROVE  ring'[i].seq < ring'[j].seq
    <3>1. i \in DOMAIN ring
      BY <2>1, <2>4
    <3>2. CASE j \in DOMAIN ring
      BY <2>1, <2>4, <3>1, <3>2 DEF RingForm
    <3>3. CASE j = Len(ring) + 1
      <4>1. ring[i].run = r /\ ring[i].kind = "log" /\ ring'[j].seq = n
        BY <2>1, <2>4, <3>1, <3>3
      <4>2. ring[i].seq \in 1 .. captured[r]
        BY <3>1, <4>1 DEF RingForm
      <4> QED
        BY <1>1, <2>1, <3>1, <4>1, <4>2
    <3> QED
      BY <2>1, <3>2, <3>3
  <2> QED
    BY <1>1, <1>5, <2>3, <2>4 DEF RingForm
<1>6. CASE ring' = ring
  <2>1. \A q \in Runs : captured'[q] \in Nat /\ captured'[q] >= captured[q]
    <3>1. captured' = captured \/ HandlerLogs(r)
      BY DEF Execute, InsertRun, AnnounceStart, Receive, SinkLags, Flush, Drain, CloseRun
    <3> QED
      BY <1>1, <3>1 DEF HandlerLogs
  <2> QED
    BY <1>3, <1>6, <2>1
<1> QED
  BY <1>4, <1>5, <1>6, ExecutionSends

LEMMA RingFormDrops ==
  ASSUME StreamInv, RingForm, NEW k, RingDrops(k), UNCHANGED captured, conn' # "closed"
  PROVE  RingForm'
<1>1. ring \in Seq(Events)
  BY DEF StreamInv, Types, LinkTypes
<1>2. /\ k \in Nat
      /\ \A i \in DOMAIN ring' : i \in Nat /\ i + k \in DOMAIN ring /\ ring'[i] = ring[i + k]
  BY <1>1, DroppedPlaces
<1>3. \A i, j \in DOMAIN ring' : i < j => i + k < j + k
  BY <1>2
<1> QED
  BY <1>2, <1>3 DEF RingForm

LEMMA RingFormStays ==
  ASSUME StreamInv, RingForm, [Next]_vars
  PROVE  RingForm'
<1>1. ring \in Seq(Events)
  BY DEF StreamInv, Types, LinkTypes
<1>2. CASE Connect
  BY <1>2 DEF Connect, RingForm
<1>3. CASE ListRuns \/ ListLogs
  BY <1>3 DEF ListRuns, ListLogs, runVars, RingForm
<1>4. CASE StreamLags
  <2>1. PICK k \in DOMAIN ring : ring' = SubSeq(ring, k + 1, Len(ring))
    BY <1>4 DEF StreamLags
  <2>2. UNCHANGED captured /\ conn' # "closed"
    BY <1>4 DEF StreamLags, runVars
  <2> QED
    BY <1>1, <2>1, <2>2, LagDrops, RingFormDrops
<1>5. CASE HandleEvent
  <2>1. ring # <<>> /\ ring' = Tail(ring) /\ UNCHANGED captured /\ conn' # "closed"
    BY <1>5 DEF HandleEvent, runVars
  <2> QED
    BY <1>1, <2>1, TailDrops, RingFormDrops
<1>6. CASE HandleInitial \/ HandleReset
  BY <1>6 DEF HandleInitial, HandleReset, runVars, RingForm
<1>7. CASE Render \/ \E r \in Runs : ListRunLogs(r) \/ Merge(r)
  BY <1>7 DEF Render, ListRunLogs, Merge, runVars, linkVars, RingForm
<1>8. CASE UNCHANGED vars
  BY <1>8 DEF vars, RingForm
<1> QED
  BY <1>2, <1>3, <1>4, <1>5, <1>6, <1>7, <1>8, NextSteps, RingFormExecution
  DEF RouteStep, HookStep

-----------------------------------------------------------------------------
(***************************************************************************)
(* Ends.  Whoever may still come to show a run that has ended is going to  *)
(* be told: its end is in the ring, after its start if that is there too,  *)
(* or was overwritten.                                                     *)
(***************************************************************************)
Over(r) == phase[r] = "ended" /\ status[r] # "running"

EndWaits(r) == \E i \in DOMAIN ring : ring[i].kind = "run_ended" /\ ring[i].run = r

Told(r) == EndWaits(r) \/ <<r, 0>> \in blind

EndAfterStart(r) ==
  \A i \in DOMAIN ring :
    (ring[i].kind = "run_started" /\ ring[i].run = r) =>
      \E j \in DOMAIN ring : i < j /\ ring[j].kind = "run_ended" /\ ring[j].run = r

EndKnown(r) ==
  /\ conn = "listed" /\ found = r => Told(r)
  /\ initial.run = r => Told(r)
  /\ Following /\ view.run = r => view.ended \/ Told(r)
  /\ EndAfterStart(r)

EndInv == \A r \in Runs : Over(r) => EndKnown(r)

LEMMA EndInvInit == Init => EndInv
BY DEF Init, EndInv, Over

\* The view and what is on its way to it stay, but for what is added to the ring.
LEMMA EndKnownGrows ==
  ASSUME StreamInv, NEW e, RingGrows(e), NEW r \in Runs, EndKnown(r),
         e.kind # "run_started" \/ e.run # r,
         UNCHANGED <<conn, found, initial, view, blind>>
  PROVE  EndKnown(r)'
<1>1. /\ \A i \in DOMAIN ring : i \in DOMAIN ring' /\ ring'[i] = ring[i]
      /\ ring'[Len(ring) + 1] = e
      /\ \A i \in DOMAIN ring' : i \in DOMAIN ring \/ i = Len(ring) + 1
  BY GrownPlaces DEF StreamInv, Types, LinkTypes
<1>2. Told(r) => Told(r)'
  BY <1>1 DEF Told, EndWaits
<1>3. EndAfterStart(r)'
  BY <1>1 DEF EndKnown, EndAfterStart
<1> QED
  BY <1>2, <1>3 DEF EndKnown, Following

LEMMA EndKnownByRing ==
  ASSUME StreamInv, NEW r \in Runs, RingGrows([kind |-> "run_ended", run |-> r, seq |-> 0])
  PROVE  EndKnown(r)'
<1> DEFINE e == [kind |-> "run_ended", run |-> r, seq |-> 0]
<1>1. /\ Len(ring) + 1 \in DOMAIN ring' /\ ring'[Len(ring) + 1] = e
      /\ \A i \in DOMAIN ring : i \in DOMAIN ring' /\ i < Len(ring) + 1
      /\ \A i \in DOMAIN ring' : i \in DOMAIN ring \/ i = Len(ring) + 1
  BY GrownPlaces DEF StreamInv, Types, LinkTypes
<1>2. Told(r)'
  BY <1>1 DEF Told, EndWaits
<1>3. EndAfterStart(r)'
  BY <1>1 DEF EndAfterStart
<1> QED
  BY <1>2, <1>3 DEF EndKnown

LEMMA EndsExecution ==
  ASSUME StreamInv, RingForm, EndInv, NEW r \in Runs, Execute(r)
  PROVE  EndInv'
<1>1. /\ UNCHANGED <<conn, found, initial, view, blind>>
      /\ \A q \in Runs : q # r => phase'[q] = phase[q] /\ status'[q] = status[q]
      /\ RunTypes
  BY ExecutionMoves, ExecutionSends DEF hookVars, StreamInv, Types
<1>2. phase'[r] = "ended" /\ status'[r] # "running" =>
        (phase[r] = "ended" /\ status[r] # "running") \/ phase[r] = "finished"
  BY <1>1 DEF Execute, InsertRun, AnnounceStart, HandlerLogs, Receive, SinkLags, Flush,
              Drain, CloseRun, FinishRow, RunTypes
<1>3. ASSUME NEW q \in Runs, Over(q)'
      PROVE  Over(q) \/ (q = r /\ phase[r] = "finished")
  <2>1. phase'[q] = "ended" /\ status'[q] # "running"
    BY <1>3 DEF Over
  <2>2. (phase[q] = "ended" /\ status[q] # "running") \/ (q = r /\ phase[r] = "finished")
    BY <1>1, <1>2, <2>1
  <2> QED
    BY <2>2 DEF Over
<1>4. CASE ring' = ring /\ phase[r] # "finished"
  BY <1>1, <1>3, <1>4 DEF EndInv, EndKnown, Told, EndWaits, EndAfterStart, Following
<1>5. CASE conn = "closed" /\ ring' = ring
  <2>1. /\ conn' = "closed" /\ found' = 0 /\ initial' = Nothing /\ ring' = <<>>
    BY <1>1, <1>5 DEF RingForm
  <2>2. initial'.run = 0 /\ DOMAIN ring' = {}
    BY <2>1 DEF Nothing
  <2>3. 0 \notin Runs
    BY StreamAssumption DEF Runs
  <2> QED
    BY <2>1, <2>2, <2>3 DEF EndInv, EndKnown, EndAfterStart, Following
<1>6. ASSUME NEW e, RingGrows(e), phase[r] # "finished",
             e.kind # "run_started" \/ (phase'[r] # "ended" /\ e.run = r)
      PROVE  EndInv'
  <2>1. ASSUME NEW q \in Runs, Over(q)' PROVE EndKnown(q)'
    <3>1. Over(q) /\ EndKnown(q)
      BY <1>3, <1>6, <2>1 DEF EndInv
    <3>2. e.kind # "run_started" \/ e.run # q
      BY <1>6, <2>1 DEF Over
    <3> QED
      BY <1>1, <1>6, <3>1, <3>2, EndKnownGrows
  <2> QED
    BY <2>1 DEF EndInv
<1>7. CASE /\ RingGrows([kind |-> "run_started", run |-> r, seq |-> 0])
           /\ AnnounceStart(r)
  BY <1>1, <1>6, <1>7 DEF AnnounceStart, RunTypes
<1>8. CASE /\ RingGrows([kind |-> "log", run |-> r, seq |-> captured[r] + 1])
           /\ HandlerLogs(r)
  BY <1>6, <1>8 DEF HandlerLogs
<1>9. CASE RingGrows([kind |-> "run_ended", run |-> r, seq |-> 0])
  <2>1. ASSUME NEW q \in Runs, Over(q)' PROVE EndKnown(q)'
    <3>1. CASE q = r
      BY <1>9, <3>1, EndKnownByRing
    <3>2. CASE q # r
      BY <1>1, <1>3, <1>9, <2>1, <3>2, EndKnownGrows DEF EndInv
    <3> QED
      BY <3>1, <3>2
  <2> QED
    BY <2>1 DEF EndInv
<1> QED
  BY <1>4, <1>5, <1>7, <1>8, <1>9, ExecutionSends

LEMMA EndsDrop ==
  ASSUME StreamInv, NEW k, RingDrops(k), NEW r \in Runs
  PROVE  /\ EndAfterStart(r) => EndAfterStart(r)'
         /\ EndWaits(r) =>
              \/ EndWaits(r)'
              \/ \E i \in 1 .. k : ring[i].kind = "run_ended" /\ ring[i].run = r
         /\ EndAfterStart(r) /\ ring[k].kind = "run_started" /\ ring[k].run = r
              => EndWaits(r)'
<1>1. /\ k \in Nat /\ k \in DOMAIN ring
      /\ \A i \in DOMAIN ring' : i \in Nat /\ i + k \in DOMAIN ring /\ ring'[i] = ring[i + k]
      /\ \A i \in DOMAIN ring :
           \/ i \in 1 .. k
           \/ i - k \in DOMAIN ring' /\ i = (i - k) + k
  BY DroppedPlaces DEF StreamInv, Types, LinkTypes
<1>2. ASSUME NEW i \in DOMAIN ring, i \notin 1 .. k
      PROVE  i - k \in DOMAIN ring' /\ ring'[i - k] = ring[i]
  <2>1. i - k \in DOMAIN ring' /\ i = (i - k) + k
    BY <1>1, <1>2
  <2>2. ring'[i - k] = ring[(i - k) + k]
    BY <1>1, <2>1
  <2> QED
    BY <2>1, <2>2
<1>3. \A i \in DOMAIN ring : i \in Nat
  BY RingPlaces DEF StreamInv, Types, LinkTypes
<1>4. ASSUME EndAfterStart(r), NEW i \in DOMAIN ring',
             ring'[i].kind = "run_started", ring'[i].run = r
      PROVE  \E j \in DOMAIN ring' : i < j /\ ring'[j].kind = "run_ended" /\ ring'[j].run = r
  <2>1. PICK j \in DOMAIN ring :
          i + k < j /\ ring[j].kind = "run_ended" /\ ring[j].run = r
    BY <1>1, <1>4 DEF EndAfterStart
  <2>2. j \in Nat /\ j \notin 1 .. k /\ i \in Nat /\ k \in Nat
    BY <1>1, <1>3, <2>1
  <2>3. j - k \in DOMAIN ring' /\ ring'[j - k] = ring[j] /\ i < j - k
    BY <1>2, <2>1, <2>2
  <2> QED
    BY <2>1, <2>3
<1>5. ASSUME EndAfterStart(r), ring[k].kind = "run_started", ring[k].run = r
      PROVE  EndWaits(r)'
  <2>1. PICK j \in DOMAIN ring :
          k < j /\ ring[j].kind = "run_ended" /\ ring[j].run = r
    BY <1>1, <1>5 DEF EndAfterStart
  <2>2. j \notin 1 .. k
    BY <1>1, <1>3, <2>1
  <2> QED
    BY <1>2, <2>1, <2>2 DEF EndWaits
<1> QED
  BY <1>2, <1>4, <1>5 DEF EndAfterStart, EndWaits

LEMMA EndsStay ==
  ASSUME StreamInv, RingForm, EndInv, [Next]_vars
  PROVE  EndInv'
<1>0. /\ ring \in Seq(Events) /\ 0 \notin Runs
      /\ view \in [run : Runs \cup {0}, logs : Seq(Entries), ended : BOOLEAN]
  BY StreamAssumption DEF StreamInv, Types, LinkTypes, HookTypes, Runs
<1>1. ASSUME NEW r \in Runs, Execute(r) PROVE EndInv'
  BY <1>1, EndsExecution
<1> DEFINE RunsSame == UNCHANGED <<phase, status>>
<1>2. ASSUME RunsSame, NEW r \in Runs, Over(r)' PROVE Over(r) /\ EndKnown(r)
  BY <1>2 DEF Over, EndInv
<1>3. CASE Connect
  <2>1. /\ RunsSame /\ conn' = "subscribed" /\ initial' = Nothing /\ ring' = <<>>
    BY <1>3 DEF Connect, runVars
  <2>2. initial'.run = 0 /\ DOMAIN ring' = {}
    BY <2>1 DEF Nothing
  <2> QED
    BY <1>0, <2>1, <2>2 DEF EndInv, EndKnown, EndAfterStart, Following
<1>4. CASE ListRuns
  <2>1. /\ RunsSame /\ UNCHANGED <<ring, view, blind>>
        /\ \/ conn' = "listed" /\ status[found'] = "running" /\ initial' = initial
           \/ conn' = "open" /\ initial' = Idle
    BY <1>4 DEF ListRuns, runVars, hookVars
  <2>2. Idle.run = 0 /\ Idle # Nothing
    BY DEF Idle, Nothing
  <2>3. ASSUME NEW r \in Runs, Over(r)' PROVE EndKnown(r)'
    <3>1. Over(r) /\ EndKnown(r)
      BY <1>2, <2>1, <2>3
    <3>2. EndAfterStart(r)' /\ (Told(r) => Told(r)')
      BY <2>1, <3>1 DEF EndKnown, EndAfterStart, Told, EndWaits
    <3>3. CASE conn' = "listed" /\ status[found'] = "running" /\ initial' = initial
      BY <3>1, <3>2, <3>3 DEF EndKnown, Over, Following
    <3>4. CASE conn' = "open" /\ initial' = Idle
      BY <1>0, <2>2, <3>2, <3>4 DEF EndKnown, Following
    <3> QED
      BY <2>1, <3>3, <3>4
  <2> QED
    BY <2>3 DEF EndInv
<1>5. CASE ListLogs
  <2>1. PICK logs : Snapshot(logs) /\ conn' = "open" /\ conn = "listed"
                    /\ RunsSame /\ UNCHANGED <<ring, view>>
    BY <1>5 DEF ListLogs, runVars, hookVars
  <2>2. /\ initial'.run = found /\ initial' # Nothing
        /\ <<found, 0>> \in blind => <<found, 0>> \in blind'
    BY <2>1 DEF Snapshot, Nothing
  <2>3. ASSUME NEW r \in Runs, Over(r)' PROVE EndKnown(r)'
    <3>1. Over(r) /\ EndKnown(r)
      BY <1>2, <2>1, <2>3
    <3>2. EndAfterStart(r)'
      BY <2>1, <3>1 DEF EndKnown, EndAfterStart
    <3>3. found = r => Told(r)'
      BY <2>1, <2>2, <3>1 DEF EndKnown, Told, EndWaits
    <3> QED
      BY <2>1, <2>2, <3>2, <3>3 DEF EndKnown, Following
  <2> QED
    BY <2>3 DEF EndInv
<1>6. CASE StreamLags
  <2>1. PICK k \in DOMAIN ring :
          /\ ring' = SubSeq(ring, k + 1, Len(ring))
          /\ blind' = blind \cup {<<ring[i].run, ring[i].seq>> :
                        i \in {j \in 1 .. k : ring[j].kind # "run_started"}}
    BY <1>6 DEF StreamLags
  <2>2. RunsSame /\ UNCHANGED <<conn, found, initial, view>>
    BY <1>6 DEF StreamLags, runVars, hookVars
  <2>3. RingDrops(k)
    BY <1>0, <2>1, LagDrops
  <2>4. ASSUME NEW r \in Runs, Over(r)' PROVE EndKnown(r)'
    <3>1. Over(r) /\ EndKnown(r)
      BY <1>2, <2>2, <2>4
    <3>2. EndAfterStart(r)'
      BY <2>3, <3>1, EndsDrop DEF EndKnown
    <3>3. ASSUME NEW i \in 1 .. k, ring[i].kind = "run_ended", ring[i].run = r
          PROVE  <<r, 0>> \in blind'
      <4>1. i \in DOMAIN ring
        BY <1>0, <2>3, DroppedPlaces
      <4>2. ring[i].seq = 0
        BY <3>3, <4>1 DEF RingForm
      <4> QED
        BY <2>1, <3>3, <4>2
    <3>4. Told(r) => Told(r)'
      BY <2>1, <2>3, <3>3, EndsDrop DEF Told
    <3> QED
      BY <2>2, <3>1, <3>2, <3>4 DEF EndKnown, Following
  <2> QED
    BY <2>4 DEF EndInv
<1>7. CASE HandleInitial
  <2>1. /\ RunsSame /\ UNCHANGED <<conn, found, ring, blind>> /\ conn = "open"
        /\ view' = [run |-> initial.run, logs |-> initial.logs, ended |-> FALSE]
        /\ initial' = Nothing
    BY <1>7 DEF HandleInitial, runVars
  <2>2. view'.run = initial.run /\ initial'.run = 0
    BY <2>1 DEF Nothing
  <2>3. ASSUME NEW r \in Runs, Over(r)' PROVE EndKnown(r)'
    <3>1. Over(r) /\ EndKnown(r)
      BY <1>2, <2>1, <2>3
    <3>2. EndAfterStart(r)' /\ (Told(r) => Told(r)')
      BY <2>1, <3>1 DEF EndKnown, EndAfterStart, Told, EndWaits
    <3> QED
      BY <1>0, <2>1, <2>2, <3>1, <3>2 DEF EndKnown
  <2> QED
    BY <2>3 DEF EndInv
<1>8. CASE HandleEvent
  <2>1. /\ RunsSame /\ UNCHANGED <<conn, found, initial>>
        /\ Following /\ ring # <<>> /\ ring' = Tail(ring)
    BY <1>8 DEF HandleEvent, runVars, Following
  <2>2. RingDrops(1) /\ ring[1] = Head(ring) /\ ring[1] \in Events
    BY <1>0, <2>1, TailDrops, RingTypes
  <2> DEFINE e == ring[1]
  <2>3. \/ e.kind = "log" /\ Show(e) /\ blind' = blind
        \/ /\ e.kind = "run_started" /\ blind' = {}
           /\ view' = [run |-> e.run, logs |-> <<>>, ended |-> FALSE]
        \/ /\ e.kind = "run_ended" /\ blind' = blind
           /\ view' = [view EXCEPT !.ended = @ \/ view.run = e.run]
    BY <1>8, <2>2 DEF HandleEvent
  <2> HIDE DEF e
  <2>4. ASSUME NEW r \in Runs, Over(r)' PROVE EndKnown(r)'
    <3>1. Over(r) /\ EndKnown(r)
      BY <1>2, <2>1, <2>4
    <3>2. EndAfterStart(r)'
      BY <2>2, <3>1, EndsDrop DEF EndKnown
    <3>3. EndWaits(r) => EndWaits(r)' \/ (e.kind = "run_ended" /\ e.run = r)
      <4>1. \A i \in 1 .. 1 : i = 1
        OBVIOUS
      <4> QED
        BY <2>2, <4>1, EndsDrop DEF e
    <3>4. conn' = "open" /\ initial'.run = 0
      BY <2>1 DEF Following, Nothing
    <3>5. CASE e.kind = "log" /\ Show(e) /\ blind' = blind
      <4>1. view'.run = view.run /\ view'.ended = view.ended
        BY <2>2, <3>5, ShowKeepsOrder DEF e
      <4>2. Told(r) => Told(r)'
        BY <3>3, <3>5 DEF Told
      <4> QED
        BY <1>0, <2>1, <3>1, <3>2, <3>4, <4>1, <4>2 DEF EndKnown, Following
    <3>6. CASE /\ e.kind = "run_started" /\ blind' = {}
               /\ view' = [run |-> e.run, logs |-> <<>>, ended |-> FALSE]
      <4>1. view'.run = e.run
        BY <3>6
      <4>2. e.run = r => EndWaits(r)'
        BY <2>2, <3>1, <3>6, EndsDrop DEF EndKnown, e
      <4> QED
        BY <1>0, <3>2, <3>4, <4>1, <4>2 DEF EndKnown, Told
    <3>7. CASE /\ e.kind = "run_ended" /\ blind' = blind
               /\ view' = [view EXCEPT !.ended = @ \/ view.run = e.run]
      <4>1. view'.run = view.run /\ view'.ended = (view.ended \/ view.run = e.run)
        BY <1>0, <3>7
      <4>2. Told(r) /\ e.run # r => Told(r)'
        BY <3>3, <3>7 DEF Told
      <4> QED
        BY <1>0, <2>1, <3>1, <3>2, <3>4, <4>1, <4>2 DEF EndKnown, Following
    <3> QED
      BY <2>3, <3>5, <3>6, <3>7
  <2> QED
    BY <2>4 DEF EndInv
<1>9. CASE UNCHANGED <<phase, status, conn, found, initial, ring, blind>>
           /\ view'.run = view.run /\ view'.ended = view.ended
  <2>1. ASSUME NEW r \in Runs, Over(r)' PROVE EndKnown(r)'
    <3>1. Over(r) /\ EndKnown(r)
      BY <1>2, <1>9, <2>1
    <3> QED
      BY <1>9, <3>1 DEF EndKnown, EndAfterStart, Told, EndWaits, Following
  <2> QED
    BY <2>1 DEF EndInv
<1>10. CASE HandleReset \/ Render \/ \E r \in Runs : ListRunLogs(r)
  BY <1>9, <1>10 DEF HandleReset, Render, ListRunLogs, runVars, linkVars
<1>11. ASSUME NEW r \in Runs, Merge(r) PROVE EndInv'
  <2>1. view'.run = view.run /\ view'.ended = view.ended
    BY <1>11, MergeKeepsOrder
  <2> QED
    BY <1>9, <1>11, <2>1 DEF Merge, runVars, linkVars
<1>12. CASE UNCHANGED vars
  BY <1>9, <1>12 DEF vars
<1> QED
  BY <1>1, <1>3, <1>4, <1>5, <1>6, <1>7, <1>8, <1>10, <1>11, <1>12, NextSteps
  DEF RouteStep, HookStep

\* A stream that has delivered everything does not show a run as executing
\* that has ended, unless its end was overwritten or never stored.
THEOREM EndIsShownHolds == Spec => []EndIsShown
<1>1. Init => RingForm /\ EndInv
  BY RingFormInit, EndInvInit
<1>2. StreamInv /\ RingForm /\ EndInv /\ [Next]_vars => RingForm' /\ EndInv'
  BY RingFormStays, EndsStay
<1>3. StreamInv /\ EndInv => EndIsShown
  <2> SUFFICES ASSUME StreamInv, EndInv, Following, ring = <<>>, view.run # 0,
                      phase[view.run] = "ended", status[view.run] # "running",
                      ~view.ended
               PROVE  <<view.run, 0>> \in blind
    BY DEF EndIsShown
  <2>1. view.run \in Runs
    BY DEF StreamInv, Types, HookTypes
  <2>2. Told(view.run) /\ ~EndWaits(view.run)
    BY <2>1 DEF EndInv, EndKnown, Over, EndWaits
  <2> QED
    BY <2>2 DEF Told
<1> QED
  BY <1>1, <1>2, <1>3, StreamInvHolds, PTL DEF Spec

-----------------------------------------------------------------------------
(***************************************************************************)
(* Rows.  They are only ever added to, so what a snapshot or a reload has  *)
(* read stays the beginning of the rows.  Every row takes the place of a   *)
(* line that was captured, but for the reason of a failure, which comes    *)
(* when the handler has ended: until then no number that is shown is       *)
(* beyond the lines captured.                                              *)
(***************************************************************************)
OpenPhases == {"new", "inserted", "running"}

Within(logs, n, p) ==
  \A i \in DOMAIN logs : logs[i].seq <= n \/ p \notin OpenPhases

Accounted(stored, waiting, received, logged) ==
  stored + waiting <= received /\ received <= logged

RowsKnown(r) ==
  /\ phase[r] \in {"new", "inserted"} => captured[r] = 0
  /\ phase[r] \in OpenPhases =>
       Accounted(Len(rows[r]), Len(pending[r]), taken[r], captured[r])

HasRead(r, logs) ==
  \A i \in DOMAIN logs :
    i \in DOMAIN rows[r] /\ logs[i].seq = i /\ logs[i].line = rows[r][i]

LinesKnown(r) ==
  /\ RowsKnown(r)
  /\ initial.run = r => HasRead(r, initial.logs)
  /\ HasRead(r, fetch[r].logs)
  /\ view.run = r => Within(view.logs, captured[r], phase[r])

LinesInv == \A r \in Runs : LinesKnown(r)

LEMMA LinesInvInit == Init => LinesInv
<1> SUFFICES ASSUME Init, NEW r \in Runs PROVE LinesKnown(r)
  BY DEF LinesInv
<1>1. /\ phase[r] = "new" /\ captured[r] = 0 /\ taken[r] = 0
      /\ rows[r] = <<>> /\ pending[r] = <<>>
      /\ initial = Nothing /\ view = NoView /\ fetch[r] = NoFetch
  BY DEF Init
<1>2. /\ initial.logs = <<>> /\ view.logs = <<>> /\ fetch[r].logs = <<>>
  BY <1>1 DEF Nothing, NoView, NoFetch
<1>3. DOMAIN <<>> = {} /\ Len(<<>>) = 0
  OBVIOUS
<1> QED
  BY <1>1, <1>2, <1>3 DEF LinesKnown, RowsKnown, Accounted, HasRead, Within

LEMMA StaysAccounted ==
  ASSUME NEW a \in Nat, NEW b \in Nat, NEW c \in Nat, NEW d \in Nat, Accounted(a, b, c, d)
  PROVE  /\ a <= d
         /\ Accounted(a, b, c, d + 1)
         /\ \A e, f \in Nat : e + f <= a + b => Accounted(e, f, c, d)
         /\ \A f, g \in Nat : f <= b + 1 /\ c + 1 <= g /\ g <= d => Accounted(a, f, g, d)
BY DEF Accounted

\* The lines captured of a run and its phase go on from n and p to m and q.
GoesOn(n, p, m, q) ==
  /\ n \in Nat /\ m \in Nat
  /\ \/ m = n /\ (p \notin OpenPhases => q \notin OpenPhases)
     \/ m = n + 1 /\ p \in OpenPhases

LEMMA StaysWithin ==
  ASSUME NEW logs, NEW n, NEW p, NEW m, NEW q, GoesOn(n, p, m, q),
         \A i \in DOMAIN logs : logs[i].seq \in Nat, Within(logs, n, p)
  PROVE  Within(logs, m, q)
BY DEF Within, GoesOn

LEMMA CaptureGoesOn ==
  ASSUME StreamInv, NEW r \in Runs, Execute(r)
  PROVE  GoesOn(captured[r], phase[r], captured'[r], phase'[r])
<1>1. RunTypes
  BY DEF StreamInv, Types
<1> USE <1>1 DEF RunTypes, Lines, GoesOn, OpenPhases
<1>2. CASE InsertRun(r)
  BY <1>2 DEF InsertRun
<1>3. CASE AnnounceStart(r)
  BY <1>3 DEF AnnounceStart
<1>4. CASE HandlerLogs(r)
  BY <1>4 DEF HandlerLogs
<1>5. CASE Receive(r) \/ SinkLags(r) \/ Flush(r)
  BY <1>5 DEF Receive, SinkLags, Flush
<1>6. CASE Drain(r)
  BY <1>6 DEF Drain
<1>7. CASE CloseRun(r)
  BY <1>7 DEF CloseRun
<1> QED
  BY <1>2, <1>3, <1>4, <1>5, <1>6, <1>7 DEF Execute

\* The rows of a run are added to at the end.
LEMMA RowsGrow ==
  ASSUME StreamInv, NEW r \in Runs, Execute(r), NEW q \in Runs
  PROVE  /\ DOMAIN rows[q] \subseteq DOMAIN rows'[q]
         /\ \A i \in DOMAIN rows[q] : rows'[q][i] = rows[q][i]
<1>1. RunTypes
  BY DEF StreamInv, Types
<1>2. CASE q # r
  BY <1>2, ExecutionSends
<1>3. CASE q = r /\ (Flush(r) \/ Drain(r))
  BY <1>1, <1>3, FlushTypes, DrainTypes
<1>4. CASE q = r /\ ~Flush(r) /\ ~Drain(r)
  <2>1. rows' = rows
    BY <1>4 DEF Execute, InsertRun, AnnounceStart, HandlerLogs, Receive, SinkLags, CloseRun
  <2> QED
    BY <2>1
<1> QED
  BY <1>2, <1>3, <1>4

LEMMA StaysRead ==
  ASSUME StreamInv, NEW r \in Runs, Execute(r), NEW q \in Runs, NEW logs, HasRead(q, logs)
  PROVE  \A i \in DOMAIN logs :
           i \in DOMAIN rows'[q] /\ logs[i].seq = i /\ logs[i].line = rows'[q][i]
BY RowsGrow DEF HasRead

LEMMA RowsStayKnown ==
  ASSUME StreamInv, NEW r \in Runs, Execute(r), RowsKnown(r)
  PROVE  RowsKnown(r)'
<1>1. /\ RunTypes /\ rows[r] \in Seq(Lines) /\ pending[r] \in Seq(Lines)
      /\ Len(rows[r]) \in Nat /\ Len(pending[r]) \in Nat
      /\ captured[r] \in Nat /\ taken[r] \in Nat
  BY LenProperties DEF StreamInv, Types, RunTypes, Lines
<1>2. CASE UNCHANGED <<rows, pending, taken>> /\ captured'[r] = captured[r]
           /\ (phase'[r] \in {"new", "inserted"} => phase[r] \in {"new", "inserted"})
           /\ (phase'[r] \in OpenPhases => phase[r] \in OpenPhases)
  BY <1>2 DEF RowsKnown
<1>3. CASE InsertRun(r) \/ AnnounceStart(r) \/ CloseRun(r)
  BY <1>1, <1>2, <1>3 DEF InsertRun, AnnounceStart, CloseRun, sinkVars, RunTypes, OpenPhases
<1>4. CASE HandlerLogs(r)
  <2>1. /\ UNCHANGED <<rows, pending, taken, phase>> /\ phase[r] = "running"
        /\ captured'[r] = captured[r] + 1
    BY <1>1, <1>4 DEF HandlerLogs, sinkVars, RunTypes
  <2> QED
    BY <1>1, <2>1, StaysAccounted DEF RowsKnown, OpenPhases
<1>5. CASE Receive(r)
  <2>1. /\ UNCHANGED <<rows, phase, captured>> /\ phase[r] = "running"
    BY <1>5 DEF Receive
  <2>2. /\ Len(pending'[r]) \in Nat /\ Len(pending'[r]) <= Len(pending[r]) + 1
        /\ taken'[r] \in Nat /\ taken[r] + 1 <= taken'[r] /\ taken'[r] <= captured[r]
    BY <1>1, <1>5, ReceiveTypes, LenProperties
  <2> QED
    BY <1>1, <2>1, <2>2, StaysAccounted DEF RowsKnown, OpenPhases
<1>6. CASE SinkLags(r)
  <2>1. /\ UNCHANGED <<rows, phase, captured>> /\ phase[r] = "running"
    BY <1>6 DEF SinkLags
  <2>2. /\ Len(pending'[r]) \in Nat /\ Len(pending'[r]) <= Len(pending[r]) + 1
        /\ taken'[r] \in Nat /\ taken[r] + 1 <= taken'[r] /\ taken'[r] <= captured[r]
    BY <1>1, <1>6, SinkLagsTypes, LenProperties DEF Lines
  <2> QED
    BY <1>1, <2>1, <2>2, StaysAccounted DEF RowsKnown, OpenPhases
<1>7. CASE Flush(r)
  <2>1. /\ UNCHANGED <<taken, phase, captured>> /\ phase[r] = "running"
    BY <1>7 DEF Flush
  <2>2. /\ Len(pending'[r]) \in Nat /\ Len(rows'[r]) \in Nat
        /\ Len(rows'[r]) + Len(pending'[r]) <= Len(rows[r]) + Len(pending[r])
    BY <1>1, <1>7, FlushTypes, LenProperties
  <2> QED
    BY <1>1, <2>1, <2>2, StaysAccounted DEF RowsKnown, OpenPhases
<1>8. CASE Drain(r)
  <2>1. phase'[r] = "drained"
    BY <1>1, <1>8 DEF Drain, RunTypes
  <2> QED
    BY <2>1 DEF RowsKnown, OpenPhases
<1> QED
  BY <1>3, <1>4, <1>5, <1>6, <1>7, <1>8 DEF Execute

LEMMA LinesExecution ==
  ASSUME StreamInv, LinesInv, NEW r \in Runs, Execute(r)
  PROVE  LinesInv'
<1>1. UNCHANGED <<initial, fetch, view>>
  BY ExecutionMoves DEF hookVars
<1>2. view.logs \in Seq(Entries)
  BY DEF StreamInv, Types, HookTypes
<1>3. \A i \in DOMAIN view.logs : view.logs[i].seq \in Nat
  <2>1. SUFFICES ASSUME NEW i \in DOMAIN view.logs PROVE view.logs[i].seq \in Nat
    OBVIOUS
  <2>2. view.logs[i] \in Entries
    BY <1>2, LenProperties, ElementOfSeq
  <2> QED
    BY <2>2 DEF Entries, Runs
<1>4. ASSUME NEW q \in Runs PROVE LinesKnown(q)'
  <2>1. LinesKnown(q)
    BY DEF LinesInv
  <2>2. initial'.run = q => HasRead(q, initial.logs)'
    BY <1>1, <2>1, StaysRead DEF LinesKnown, HasRead
  <2>3. HasRead(q, fetch[q].logs)'
    BY <1>1, <2>1, StaysRead DEF LinesKnown, HasRead
  <2>4. RowsKnown(q)'
    <3>1. CASE q = r
      BY <2>1, <3>1, RowsStayKnown DEF LinesKnown
    <3>2. CASE q # r
      BY <2>1, <3>2, ExecutionSends DEF LinesKnown, RowsKnown
    <3> QED
      BY <3>1, <3>2
  <2>5. view'.run = q => Within(view'.logs, captured'[q], phase'[q])
    <3>1. CASE q = r
      <4>1. GoesOn(captured[q], phase[q], captured'[q], phase'[q])
        BY <3>1, CaptureGoesOn
      <4> QED
        BY <1>1, <1>3, <2>1, <4>1, StaysWithin DEF LinesKnown
    <3>2. CASE q # r
      BY <1>1, <2>1, <3>2, ExecutionSends DEF LinesKnown
    <3> QED
      BY <3>1, <3>2
  <2> QED
    BY <2>2, <2>3, <2>4, <2>5 DEF LinesKnown
<1> QED
  BY <1>4 DEF LinesInv

LEMMA EmptyRead ==
  \A r, n, p : HasRead(r, <<>>) /\ Within(<<>>, n, p)
BY DEF HasRead, Within

LEMMA StoredRead ==
  ASSUME StreamInv, NEW r \in Runs
  PROVE  HasRead(r, Stored(r))
<1>1. rows[r] \in Seq(Lines)
  BY DEF StreamInv, Types, RunTypes
<1>2. SUFFICES ASSUME NEW i \in DOMAIN Stored(r)
               PROVE  /\ i \in DOMAIN rows[r] /\ Stored(r)[i].seq = i
                      /\ Stored(r)[i].line = rows[r][i]
  BY DEF HasRead
<1>3. i \in DOMAIN rows[r] /\ Stored(r)[i] = [run |-> r, seq |-> i, line |-> rows[r][i]]
  BY <1>1, <1>2, StoredTypes
<1> QED
  BY <1>3

LEMMA ReadWithin ==
  ASSUME StreamInv, NEW r \in Runs, RowsKnown(r), NEW logs, HasRead(r, logs)
  PROVE  Within(logs, captured[r], phase[r])
<1>1. /\ DOMAIN rows[r] = 1 .. Len(rows[r]) /\ Len(rows[r]) \in Nat
      /\ Len(pending[r]) \in Nat /\ taken[r] \in Nat /\ captured[r] \in Nat
  BY LenProperties DEF StreamInv, Types, RunTypes, Lines
<1>2. phase[r] \in OpenPhases => Len(rows[r]) <= captured[r]
  BY <1>1, StaysAccounted DEF RowsKnown
<1> QED
  BY <1>1, <1>2 DEF HasRead, Within

\* What is shown after an event of the stream.
LEMMA EventShows ==
  ASSUME StreamInv, RingForm, HandleEvent, NEW q \in Runs, view'.run = q,
         view.run = q => Within(view.logs, captured[q], phase[q])
  PROVE  Within(view'.logs, captured[q], phase[q])
<1>1. /\ ring \in Seq(Events) /\ ring # <<>>
      /\ view \in [run : Runs \cup {0}, logs : Seq(Entries), ended : BOOLEAN]
      /\ Ordered(view.run, view.logs)
  BY DEF StreamInv, Types, LinkTypes, HookTypes, HandleEvent, OrderInv
<1> DEFINE e == Head(ring)
<1>2. e = ring[1] /\ 1 \in DOMAIN ring /\ e \in Events
  BY <1>1, TailDrops, RingTypes DEF RingDrops
<1>3. CASE e.kind = "log" /\ Show(e)
  <2>1. CASE view' = view
    BY <2>1
  <2>2. CASE /\ view.run = e.run /\ LastSeq < e.seq
             /\ view' = [view EXCEPT !.logs = Append(@, Entry(e))]
    <3>1. view'.logs = Append(view.logs, Entry(e)) /\ view'.run = view.run
      BY <1>1, <2>2
    <3>2. Entry(e) \in Entries /\ Entry(e).run = view.run /\ LastSeq < Entry(e).seq
      BY <1>1, <1>2, <2>2, LastIsLargest DEF Entry, Entries, Events, Lines
    <3>3. Range(view'.logs) = Range(view.logs) \cup {Entry(e)}
      BY <1>1, <3>1, <3>2, AppendKeepsOrder
    <3>4. Entry(e).seq <= captured[q]
      BY <1>2, <1>3, <2>2, <3>1 DEF Entry, RingForm
    <3>5. \A d \in Range(view'.logs) : d.seq <= captured[q] \/ phase[q] \notin OpenPhases
      BY <3>1, <3>3, <3>4 DEF Within, Range
    <3> QED
      BY <3>5 DEF Within, Range
  <2> QED
    BY <1>3, <2>1, <2>2 DEF Show
<1>4. CASE view' = [run |-> e.run, logs |-> <<>>, ended |-> FALSE]
  BY <1>4, EmptyRead
<1>5. CASE view' = [view EXCEPT !.ended = @ \/ view.run = e.run]
  <2>1. view'.logs = view.logs /\ view'.run = view.run
    BY <1>1, <1>5
  <2> QED
    BY <2>1
<1> QED
  BY <1>3, <1>4, <1>5 DEF HandleEvent

LEMMA LinesStay ==
  ASSUME StreamInv, RingForm, LinesInv, [Next]_vars
  PROVE  LinesInv'
<1>1. ASSUME NEW r \in Runs, Execute(r) PROVE LinesInv'
  BY <1>1, LinesExecution
<1>2. ASSUME UNCHANGED runVars,
             \A q \in Runs : LinesKnown(q) =>
               /\ initial'.run = q => HasRead(q, initial'.logs)
               /\ HasRead(q, fetch'[q].logs)
               /\ view'.run = q => Within(view'.logs, captured[q], phase[q])
      PROVE  LinesInv'
  <2>1. ASSUME NEW q \in Runs PROVE LinesKnown(q)'
    <3>1. LinesKnown(q)
      BY DEF LinesInv
    <3> QED
      BY <1>2, <3>1 DEF runVars, sinkVars, LinesKnown, RowsKnown, HasRead
  <2> QED
    BY <2>1 DEF LinesInv
<1>3. 0 \notin Runs
  BY StreamAssumption DEF Runs
<1>4. CASE Connect
  <2>1. initial'.run = 0 /\ UNCHANGED <<view, fetch>> /\ UNCHANGED runVars
    BY <1>4 DEF Connect, hookVars, Nothing
  <2> QED
    BY <1>2, <1>3, <2>1 DEF LinesKnown
<1>5. CASE ListRuns
  <2>1. /\ initial' = initial \/ initial'.run = 0
        /\ UNCHANGED <<view, fetch>> /\ UNCHANGED runVars
    BY <1>5 DEF ListRuns, hookVars, Idle
  <2> QED
    BY <1>2, <1>3, <2>1 DEF LinesKnown
<1>6. CASE ListLogs
  <2>1. /\ initial'.run = found
        /\ initial'.logs = Stored(found) \/ initial'.logs = <<>>
        /\ UNCHANGED <<view, fetch>> /\ UNCHANGED runVars
    BY <1>6 DEF ListLogs, Snapshot, hookVars
  <2> QED
    BY <1>2, <2>1, StoredRead, EmptyRead DEF LinesKnown
<1>7. CASE StreamLags
  BY <1>2, <1>7 DEF StreamLags, hookVars, LinesKnown
<1>8. CASE HandleInitial
  <2>1. /\ view'.run = initial.run /\ view'.logs = initial.logs /\ initial'.run = 0
        /\ fetch' = fetch /\ UNCHANGED runVars
    BY <1>8 DEF HandleInitial, Nothing
  <2> QED
    BY <1>2, <1>3, <2>1, ReadWithin DEF LinesKnown
<1>9. CASE HandleEvent
  <2>1. UNCHANGED <<initial, fetch>> /\ UNCHANGED runVars
    BY <1>9 DEF HandleEvent
  <2> QED
    BY <1>2, <1>9, <2>1, EventShows DEF LinesKnown
<1>10. CASE HandleReset
  <2>1. UNCHANGED <<initial, view>> /\ UNCHANGED runVars
    BY <1>10 DEF HandleReset
  <2>2. \A q \in Runs : fetch'[q].logs = fetch[q].logs
    BY <1>10 DEF HandleReset, StreamInv, Types, HookTypes
  <2> QED
    BY <1>2, <2>1, <2>2 DEF LinesKnown
<1>11. ASSUME NEW r \in Runs, ListRunLogs(r) PROVE LinesInv'
  <2>1. UNCHANGED <<initial, view>> /\ UNCHANGED runVars
    BY <1>11 DEF ListRunLogs, linkVars
  <2>2. \A q \in Runs :
          \/ fetch'[q] = fetch[q]
          \/ fetch'[q].logs = <<>>
          \/ fetch'[q].logs = Stored(q)
    BY <1>11 DEF ListRunLogs, NoFetch, StreamInv, Types, HookTypes
  <2> QED
    BY <1>2, <2>1, <2>2, StoredRead, EmptyRead DEF LinesKnown
<1>12. ASSUME NEW r \in Runs, Merge(r) PROVE LinesInv'
  <2>1. UNCHANGED initial /\ UNCHANGED runVars
    BY <1>12 DEF Merge, linkVars
  <2>2. \A q \in Runs : fetch'[q] = fetch[q] \/ fetch'[q].logs = <<>>
    BY <1>12 DEF Merge, NoFetch, StreamInv, Types, HookTypes
  <2>3. ASSUME NEW q \in Runs, LinesKnown(q), view'.run = q
        PROVE  Within(view'.logs, captured[q], phase[q])
    <3>1. view.run = q
      BY <1>12, <2>3, MergeKeepsOrder
    <3>2. Range(view'.logs) \subseteq Range(view.logs) \cup Range(fetch[q].logs)
      BY <1>12, <3>1, MergeKeepsOrder
    <3>3. \A d \in Range(view.logs) : d.seq <= captured[q] \/ phase[q] \notin OpenPhases
      BY <2>3, <3>1 DEF LinesKnown, Within, Range
    <3>4. \A d \in Range(fetch[q].logs) : d.seq <= captured[q] \/ phase[q] \notin OpenPhases
      BY <2>3, ReadWithin DEF LinesKnown, Within, Range
    <3> QED
      BY <3>2, <3>3, <3>4 DEF Within, Range
  <2> QED
    BY <1>2, <2>1, <2>2, <2>3, EmptyRead DEF LinesKnown
<1>13. CASE Render
  BY <1>2, <1>13 DEF Render, linkVars, LinesKnown
<1>14. CASE UNCHANGED vars
  BY <1>2, <1>14 DEF vars, runVars, LinesKnown
<1> QED
  BY <1>1, <1>4, <1>5, <1>6, <1>7, <1>8, <1>9, <1>10, <1>11, <1>12, <1>13, <1>14, NextSteps
  DEF RouteStep, HookStep

-----------------------------------------------------------------------------
(***************************************************************************)
(* No line falls between the snapshot and the stream.  Up to the first row *)
(* that is displaced, every line is with a snapshot or in the view, unless *)
(* it is on its way or known to be lost to this connection; behind a       *)
(* run_started that is on its way, all lines of its run are; and a line on *)
(* its way that the view takes for known is known.                         *)
(***************************************************************************)
LinesOf(logs) == {e.line : e \in Range(logs)}
TopSeq(logs)  == IF logs = <<>> THEN 0 ELSE Last(logs).seq

Waits(r, n) ==
  \E i \in DOMAIN ring : ring[i].kind = "log" /\ ring[i].run = r /\ ring[i].seq = n

Coming(r, n) == Waits(r, n) \/ <<r, n>> \in blind

AllBehind(r, i) ==
  \A n \in 1 .. captured[r] :
    \E j \in DOMAIN ring :
      i < j /\ ring[j].kind = "log" /\ ring[j].run = r /\ ring[j].seq = n

StartComplete(r) ==
  \A i \in DOMAIN ring :
    ring[i].kind = "run_started" /\ ring[i].run = r => AllBehind(r, i)

Complete(r, logs) ==
  \A n \in 1 .. captured[r] : n \in LinesOf(logs) \/ Coming(r, n) \/ Displaced(r, n)

NoneSkipped(r, logs) ==
  \A i \in DOMAIN ring :
    ring[i].kind = "log" /\ ring[i].run = r /\ ring[i].seq <= TopSeq(logs)
      => ring[i].seq \in LinesOf(logs) \/ Displaced(r, ring[i].seq)

WindowKnown(r) ==
  /\ StartComplete(r)
  /\ initial.run = r => Complete(r, initial.logs)
  /\ Following /\ view.run = r => Complete(r, view.logs) /\ NoneSkipped(r, view.logs)

WindowInv == \A r \in Runs : WindowKnown(r)

LEMMA WindowInvInit == Init => WindowInv
<1> SUFFICES ASSUME Init, NEW r \in Runs PROVE WindowKnown(r)
  BY DEF WindowInv
<1>1. conn = "closed" /\ initial.run = 0 /\ DOMAIN ring = {} /\ 0 \notin Runs
  BY StreamAssumption DEF Init, Nothing, Runs
<1> QED
  BY <1>1 DEF WindowKnown, StartComplete, Following

LEMMA TopSeqOfEntry ==
  ASSUME NEW logs \in Seq(Entries)
  PROVE  \/ TopSeq(logs) = 0
         \/ \E e \in Range(logs) : TopSeq(logs) = e.seq
<1>1. CASE logs = <<>>
  BY <1>1 DEF TopSeq
<1>2. CASE logs # <<>>
  <2>1. Len(logs) \in DOMAIN logs
    BY <1>2, LenProperties, EmptySeq
  <2> QED
    BY <1>2, <2>1 DEF TopSeq, Last, Range
<1> QED
  BY <1>1, <1>2

\* A number up to the last one that was read is that of its line, or the
\* rows are displaced there.
LEMMA ReadHolds ==
  ASSUME StreamInv, NEW r \in Runs, NEW logs \in Seq(Entries), HasRead(r, logs),
         NEW n \in Nat \ {0}, NEW e \in Range(logs), n <= e.seq
  PROVE  /\ n \in DOMAIN logs /\ logs[n].seq = n
         /\ logs[n].line = n \/ Displaced(r, n)
<1>1. PICK i \in DOMAIN logs : e = logs[i]
  BY DEF Range
<1>2. Len(logs) \in Nat /\ DOMAIN logs = 1 .. Len(logs) /\ e.seq = i
  BY <1>1, LenProperties DEF HasRead
<1>3. n \in DOMAIN logs
  BY <1>2
<1>4. n \in DOMAIN rows[r] /\ logs[n].seq = n /\ logs[n].line = rows[r][n]
  BY <1>3 DEF HasRead
<1> QED
  BY <1>3, <1>4 DEF Displaced

LEMMA ReadSkipsNone ==
  ASSUME StreamInv, RingForm, NEW r \in Runs, NEW logs \in Seq(Entries), HasRead(r, logs)
  PROVE  NoneSkipped(r, logs)
<1>1. captured[r] \in Nat
  BY DEF StreamInv, Types, RunTypes, Lines
<1>2. ASSUME NEW i \in DOMAIN ring, ring[i].kind = "log", ring[i].run = r,
             ring[i].seq <= TopSeq(logs)
      PROVE  ring[i].seq \in LinesOf(logs) \/ Displaced(r, ring[i].seq)
  <2> DEFINE n == ring[i].seq
  <2>1. n \in Nat \ {0}
    BY <1>1, <1>2 DEF RingForm
  <2>2. PICK e \in Range(logs) : n <= e.seq
    BY <1>2, <2>1, TopSeqOfEntry
  <2>3. n \in DOMAIN logs /\ (logs[n].line = n \/ Displaced(r, n))
    BY <2>1, <2>2, ReadHolds
  <2> QED
    BY <2>3 DEF LinesOf, Range
<1> QED
  BY <1>2 DEF NoneSkipped

LEMMA DisplacedStays ==
  ASSUME StreamInv, NEW r \in Runs, Execute(r), NEW q \in Runs, NEW n, Displaced(q, n)
  PROVE  Displaced(q, n)'
<1>1. PICK i \in DOMAIN rows[q] : i <= n /\ rows[q][i] # i
  BY DEF Displaced
<1>2. i \in DOMAIN rows'[q] /\ rows'[q][i] = rows[q][i]
  BY RowsGrow
<1> QED
  BY <1>1, <1>2 DEF Displaced

\* A line that is captured now has a number beyond what is shown.
LEMMA NewLineIsBeyond ==
  ASSUME StreamInv, NEW r \in Runs, LinesKnown(r), view.run = r, phase[r] = "running"
  PROVE  TopSeq(view.logs) <= captured[r]
<1>1. view.logs \in Seq(Entries) /\ captured[r] \in Nat
  BY DEF StreamInv, Types, RunTypes, HookTypes, Lines
<1>2. \A e \in Range(view.logs) : e.seq <= captured[r]
  BY DEF LinesKnown, Within, Range, OpenPhases
<1> QED
  BY <1>1, <1>2, TopSeqOfEntry

LEMMA WindowGrows ==
  ASSUME StreamInv, NEW e, RingGrows(e), NEW q \in Runs, WindowKnown(q),
         e.kind = "log" => e.run # q,
         e.kind = "run_started" /\ e.run = q => captured[q] = 0,
         captured'[q] = captured[q], UNCHANGED <<conn, initial, view, blind>>,
         \A n : Displaced(q, n) => Displaced(q, n)'
  PROVE  WindowKnown(q)'
<1>1. /\ \A i \in DOMAIN ring : i \in DOMAIN ring' /\ ring'[i] = ring[i]
      /\ ring'[Len(ring) + 1] = e
      /\ \A i \in DOMAIN ring' : i \in DOMAIN ring \/ i = Len(ring) + 1
  BY GrownPlaces DEF StreamInv, Types, LinkTypes
<1>2. \A n : Coming(q, n) => Coming(q, n)'
  BY <1>1 DEF Coming, Waits
<1>3. \A i \in DOMAIN ring : AllBehind(q, i) => AllBehind(q, i)'
  BY <1>1 DEF AllBehind
<1>4. StartComplete(q)'
  <2>1. SUFFICES ASSUME NEW i \in DOMAIN ring', ring'[i].kind = "run_started", ring'[i].run = q
                 PROVE  AllBehind(q, i)'
    BY DEF StartComplete
  <2>2. CASE i \in DOMAIN ring
    BY <1>1, <1>3, <2>1, <2>2 DEF WindowKnown, StartComplete
  <2>3. CASE i = Len(ring) + 1
    <3>1. captured'[q] = 0
      BY <1>1, <2>1, <2>3
    <3> QED
      BY <3>1 DEF AllBehind
  <2> QED
    BY <1>1, <2>2, <2>3
<1>6. initial'.run = q => Complete(q, initial.logs)'
  BY <1>2 DEF WindowKnown, Complete, LinesOf
<1>7. Following' /\ view'.run = q => Complete(q, view.logs)' /\ NoneSkipped(q, view.logs)'
  BY <1>1, <1>2 DEF WindowKnown, Complete, NoneSkipped, Following, LinesOf, TopSeq
<1> QED
  BY <1>4, <1>6, <1>7 DEF WindowKnown

LEMMA WindowLogs ==
  ASSUME StreamInv, LinesInv, NEW r \in Runs, WindowKnown(r), HandlerLogs(r),
         RingGrows([kind |-> "log", run |-> r, seq |-> captured[r] + 1])
  PROVE  WindowKnown(r)'
<1> DEFINE e == [kind |-> "log", run |-> r, seq |-> captured[r] + 1]
<1>1. /\ \A i \in DOMAIN ring : i \in DOMAIN ring' /\ ring'[i] = ring[i] /\ i < Len(ring) + 1
      /\ Len(ring) + 1 \in DOMAIN ring' /\ ring'[Len(ring) + 1] = e
      /\ \A i \in DOMAIN ring' : i \in DOMAIN ring \/ i = Len(ring) + 1
  BY GrownPlaces DEF StreamInv, Types, LinkTypes
<1>2. /\ captured[r] \in Nat /\ captured'[r] = captured[r] + 1 /\ phase[r] = "running"
      /\ UNCHANGED <<rows, conn, initial, view, blind>>
  BY DEF HandlerLogs, StreamInv, Types, RunTypes, Lines, hookVars
<1>3. \A n \in 1 .. captured'[r] : n \in 1 .. captured[r] \/ n = captured[r] + 1
  BY <1>2
<1>4. /\ \A n : Coming(r, n) => Coming(r, n)'
      /\ \A n : n = captured[r] + 1 => Coming(r, n)'
  <2>1. e.kind = "log" /\ e.run = r /\ e.seq = captured[r] + 1
    OBVIOUS
  <2>2. \A n : n = captured[r] + 1 => Waits(r, n)'
    BY <1>1, <1>2, <2>1 DEF Waits
  <2>3. \A n : Waits(r, n) => Waits(r, n)'
    BY <1>1 DEF Waits
  <2> QED
    BY <1>2, <2>2, <2>3 DEF Coming
<1>5. \A i \in DOMAIN ring : AllBehind(r, i) => AllBehind(r, i)'
  BY <1>1, <1>3 DEF AllBehind
<1>6. StartComplete(r)'
  <2>1. SUFFICES ASSUME NEW i \in DOMAIN ring', ring'[i].kind = "run_started", ring'[i].run = r
                 PROVE  AllBehind(r, i)'
    BY DEF StartComplete
  <2>2. i \in DOMAIN ring
    BY <1>1, <2>1
  <2> QED
    BY <1>1, <1>5, <2>1, <2>2 DEF WindowKnown, StartComplete
<1>10. ASSUME NEW logs, Complete(r, logs)
      PROVE  \A n \in 1 .. captured'[r] :
               n \in LinesOf(logs) \/ Coming(r, n)' \/ Displaced(r, n)'
  <2>1. SUFFICES ASSUME NEW n \in 1 .. captured'[r]
                 PROVE  n \in LinesOf(logs) \/ Coming(r, n)' \/ Displaced(r, n)'
    OBVIOUS
  <2>2. CASE n \in 1 .. captured[r]
    BY <1>2, <1>4, <1>10, <2>2 DEF Complete, Displaced
  <2>3. CASE n = captured[r] + 1
    BY <1>4, <2>3
  <2> QED
    BY <1>3, <2>1, <2>2, <2>3
<1>7. initial'.run = r => Complete(r, initial.logs)'
  BY <1>2, <1>10 DEF WindowKnown, Complete, LinesOf
<1>8. Following' /\ view'.run = r => Complete(r, view.logs)'
  BY <1>2, <1>10 DEF WindowKnown, Complete, Following, LinesOf
<1>9. ASSUME Following', view'.run = r PROVE NoneSkipped(r, view.logs)'
  <2>1. NoneSkipped(r, view.logs)
    BY <1>2, <1>9 DEF WindowKnown, Following
  <2>2. TopSeq(view.logs) <= captured[r]
    BY <1>2, <1>9, NewLineIsBeyond DEF LinesInv
  <2>3. TopSeq(view.logs) \in Nat
    <3>1. view.logs \in Seq(Entries) /\ \A d \in Range(view.logs) : d.seq \in Nat
      BY LastIsLargest DEF StreamInv, Types, HookTypes, OrderInv
    <3> QED
      BY <3>1, TopSeqOfEntry
  <2>4. ~(e.seq <= TopSeq(view.logs))
    BY <1>2, <2>2, <2>3
  <2> QED
    BY <1>1, <1>2, <2>1, <2>4 DEF NoneSkipped, LinesOf, TopSeq, Displaced
<1> QED
  BY <1>6, <1>7, <1>8, <1>9 DEF WindowKnown

LEMMA WindowExecution ==
  ASSUME StreamInv, RingForm, LinesInv, WindowInv, NEW r \in Runs, Execute(r)
  PROVE  WindowInv'
<1>1. UNCHANGED <<conn, initial, view, blind>>
  BY ExecutionMoves DEF hookVars
<1>2. ASSUME NEW q \in Runs PROVE WindowKnown(q)'
  <2>1. /\ WindowKnown(q) /\ LinesKnown(q)
        /\ \A n : Displaced(q, n) => Displaced(q, n)'
    BY DisplacedStays DEF WindowInv, LinesInv
  <2>2. q # r => captured'[q] = captured[q]
    BY ExecutionSends
  <2>3. CASE ring' = ring /\ captured' = captured
    <3>1. StartComplete(q)'
      BY <2>1, <2>3 DEF WindowKnown, StartComplete, AllBehind
    <3>2. \A n : Coming(q, n) => Coming(q, n)'
      BY <1>1, <2>3 DEF Coming, Waits
    <3>3. initial'.run = q => Complete(q, initial.logs)'
      BY <1>1, <2>1, <2>3, <3>2 DEF WindowKnown, Complete, LinesOf
    <3>4. Following' /\ view'.run = q => Complete(q, view.logs)' /\ NoneSkipped(q, view.logs)'
      BY <1>1, <2>1, <2>3, <3>2
      DEF WindowKnown, Complete, NoneSkipped, Following, LinesOf, TopSeq
    <3> QED
      BY <3>1, <3>3, <3>4 DEF WindowKnown
  <2>4. CASE conn = "closed" /\ ring' = ring
    <3>1. conn' = "closed" /\ initial'.run = 0 /\ DOMAIN ring' = {} /\ 0 \notin Runs
      BY <1>1, <2>4, StreamAssumption DEF RingForm, Nothing, Runs
    <3> QED
      BY <3>1 DEF WindowKnown, StartComplete, Following
  <2>5. CASE /\ RingGrows([kind |-> "run_started", run |-> r, seq |-> 0])
             /\ captured' = captured /\ AnnounceStart(r)
    <3>1. q = r => captured[q] = 0
      BY <2>1, <2>5 DEF AnnounceStart, LinesKnown, RowsKnown
    <3> QED
      BY <1>1, <2>1, <2>5, <3>1, WindowGrows
  <2>6. CASE /\ RingGrows([kind |-> "log", run |-> r, seq |-> captured[r] + 1])
             /\ HandlerLogs(r)
    <3>1. CASE q = r
      BY <2>1, <2>6, <3>1, WindowLogs
    <3>2. CASE q # r
      BY <1>1, <2>1, <2>2, <2>6, <3>2, WindowGrows
    <3> QED
      BY <3>1, <3>2
  <2>7. CASE /\ RingGrows([kind |-> "run_ended", run |-> r, seq |-> 0])
             /\ captured' = captured
    BY <1>1, <2>1, <2>7, WindowGrows
  <2> QED
    BY <2>3, <2>4, <2>5, <2>6, <2>7, ExecutionSends
<1> QED
  BY <1>2 DEF WindowInv

\* What leaves the ring.
LEMMA WindowDrops ==
  ASSUME StreamInv, NEW k, RingDrops(k), captured' = captured, NEW r \in Runs
  PROVE  /\ \A i \in DOMAIN ring' : i + k \in DOMAIN ring /\ ring'[i] = ring[i + k]
         /\ StartComplete(r) => StartComplete(r)'
         /\ \A n : Waits(r, n) =>
              \/ Waits(r, n)'
              \/ \E i \in 1 .. k : ring[i].kind = "log" /\ ring[i].run = r /\ ring[i].seq = n
         /\ StartComplete(r) /\ ring[k].kind = "run_started" /\ ring[k].run = r
              => \A n \in 1 .. captured[r] : Waits(r, n)'
<1>1. /\ k \in Nat /\ k \in DOMAIN ring
      /\ \A i \in DOMAIN ring' : i \in Nat /\ i + k \in DOMAIN ring /\ ring'[i] = ring[i + k]
      /\ \A i \in DOMAIN ring :
           \/ i \in 1 .. k
           \/ i - k \in DOMAIN ring' /\ i = (i - k) + k
  BY DroppedPlaces DEF StreamInv, Types, LinkTypes
<1>2. ASSUME NEW i \in DOMAIN ring, i \notin 1 .. k
      PROVE  i - k \in DOMAIN ring' /\ ring'[i - k] = ring[i]
  <2>1. i - k \in DOMAIN ring' /\ i = (i - k) + k
    BY <1>1, <1>2
  <2>2. ring'[i - k] = ring[(i - k) + k]
    BY <1>1, <2>1
  <2> QED
    BY <2>1, <2>2
<1>3. \A i \in DOMAIN ring : i \in Nat
  BY RingPlaces DEF StreamInv, Types, LinkTypes
<1>4. ASSUME StartComplete(r) PROVE StartComplete(r)'
  <2>1. SUFFICES ASSUME NEW i \in DOMAIN ring', ring'[i].kind = "run_started", ring'[i].run = r,
                        NEW n \in 1 .. captured[r]
                 PROVE  \E j \in DOMAIN ring' :
                          i < j /\ ring'[j].kind = "log" /\ ring'[j].run = r /\ ring'[j].seq = n
    BY DEF StartComplete, AllBehind
  <2>2. PICK j \in DOMAIN ring :
          i + k < j /\ ring[j].kind = "log" /\ ring[j].run = r /\ ring[j].seq = n
    BY <1>1, <1>4, <2>1 DEF StartComplete, AllBehind
  <2>3. j \in Nat /\ j \notin 1 .. k /\ i \in Nat /\ k \in Nat
    BY <1>1, <1>3, <2>2
  <2>4. j - k \in DOMAIN ring' /\ ring'[j - k] = ring[j] /\ i < j - k
    BY <1>2, <2>2, <2>3
  <2> QED
    BY <2>2, <2>4
<1>5. ASSUME StartComplete(r), ring[k].kind = "run_started", ring[k].run = r,
             NEW n \in 1 .. captured[r]
      PROVE  Waits(r, n)'
  <2>1. PICK j \in DOMAIN ring :
          k < j /\ ring[j].kind = "log" /\ ring[j].run = r /\ ring[j].seq = n
    BY <1>1, <1>5 DEF StartComplete, AllBehind
  <2>2. j \notin 1 .. k
    BY <1>1, <1>3, <2>1
  <2> QED
    BY <1>2, <2>1, <2>2 DEF Waits
<1>6. ASSUME NEW n, Waits(r, n)
      PROVE  \/ Waits(r, n)'
             \/ \E i \in 1 .. k : ring[i].kind = "log" /\ ring[i].run = r /\ ring[i].seq = n
  BY <1>2, <1>6 DEF Waits
<1> QED
  BY <1>1, <1>4, <1>5, <1>6

\* A lag: what is overwritten is known to be lost.
LEMMA WindowLags ==
  ASSUME StreamInv, RingForm, WindowInv, StreamLags
  PROVE  WindowInv'
<1>1. PICK k \in DOMAIN ring :
        /\ ring' = SubSeq(ring, k + 1, Len(ring))
        /\ blind' = blind \cup {<<ring[i].run, ring[i].seq>> :
                      i \in {j \in 1 .. k : ring[j].kind # "run_started"}}
  BY DEF StreamLags
<1>2. UNCHANGED <<captured, rows, conn, initial, view>>
  BY DEF StreamLags, runVars, hookVars
<1>3. RingDrops(k)
  BY <1>1, LagDrops DEF StreamInv, Types, LinkTypes
<1>4. ASSUME NEW q \in Runs, WindowKnown(q) PROVE WindowKnown(q)'
  <2>1. ASSUME NEW n, Coming(q, n) PROVE Coming(q, n)'
    BY <1>1, <1>2, <1>3, <2>1, WindowDrops DEF Coming
  <2>2. StartComplete(q)'
    BY <1>2, <1>3, <1>4, WindowDrops DEF WindowKnown
  <2>3. initial'.run = q => Complete(q, initial.logs)'
    BY <1>2, <1>4, <2>1 DEF WindowKnown, Complete, LinesOf, Displaced
  <2>4. Following' /\ view'.run = q => Complete(q, view.logs)'
    BY <1>2, <1>4, <2>1 DEF WindowKnown, Complete, LinesOf, Following, Displaced
  <2>5. ASSUME NEW logs, NoneSkipped(q, logs)
        PROVE  \A i \in DOMAIN ring' :
                 ring'[i].kind = "log" /\ ring'[i].run = q /\ ring'[i].seq <= TopSeq(logs)
                   => ring'[i].seq \in LinesOf(logs) \/ Displaced(q, ring'[i].seq)
    BY <1>2, <1>3, <2>5, WindowDrops DEF NoneSkipped
  <2>6. Following' /\ view'.run = q => NoneSkipped(q, view.logs)'
    BY <1>2, <1>4, <2>5 DEF WindowKnown, NoneSkipped, LinesOf, TopSeq, Following, Displaced
  <2> QED
    BY <2>2, <2>3, <2>4, <2>6 DEF WindowKnown
<1> QED
  BY <1>2, <1>4 DEF WindowInv

\* The first event of the stream.
LEMMA WindowSnapshot ==
  ASSUME StreamInv, RingForm, WindowInv, ListLogs
  PROVE  WindowInv'
<1>0. PICK r : r = found
  OBVIOUS
<1>1. PICK logs : Snapshot(logs)
  BY DEF ListLogs
<1>2. UNCHANGED <<captured, ring, view>> /\ conn' = "open"
  BY DEF ListLogs, runVars, hookVars
<1>3. /\ initial' = [kind |-> "snapshot", run |-> r, logs |-> logs]
      /\ Missed(r, logs) \subseteq blind'
  BY <1>0, <1>1 DEF Snapshot
<1>4. initial'.run = r /\ initial'.logs = logs /\ initial' # Nothing
  BY <1>3 DEF Nothing
<1>5. ASSUME NEW n \in 1 .. captured[r] PROVE n \in LinesOf(logs) \/ Coming(r, n)'
  <2>1. CASE <<r, n>> \in InRing
    <3>1. PICK i \in DOMAIN ring : r = ring[i].run /\ n = ring[i].seq
      BY <2>1 DEF InRing
    <3>2. n # 0
      OBVIOUS
    <3>3. ring[i].kind = "log"
      BY <3>1, <3>2 DEF RingForm
    <3> QED
      BY <1>2, <3>1, <3>3 DEF Coming, Waits
  <2>2. CASE <<r, n>> \in {<<r, e.line>> : e \in Range(logs)}
    BY <2>2 DEF LinesOf
  <2>3. CASE <<r, n>> \in Missed(r, logs)
    BY <1>3, <2>3 DEF Coming
  <2> QED
    BY <2>1, <2>2, <2>3 DEF Missed
<1>6. ASSUME NEW q \in Runs, WindowKnown(q) PROVE WindowKnown(q)'
  <2>1. StartComplete(q)'
    BY <1>2, <1>6 DEF WindowKnown, StartComplete, AllBehind
  <2>2. initial'.run = q => Complete(q, initial.logs)'
    BY <1>2, <1>4, <1>5 DEF Complete, LinesOf
  <2>3. ~Following'
    BY <1>4 DEF Following
  <2> QED
    BY <2>1, <2>2, <2>3 DEF WindowKnown
<1> QED
  BY <1>2, <1>6 DEF WindowInv

LEMMA WindowInitial ==
  ASSUME StreamInv, RingForm, LinesInv, WindowInv, HandleInitial
  PROVE  WindowInv'
<1>1. /\ UNCHANGED <<captured, rows, ring, blind>>
      /\ view'.run = initial.run /\ view'.logs = initial.logs /\ initial'.run = 0
      /\ initial.logs \in Seq(Entries) /\ 0 \notin Runs
  BY StreamAssumption DEF HandleInitial, runVars, Nothing, StreamInv, Types, LinkTypes, Runs
<1>2. ASSUME NEW q \in Runs PROVE WindowKnown(q)'
  <2>1. WindowKnown(q) /\ LinesKnown(q)
    BY DEF WindowInv, LinesInv
  <2>2. StartComplete(q)'
    BY <1>1, <2>1 DEF WindowKnown, StartComplete, AllBehind
  <2>3. view'.run = q => Complete(q, view.logs)'
    BY <1>1, <2>1 DEF WindowKnown, Complete, Coming, Waits, LinesOf, Displaced
  <2>4. view'.run = q => NoneSkipped(q, initial.logs)
    BY <1>1, <2>1, ReadSkipsNone DEF LinesKnown
  <2>5. view'.run = q => NoneSkipped(q, view.logs)'
    BY <1>1, <2>4 DEF NoneSkipped, LinesOf, TopSeq, Displaced
  <2> QED
    BY <1>1, <2>2, <2>3, <2>5 DEF WindowKnown
<1> QED
  BY <1>1, <1>2 DEF WindowInv

LEMMA WindowMerge ==
  ASSUME StreamInv, RingForm, LinesInv, WindowInv, NEW r \in Runs, Merge(r)
  PROVE  WindowInv'
<1>1. /\ UNCHANGED <<captured, rows, conn, initial, ring, blind>>
      /\ view'.run = view.run /\ Range(view.logs) \subseteq Range(view'.logs)
      /\ view.run # r => view' = view
  BY MergeKeepsOrder DEF Merge, runVars, linkVars
<1>2. /\ view'.logs \in Seq(Entries) /\ view.logs \in Seq(Entries)
      /\ fetch[r].logs \in Seq(Entries)
  BY MergeKeepsOrder DEF StreamInv, Types, HookTypes
<1>3. LinesOf(view.logs) \subseteq LinesOf(view'.logs)
  BY <1>1 DEF LinesOf
<1>4. ASSUME NEW q \in Runs PROVE WindowKnown(q)'
  <2>1. WindowKnown(q) /\ LinesKnown(q)
    BY DEF WindowInv, LinesInv
  <2>2. StartComplete(q)'
    BY <1>1, <2>1 DEF WindowKnown, StartComplete, AllBehind
  <2>3. initial'.run = q => Complete(q, initial.logs)'
    BY <1>1, <2>1 DEF WindowKnown, Complete, Coming, Waits, LinesOf, Displaced
  <2>4. ASSUME Following', view'.run = q PROVE Complete(q, view.logs)'
    <3>1. Complete(q, view.logs)
      BY <1>1, <2>1, <2>4 DEF WindowKnown, Following
    <3>2. \A n \in 1 .. captured[q] :
            n \in LinesOf(view'.logs) \/ Coming(q, n) \/ Displaced(q, n)
      BY <1>3, <3>1 DEF Complete
    <3> QED
      BY <1>1, <3>2 DEF Complete, Coming, Waits, LinesOf, Displaced
  <2>5. ASSUME Following', view'.run = q PROVE NoneSkipped(q, view'.logs)
    <3>1. NoneSkipped(q, view.logs)
      BY <1>1, <2>1, <2>5 DEF WindowKnown, Following
    <3>2. CASE view.run # r
      BY <1>1, <3>1, <3>2
    <3>3. CASE view.run = r
      <4>1. /\ q = r /\ captured[q] \in Nat /\ HasRead(q, fetch[q].logs)
            /\ Range(view'.logs) \subseteq Range(view.logs) \cup Range(fetch[q].logs)
            /\ \A e \in Range(fetch[q].logs) : \E d \in Range(view'.logs) : d.seq = e.seq
        BY <1>1, <2>1, <2>5, <3>3, MergeKeepsOrder
        DEF LinesKnown, StreamInv, Types, RunTypes, Lines
      <4>2. ASSUME NEW i \in DOMAIN ring, ring[i].kind = "log", ring[i].run = q,
                   ring[i].seq <= TopSeq(view'.logs)
            PROVE  ring[i].seq \in LinesOf(view'.logs) \/ Displaced(q, ring[i].seq)
        <5> DEFINE n == ring[i].seq
        <5>1. n \in 1 .. captured[q]
          BY <4>2 DEF RingForm
        <5>2. PICK d \in Range(view'.logs) : n <= d.seq
          BY <1>2, <4>1, <4>2, <5>1, TopSeqOfEntry
        <5>3. \A e \in Range(view.logs) : e.seq \in Nat /\ e.seq <= TopSeq(view.logs)
          BY LastIsLargest DEF StreamInv, Types, HookTypes, OrderInv, LastSeq, TopSeq
        <5>4. TopSeq(view.logs) \in Nat
          BY LastIsLargest DEF StreamInv, Types, HookTypes, OrderInv, LastSeq, TopSeq
        <5>5. CASE n <= TopSeq(view.logs)
          BY <1>3, <3>1, <4>2, <5>5 DEF NoneSkipped
        <5>6. CASE ~(n <= TopSeq(view.logs))
          <6>1. \A e \in Range(view.logs) : ~(n <= e.seq)
            BY <4>1, <5>1, <5>3, <5>4, <5>6
          <6>2. d \in Range(fetch[q].logs)
            BY <4>1, <5>2, <6>1
          <6>3. /\ n \in DOMAIN fetch[q].logs /\ fetch[q].logs[n].seq = n
                /\ fetch[q].logs[n].line = n \/ Displaced(q, n)
            BY <1>2, <4>1, <5>1, <5>2, <6>2, ReadHolds
          <6>4. PICK f \in Range(view'.logs) : f.seq = n
            BY <4>1, <6>3 DEF Range
          <6>5. f \in Range(fetch[q].logs)
            BY <4>1, <5>1, <6>1, <6>4
          <6>6. f.line = n \/ Displaced(q, n)
            BY <4>1, <6>3, <6>4, <6>5 DEF HasRead, Range
          <6> QED
            BY <6>4, <6>6 DEF LinesOf
        <5> QED
          BY <5>5, <5>6
      <4> QED
        BY <4>2 DEF NoneSkipped
    <3> QED
      BY <3>2, <3>3
  <2>6. Following' /\ view'.run = q => NoneSkipped(q, view.logs)'
    BY <1>1, <2>5 DEF NoneSkipped, LinesOf, TopSeq, Displaced
  <2> QED
    BY <2>2, <2>3, <2>4, <2>6 DEF WindowKnown
<1> QED
  BY <1>1, <1>4 DEF WindowInv

\* What a line of the stream changes in the view of its run.
LEMMA ShowAdds ==
  ASSUME StreamInv, NEW e \in Events, Show(e)
  PROVE  /\ view'.run = view.run
         /\ LinesOf(view.logs) \subseteq LinesOf(view'.logs)
         /\ \/ view'.logs = view.logs /\ ~(view.run = e.run /\ LastSeq < e.seq)
            \/ /\ view.run = e.run /\ e.seq \in LinesOf(view'.logs)
               /\ TopSeq(view'.logs) = e.seq
<1>1. /\ view \in [run : Runs \cup {0}, logs : Seq(Entries), ended : BOOLEAN]
      /\ Ordered(view.run, view.logs)
  BY DEF StreamInv, Types, HookTypes, OrderInv
<1>2. CASE view' = view /\ ~(view.run = e.run /\ LastSeq < e.seq)
  BY <1>2
<1>3. CASE /\ view.run = e.run /\ LastSeq < e.seq
           /\ view' = [view EXCEPT !.logs = Append(@, Entry(e))]
  <2>1. view'.logs = Append(view.logs, Entry(e)) /\ view'.run = view.run
    BY <1>1, <1>3
  <2>2. /\ Entry(e) \in Entries /\ Entry(e).run = view.run /\ LastSeq < Entry(e).seq
        /\ Entry(e).line = e.seq /\ Entry(e).seq = e.seq
    BY <1>1, <1>3, LastIsLargest DEF Entry, Entries, Events, Lines
  <2>3. Range(view'.logs) = Range(view.logs) \cup {Entry(e)}
    BY <1>1, <2>1, <2>2, AppendKeepsOrder
  <2>4. /\ view'.logs # <<>> /\ Last(view'.logs) = Entry(e)
    <3>1. /\ Len(view'.logs) = Len(view.logs) + 1 /\ Len(view.logs) \in Nat
          /\ view'.logs[Len(view.logs) + 1] = Entry(e)
      BY <1>1, <2>1, <2>2, AppendProperties, LenProperties
    <3>2. view'.logs # <<>>
      BY <3>1
    <3> QED
      BY <3>1, <3>2 DEF Last
  <2>5. TopSeq(view'.logs) = e.seq
    BY <2>2, <2>4 DEF TopSeq
  <2>6. e.seq \in LinesOf(view'.logs)
    BY <2>2, <2>3 DEF LinesOf
  <2>7. LinesOf(view.logs) \subseteq LinesOf(view'.logs)
    BY <2>3 DEF LinesOf
  <2> QED
    BY <1>3, <2>1, <2>5, <2>6, <2>7
<1> QED
  BY <1>2, <1>3 DEF Show

LEMMA WindowEvent ==
  ASSUME StreamInv, RingForm, WindowInv, HandleEvent
  PROVE  WindowInv'
<1>0. ring \in Seq(Events) /\ 0 \notin Runs
      /\ view \in [run : Runs \cup {0}, logs : Seq(Entries), ended : BOOLEAN]
  BY StreamAssumption DEF StreamInv, Types, LinkTypes, HookTypes, Runs
<1>1. /\ UNCHANGED <<captured, rows, conn, initial>> /\ Following
      /\ ring # <<>> /\ ring' = Tail(ring)
  BY DEF HandleEvent, runVars, Following
<1>2. RingDrops(1) /\ ring[1] = Head(ring) /\ ring[1] \in Events /\ 1 \in DOMAIN ring
  BY <1>0, <1>1, TailDrops, RingTypes DEF RingDrops
<1>3. \A i \in 1 .. 1 : i = 1
  OBVIOUS
<1> DEFINE e == ring[1]
<1>4. \/ e.kind = "log" /\ Show(e) /\ blind' = blind
      \/ /\ e.kind = "run_started" /\ blind' = {}
         /\ view' = [run |-> e.run, logs |-> <<>>, ended |-> FALSE]
      \/ /\ e.kind = "run_ended" /\ blind' = blind
         /\ view' = [view EXCEPT !.ended = @ \/ view.run = e.run]
  BY <1>2 DEF HandleEvent
<1>5. ASSUME NEW q \in Runs, WindowKnown(q) PROVE WindowKnown(q)'
  <2>1. StartComplete(q)' /\ initial'.run # q
    BY <1>0, <1>1, <1>2, <1>5, WindowDrops DEF WindowKnown, Following, Nothing
  <2>2. ASSUME NEW n, Coming(q, n), blind' = blind
        PROVE  Coming(q, n)' \/ (e.kind = "log" /\ e.run = q /\ e.seq = n)
    BY <1>1, <1>2, <1>3, <2>2, WindowDrops DEF Coming
  <2>3. \A i \in DOMAIN ring' : i + 1 \in DOMAIN ring /\ ring'[i] = ring[i + 1]
    BY <1>1, <1>2, WindowDrops
  <2>4. CASE view'.run # q
    BY <2>1, <2>4 DEF WindowKnown
  <2>5. CASE view'.run = q /\ e.kind = "log" /\ Show(e) /\ blind' = blind
    <3>1. view.run = q /\ Complete(q, view.logs) /\ NoneSkipped(q, view.logs)
      BY <1>1, <1>2, <1>5, <2>5, ShowAdds DEF WindowKnown
    <3>2. e.run = q => e.seq \in LinesOf(view'.logs) \/ Displaced(q, e.seq)
      <4>1. CASE view'.logs = view.logs /\ ~(view.run = e.run /\ LastSeq < e.seq)
        <5>1. e.run = q => e.seq <= TopSeq(view.logs)
          <6>1. LastSeq \in Nat /\ e.seq \in Nat /\ TopSeq(view.logs) = LastSeq
            BY <1>2, LastIsLargest
            DEF StreamInv, Types, HookTypes, OrderInv, LastSeq, TopSeq, Events, Lines
          <6> QED
            BY <3>1, <4>1, <6>1
        <5> QED
          BY <1>2, <2>5, <3>1, <4>1, <5>1 DEF NoneSkipped
      <4> QED
        BY <1>2, <2>5, <4>1, ShowAdds
    <3>3. \A n \in 1 .. captured[q] :
            n \in LinesOf(view'.logs) \/ Coming(q, n)' \/ Displaced(q, n)
      BY <1>2, <2>2, <2>5, <3>1, <3>2, ShowAdds DEF Complete
    <3>4. Complete(q, view.logs)'
      BY <1>1, <3>3 DEF Complete, LinesOf, Displaced
    <3>5. ASSUME NEW i \in DOMAIN ring', ring'[i].kind = "log", ring'[i].run = q,
                 ring'[i].seq <= TopSeq(view'.logs)
          PROVE  ring'[i].seq \in LinesOf(view'.logs) \/ Displaced(q, ring'[i].seq)
      <4>1. i \in Nat /\ 1 < i + 1
        BY <1>2 DEF RingDrops
      <4>2. CASE view'.logs = view.logs
        BY <2>3, <3>1, <3>5, <4>2 DEF NoneSkipped
      <4>3. CASE view.run = e.run /\ TopSeq(view'.logs) = e.seq
        <5>1. e.seq < ring[i + 1].seq
          BY <1>2, <2>3, <2>5, <3>1, <3>5, <4>1, <4>3 DEF RingForm
        <5>2. e.seq \in Nat /\ ring[i + 1].seq \in Nat
          BY <1>0, <1>2, <2>3, <3>5, RingPlaces DEF Events, Lines
        <5> QED
          BY <2>3, <3>5, <4>3, <5>1, <5>2
      <4> QED
        BY <1>2, <2>5, <4>2, <4>3, ShowAdds
    <3>6. NoneSkipped(q, view.logs)'
      BY <1>1, <3>5 DEF NoneSkipped, LinesOf, TopSeq, Displaced
    <3> QED
      BY <2>1, <3>4, <3>6 DEF WindowKnown
  <2>6. CASE /\ view'.run = q /\ e.kind = "run_started"
             /\ view' = [run |-> e.run, logs |-> <<>>, ended |-> FALSE]
    <3>1. e.run = q /\ view'.logs = <<>>
      BY <2>6
    <3>2. \A n \in 1 .. captured[q] : Waits(q, n)'
      BY <1>1, <1>2, <1>5, <2>6, <3>1, WindowDrops DEF WindowKnown
    <3>3. Complete(q, view.logs)'
      BY <1>1, <3>2 DEF Complete, Coming
    <3>4. ASSUME NEW i \in DOMAIN ring', ring'[i].kind = "log", ring'[i].run = q
          PROVE  ~(ring'[i].seq <= 0)
      <4>1. ring'[i].seq \in 1 .. captured[q]
        BY <2>3, <3>4 DEF RingForm
      <4> QED
        BY <4>1
    <3>5. NoneSkipped(q, view.logs)'
      BY <3>1, <3>4 DEF NoneSkipped, TopSeq
    <3> QED
      BY <2>1, <3>3, <3>5 DEF WindowKnown
  <2>7. CASE /\ view'.run = q /\ e.kind = "run_ended" /\ blind' = blind
             /\ view' = [view EXCEPT !.ended = @ \/ view.run = e.run]
    <3>1. view'.logs = view.logs /\ view'.run = view.run
      BY <1>0, <2>7
    <3>2. Complete(q, view.logs) /\ NoneSkipped(q, view.logs)
      BY <1>1, <1>5, <2>7, <3>1 DEF WindowKnown
    <3>3. \A n \in 1 .. captured[q] :
            n \in LinesOf(view.logs) \/ Coming(q, n)' \/ Displaced(q, n)
      BY <2>2, <2>7, <3>2 DEF Complete
    <3>4. Complete(q, view.logs)'
      BY <1>1, <3>1, <3>3 DEF Complete, LinesOf, Displaced
    <3>5. NoneSkipped(q, view.logs)'
      BY <1>1, <2>3, <3>1, <3>2 DEF NoneSkipped, LinesOf, TopSeq, Displaced
    <3> QED
      BY <2>1, <3>4, <3>5 DEF WindowKnown
  <2> QED
    BY <1>4, <2>4, <2>5, <2>6, <2>7
<1> QED
  BY <1>1, <1>5 DEF WindowInv

LEMMA WindowStays ==
  ASSUME StreamInv, RingForm, LinesInv, WindowInv, [Next]_vars
  PROVE  WindowInv'
<1>1. ASSUME NEW r \in Runs, Execute(r) PROVE WindowInv'
  BY <1>1, WindowExecution
<1>2. 0 \notin Runs
  BY StreamAssumption DEF Runs
<1>3. CASE Connect
  <2>1. conn' = "subscribed" /\ initial'.run = 0 /\ DOMAIN ring' = {}
    BY <1>3 DEF Connect, Nothing
  <2> QED
    BY <1>2, <2>1 DEF WindowInv, WindowKnown, StartComplete, Following
<1>4. CASE ListRuns
  <2>1. /\ UNCHANGED <<captured, rows, ring, view, blind>>
        /\ \/ conn' = "listed" /\ initial' = initial
           \/ conn' = "open" /\ initial' = Idle
    BY <1>4 DEF ListRuns, runVars, hookVars
  <2>2. Idle.run = 0 /\ Idle # Nothing
    BY DEF Idle, Nothing
  <2>3. ~Following' /\ (initial' = initial \/ initial'.run = 0)
    BY <2>1, <2>2 DEF Following
  <2>4. ASSUME NEW q \in Runs, WindowKnown(q) PROVE WindowKnown(q)'
    <3>1. StartComplete(q)'
      BY <2>1, <2>4 DEF WindowKnown, StartComplete, AllBehind
    <3>2. initial'.run = q => Complete(q, initial.logs)'
      BY <1>2, <2>1, <2>3, <2>4
      DEF WindowKnown, Complete, Coming, Waits, LinesOf, Displaced
    <3> QED
      BY <2>3, <3>1, <3>2 DEF WindowKnown
  <2> QED
    BY <2>1, <2>4 DEF WindowInv
<1>5. ASSUME UNCHANGED <<captured, rows, conn, initial, ring, view, blind>>
      PROVE  WindowInv'
  <2>1. ASSUME NEW q \in Runs, WindowKnown(q) PROVE WindowKnown(q)'
    BY <1>5, <2>1
    DEF WindowKnown, StartComplete, AllBehind, Complete, NoneSkipped, Coming, Waits,
        Following, Displaced
  <2> QED
    BY <1>5, <2>1 DEF WindowInv
<1>6. CASE HandleReset \/ Render \/ \E r \in Runs : ListRunLogs(r)
  BY <1>5, <1>6 DEF HandleReset, Render, ListRunLogs, runVars, linkVars
<1>7. CASE UNCHANGED vars
  BY <1>5, <1>7 DEF vars
<1> QED
  BY <1>1, <1>3, <1>4, <1>6, <1>7, WindowLags, WindowSnapshot, WindowInitial, WindowEvent,
     WindowMerge, NextSteps
  DEF RouteStep, HookStep

\* Between snapshot and stream there is no window: every line captured of the
\* run that is shown is shown, on its way, or one that this connection could
\* not get; that is, up to the first stored row whose number is not that of
\* its line, which the limit, an overflow or a lag of the sink leaves behind.
THEOREM NoWindowHolds == Spec => []NoWindow
<1>1. Init => RingForm /\ LinesInv /\ WindowInv
  BY RingFormInit, LinesInvInit, WindowInvInit
<1>2. StreamInv /\ RingForm /\ LinesInv /\ WindowInv /\ [Next]_vars
        => RingForm' /\ LinesInv' /\ WindowInv'
  BY RingFormStays, LinesStay, WindowStays
<1>3. StreamInv /\ WindowInv => NoWindow
  <2>1. SUFFICES ASSUME StreamInv, WindowInv, Following, view.run # 0,
                        NEW n \in 1 .. captured[view.run]
                 PROVE  \/ n \in Shown
                        \/ <<view.run, n>> \in InRing \cup blind
                        \/ Displaced(view.run, n)
    BY DEF NoWindow
  <2>2. view.run \in Runs
    BY <2>1 DEF StreamInv, Types, HookTypes
  <2>3. Complete(view.run, view.logs)
    BY <2>1, <2>2 DEF WindowInv, WindowKnown
  <2>4. \/ n \in LinesOf(view.logs) \/ Waits(view.run, n)
        \/ <<view.run, n>> \in blind \/ Displaced(view.run, n)
    BY <2>1, <2>3 DEF Complete, Coming
  <2> QED
    BY <2>4 DEF LinesOf, Shown, Waits, InRing
<1> QED
  BY <1>1, <1>2, <1>3, StreamInvHolds, PTL DEF Spec

=============================================================================
