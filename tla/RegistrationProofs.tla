------------------------- MODULE RegistrationProofs -------------------------
(***************************************************************************)
(* The registration slot for any number of pollers and sessions, any       *)
(* interval and any lifetime.                                              *)
(*                                                                         *)
(* The inductive invariant adds to the types what the slot's bookkeeping   *)
(* says of the history: the time of the last poll and the backoffs in the  *)
(* interval are those of the session in the slot, and credentials are only *)
(* ever stored under the session they belong to.                           *)
(***************************************************************************)
EXTENDS Registration, TLAPS

\* What the slot knows of its session.
SlotInv ==
  /\ SlotTypeOK
  /\ asked \in (0 .. Lifetime) \cup {Never}
  /\ backoffs \in Nat
  /\ slot.polledAt = asked
  /\ slot.interval = Interval + backoffs
  /\ slot.credentials \in {0, slot.id}

CallsInv ==
  /\ CallsTypeOK
  /\ \A q \in Pollers : answer[q].credentials \in {0, answer[q].id}
  /\ \A q \in Pollers : poll[q].state # "idle" => poll[q].id \in Sessions

\* An answer to begin makes one session, once.
OnceBegun ==
  /\ slot.id \in 0 .. begun
  /\ arriving \subseteq 1 .. begun
  /\ slot.id \notin arriving

IInv ==
  /\ FeishuTypeOK
  /\ OnceBegun
  /\ SlotInv
  /\ CallsInv
  /\ restarts \in 0 .. MaxRestarts

USE RegistrationAssumption DEF Sessions, Never

LEMMA InitIInv == Init => IInv
  BY DEF Init, IInv, OnceBegun, FeishuTypeOK, SlotInv, SlotTypeOK, Slots, CallsInv,
         CallsTypeOK, NoSlot, NoPoll, Expired, Statuses

\* An empty slot and one with a new session.
LEMMA FreshSlot ==
  ASSUME NEW s \in Sessions \cup {0}, NEW status \in Statuses,
         slot' = [id |-> s, age |-> 0, interval |-> Interval,
                  polledAt |-> Never, status |-> status, credentials |-> 0],
         asked' = Never, backoffs' = 0
  PROVE  SlotInv'
<1>1. slot' \in Slots
  BY DEF Slots
<1>2. /\ slot'.interval = Interval + backoffs'
      /\ slot'.polledAt = asked'
      /\ slot'.credentials = 0
      /\ slot'.interval = Interval
  OBVIOUS
<1> QED
  BY <1>1, <1>2 DEF SlotInv, SlotTypeOK, Slots, Statuses

\* The slot after a reply about the session in it.
LEMMA AppliedSlot ==
  ASSUME SlotInv, NEW reply \in Statuses, slot.id \in Sessions,
         slot' = Applied(reply, slot.id),
         backoffs' = backoffs + Backoff(reply),
         asked' = asked
  PROVE  SlotInv' /\ slot'.id = slot.id
<1> DEFINE c == IF reply = "success" THEN slot.id ELSE slot.credentials
<1>1. Backoff(reply) \in Nat /\ c \in {0, slot.id}
  BY DEF Backoff, SlotInv
<1>2. slot' = [id |-> slot.id, age |-> slot.age,
               interval |-> slot.interval + Backoff(reply),
               polledAt |-> slot.polledAt, status |-> reply, credentials |-> c]
  BY DEF Applied, SlotInv, SlotTypeOK, Slots
<1> HIDE DEF c
<1>3. slot' \in Slots
  BY <1>1, <1>2 DEF SlotInv, SlotTypeOK, Slots
<1> QED
  BY <1>1, <1>2, <1>3 DEF SlotInv, SlotTypeOK, Slots, Statuses

\* An answer made from a slot is about the session of that slot.
LEMMA Answered ==
  ASSUME CallsInv, SlotInv, SlotInv', NEW q \in Pollers,
         NEW v, v \in {slot, slot'}, Respond(q, v)
  PROVE  /\ answer' \in [Pollers -> [id : Sessions \cup {0}, status : Statuses,
                                     credentials : Sessions \cup {0}]]
         /\ \A p \in Pollers : answer'[p].credentials \in {0, answer'[p].id}
<1> DEFINE a == [id |-> v.id, status |-> v.status, credentials |-> v.credentials]
<1>1. v \in Slots /\ v.credentials \in {0, v.id}
  BY DEF SlotInv, SlotTypeOK
<1>2. /\ a \in [id : Sessions \cup {0}, status : Statuses,
                credentials : Sessions \cup {0}]
      /\ a.credentials \in {0, a.id}
  BY <1>1 DEF Slots
<1>3. answer' = [answer EXCEPT ![q] = a]
  BY DEF Respond
<1> QED
  BY <1>2, <1>3 DEF CallsInv, CallsTypeOK

LEMMA AnsweredExpired ==
  ASSUME CallsInv, NEW q \in Pollers,
         answer' = [answer EXCEPT ![q] = Expired]
  PROVE  /\ answer' \in [Pollers -> [id : Sessions \cup {0}, status : Statuses,
                                     credentials : Sessions \cup {0}]]
         /\ \A p \in Pollers : answer'[p].credentials \in {0, answer'[p].id}
  BY DEF CallsInv, CallsTypeOK, Expired, Statuses

LEMMA Unchanged ==
  /\ FeishuTypeOK /\ UNCHANGED feishuVars => FeishuTypeOK'
  /\ SlotInv /\ UNCHANGED <<slot, historyVars>> => SlotInv'
  /\ CallsInv /\ UNCHANGED <<poll, answer>> => CallsInv'
  /\ OnceBegun /\ UNCHANGED <<begun, arriving>> /\ slot'.id = slot.id => OnceBegun'
  BY DEF FeishuTypeOK, feishuVars, SlotInv, SlotTypeOK, historyVars, CallsInv,
         CallsTypeOK, OnceBegun

LEMMA PollIInv ==
  ASSUME IInv, NEW q \in Pollers, NEW s \in Sessions, Poll(q, s)
  PROVE  IInv'
<1>1. FeishuTypeOK' /\ restarts' \in 0 .. MaxRestarts /\ backoffs' = backoffs
  BY Unchanged DEF Poll, IInv
<1> slot'.id = slot.id
  BY DEF Poll, PollUnknown, PollExpired, PollCached, Claim, IInv, SlotInv,
         SlotTypeOK, Slots
<1> OnceBegun'
  BY Unchanged DEF Poll, feishuVars, IInv
<1>2. CASE PollUnknown(q, s)
  <2>1. SlotInv'
    BY <1>1, <1>2, Unchanged DEF PollUnknown, historyVars, IInv
  <2>2. CallsInv'
    BY <1>2, AnsweredExpired DEF PollUnknown, CallsInv, CallsTypeOK, IInv
  <2> QED
    BY <1>1, <2>1, <2>2 DEF IInv
<1>3. CASE PollExpired(q, s)
  <2>1. SlotInv'
    BY <1>1, <1>3 DEF PollExpired, IInv, SlotInv, SlotTypeOK, Slots, Statuses
  <2>2. CallsInv'
    BY <1>3, <2>1, Answered DEF PollExpired, CallsInv, CallsTypeOK, IInv
  <2> QED
    BY <1>1, <2>1, <2>2 DEF IInv
<1>4. CASE PollCached(q, s)
  <2>1. SlotInv'
    BY <1>1, <1>4, Unchanged DEF PollCached, historyVars, IInv
  <2>2. CallsInv'
    BY <1>4, <2>1, Answered DEF PollCached, CallsInv, CallsTypeOK, IInv
  <2> QED
    BY <1>1, <2>1, <2>2 DEF IInv
<1>5. CASE Claim(q, s)
  <2>1. SlotInv'
    BY <1>1, <1>5 DEF Claim, Ask, IInv, SlotInv, SlotTypeOK, Slots
  <2>2. CallsInv'
    BY <1>5 DEF Claim, Ask, IInv, CallsInv, CallsTypeOK, NoPoll, Statuses
  <2> QED
    BY <1>1, <2>1, <2>2 DEF IInv
<1> QED
  BY <1>2, <1>3, <1>4, <1>5 DEF Poll

LEMMA UpstreamIInv ==
  ASSUME IInv, NEW q \in Pollers, Upstream(q)
  PROVE  IInv'
<1> DEFINE s == poll[q].id
<1>1. SlotInv' /\ OnceBegun' /\ restarts' \in 0 .. MaxRestarts
  BY Unchanged DEF Upstream, IInv
<1>2. PICK reply \in Replies(device[s]) :
        /\ poll' = [poll EXCEPT ![q] = [state |-> "replied", id |-> s,
                                         reply |-> reply]]
        /\ device' = IF reply = "success"
                     THEN [device EXCEPT ![s] = "used"] ELSE device
  BY DEF Upstream
<1>3. s \in Sessions
  BY DEF Upstream, IInv, CallsInv
<1>4. reply \in Statuses
  BY <1>2, <1>3 DEF IInv, FeishuTypeOK, Replies, Statuses
<1>5. FeishuTypeOK'
  BY <1>2 DEF Upstream, IInv, FeishuTypeOK
<1> DEFINE r == [state |-> "replied", id |-> s, reply |-> reply]
<1>6. r \in [state : {"idle", "asked", "replied"},
             id : Sessions \cup {0}, reply : Statuses] /\ r.id \in Sessions
  BY <1>3, <1>4
<1>7. poll' = [poll EXCEPT ![q] = r] /\ answer' = answer
  BY <1>2 DEF Upstream
<1> HIDE DEF r
<1>8. CallsInv'
  BY <1>6, <1>7 DEF IInv, CallsInv, CallsTypeOK, Statuses
<1> QED
  BY <1>1, <1>5, <1>8 DEF IInv

LEMMA ApplyIInv ==
  ASSUME IInv, NEW q \in Pollers, Apply(q)
  PROVE  IInv'
<1>1. FeishuTypeOK' /\ restarts' \in 0 .. MaxRestarts
  BY Unchanged DEF Apply, IInv
<1>2. /\ poll' \in [Pollers -> [state : {"idle", "asked", "replied"},
                                id : Sessions \cup {0}, reply : Statuses]]
      /\ \A p \in Pollers : poll'[p].state # "idle" => poll'[p].id \in Sessions
  BY DEF Apply, IInv, CallsInv, CallsTypeOK, NoPoll, Statuses
<1>3. CASE slot.id # poll[q].id
  <2>1. SlotInv'
    BY <1>3, Unchanged DEF Apply, historyVars, IInv
  <2>2. CallsInv'
    BY <1>2, <1>3, AnsweredExpired DEF Apply, CallsInv, CallsTypeOK, IInv
  <2> QED
    BY <1>1, <1>3, <2>1, <2>2, Unchanged DEF Apply, feishuVars, IInv
<1>4. CASE slot.id = poll[q].id
  <2>1. poll[q].reply \in Statuses /\ slot.id \in Sessions
    BY <1>4 DEF Apply, IInv, CallsInv, CallsTypeOK
  <2>2. SlotInv' /\ slot'.id = slot.id
    BY <1>4, <2>1, AppliedSlot DEF Apply, IInv
  <2>3. CallsInv'
    BY <1>2, <1>4, <2>2, Answered DEF Apply, CallsInv, CallsTypeOK, IInv
  <2> QED
    BY <1>1, <2>2, <2>3, Unchanged DEF Apply, feishuVars, IInv
<1> QED
  BY <1>3, <1>4

LEMMA NextIInv == IInv /\ [Next]_vars => IInv'
<1> SUFFICES ASSUME IInv, [Next]_vars PROVE IInv'
  OBVIOUS
<1>1. CASE AskForCode
  <2>1. FeishuTypeOK' /\ OnceBegun'
    BY <1>1 DEF AskForCode, NoSlot, IInv, FeishuTypeOK, OnceBegun
  <2> QED
    BY <1>1, <2>1, Unchanged DEF AskForCode, IInv
<1>2. CASE Tick
  <2>1. SlotInv' /\ slot'.id = slot.id
    BY <1>2 DEF Tick, historyVars, IInv, SlotInv, SlotTypeOK, Slots, Statuses
  <2> QED
    BY <1>2, <2>1, Unchanged DEF Tick, feishuVars, IInv
<1>3. CASE Restart
  <2>1. FeishuTypeOK' /\ OnceBegun'
    BY <1>3 DEF Restart, NoSlot, IInv, FeishuTypeOK, OnceBegun
  <2>2. SlotInv'
    BY <1>3, FreshSlot DEF Restart, NoSlot, Statuses
  <2>3. CallsInv'
    BY <1>3 DEF Restart, IInv, CallsInv, CallsTypeOK, NoPoll, Statuses
  <2> QED
    BY <1>3, <2>1, <2>2, <2>3 DEF Restart, IInv
<1>4. ASSUME NEW s \in Sessions, Begin(s) PROVE IInv'
  <2>1. FeishuTypeOK' /\ OnceBegun'
    BY <1>4 DEF Begin, NoSlot, IInv, FeishuTypeOK, OnceBegun
  <2>2. SlotInv'
    <3>1. slot' = [id |-> s, age |-> 0, interval |-> Interval,
                   polledAt |-> Never, status |-> "pending", credentials |-> 0]
      BY <1>4 DEF Begin, NoSlot
    <3> QED
      BY <1>4, <3>1, FreshSlot DEF Begin, Statuses
  <2> QED
    BY <1>4, <2>1, <2>2, Unchanged DEF Begin, IInv
<1>5. ASSUME NEW s \in Sessions, BeginFails(s) PROVE IInv'
  <2>1. FeishuTypeOK' /\ OnceBegun'
    BY <1>5 DEF BeginFails, NoSlot, IInv, FeishuTypeOK, OnceBegun
  <2> QED
    BY <1>5, <2>1, Unchanged DEF BeginFails, IInv
<1>6. ASSUME NEW s \in Sessions, Scan(s) PROVE IInv'
  <2>1. FeishuTypeOK'
    BY <1>6 DEF Scan, IInv, FeishuTypeOK
  <2> QED
    BY <1>6, <2>1, Unchanged DEF Scan, IInv
<1>7. ASSUME NEW q \in Pollers, UpstreamFails(q) PROVE IInv'
  <2>1. CallsInv'
    BY <1>7 DEF UpstreamFails, IInv, CallsInv, CallsTypeOK, NoPoll, Statuses
  <2> QED
    BY <1>7, <2>1, Unchanged DEF UpstreamFails, feishuVars, IInv
<1>8. CASE UNCHANGED vars
  BY <1>8, Unchanged DEF vars, feishuVars, IInv
<1>9. ASSUME NEW q \in Pollers, NEW s \in 1 .. begun, Poll(q, s) PROVE IInv'
  BY <1>9, PollIInv DEF IInv, FeishuTypeOK
<1> QED
  BY <1>1, <1>2, <1>3, <1>4, <1>5, <1>6, <1>7, <1>8, <1>9, UpstreamIInv,
     ApplyIInv DEF Next

LEMMA Invariance == Spec => []IInv
  BY InitIInv, NextIInv, PTL DEF Spec

-----------------------------------------------------------------------------
\* Every variable of the registration slot and of its callers has its type,
\* and the polling interval is never shorter than Feishu asked for.
THEOREM TypeCorrect == Spec => []TypeOK
<1>1. IInv => TypeOK
  BY DEF IInv, TypeOK, SlotInv, CallsInv
<1> QED
  BY <1>1, Invariance, PTL

\* No session and no answer is ever combined with the application of another
\* session (register.rs, poll and apply).
THEOREM CredentialsBelongHolds == Spec => []CredentialsBelong
<1>1. IInv => CredentialsBelong
  BY DEF IInv, SlotInv, CallsInv, CredentialsBelong
<1> QED
  BY <1>1, Invariance, PTL

\* Feishu is never asked sooner than it demands, however many clients poll
\* (register.rs, poll: the time is recorded before the request).
THEOREM PollsAreSpacedHolds == Spec => PollsAreSpaced
<1> DEFINE Spaced == \A q \in Pollers :
             (/\ poll[q].state = "idle"
              /\ poll'[q].state = "asked"
              /\ asked # Never) =>
               slot.age - asked >= Interval + backoffs
<1>1. ASSUME IInv, [Next]_vars PROVE [Spaced]_vars
  <2> SUFFICES ASSUME NEW q \in Pollers, poll[q].state = "idle",
                      poll'[q].state = "asked", asked # Never
               PROVE  slot.age - asked >= Interval + backoffs
    OBVIOUS
  <2>1. poll' # poll
    OBVIOUS
  <2>2. PICK p \in Pollers : \/ \E s \in 1 .. begun : Poll(p, s)
                             \/ Upstream(p)
                             \/ UpstreamFails(p)
                             \/ Apply(p)
                             \/ Restart
    BY <1>1, <2>1 DEF Next, vars, AskForCode, Tick, Begin, BeginFails, Scan
  <2>3. ~Restart /\ ~Upstream(p) /\ ~UpstreamFails(p) /\ ~Apply(p)
    BY <1>1 DEF Restart, Upstream, UpstreamFails, Apply, NoPoll, IInv,
                CallsInv, CallsTypeOK
  <2>4. PICK s \in 1 .. begun : Poll(p, s)
    BY <2>2, <2>3
  <2>5. DueForPoll
    BY <2>1, <2>4 DEF Poll, PollUnknown, PollExpired, PollCached, Claim, Ask
  <2> QED
    BY <1>1, <2>5 DEF DueForPoll, IInv, SlotInv
<1> QED
  BY <1>1, Invariance, PTL DEF Spec, PollsAreSpaced

\* Credentials that arrived are not lost to overlapping or late replies
\* (register.rs, apply).
THEOREM CredentialsKeptHolds == Spec => CredentialsKept
<1> DEFINE Kept == (slot'.id = slot.id /\ slot.credentials # 0) =>
                     (slot'.credentials = slot.credentials \/ IsExpired)
<1>1. ASSUME IInv, [Next]_vars PROVE [Kept]_vars
  <2> SUFFICES ASSUME slot'.id = slot.id, slot.credentials # 0, ~IsExpired
               PROVE  slot'.credentials = slot.credentials
    OBVIOUS
  <2>1. slot \in Slots /\ slot.credentials = slot.id /\ slot.id # 0
    BY <1>1 DEF IInv, SlotInv, SlotTypeOK
  <2>2. CASE Tick
    BY <2>1, <2>2 DEF Tick, Slots
  <2>3. CASE Restart
    BY <2>1, <2>3 DEF Restart, NoSlot
  <2>4. ~ \E s \in Sessions : Begin(s)
    BY <1>1 DEF Begin, NoSlot, IInv, OnceBegun
  <2>5. ASSUME NEW q \in Pollers, NEW s \in 1 .. begun, Poll(q, s)
        PROVE  slot'.credentials = slot.credentials
    BY <2>1, <2>5 DEF Poll, PollUnknown, PollExpired, PollCached, Claim, Ask,
                      Slots
  <2>6. ASSUME NEW q \in Pollers, Apply(q)
        PROVE  slot'.credentials = slot.credentials
    BY <2>1, <2>6 DEF Apply, Applied, Slots
  <2> QED
    BY <1>1, <2>2, <2>3, <2>4, <2>5, <2>6
       DEF Next, vars, AskForCode, BeginFails, Scan, Upstream, UpstreamFails
<1> QED
  BY <1>1, Invariance, PTL DEF Spec, CredentialsKept

=============================================================================
