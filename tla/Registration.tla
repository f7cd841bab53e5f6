---------------------------- MODULE Registration ----------------------------
(***************************************************************************)
(* Creating a Feishu application by scanning a code (OAuth device          *)
(* authorization): the single slot of registration sessions, begin and     *)
(* poll of src/src/notification/register.rs.                               *)
(*                                                                         *)
(* The slot's mutex is not held across the HTTP calls, so a session may be *)
(* replaced, expire or be polled by someone else while a call is under     *)
(* way.  Time is counted in ticks of five seconds from the start of the    *)
(* session in the slot.  Feishu itself is external.                        *)
(***************************************************************************)
EXTENDS Integers

CONSTANTS
  Pollers,      \* requests that may poll at the same time
  MaxSessions,  \* bound: registrations begun
  Interval,     \* the polling interval Feishu asks for, in ticks
  Lifetime,     \* expires_in, in ticks
  MaxRestarts   \* bound: restarts of the process

ASSUME RegistrationAssumption ==
  /\ MaxSessions \in Nat
  /\ Interval \in Nat \ {0}
  /\ Lifetime \in Nat
  /\ MaxRestarts \in Nat

Sessions == 1 .. MaxSessions
Never    == -1

VARIABLES
  begun,     \* registrations Feishu has begun; each has its own device code
  arriving,  \* those whose answer the server has not received yet
  device,    \* what the administrator did with each device code
  slot,      \* RegistrationSlot
  poll,      \* what each poller is doing
  answer,    \* the last status each poller was given
  asked,     \* history: when Feishu was last asked about the slot's session
  backoffs,  \* history: slow_down replies to the slot's session
  restarts

feishuVars  == <<begun, arriving, device>>
historyVars == <<asked, backoffs>>
vars == <<feishuVars, slot, poll, answer, historyVars, restarts>>

Statuses == {"pending", "slow_down", "success", "denied", "expired"}
Terminal == {"success", "denied", "expired"}

NoSlot == [id |-> 0, age |-> 0, interval |-> Interval, polledAt |-> Never,
           status |-> "expired", credentials |-> 0]

NoPoll == [state |-> "idle", id |-> 0, reply |-> "pending"]

\* StatusResponse::expired.  credentials is the session whose application
\* they belong to, or 0; an answer remembers the session it is about.
Expired == [id |-> 0, status |-> "expired", credentials |-> 0]

Slots ==
  [id : Sessions \cup {0}, age : 0 .. Lifetime, interval : Nat,
   polledAt : (0 .. Lifetime) \cup {Never}, status : Statuses,
   credentials : Sessions \cup {0}]

FeishuTypeOK ==
  /\ begun \in 0 .. MaxSessions
  /\ arriving \in SUBSET Sessions
  /\ device \in [Sessions -> {"waiting", "approved", "denied", "used"}]

SlotTypeOK ==
  /\ slot \in Slots
  /\ slot.interval >= Interval

CallsTypeOK ==
  /\ poll \in [Pollers -> [state : {"idle", "asked", "replied"},
                           id : Sessions \cup {0}, reply : Statuses]]
  /\ answer \in [Pollers -> [id : Sessions \cup {0}, status : Statuses,
                             credentials : Sessions \cup {0}]]

TypeOK ==
  /\ FeishuTypeOK
  /\ SlotTypeOK
  /\ CallsTypeOK
  /\ asked \in (0 .. Lifetime) \cup {Never}
  /\ backoffs \in Nat
  /\ restarts \in 0 .. MaxRestarts

Init ==
  /\ begun = 0
  /\ arriving = {}
  /\ device = [s \in Sessions |-> "waiting"]
  /\ slot = NoSlot
  /\ poll = [q \in Pollers |-> NoPoll]
  /\ answer = [q \in Pollers |-> Expired]
  /\ asked = Never
  /\ backoffs = 0
  /\ restarts = 0

-----------------------------------------------------------------------------
\* begin_request: Feishu hands out a device code, or nothing changes.
AskForCode ==
  /\ begun < MaxSessions
  /\ begun' = begun + 1
  /\ arriving' = arriving \cup {begun + 1}
  /\ UNCHANGED <<device, slot, poll, answer, historyVars, restarts>>

\* begin: the new session replaces the one in the slot.
Begin(s) ==
  /\ s \in arriving
  /\ arriving' = arriving \ {s}
  /\ slot' = [NoSlot EXCEPT !.id = s, !.status = "pending"]
  /\ asked' = Never
  /\ backoffs' = 0
  /\ UNCHANGED <<begun, device, poll, answer, restarts>>

\* The answer is lost, or the browser that waited for it is gone.
BeginFails(s) ==
  /\ s \in arriving
  /\ arriving' = arriving \ {s}
  /\ UNCHANGED <<begun, device, slot, poll, answer, historyVars, restarts>>

\* The administrator scans the code that is shown, and agrees or does not.
Scan(s) ==
  /\ s <= begun
  /\ s \notin arriving
  /\ device[s] = "waiting"
  /\ \E d \in {"approved", "denied"} : device' = [device EXCEPT ![s] = d]
  /\ UNCHANGED <<begun, arriving, slot, poll, answer, historyVars, restarts>>

Tick ==
  /\ slot.id # 0
  /\ slot.age < Lifetime
  /\ slot' = [slot EXCEPT !.age = @ + 1]
  /\ UNCHANGED <<feishuVars, poll, answer, historyVars, restarts>>

IsExpired  == slot.age >= Lifetime
DueForPoll == slot.polledAt = Never \/ slot.age - slot.polledAt >= slot.interval

\* Session::response of slot value v.
Respond(q, v) ==
  answer' = [answer EXCEPT ![q] = [id |-> v.id, status |-> v.status,
                                   credentials |-> v.credentials]]

-----------------------------------------------------------------------------
(***************************************************************************)
(* poll, up to the HTTP call.                                              *)
(***************************************************************************)

\* No session, or another one.
PollUnknown(q, s) ==
  /\ slot.id # s
  /\ answer' = [answer EXCEPT ![q] = Expired]
  /\ UNCHANGED <<slot, poll, asked>>

PollExpired(q, s) ==
  /\ slot.id = s
  /\ IsExpired
  /\ slot' = [slot EXCEPT !.status = "expired", !.credentials = 0]
  /\ Respond(q, slot')
  /\ UNCHANGED <<poll, asked>>

PollCached(q, s) ==
  /\ slot.id = s
  /\ ~IsExpired
  /\ slot.status \in Terminal \/ ~DueForPoll
  /\ Respond(q, slot)
  /\ UNCHANGED <<slot, poll, asked>>

Ask(q, s) ==
  /\ slot.id = s
  /\ ~IsExpired
  /\ slot.status \notin Terminal
  /\ DueForPoll
  /\ poll' = [poll EXCEPT ![q] = [NoPoll EXCEPT !.state = "asked", !.id = s]]
  /\ asked' = slot.age
  /\ UNCHANGED answer

\* Mutant: the poll is not recorded before the request.
ClaimUnrecorded(q, s) == Ask(q, s) /\ UNCHANGED slot

\* The time of the poll is recorded before the request.
Claim(q, s) == Ask(q, s) /\ slot' = [slot EXCEPT !.polledAt = slot.age]

Poll(q, s) ==
  /\ poll[q].state = "idle"
  /\ \/ PollUnknown(q, s)
     \/ PollExpired(q, s)
     \/ PollCached(q, s)
     \/ Claim(q, s)
  /\ UNCHANGED <<feishuVars, backoffs, restarts>>

-----------------------------------------------------------------------------
(***************************************************************************)
(* The HTTP call and what follows it.                                      *)
(***************************************************************************)

\* What parse_poll_body makes of Feishu's answer, which may lag behind the
\* scan; any other error reads as pending.  Feishu is external, so this is
\* assumed: a code is good for one answer with credentials.
Replies(d) ==
  CASE d = "waiting"  -> {"pending", "slow_down", "expired"}
    [] d = "approved" -> {"success", "pending", "slow_down", "expired"}
    [] d = "denied"   -> {"denied", "pending", "slow_down", "expired"}
    [] d = "used"     -> {"pending", "slow_down", "expired"}

Upstream(q) ==
  /\ poll[q].state = "asked"
  /\ LET s == poll[q].id IN
       \E reply \in Replies(device[s]) :
         /\ poll' = [poll EXCEPT ![q] = [state |-> "replied", id |-> s,
                                         reply |-> reply]]
         /\ device' = IF reply = "success"
                      THEN [device EXCEPT ![s] = "used"] ELSE device
  /\ UNCHANGED <<begun, arriving, slot, answer, historyVars, restarts>>

\* The call fails (poll_request(..).await?), or the browser hangs up.
UpstreamFails(q) ==
  /\ poll[q].state = "asked"
  /\ poll' = [poll EXCEPT ![q] = NoPoll]
  /\ UNCHANGED <<feishuVars, slot, answer, historyVars, restarts>>

\* What a reply adds to the interval.
Backoff(reply) == IF reply = "slow_down" THEN 1 ELSE 0

\* Mutant: a reply without credentials clears them.
AppliedForgetting(reply, s) ==
  [slot EXCEPT
    !.status = reply,
    !.interval = @ + Backoff(reply),
    !.credentials = IF reply = "success" THEN s ELSE 0]

\* Session::apply.
Applied(reply, s) ==
  [slot EXCEPT
    !.status = reply,
    !.interval = @ + Backoff(reply),
    !.credentials = IF reply = "success" THEN s ELSE @]

\* Mutant: whatever session is in the slot by now.
ApplyToAny(q) ==
  /\ poll[q].state = "replied"
  /\ poll' = [poll EXCEPT ![q] = NoPoll]
  /\ slot' = Applied(poll[q].reply, poll[q].id)
  /\ backoffs' = backoffs + Backoff(poll[q].reply)
  /\ Respond(q, slot')
  /\ UNCHANGED <<feishuVars, asked, restarts>>

Apply(q) ==
  /\ poll[q].state = "replied"
  /\ poll' = [poll EXCEPT ![q] = NoPoll]
  /\ \/ /\ slot.id # poll[q].id
        /\ answer' = [answer EXCEPT ![q] = Expired]
        /\ UNCHANGED <<slot, backoffs>>
     \/ /\ slot.id = poll[q].id
        /\ slot' = Applied(poll[q].reply, poll[q].id)
        /\ backoffs' = backoffs + Backoff(poll[q].reply)
        /\ Respond(q, slot')
  /\ UNCHANGED <<feishuVars, asked, restarts>>

\* The slot lives in memory only.
Restart ==
  /\ restarts < MaxRestarts
  /\ restarts' = restarts + 1
  /\ slot' = NoSlot
  /\ arriving' = {}
  /\ poll' = [q \in Pollers |-> NoPoll]
  /\ asked' = Never
  /\ backoffs' = 0
  /\ UNCHANGED <<begun, device, answer>>

Next ==
  \/ AskForCode
  \/ Tick
  \/ Restart
  \/ \E s \in Sessions : Begin(s) \/ BeginFails(s) \/ Scan(s)
  \/ \E q \in Pollers :
       \/ \E s \in 1 .. begun : Poll(q, s)
       \/ Upstream(q)
       \/ UpstreamFails(q)
       \/ Apply(q)

Spec == Init /\ [][Next]_vars

-----------------------------------------------------------------------------
(***************************************************************************)
(* Properties.                                                             *)
(***************************************************************************)

\* Neither the slot nor an answer ever combines a session with the
\* application of another one, however late a reply comes (the second look
\* at session.id in poll).
CredentialsBelong ==
  /\ slot.credentials \in {0, slot.id}
  /\ \A q \in Pollers : answer[q].credentials \in {0, answer[q].id}

\* Feishu is asked again about a session only after the interval and all the
\* backoffs it demanded, however many clients poll and however their calls
\* overlap or fail (last_poll_at is set before the request; slow_down adds
\* to the interval).
PollsAreSpaced ==
  [][\A q \in Pollers :
       (/\ poll[q].state = "idle"
        /\ poll'[q].state = "asked"
        /\ asked # Never) =>
         slot.age - asked >= Interval + backoffs]_vars

\* Credentials that arrived stay in the slot until the session expires or is
\* replaced, whatever overlapping or late replies say: a code yields them
\* only once (Session::apply).
CredentialsKept ==
  [][(slot'.id = slot.id /\ slot.credentials # 0) =>
       (slot'.credentials = slot.credentials \/ IsExpired)]_vars

=============================================================================
