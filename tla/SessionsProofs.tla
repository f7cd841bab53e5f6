--------------------------- MODULE SessionsProofs ---------------------------
(***************************************************************************)
(* Accounts and logins for any number of browsers, names and passwords.    *)
(*                                                                         *)
(* That there is one user is inductive as it stands: the only statement    *)
(* that adds one looks at the table itself.  The reasons for the end of a  *)
(* login need only that every browser has a cookie and a request.          *)
(***************************************************************************)
EXTENDS Sessions, FiniteSetTheorems, TLAPS

Functions ==
  /\ DOMAIN cookie = Clients /\ cookie = [c \in Clients |-> cookie[c]]
  /\ DOMAIN call = Clients

AtMostOne == \E n : DOMAIN user \subseteq {n}

IInv == Functions /\ AtMostOne

LEMMA InitIInv == Init => IInv
<1> SUFFICES ASSUME Init PROVE IInv
  OBVIOUS
<1>1. Functions
  BY DEF Init, Functions
<1>2. DOMAIN user = {}
  BY DEF Init
<1> QED
  BY <1>1, <1>2 DEF IInv, AtMostOne

\* A step changes the cookies and requests of one browser at most.
LEMMA FunctionsStay == Functions /\ [Next]_vars => Functions'
<1> SUFFICES ASSUME Functions, [Next]_vars PROVE Functions'
  OBVIOUS
<1> USE DEF Functions
<1>1. CASE UNCHANGED vars
  BY <1>1 DEF vars
<1>2. ASSUME NEW c \in Clients, NEW n \in Names, NEW p \in Passwords,
             CreateUser(c, n, p) \/ Login(c, n, p)
      PROVE  Functions'
  BY <1>2 DEF CreateUser, Login
<1>3. ASSUME NEW c \in Clients, CreateSession(c) PROVE Functions'
  BY <1>3 DEF CreateSession, Answer
<1>4. ASSUME NEW c \in Clients, Logout(c) PROVE Functions'
  BY <1>4 DEF Logout
<1>5. ASSUME NEW c \in Clients, ReadBack(c) \/ LoginRead(c) \/ Verify(c)
      PROVE  Functions'
  BY <1>5 DEF ReadBack, LoginRead, Verify, Answer, To
<1>6. ASSUME NEW c \in Clients, NEW old, NEW new, Request(c, old, new)
      PROVE  Functions'
  BY <1>6 DEF Request
<1>7. ASSUME NEW c \in Clients, NEW next, SessionUser(c, next)
      PROVE  Functions'
  BY <1>7 DEF SessionUser, Answer
<1>8. ASSUME NEW c \in Clients,
             WritePassword(c) \/ RevokeOthers(c) \/ Disconnect(c)
      PROVE  Functions'
  BY <1>8 DEF WritePassword, RevokeOthers, Disconnect, Answer, To
<1>9. ASSUME NEW t \in Tokens, Expire(t) PROVE Functions'
  BY <1>9 DEF Expire
<1> QED
  BY <1>1, <1>2, <1>3, <1>4, <1>5, <1>6, <1>7, <1>8, <1>9
     DEF Next, Authenticate, Check

LEMMA AtMostOneStays == AtMostOne /\ [Next]_vars => AtMostOne'
<1> SUFFICES ASSUME AtMostOne, [Next]_vars PROVE AtMostOne'
  OBVIOUS
<1>1. ASSUME NEW c \in Clients, NEW n \in Names, NEW p \in Passwords,
             CreateUser(c, n, p)
      PROVE  AtMostOne'
  <2>1. CASE InsertUser(n, p)
    BY <2>1 DEF InsertUser, AtMostOne
  <2>2. CASE user' = user
    BY <2>2 DEF AtMostOne
  <2> QED
    BY <1>1, <2>1, <2>2 DEF CreateUser
<1>2. ASSUME NEW c \in Clients, WritePassword(c) PROVE AtMostOne'
  <2>1. DOMAIN user' = DOMAIN user
    BY <1>2 DEF WritePassword
  <2> QED
    BY <2>1 DEF AtMostOne
<1>3. CASE UNCHANGED user
  BY <1>3 DEF AtMostOne
<1> QED
  BY <1>1, <1>2, <1>3
     DEF Next, vars, tables, Login, ReadBack, LoginRead, CreateSession, Logout,
         Request, Authenticate, Check, SessionUser, Verify, RevokeOthers,
         Disconnect, Expire

LEMMA Invariance == Spec => []IInv
<1>1. IInv /\ [Next]_vars => IInv'
  BY FunctionsStay, AtMostOneStays DEF IInv
<1> QED
  BY InitIInv, <1>1, PTL DEF Spec

-----------------------------------------------------------------------------
\* However many browsers initialise the system at once, it gets one user
\* (routes/auth.rs, init).
THEOREM OneUserHolds == Spec => []OneUser
<1>1. IInv => OneUser
  <2> SUFFICES ASSUME NEW n, DOMAIN user \subseteq {n}
               PROVE  Cardinality(DOMAIN user) <= 1
    BY DEF IInv, AtMostOne, OneUser
  <2>1. IsFiniteSet({n}) /\ Cardinality({n}) = 1
    BY FS_Singleton
  <2> QED
    BY <2>1, FS_Subset
<1> QED
  BY <1>1, Invariance, PTL

\* No login ends through the change of the password it made itself, or
\* through another browser's logout (routes/auth.rs, auth/mod.rs).
THEOREM LoginsEndForAReasonHolds == Spec => LoginsEndForAReason
<1> DEFINE Reason(t) ==
      \/ t \in expired
      \/ \E c \in Clients : cookie[c] = t /\ cookie'[c] = NoToken
      \/ \E c \in Clients : call[c].step = "revoke" /\ call[c].token # t
<1>1. ASSUME Functions, [Next]_vars,
             NEW t \in DOMAIN session \ DOMAIN session'
      PROVE  Reason(t)
  <2>1. ASSUME NEW set, session' = Without(set) PROVE t \in set
    BY <2>1 DEF Without
  <2>2. ASSUME NEW c \in Clients, NEW n \in Names, NEW p \in Passwords,
               Login(c, n, p)
        PROVE  t \in expired
    BY <2>1, <2>2 DEF Login
  <2>3. ASSUME NEW c \in Clients, CreateSession(c) PROVE FALSE
    BY <2>3 DEF CreateSession, Stored
  <2>4. ASSUME NEW c \in Clients, Logout(c)
        PROVE  cookie[c] = t /\ cookie'[c] = NoToken
    BY <1>1, <2>1, <2>4 DEF Logout, Functions
  <2>5. ASSUME NEW c \in Clients, NEW next, SessionUser(c, next)
        PROVE  t \in expired
    BY <2>1, <2>5 DEF SessionUser
  <2>6. ASSUME NEW c \in Clients, RevokeOthers(c)
        PROVE  call[c].step = "revoke" /\ call[c].token # t
    BY <2>1, <2>6 DEF RevokeOthers, OtherSessions
  <2>7. session' # session
    OBVIOUS
  <2> QED
    BY <1>1, <2>2, <2>3, <2>4, <2>5, <2>6, <2>7
       DEF Next, vars, tables, CreateUser, ReadBack, LoginRead, Request,
           Authenticate, Check, Verify, WritePassword, Disconnect, Expire
<1>2. IInv /\ [Next]_vars =>
        [\A t \in DOMAIN session \ DOMAIN session' : Reason(t)]_vars
  BY <1>1 DEF IInv
<1> QED
  BY <1>2, Invariance, PTL DEF Spec, LoginsEndForAReason

-----------------------------------------------------------------------------
(***************************************************************************)
(* The logins that a change of the password leaves.                        *)
(***************************************************************************)

\* Sessions and the requests that got as far as a name belong to the user.
Known ==
  /\ \A t \in DOMAIN session : session[t].user \in DOMAIN user
  /\ \A c \in Clients :
       call[c].step \in {"read", "created", "check", "verify", "write", "revoke"}
         => call[c].name \in DOMAIN user
  /\ \A c \in Clients :
       call[c].step \in {"check", "verify", "write"} => call[c].new # Nobody

\* A login of before the last change that nothing excuses.
Overdue(t) == session[t].seen # version /\ t # kept /\ ~session[t].late

\* Such a login is only left as long as the last change is going to revoke
\* it: an earlier change that is still revoking may not be the one.
Revoked ==
  \/ halfDone
  \/ \A t \in DOMAIN session : ~Overdue(t)
  \/ \E c \in Clients : call[c].step = "revoke" /\ call[c].token = kept

Steps == {"idle", "created", "read", "login", "auth", "check", "verify", "write", "revoke"}

Calls == [step : Steps, token : 0 .. issued, name : Names \cup {Nobody},
          old : Passwords \cup {Nobody}, new : Passwords \cup {Nobody}, seen : Nat]

\* TypeOK, with the tables as the provers use them.
Types ==
  /\ DOMAIN user \subseteq Names /\ user \in [DOMAIN user -> Passwords]
  /\ issued \in 0 .. MaxTokens
  /\ DOMAIN session \subseteq 1 .. issued /\ session \in [DOMAIN session -> Rows]
  /\ expired \subseteq 1 .. issued
  /\ cookie \in [Clients -> 0 .. issued]
  /\ call \in [Clients -> Calls]
  /\ version \in Nat /\ kept \in 0 .. issued
  /\ halfDone \in BOOLEAN /\ errors \in 0 .. MaxErrors

TypeInv  == Types /\ Known
LoginInv == IInv /\ TypeInv /\ Revoked

LEMMA TypesAreTypes == Types => TypeOK
BY DEF Types, TypeOK, Calls, Steps

LEMMA KnownStays == TypeInv /\ [Next]_vars => Known'
<1> SUFFICES ASSUME TypeInv, [Next]_vars PROVE Known'
  OBVIOUS
<1>0. call \in [Clients -> Calls] /\ Known
  BY DEF TypeInv, Types
<1> USE <1>0 DEF Known, Calls
<1>1. CASE UNCHANGED vars
  BY <1>1 DEF vars, tables
<1>2. ASSUME NEW c \in Clients, NEW n \in Names, NEW p \in Passwords, CreateUser(c, n, p)
      PROVE  Known'
  <2>1. UNCHANGED session
    BY <1>2 DEF CreateUser
  <2>2. CASE InsertUser(n, p) /\ call' = [call EXCEPT ![c] = [NoCall EXCEPT !.step = "read", !.name = n]]
    <3>1. DOMAIN user = {} /\ n \in DOMAIN user'
      BY <2>2 DEF InsertUser
    <3> QED
      BY <2>1, <2>2, <3>1 DEF NoCall
  <2>3. CASE UNCHANGED <<user, call>>
    BY <2>1, <2>3
  <2> QED
    BY <1>2, <2>2, <2>3 DEF CreateUser
<1>3. ASSUME NEW c \in Clients, NEW n \in Names, NEW p \in Passwords, Login(c, n, p)
      PROVE  Known'
  BY <1>3 DEF Login, NoCall, Without
<1>4. ASSUME NEW c \in Clients, CreateSession(c) PROVE Known'
  <2>1. call[c].name \in DOMAIN user /\ user' = user /\ call' = [call EXCEPT ![c] = NoCall]
    BY <1>4 DEF CreateSession, Answer
  <2>2. \A t \in DOMAIN session' : session'[t].user \in DOMAIN user
    BY <1>4, <2>1 DEF CreateSession, Stored
  <2> QED
    BY <2>1, <2>2 DEF NoCall
<1>5. ASSUME NEW c \in Clients, Logout(c) PROVE Known'
  BY <1>5 DEF Logout, Without
<1>6. ASSUME NEW c \in Clients, ReadBack(c) \/ LoginRead(c) \/ Verify(c)
      PROVE  Known'
  BY <1>6 DEF ReadBack, LoginRead, Verify, Verified, Answer, To, NoCall, tables
<1>7. ASSUME NEW c \in Clients, NEW old, NEW new, Request(c, old, new)
      PROVE  Known'
  BY <1>7 DEF Request, NoCall, tables
<1>8. ASSUME NEW c \in Clients, NEW next, SessionUser(c, next),
             next \in {"check", "verify", "write"} => call[c].new # Nobody
      PROVE  Known'
  <2>1. user' = user /\ \A t \in DOMAIN session' : t \in DOMAIN session /\ session'[t] = session[t]
    BY <1>8 DEF SessionUser, Without
  <2>2. \/ call' = [call EXCEPT ![c] = NoCall]
        \/ /\ call[c].token \in DOMAIN session
           /\ call' = [call EXCEPT ![c].step = next,
                                   ![c].name = session[call[c].token].user]
    BY <1>8 DEF SessionUser, Answer
  <2>3. CASE call' = [call EXCEPT ![c] = NoCall]
    BY <2>1, <2>3 DEF NoCall
  <2>4. CASE /\ call[c].token \in DOMAIN session
             /\ call' = [call EXCEPT ![c].step = next,
                                     ![c].name = session[call[c].token].user]
    <3>1. call'[c].step = next /\ call'[c].new = call[c].new /\ call'[c].name \in DOMAIN user
      BY <2>4
    <3>2. \A d \in Clients : d # c => call'[d] = call[d]
      BY <2>4
    <3> QED
      BY <1>8, <2>1, <3>1, <3>2
  <2> QED
    BY <2>2, <2>3, <2>4
<1>9. ASSUME NEW c \in Clients, WritePassword(c) PROVE Known'
  BY <1>9 DEF WritePassword, Answer, To, NoCall
<1>10. ASSUME NEW c \in Clients, RevokeOthers(c) \/ Disconnect(c) PROVE Known'
  BY <1>10 DEF RevokeOthers, Disconnect, Answer, NoCall, Without, tables
<1>11. ASSUME NEW t \in Tokens, Expire(t) PROVE Known'
  BY <1>11 DEF Expire, tables
<1>12. ASSUME NEW c \in Clients, Authenticate(c) PROVE Known'
  BY <1>8, <1>12 DEF Authenticate
<1>13. ASSUME NEW c \in Clients, Check(c) PROVE Known'
  BY <1>8, <1>13 DEF Check
<1> QED
  BY <1>1, <1>2, <1>3, <1>4, <1>5, <1>6, <1>7, <1>9, <1>10, <1>11, <1>12, <1>13
     DEF Next

LEMMA TypeStays == TypeInv /\ [Next]_vars => Types'
<1> SUFFICES ASSUME TypeInv, [Next]_vars PROVE Types'
  OBVIOUS
<1>0. /\ DOMAIN user \subseteq Names /\ user \in [DOMAIN user -> Passwords]
      /\ issued \in 0 .. MaxTokens
      /\ DOMAIN session \subseteq 1 .. issued /\ session \in [DOMAIN session -> Rows]
      /\ expired \subseteq 1 .. issued
      /\ cookie \in [Clients -> 0 .. issued]
      /\ call \in [Clients -> Calls]
      /\ version \in Nat /\ kept \in 0 .. issued
      /\ halfDone \in BOOLEAN /\ errors \in 0 .. MaxErrors
      /\ Known /\ MaxErrors \in Nat /\ MaxTokens \in Nat
  BY SessionsAssumption DEF TypeInv, Types
<1>1. \A set : /\ DOMAIN Without(set) \subseteq 1 .. issued
               /\ Without(set) \in [DOMAIN Without(set) -> Rows]
  BY <1>0 DEF Without
<1>2. NoCall \in Calls /\ \A c \in Clients : Answer(c) => call' \in [Clients -> Calls]
  BY <1>0 DEF NoCall, Calls, Steps, NoToken, Answer
<1>3. (Works \/ DbError) => errors' \in 0 .. MaxErrors
  BY <1>0 DEF Works, DbError
<1>4. \A c \in Clients : call[c] \in Calls
  BY <1>0
<1>5. CASE UNCHANGED vars
  BY <1>0, <1>5 DEF vars, tables, history, Calls, Types
<1>6. ASSUME UNCHANGED issued,
             DOMAIN user' \subseteq Names, user' \in [DOMAIN user' -> Passwords],
             DOMAIN session' \subseteq 1 .. issued, session' \in [DOMAIN session' -> Rows],
             expired' \subseteq 1 .. issued, cookie' \in [Clients -> 0 .. issued],
             call' \in [Clients -> Calls], version' \in Nat, kept' \in 0 .. issued,
             halfDone' \in BOOLEAN, Works \/ DbError
      PROVE  Types'
  BY <1>0, <1>3, <1>6 DEF Calls, Types
<1>7. ASSUME NEW c \in Clients, NEW n \in Names, NEW p \in Passwords, CreateUser(c, n, p)
      PROVE  Types'
  <2>2. DOMAIN user' \subseteq Names /\ user' \in [DOMAIN user' -> Passwords]
    BY <1>0, <1>7 DEF CreateUser, InsertUser
  <2>3. [NoCall EXCEPT !.step = "read", !.name = n] \in Calls
    BY <1>2 DEF NoCall, Calls, Steps
  <2>4. call' \in [Clients -> Calls]
    BY <1>0, <1>7, <2>3 DEF CreateUser
  <2> QED
    BY <1>0, <1>6, <1>7, <2>2, <2>4 DEF CreateUser, history
<1>8. ASSUME NEW c \in Clients, NEW n \in Names, NEW p \in Passwords, Login(c, n, p)
      PROVE  Types'
  <2>1. call' \in [Clients -> Calls]
    BY <1>0, <1>2, <1>8 DEF Login, NoCall, Calls, Steps
  <2> QED
    BY <1>0, <1>1, <1>6, <1>8, <2>1 DEF Login, history
<1>9. ASSUME NEW c \in Clients, CreateSession(c)
      PROVE  Types'
  <2>1. /\ issued' \in 0 .. MaxTokens /\ issued' = issued + 1
        /\ call' = [call EXCEPT ![c] = NoCall] /\ UNCHANGED <<user, expired, version, kept, halfDone>>
        /\ errors' \in 0 .. MaxErrors
    BY <1>0, <1>3, <1>9 DEF CreateSession, Answer, history
  <2>2. Stored(c, issued') \in [DOMAIN session \cup {issued'} -> Rows]
    BY <1>0, <1>4, <1>9 DEF Stored, Rows, CreateSession, Known, Calls
  <2>3. DOMAIN session' \subseteq 1 .. issued' /\ session' \in [DOMAIN session' -> Rows]
    BY <1>0, <1>9, <2>1, <2>2 DEF CreateSession
  <2>4. cookie' \in [Clients -> 0 .. issued']
    BY <1>0, <1>9, <2>1 DEF CreateSession
  <2>5. call' \in [Clients -> Calls']
    BY <1>0, <1>2, <2>1 DEF Calls
  <2> QED
    BY <1>0, <2>1, <2>3, <2>4, <2>5 DEF Types
<1>10. ASSUME NEW c \in Clients, Logout(c)
       PROVE  Types'
  <2>1. cookie' \in [Clients -> 0 .. issued]
    BY <1>0, <1>10 DEF Logout, NoToken
  <2> QED
    BY <1>0, <1>1, <1>6, <1>10, <2>1 DEF Logout, history
<1>11. ASSUME NEW c \in Clients, ReadBack(c) \/ LoginRead(c) \/ Verify(c)
       PROVE  Types'
  <2>1. call' \in [Clients -> Calls]
    BY <1>0, <1>2, <1>4, <1>11 DEF ReadBack, LoginRead, Verify, To, Calls, Steps
  <2> QED
    BY <1>0, <1>6, <1>11, <2>1 DEF ReadBack, LoginRead, Verify, tables, history
<1>12. ASSUME NEW c \in Clients, NEW old \in Passwords \cup {Nobody},
              NEW new \in Passwords \cup {Nobody}, Request(c, old, new)
       PROVE  Types'
  <2>1. call' \in [Clients -> Calls]
    BY <1>0, <1>2, <1>12 DEF Request, NoCall, Calls, Steps
  <2> QED
    BY <1>0, <1>6, <1>12, <2>1 DEF Request, tables, history, Works
<1>13. ASSUME NEW c \in Clients, NEW next \in Steps, SessionUser(c, next)
       PROVE  Types'
  <2>1. call' \in [Clients -> Calls]
    BY <1>0, <1>2, <1>4, <1>13 DEF SessionUser, Rows, Calls
  <2> QED
    BY <1>0, <1>1, <1>6, <1>13, <2>1 DEF SessionUser, history
<1>14. ASSUME NEW c \in Clients, WritePassword(c)
       PROVE  Types'
  <2>1. call' \in [Clients -> Calls]
    BY <1>0, <1>2, <1>4, <1>14 DEF WritePassword, To, Calls, Steps
  <2>2. DOMAIN user' = DOMAIN user /\ user' \in [DOMAIN user' -> Passwords]
    BY <1>0, <1>4, <1>14 DEF WritePassword, Known, Calls
  <2>3. version' \in Nat /\ kept' \in 0 .. issued
    BY <1>0, <1>4, <1>14 DEF WritePassword, Calls
  <2> QED
    BY <1>0, <1>6, <1>14, <2>1, <2>2, <2>3 DEF WritePassword
<1>15. ASSUME NEW c \in Clients, RevokeOthers(c)
       PROVE  Types'
  BY <1>0, <1>1, <1>2, <1>6, <1>15 DEF RevokeOthers
<1>16. ASSUME NEW c \in Clients, Disconnect(c)
       PROVE  Types'
  <2>1. halfDone' \in BOOLEAN
    BY <1>16, Zenon DEF Disconnect
  <2> QED
    BY <1>0, <1>2, <1>6, <1>16, <2>1 DEF Disconnect, tables, Works
<1>17. ASSUME NEW t \in Tokens, Expire(t)
       PROVE  Types'
  BY <1>0, <1>6, <1>17 DEF Expire, tables, history, Works
<1>18. {"idle", "check", "verify"} \subseteq Steps
  BY DEF Steps
<1> QED
  BY <1>5, <1>7, <1>8, <1>9, <1>10, <1>11, <1>12, <1>13, <1>14, <1>15, <1>16, <1>17, <1>18
     DEF Next, Authenticate, Check

LEMMA InitTypeInv == Init => TypeInv
<1> SUFFICES ASSUME Init PROVE TypeInv
  OBVIOUS
<1>1. DOMAIN user = {} /\ DOMAIN session = {} /\ call = [c \in Clients |-> NoCall]
  BY DEF Init
<1>2. NoCall \in Calls
  BY DEF Init, NoCall, Calls, Steps, NoToken
<1>3. Types
  <2>1. user \in [DOMAIN user -> Passwords] /\ session \in [DOMAIN session -> Rows]
    BY DEF Init
  <2>2. call \in [Clients -> Calls] /\ cookie \in [Clients -> 0 .. issued]
    BY <1>1, <1>2 DEF Init, NoToken
  <2>3. issued = 0 /\ expired = {} /\ version = 0 /\ kept = 0 /\ halfDone = FALSE /\ errors = 0
    BY DEF Init, NoToken
  <2> QED
    <3>1. DOMAIN user \subseteq Names /\ DOMAIN session \subseteq 1 .. issued /\ expired \subseteq 1 .. issued
      BY <1>1, <2>3
    <3>2. issued \in 0 .. MaxTokens /\ errors \in 0 .. MaxErrors
      BY <2>3, SessionsAssumption
    <3>3. version \in Nat /\ kept \in 0 .. issued
      BY <2>3
    <3>4. halfDone \in BOOLEAN
      BY <2>3, Zenon
    <3> QED
      BY <2>1, <2>2, <3>1, <3>2, <3>3, <3>4, Zenon DEF Types
<1>4. Known
  BY <1>1 DEF Known, NoCall
<1> QED
  BY <1>3, <1>4 DEF TypeInv

\* Tables, cookies and requests keep their types.
THEOREM TypeCorrect == Spec => []TypeOK
<1>1. TypeInv /\ [Next]_vars => TypeInv'
  BY TypeStays, KnownStays DEF TypeInv
<1>2. TypeInv => TypeOK
  BY TypesAreTypes DEF TypeInv
<1> QED
  BY InitTypeInv, <1>1, <1>2, PTL DEF Spec

LEMMA RevokedStays == LoginInv /\ [Next]_vars => Revoked'
<1> SUFFICES ASSUME LoginInv, [Next]_vars PROVE Revoked'
  OBVIOUS
<1>0. call \in [Clients -> Calls] /\ DOMAIN call = Clients /\ Known /\ Revoked
  BY DEF LoginInv, TypeInv, Types
\* Requests that revoke nothing: sessions only go, and no revocation ends.
<1>1. ASSUME UNCHANGED history,
             \A t \in DOMAIN session' : ~Overdue(t)' \/ (t \in DOMAIN session /\ session'[t] = session[t]),
             \A c \in Clients : call[c].step = "revoke" => call'[c] = call[c]
      PROVE  Revoked'
  BY <1>0, <1>1 DEF Revoked, Overdue, history
<1>2. CASE UNCHANGED vars
  BY <1>1, <1>2 DEF vars, tables
<1>3. ASSUME NEW c \in Clients, NEW n \in Names, NEW p \in Passwords,
             CreateUser(c, n, p) \/ Login(c, n, p)
      PROVE  Revoked'
  BY <1>0, <1>1, <1>3 DEF CreateUser, Login, Without
<1>4. ASSUME NEW c \in Clients, CreateSession(c) PROVE Revoked'
  <2>1. UNCHANGED history /\ call' = [call EXCEPT ![c] = NoCall] /\ call[c].step = "created"
    BY <1>4 DEF CreateSession, Answer
  <2>2. ASSUME NEW t \in DOMAIN session'
        PROVE  ~Overdue(t)' \/ (t \in DOMAIN session /\ session'[t] = session[t])
    <3>1. version' = version /\ kept' = kept
      BY <2>1 DEF history
    <3>2. CASE session' = session
      BY <2>2, <3>2
    <3>3. CASE session' = Stored(c, issued') /\ t # issued'
      BY <2>2, <3>3 DEF Stored
    <3>4. CASE session' = Stored(c, issued') /\ t = issued'
      <4>1. session'[t].seen = call[c].seen /\ session'[t].late = (call[c].seen # version)
        BY <2>2, <3>4 DEF Stored
      <4> QED
        BY <3>1, <4>1, Zenon DEF Overdue
    <3> QED
      BY <1>4, <3>2, <3>3, <3>4 DEF CreateSession
  <2> QED
    BY <1>0, <1>1, <2>1, <2>2
<1>5. ASSUME NEW c \in Clients,
             \/ Logout(c) \/ ReadBack(c) \/ LoginRead(c) \/ Verify(c)
             \/ \E old, new : Request(c, old, new)
      PROVE  Revoked'
  BY <1>0, <1>1, <1>5 DEF Logout, ReadBack, LoginRead, Verify, Request, Answer, To, Without, tables
<1>6. ASSUME NEW c \in Clients, NEW next, SessionUser(c, next), call[c].step # "revoke"
      PROVE  Revoked'
  <2>1. UNCHANGED history /\ \A d \in Clients : d # c => call'[d] = call[d]
    BY <1>0, <1>6 DEF SessionUser, Answer
  <2>2. \A t \in DOMAIN session' : t \in DOMAIN session /\ session'[t] = session[t]
    BY <1>6 DEF SessionUser, Without
  <2> QED
    BY <1>1, <1>6, <2>1, <2>2
<1>7. ASSUME NEW c \in Clients, WritePassword(c) PROVE Revoked'
  <2>1. CASE kept' = call[c].token /\ To(c, "revoke")
    BY <1>0, <2>1 DEF Revoked, To
  <2>2. CASE Answer(c) /\ UNCHANGED <<user, version, kept>>
    BY <1>0, <1>1, <1>7, <2>2 DEF WritePassword, Answer, history
  <2> QED
    BY <1>7, <2>1, <2>2 DEF WritePassword
<1>8. ASSUME NEW c \in Clients, RevokeOthers(c) PROVE Revoked'
  <2>1. CASE halfDone'
    BY <2>1 DEF Revoked
  <2>2. CASE session' = Without(OtherSessions(c)) /\ UNCHANGED halfDone
    <3>1. /\ UNCHANGED history
          /\ \A d \in Clients : d # c => call'[d] = call[d]
          /\ \A t \in DOMAIN session' : t \in DOMAIN session /\ session'[t] = session[t]
      BY <1>0, <1>8, <2>2 DEF RevokeOthers, Answer, Without, history
    \* The last change itself: what it leaves is its own session.
    <3>2. CASE call[c].token = kept
      <4>1. ASSUME NEW t \in DOMAIN session' PROVE t = kept
        <5>1. session[t].user \in DOMAIN user /\ call[c].name \in DOMAIN user
          BY <1>0, <1>8, <3>1, <4>1 DEF Known, RevokeOthers
        <5>2. session[t].user = call[c].name
          BY <5>1 DEF LoginInv, IInv, AtMostOne
        <5> QED
          BY <2>2, <3>2, <4>1, <5>2 DEF Without, OtherSessions
      <4> QED
        BY <3>1, <4>1 DEF Revoked, Overdue, history
    \* An earlier one: the last is still to come.
    <3>3. CASE call[c].token # kept
      BY <1>0, <3>1, <3>3 DEF Revoked, Overdue, history
    <3> QED
      BY <3>2, <3>3
  <2> QED
    BY <1>8, <2>1, <2>2 DEF RevokeOthers
<1>9. ASSUME NEW c \in Clients, Disconnect(c) PROVE Revoked'
  <2>1. CASE call[c].step = "revoke"
    BY <1>9, <2>1 DEF Disconnect, Revoked
  <2>2. CASE call[c].step # "revoke"
    <3>1. UNCHANGED <<session, version, kept>> /\ (halfDone => halfDone')
          /\ \A d \in Clients : d # c => call'[d] = call[d]
      BY <1>0, <1>9, <2>2 DEF Disconnect, Answer, tables
    <3> QED
      BY <1>0, <2>2, <3>1 DEF Revoked, Overdue
  <2> QED
    BY <2>1, <2>2
<1>10. ASSUME NEW t \in Tokens, Expire(t) PROVE Revoked'
  BY <1>1, <1>10 DEF Expire, tables
<1> QED
  BY <1>2, <1>3, <1>4, <1>5, <1>6, <1>7, <1>8, <1>9, <1>10 DEF Next, Authenticate, Check

\* After a change of the password every session was opened with the new one,
\* but for its own and the named exceptions (routes/auth.rs, change_password).
THEOREM OldLoginsEndHolds == Spec => []OldLoginsEnd
<1>1. Init => LoginInv
  BY InitIInv, InitTypeInv DEF Init, LoginInv, Revoked
<1>2. LoginInv /\ [Next]_vars => LoginInv'
  BY FunctionsStay, AtMostOneStays, TypeStays, KnownStays, RevokedStays
     DEF LoginInv, IInv, TypeInv
<1>3. LoginInv => OldLoginsEnd
  BY DEF LoginInv, Revoked, Overdue, OldLoginsEnd
<1> QED
  BY <1>1, <1>2, <1>3, PTL DEF Spec

=============================================================================
