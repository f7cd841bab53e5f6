------------------------------ MODULE Sessions ------------------------------
(***************************************************************************)
(* Accounts and logins: the user and session tables, the requests of       *)
(* routes/auth.rs and the session check in front of /api (auth/mod.rs).    *)
(*                                                                         *)
(* A request is a sequence of database statements, and requests of several *)
(* browsers interleave between them.  A password stands for its hash and a *)
(* session token is a number; of a login, the row remembers which version  *)
(* of the password it was checked against.  Wording, cookie attributes and *)
(* the rules for names and passwords are left out.                         *)
(***************************************************************************)
EXTENDS Naturals, FiniteSets

CONSTANTS
  Clients,     \* browsers; each has one request under way
  Names,       \* user names
  Passwords,
  Nobody,      \* no name, or no password
  MaxTokens,   \* bound: logins
  MaxChanges,  \* bound: changes of the password
  MaxExpired,  \* bound: sessions that expire
  MaxErrors    \* bound: failing statements

ASSUME SessionsAssumption ==
  /\ Nobody \notin Names \cup Passwords
  /\ MaxTokens \in Nat
  /\ MaxChanges \in Nat
  /\ MaxExpired \in Nat
  /\ MaxErrors \in Nat

Tokens == 1 .. MaxTokens
NoToken == 0

VARIABLES
  user,      \* the user table: passwords by name
  session,   \* the session table: rows by token
  expired,   \* tokens whose expires_at has passed
  issued,    \* tokens made so far
  cookie,    \* the session cookie of each client
  call,      \* what each client's request is doing
  version,   \* history: changes of the password
  kept,      \* history: the session that made the last of them
  halfDone,  \* history: some change ended before it revoked the old logins
  errors

tables  == <<user, session>>
history == <<version, kept, halfDone>>
vars == <<tables, expired, issued, cookie, call, history, errors>>

NoCall == [step |-> "idle", token |-> NoToken, name |-> Nobody,
           old |-> Nobody, new |-> Nobody, seen |-> 0]

Rows == [user : Names, seen : Nat, late : BOOLEAN]

TypeOK ==
  /\ \E names \in SUBSET Names : user \in [names -> Passwords]
  /\ issued \in 0 .. MaxTokens
  /\ \E tokens \in SUBSET (1 .. issued) : session \in [tokens -> Rows]
  /\ expired \in SUBSET (1 .. issued)
  /\ cookie \in [Clients -> 0 .. issued]
  /\ call \in [Clients ->
                 [step : {"idle", "created", "read", "login", "auth", "check",
                          "verify", "write", "revoke"},
                  token : 0 .. issued,
                  name : Names \cup {Nobody},
                  old : Passwords \cup {Nobody},
                  new : Passwords \cup {Nobody},
                  seen : Nat]]
  /\ version \in Nat
  /\ kept \in 0 .. issued
  /\ halfDone \in BOOLEAN
  /\ errors \in 0 .. MaxErrors

Init ==
  /\ user = << >>
  /\ session = << >>
  /\ expired = {}
  /\ issued = 0
  /\ cookie = [c \in Clients |-> NoToken]
  /\ call = [c \in Clients |-> NoCall]
  /\ version = 0
  /\ kept = NoToken
  /\ halfDone = FALSE
  /\ errors = 0

\* A statement fails.
DbError ==
  /\ errors < MaxErrors
  /\ errors' = errors + 1

Works == UNCHANGED errors

To(c, step)  == call' = [call EXCEPT ![c].step = step]
Answer(c)    == call' = [call EXCEPT ![c] = NoCall]
Without(set) == [t \in DOMAIN session \ set |-> session[t]]

-----------------------------------------------------------------------------
(***************************************************************************)
(* init.                                                                   *)
(***************************************************************************)

\* Mutant: only the unique user name stands in the way.
InsertUnlessTaken(n, p) ==
  /\ n \notin DOMAIN user
  /\ user' = [m \in DOMAIN user \cup {n} |-> IF m = n THEN p ELSE user[m]]

\* INSERT ... WHERE NOT EXISTS, one statement.
InsertUser(n, p) ==
  /\ DOMAIN user = {}
  /\ user' = [m \in {n} |-> p]

CreateUser(c, n, p) ==
  /\ call[c].step = "idle"
  /\ \/ /\ InsertUser(n, p)
        /\ call' = [call EXCEPT ![c] = [NoCall EXCEPT !.step = "read", !.name = n]]
        /\ Works
     \* Nothing inserted, or the statement failed: the request is refused.
     \/ /\ DOMAIN user # {}
        /\ UNCHANGED <<user, call>>
        /\ Works
     \/ UNCHANGED <<user, call>> /\ DbError
  /\ UNCHANGED <<session, expired, issued, cookie, history>>

\* The new row is read back.
ReadBack(c) ==
  /\ call[c].step = "read"
  /\ \/ /\ call' = [call EXCEPT ![c].step = "created", ![c].seen = version]
        /\ Works
     \/ Answer(c) /\ DbError
  /\ UNCHANGED <<tables, expired, issued, cookie, history>>

-----------------------------------------------------------------------------
(***************************************************************************)
(* login and logout.                                                       *)
(***************************************************************************)

\* delete_expired_sessions, whose failure is ignored.
Login(c, n, p) ==
  /\ call[c].step = "idle"
  /\ call' = [call EXCEPT ![c] = [NoCall EXCEPT !.step = "login", !.name = n,
                                                !.old = p]]
  /\ \/ session' = Without(expired) /\ Works
     \/ UNCHANGED session /\ DbError
  /\ UNCHANGED <<user, expired, issued, cookie, history>>

Verified(c) ==
  /\ call[c].name \in DOMAIN user
  /\ user[call[c].name] = call[c].old

LoginRead(c) ==
  /\ call[c].step = "login"
  /\ \/ /\ Verified(c)
        /\ call' = [call EXCEPT ![c].step = "created", ![c].seen = version]
        /\ Works
     \/ ~Verified(c) /\ Answer(c) /\ Works
     \/ Answer(c) /\ DbError
  /\ UNCHANGED <<tables, expired, issued, cookie, history>>

Stored(c, t) ==
  [s \in DOMAIN session \cup {t} |->
     IF s = t THEN [user |-> call[c].name, seen |-> call[c].seen,
                    late |-> call[c].seen # version]
     ELSE session[s]]

\* Mutant: the token is not a new one.
CreateSessionUncounted(c) ==
  /\ call[c].step = "created"
  /\ issued < MaxTokens
  /\ session' = Stored(c, issued + 1)
  /\ cookie' = [cookie EXCEPT ![c] = issued + 1]
  /\ Answer(c)
  /\ Works
  /\ UNCHANGED <<user, expired, issued, history>>

\* create_session and the answer with the cookie, which may get lost.
CreateSession(c) ==
  /\ call[c].step = "created"
  /\ issued < MaxTokens
  /\ issued' = issued + 1
  /\ \/ /\ session' = Stored(c, issued')
        /\ cookie' \in {cookie, [cookie EXCEPT ![c] = issued']}
        /\ Works
     \/ UNCHANGED <<session, cookie>> /\ DbError
  /\ Answer(c)
  /\ UNCHANGED <<user, expired, history>>

\* revoke_session, whose failure is ignored; the cookie goes in any case.
Logout(c) ==
  /\ call[c].step = "idle"
  /\ cookie[c] # NoToken
  /\ cookie' = [cookie EXCEPT ![c] = NoToken]
  /\ \/ session' = Without({cookie[c]}) /\ Works
     \/ UNCHANGED session /\ DbError
  /\ UNCHANGED <<user, expired, issued, call, history>>

-----------------------------------------------------------------------------
(***************************************************************************)
(* Requests that need a session, and change_password.                      *)
(***************************************************************************)

\* A request with the client's cookie; old and new are passwords for
\* change_password and Nobody for any other route.
Request(c, old, new) ==
  /\ call[c].step = "idle"
  /\ cookie[c] # NoToken
  /\ call' = [call EXCEPT ![c] = [NoCall EXCEPT !.step = "auth", !.old = old,
                                     !.new = new, !.token = cookie[c]]]
  /\ UNCHANGED <<tables, expired, issued, cookie, history, errors>>

\* session_user: a session that is found goes on to step next; an expired one
\* is deleted.
SessionUser(c, next) ==
  LET t == call[c].token IN
  /\ \/ /\ t \in DOMAIN session \ expired
        /\ IF next = "idle" THEN Answer(c)
           ELSE call' = [call EXCEPT ![c].step = next,
                                     ![c].name = session[t].user]
        /\ UNCHANGED session
        /\ Works
     \/ /\ t \in DOMAIN session \cap expired
        /\ Answer(c)
        /\ session' = Without({t})
        /\ Works
     \/ /\ t \notin DOMAIN session
        /\ Answer(c)
        /\ UNCHANGED session
        /\ Works
     \/ Answer(c) /\ UNCHANGED session /\ DbError
  /\ UNCHANGED <<user, expired, issued, cookie, history>>

\* auth_middleware, then the handler.
Authenticate(c) ==
  /\ call[c].step = "auth"
  /\ SessionUser(c, IF call[c].new = Nobody THEN "idle" ELSE "check")

\* change_password looks the session up once more.
Check(c) ==
  /\ call[c].step = "check"
  /\ SessionUser(c, "verify")

Verify(c) ==
  /\ call[c].step = "verify"
  /\ \/ Verified(c) /\ To(c, "write") /\ Works
     \/ ~Verified(c) /\ Answer(c) /\ Works
     \/ Answer(c) /\ DbError
  /\ UNCHANGED <<tables, expired, issued, cookie, history>>

WritePassword(c) ==
  /\ call[c].step = "write"
  /\ version < MaxChanges
  /\ \/ /\ user' = [user EXCEPT ![call[c].name] = call[c].new]
        /\ version' = version + 1
        /\ kept' = call[c].token
        /\ To(c, "revoke")
        /\ Works
     \/ Answer(c) /\ UNCHANGED <<user, version, kept>> /\ DbError
  /\ UNCHANGED <<session, expired, issued, cookie, halfDone>>

\* Mutant: every session of the user goes.
AllSessions(c) == {t \in DOMAIN session : session[t].user = call[c].name}

\* Mutant: only what has expired.
OtherExpired(c) ==
  {t \in DOMAIN session \cap expired :
     session[t].user = call[c].name /\ t # call[c].token}

OtherSessions(c) ==
  {t \in DOMAIN session :
     session[t].user = call[c].name /\ t # call[c].token}

\* revoke_other_sessions, whose failure is ignored.
RevokeOthers(c) ==
  /\ call[c].step = "revoke"
  /\ Answer(c)
  /\ \/ session' = Without(OtherSessions(c)) /\ UNCHANGED halfDone /\ Works
     \/ UNCHANGED session /\ halfDone' = TRUE /\ DbError
  /\ UNCHANGED <<user, expired, issued, cookie, version, kept>>

-----------------------------------------------------------------------------
\* The browser hangs up and the request is dropped where it is.
Disconnect(c) ==
  /\ call[c].step # "idle"
  /\ halfDone' = (halfDone \/ call[c].step = "revoke")
  /\ Answer(c)
  /\ UNCHANGED <<tables, expired, issued, cookie, version, kept, errors>>

Expire(t) ==
  /\ t \in DOMAIN session \ expired
  /\ Cardinality(expired) < MaxExpired
  /\ expired' = expired \cup {t}
  /\ UNCHANGED <<tables, issued, cookie, call, history, errors>>

Next ==
  \/ \E c \in Clients :
       \/ \E n \in Names, p \in Passwords : CreateUser(c, n, p) \/ Login(c, n, p)
       \/ ReadBack(c)
       \/ LoginRead(c)
       \/ CreateSession(c)
       \/ Logout(c)
       \/ Request(c, Nobody, Nobody)
       \/ \E old, new \in Passwords : Request(c, old, new)
       \/ Authenticate(c)
       \/ Check(c)
       \/ Verify(c)
       \/ WritePassword(c)
       \/ RevokeOthers(c)
       \/ Disconnect(c)
  \/ \E t \in Tokens : Expire(t)

Spec == Init /\ [][Next]_vars

-----------------------------------------------------------------------------
(***************************************************************************)
(* Properties.                                                             *)
(***************************************************************************)

\* However many browsers initialise the system at once, with whatever names,
\* it gets one user (routes/auth.rs, init).
OneUser == Cardinality(DOMAIN user) <= 1

\* When no change of the password is under way, every session has been
\* opened with the current password or is the one that changed it last.  The
\* exceptions are a change that ended before it revoked the other sessions,
\* and a login that had been checked before the change and was stored after.
OldLoginsEnd ==
  (~halfDone /\ \A c \in Clients : call[c].step # "revoke") =>
    \A t \in DOMAIN session :
      session[t].seen = version \/ t = kept \/ session[t].late

\* A login ends because it expired, because its browser logged out or because
\* another session changed the password: never through the change it made
\* itself or through what others do about theirs.
LoginsEndForAReason ==
  [][\A t \in DOMAIN session \ DOMAIN session' :
       \/ t \in expired
       \/ \E c \in Clients : cookie[c] = t /\ cookie'[c] = NoToken
       \/ \E c \in Clients : call[c].step = "revoke" /\ call[c].token # t]_vars

=============================================================================
