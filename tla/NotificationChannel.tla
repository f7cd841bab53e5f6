------------------------ MODULE NotificationChannel -------------------------
(***************************************************************************)
(* The notification channel: the single row of notification_channel, the   *)
(* requests that save and test it, the notifications of failed jobs and    *)
(* the SECRET_KEY its column config is sealed with                         *)
(* (src/src/notification/mod.rs, notify.rs, feishu.rs,                     *)
(* src/src/crypto/mod.rs, src/src/routes/notification.rs).                 *)
(*                                                                         *)
(* Every call reads the row, does something that takes time and writes     *)
(* some columns back.  A secret is named after the application it belongs  *)
(* to.  The receiver is left out: it is validated and stored like the      *)
(* application.  So is the wording of errors, a failing statement and a    *)
(* rejected input both being an error to the client.                       *)
(***************************************************************************)
EXTENDS Naturals, FiniteSets

CONSTANTS
  Apps,     \* applications; the secret of one is named like it
  Blank,    \* an empty input
  Keys,     \* values of SECRET_KEY
  NoKey,    \* SECRET_KEY is not set, or the column is plain text
  Callers,  \* requests and notifications that may be under way together
  MaxSends  \* bound: messages sent

Configs == [app : Apps, secret : Apps, enable : BOOLEAN]

ASSUME ChannelAssumption ==
  Blank \notin Apps \cup Configs /\ NoKey \notin Keys

VARIABLES
  row,   \* the row, or NoRow
  key,   \* SECRET_KEY of the process
  call   \* what each caller is doing

channelVars == <<row, key, call>>

Inputs == Apps \cup {Blank}
Seals == Keys \cup {NoKey}

NoRow == [app |-> Blank, secret |-> Blank, sealed |-> NoKey, enable |-> TRUE,
          failed |-> FALSE, sends |-> 0]

\* kept: the secret is the one that was stored when the row was read.
\* overtaken: another save was faster (for the properties only).
NoCall == [step |-> "idle", app |-> Blank, secret |-> Blank, enable |-> TRUE,
           found |-> FALSE, kept |-> FALSE, overtaken |-> FALSE, failed |-> FALSE]

ChannelTypeOK ==
  /\ row \in [app : Inputs, secret : Inputs, sealed : Seals, enable : BOOLEAN,
              failed : BOOLEAN, sends : Nat]
  /\ key \in Seals
  /\ call \in [Callers ->
       [step : {"idle", "write", "send", "record", "ok", "error"},
        app : Inputs, secret : Inputs, enable : BOOLEAN, found : BOOLEAN,
        kept : BOOLEAN, overtaken : BOOLEAN, failed : BOOLEAN]]

ChannelInit ==
  /\ row = NoRow
  /\ key \in Seals
  /\ call = [c \in Callers |-> NoCall]

\* load_row finds it.
Exists == row # NoRow

\* decrypt: plain text is always readable, the rest only with its own key.
\* decode_config: what cannot be decrypted counts as not configured.
Readable == Exists /\ row.sealed \in {NoKey, key}

\* read_channel, with the secret masked.
Unconfigured == [configured |-> FALSE, app |-> Blank, enable |-> TRUE,
                 failed |-> FALSE, sends |-> 0]
Response ==
  IF Readable
  THEN [configured |-> TRUE, app |-> row.app, enable |-> row.enable,
        failed |-> row.failed, sends |-> row.sends]
  ELSE Unconfigured

Begin(c, next) ==
  /\ call[c].step = "idle"
  /\ call' = [call EXCEPT ![c] = next]

Answer(c, answer) == call' = [call EXCEPT ![c] = [NoCall EXCEPT !.step = answer]]

\* The client takes the answer; the task of a notification ends.
Collect(c) ==
  /\ call[c].step \in {"ok", "error"}
  /\ call' = [call EXCEPT ![c] = NoCall]
  /\ UNCHANGED <<row, key>>

\* Mutant: the stored secret is used whether it can be decrypted or not.
SecretInRow(secret) == IF secret = Blank THEN row.secret ELSE secret

\* The secret of the input, or the stored one for a blank input.
SecretFor(secret) ==
  IF secret = Blank /\ Readable THEN row.secret ELSE secret

-----------------------------------------------------------------------------
(***************************************************************************)
(* save_channel and the read after it in update_feishu.                    *)
(***************************************************************************)
\* A statement fails before anything is written or sent, or the input is
\* not complete.
Refuse(c) ==
  /\ Begin(c, [NoCall EXCEPT !.step = "error"])
  /\ UNCHANGED <<row, key>>

SaveRead(c, app, secret, enable) ==
  /\ app # Blank
  /\ SecretFor(secret) # Blank
  /\ Begin(c, [NoCall EXCEPT
                 !.step = "write", !.app = app, !.secret = SecretFor(secret),
                 !.enable = enable, !.found = Exists, !.kept = (secret = Blank)])
  /\ UNCHANGED <<row, key>>

\* Mutant: a new row replaces the one another save has inserted meanwhile.
SaveReplaces(c) ==
  /\ call[c].step = "write"
  /\ row' = [(IF call[c].found THEN row ELSE NoRow) EXCEPT
                !.app = call[c].app, !.secret = call[c].secret,
                !.sealed = key, !.enable = call[c].enable]
  /\ Answer(c, "ok")
  /\ UNCHANGED key

\* The row that was found is updated in its configuration; without one, a
\* row is inserted, which fails when another save was faster.  The answer is
\* an error also when only the read after the write fails.
SaveWrite(c) ==
  /\ call[c].step = "write"
  /\ \/ /\ call[c].found \/ ~Exists
        /\ row' = [row EXCEPT !.app = call[c].app, !.secret = call[c].secret,
                              !.sealed = key, !.enable = call[c].enable]
        /\ \E answer \in {"ok", "error"} :
             call' = [d \in Callers |->
                        IF d = c THEN [NoCall EXCEPT !.step = answer]
                        ELSE [call[d] EXCEPT !.overtaken = @ \/ call[d].kept]]
     \/ Answer(c, "error") /\ UNCHANGED row
  /\ UNCHANGED key

-----------------------------------------------------------------------------
(***************************************************************************)
(* send_test and notify_failure.                                           *)
(***************************************************************************)
MaySend ==
  row.sends + Cardinality({c \in Callers : call[c].step \in {"send", "record"}})
    < MaxSends

Message(app, secret) ==
  [NoCall EXCEPT !.step = "send", !.app = app, !.secret = secret]

\* The configuration of the input, with the stored secret for a blank one.
TestRead(c, app, secret) ==
  /\ app # Blank
  /\ SecretFor(secret) # Blank
  /\ MaySend
  /\ Begin(c, Message(app, SecretFor(secret)))
  /\ UNCHANGED <<row, key>>

\* load_active_config for a failed job; otherwise nothing is sent.
NotifyRead(c) ==
  /\ Readable
  /\ row.enable
  /\ MaySend
  /\ Begin(c, Message(row.app, row.secret))
  /\ UNCHANGED <<row, key>>

\* feishu::send: a token, then the message; a wrong secret yields no token.
Send(c) ==
  /\ call[c].step = "send"
  /\ \E failed \in BOOLEAN :
       /\ call[c].app # call[c].secret => failed
       /\ call' = [call EXCEPT ![c].step = "record", ![c].failed = failed]
  /\ UNCHANGED <<row, key>>

\* record_send_result: two columns of the row, if there is one and the
\* statements succeed; the caller learns the outcome of the message.
Record(c) ==
  /\ call[c].step = "record"
  /\ \/ /\ Exists
        /\ row' = [row EXCEPT !.failed = call[c].failed, !.sends = @ + 1]
     \/ UNCHANGED row
  /\ Answer(c, IF call[c].failed THEN "error" ELSE "ok")
  /\ UNCHANGED key

\* The process stops anywhere and starts with some SECRET_KEY; its clients
\* lose their connections.
Restart(newKey) ==
  /\ key' = newKey
  /\ call' = [c \in Callers |->
                IF call[c].step \in {"write", "send", "record"}
                THEN [NoCall EXCEPT !.step = "error"] ELSE call[c]]
  /\ UNCHANGED row

ChannelNext ==
  \/ \E c \in Callers :
       \/ \E app, secret \in Inputs, enable \in BOOLEAN :
            SaveRead(c, app, secret, enable)
       \/ \E app, secret \in Inputs : TestRead(c, app, secret)
       \/ Refuse(c) \/ SaveWrite(c) \/ NotifyRead(c) \/ Send(c) \/ Record(c)
       \/ Collect(c)
  \/ \E newKey \in Seals : Restart(newKey)

ChannelSpec == ChannelInit /\ [][ChannelNext]_channelVars

-----------------------------------------------------------------------------
(***************************************************************************)
(* Properties.                                                             *)
(***************************************************************************)

\* However saves, tests, notifications, failing statements and restarts with
\* another key run over each other, the row is a pair of registers: a save
\* puts a complete configuration in place whole, a result never touches it,
\* and the second of two first saves does not replace the first's result.
Config == IF Exists THEN [app |-> row.app, secret |-> row.secret, enable |-> row.enable]
                    ELSE Blank

Store == INSTANCE ChannelStore WITH
  Complete <- Configs, None <- Blank,
  config <- Config, result <- [failed |-> row.failed, count |-> row.sends]

RefinesChannelStore == Store!StoreSpec

\* A save without a secret leaves the stored one as it is, and readable,
\* unless another save came between its read and its write: only then is an
\* older secret put back over a newer one.
KeptSecretStays ==
  [][\A c \in Callers :
       (/\ call[c].step = "write" /\ call'[c].step # "write"
        /\ call[c].kept /\ ~call[c].overtaken)
       => Readable /\ row'.secret = row.secret]_channelVars

=============================================================================
