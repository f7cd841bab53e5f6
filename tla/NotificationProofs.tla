------------------------- MODULE NotificationProofs -------------------------
(***************************************************************************)
(* Proofs about the notification channel, for any number of callers,       *)
(* applications and keys, and about the dialog that uses it.               *)
(***************************************************************************)
EXTENDS NotificationDialog, TLAPS

(***************************************************************************)
(* The inductive invariant: a stored configuration is complete, a save     *)
(* that found the row has one to write to, and a secret that was taken     *)
(* from the row is the one in force until another save is faster.          *)
(***************************************************************************)
RowComplete == Exists => row.app \in Apps /\ row.secret \in Apps

WriteReady(c) ==
  call[c].step = "write" =>
    /\ call[c].app \in Apps /\ call[c].secret \in Apps
    /\ call[c].found => Exists

KeptIsStored(c) ==
  call[c].kept /\ ~call[c].overtaken =>
    /\ call[c].step = "write"
    /\ Readable
    /\ call[c].secret = row.secret

ChannelInv ==
  /\ ChannelTypeOK
  /\ RowComplete
  /\ \A c \in Callers : WriteReady(c) /\ KeptIsStored(c)

CallRecords ==
  [step : {"idle", "write", "send", "record", "ok", "error"},
   app : Inputs, secret : Inputs, enable : BOOLEAN, found : BOOLEAN,
   kept : BOOLEAN, overtaken : BOOLEAN, failed : BOOLEAN]

\* A step that only replaces one call, by one that is not a save or a save
\* that is ready, keeps the invariant.
LEMMA OneCall ==
  ASSUME ChannelInv, UNCHANGED <<row, key>>, NEW c \in Callers,
         NEW next \in CallRecords,
         call' = [call EXCEPT ![c] = next],
         next.step = "write" =>
           next.app \in Apps /\ next.secret \in Apps /\ (next.found => Exists),
         next.kept /\ ~next.overtaken =>
           next.step = "write" /\ Readable /\ next.secret = row.secret
  PROVE  ChannelInv'
<1>1. ChannelTypeOK'
  BY DEF ChannelInv, ChannelTypeOK, CallRecords
<1>2. RowComplete'
  BY DEF ChannelInv, RowComplete, Exists
<1>3. ASSUME NEW d \in Callers PROVE (WriteReady(d) /\ KeptIsStored(d))'
  <2>1. CASE d = c
    <3>1. call'[d] = next
      BY <2>1 DEF ChannelInv, ChannelTypeOK
    <3> QED
      BY <3>1 DEF WriteReady, KeptIsStored, Exists, Readable
  <2>2. CASE d # c
    <3>1. call'[d] = call[d]
      BY <2>2 DEF ChannelInv, ChannelTypeOK
    <3> QED
      BY <3>1 DEF ChannelInv, WriteReady, KeptIsStored, Exists, Readable
  <2> QED
    BY <2>1, <2>2
<1> QED
  BY <1>1, <1>2, <1>3 DEF ChannelInv

LEMMA InitHolds == ChannelInit => ChannelInv
<1> SUFFICES ASSUME ChannelInit PROVE ChannelInv
  OBVIOUS
<1>1. ChannelTypeOK
  BY DEF ChannelInit, ChannelTypeOK, NoRow, NoCall, Inputs, Seals
<1>2. RowComplete /\ \A c \in Callers : WriteReady(c) /\ KeptIsStored(c)
  BY DEF ChannelInit, RowComplete, WriteReady, KeptIsStored, Exists, NoCall
<1> QED
  BY <1>1, <1>2 DEF ChannelInv

\* Starting a call, refusing it and taking its answer.
LEMMA BeginHolds ==
  ASSUME ChannelInv, NEW c \in Callers,
         NEW app \in Inputs, NEW secret \in Inputs, NEW enabled \in BOOLEAN,
         \/ SaveRead(c, app, secret, enabled) \/ TestRead(c, app, secret)
         \/ NotifyRead(c) \/ Refuse(c) \/ Collect(c)
  PROVE  ChannelInv'
<1>1. SecretFor(secret) \in Inputs /\ row.app \in Inputs /\ row.secret \in Inputs
  BY DEF ChannelInv, ChannelTypeOK, SecretFor
<1>2. CASE SaveRead(c, app, secret, enabled)
  <2> DEFINE next ==
        [NoCall EXCEPT
           !.step = "write", !.app = app, !.secret = SecretFor(secret),
           !.enable = enabled, !.found = Exists, !.kept = (secret = Blank)]
  <2>1. next \in CallRecords
    BY <1>1 DEF CallRecords, NoCall, Inputs, Exists
  <2>2. next.app \in Apps /\ next.secret \in Apps /\ (next.found => Exists)
    BY <1>1, <1>2 DEF SaveRead, NoCall, Inputs
  <2>3. next.kept /\ ~next.overtaken =>
          next.step = "write" /\ Readable /\ next.secret = row.secret
    BY <1>2 DEF SaveRead, NoCall, SecretFor
  <2>4. call' = [call EXCEPT ![c] = next] /\ UNCHANGED <<row, key>>
    BY <1>2 DEF SaveRead, Begin
  <2> QED
    BY <2>1, <2>2, <2>3, <2>4, OneCall
<1>3. CASE TestRead(c, app, secret)
  <2>1. Message(app, SecretFor(secret)) \in CallRecords
    BY <1>1 DEF CallRecords, Message, NoCall
  <2> QED
    BY <1>3, <2>1, OneCall DEF TestRead, Begin, Message, NoCall
<1>4. CASE NotifyRead(c)
  <2>1. Message(row.app, row.secret) \in CallRecords
    BY <1>1 DEF CallRecords, Message, NoCall
  <2> QED
    BY <1>4, <2>1, OneCall DEF NotifyRead, Begin, Message, NoCall
<1>5. CASE Refuse(c)
  <2>1. [NoCall EXCEPT !.step = "error"] \in CallRecords
    BY DEF CallRecords, NoCall, Inputs
  <2> QED
    BY <1>5, <2>1, OneCall DEF Refuse, Begin, NoCall
<1>6. CASE Collect(c)
  <2>1. NoCall \in CallRecords
    BY DEF CallRecords, NoCall, Inputs
  <2> QED
    BY <1>6, <2>1, OneCall DEF Collect, NoCall
<1> QED
  BY <1>2, <1>3, <1>4, <1>5, <1>6

LEMMA SendHolds ==
  ASSUME ChannelInv, NEW c \in Callers, Send(c)
  PROVE  ChannelInv'
<1>1. PICK failed \in BOOLEAN :
        call' = [call EXCEPT ![c].step = "record", ![c].failed = failed]
  BY DEF Send
<1> DEFINE next == [call[c] EXCEPT !.step = "record", !.failed = failed]
<1>2. call[c] \in CallRecords
  BY DEF ChannelInv, ChannelTypeOK, CallRecords
<1>3. next \in CallRecords
  BY <1>2 DEF CallRecords
<1>4. call' = [call EXCEPT ![c] = next]
  BY <1>1, <1>2 DEF ChannelInv, ChannelTypeOK, CallRecords
<1>5. ~(next.kept /\ ~next.overtaken) /\ next.step = "record"
  BY <1>2 DEF ChannelInv, KeptIsStored, Send, CallRecords
<1> QED
  BY <1>3, <1>4, <1>5, OneCall DEF Send

\* A result is written into a row, and leaves its configuration alone.
LEMMA RecordHolds ==
  ASSUME ChannelInv, NEW c \in Callers, Record(c)
  PROVE  ChannelInv'
<1> DEFINE next == [NoCall EXCEPT !.step = IF call[c].failed THEN "error" ELSE "ok"]
<1>1. next \in CallRecords /\ next.step # "write" /\ ~next.kept
  BY DEF CallRecords, NoCall, Inputs
<1>2. call' = [call EXCEPT ![c] = next] /\ UNCHANGED key
  BY DEF Record, Answer
<1>3. CASE UNCHANGED row
  BY <1>1, <1>2, <1>3, OneCall
<1>4. CASE Exists /\ row' = [row EXCEPT !.failed = call[c].failed, !.sends = @ + 1]
  <2>1. /\ row'.app = row.app /\ row'.secret = row.secret
        /\ row'.sealed = row.sealed
        /\ row' \in [app : Inputs, secret : Inputs, sealed : Seals,
                    enable : BOOLEAN, failed : BOOLEAN, sends : Nat]
    <3>1. call[c].failed \in BOOLEAN
      BY DEF ChannelInv, ChannelTypeOK
    <3>2. row \in [app : Inputs, secret : Inputs, sealed : Seals,
                   enable : BOOLEAN, failed : BOOLEAN, sends : Nat]
      BY DEF ChannelInv, ChannelTypeOK
    <3>3. row.sends + 1 \in Nat
      BY <3>2
    <3> QED
      BY <1>4, <3>1, <3>2, <3>3
  <2>2. Exists'
    <3>1. row'.app \in Apps
      BY <1>4, <2>1 DEF ChannelInv, RowComplete
    <3>2. NoRow.app = Blank /\ Blank \notin Apps
      BY ChannelAssumption DEF NoRow
    <3> QED
      BY <3>1, <3>2 DEF Exists
  <2>3. ChannelTypeOK' /\ RowComplete'
    BY <1>1, <1>2, <1>4, <2>1
    DEF ChannelInv, ChannelTypeOK, RowComplete, CallRecords
  <2>4. ASSUME NEW d \in Callers PROVE (WriteReady(d) /\ KeptIsStored(d))'
    <3>1. call'[d] = IF d = c THEN next ELSE call[d]
      BY <1>2 DEF ChannelInv, ChannelTypeOK
    <3>2. Readable' = Readable
      BY <1>2, <1>4, <2>1, <2>2 DEF Readable
    <3> QED
      BY <1>1, <2>1, <2>2, <3>1, <3>2 DEF ChannelInv, WriteReady, KeptIsStored
  <2> QED
    BY <2>3, <2>4 DEF ChannelInv
<1> QED
  BY <1>3, <1>4 DEF Record

\* A save puts its configuration in place and overtakes those that kept the
\* secret that was there.
LEMMA SaveWriteHolds ==
  ASSUME ChannelInv, NEW c \in Callers, SaveWrite(c)
  PROVE  ChannelInv'
<1>1. CASE Answer(c, "error") /\ UNCHANGED <<row, key>>
  <2>1. [NoCall EXCEPT !.step = "error"] \in CallRecords
    BY DEF CallRecords, NoCall, Inputs
  <2> QED
    BY <1>1, <2>1, OneCall DEF Answer, NoCall
<1>2. ASSUME row' = [row EXCEPT !.app = call[c].app, !.secret = call[c].secret,
                                !.sealed = key, !.enable = call[c].enable],
             UNCHANGED key,
             NEW answer \in {"ok", "error"},
             call' = [d \in Callers |->
                        IF d = c THEN [NoCall EXCEPT !.step = answer]
                        ELSE [call[d] EXCEPT !.overtaken = @ \/ call[d].kept]]
      PROVE  ChannelInv'
  <2>1. call[c] \in CallRecords /\ call[c].app \in Apps /\ call[c].secret \in Apps
    BY DEF ChannelInv, ChannelTypeOK, WriteReady, SaveWrite, CallRecords
  <2>2. /\ row'.app \in Apps /\ row'.secret \in Apps
        /\ row' \in [app : Inputs, secret : Inputs, sealed : Seals,
                    enable : BOOLEAN, failed : BOOLEAN, sends : Nat]
    BY <1>2, <2>1 DEF ChannelInv, ChannelTypeOK, CallRecords, Inputs
  <2>3. Exists'
    BY <2>2, ChannelAssumption DEF Exists, NoRow
  <2>4. ASSUME NEW d \in Callers
        PROVE  call'[d] \in CallRecords /\ (WriteReady(d) /\ KeptIsStored(d))'
    <3>1. CASE d = c
      <4>1. call'[d] = [NoCall EXCEPT !.step = answer]
        BY <1>2, <3>1
      <4> QED
        BY <4>1 DEF CallRecords, NoCall, Inputs, WriteReady, KeptIsStored
    <3>2. CASE d # c
      <4>1. call'[d] = [call[d] EXCEPT !.overtaken = @ \/ call[d].kept]
        BY <1>2, <3>2
      <4>2. call[d] \in CallRecords
        BY DEF ChannelInv, ChannelTypeOK, CallRecords
      <4> QED
        BY <2>3, <4>1, <4>2 DEF ChannelInv, CallRecords, WriteReady, KeptIsStored
    <3> QED
      BY <3>1, <3>2
  <2>5. ChannelTypeOK' /\ RowComplete'
    BY <1>2, <2>2, <2>4 DEF ChannelInv, ChannelTypeOK, CallRecords, RowComplete
  <2> QED
    BY <2>4, <2>5 DEF ChannelInv
<1> QED
  BY <1>1, <1>2 DEF SaveWrite

LEMMA RestartHolds ==
  ASSUME ChannelInv, NEW newKey \in Seals, Restart(newKey)
  PROVE  ChannelInv'
<1>1. ASSUME NEW c \in Callers
      PROVE  call'[c] \in CallRecords /\ (WriteReady(c) /\ KeptIsStored(c))'
  <2>1. call[c] \in CallRecords
    BY DEF ChannelInv, ChannelTypeOK, CallRecords
  <2>2. CASE call[c].step \in {"write", "send", "record"}
    <3>1. call'[c] = [NoCall EXCEPT !.step = "error"]
      BY <2>2 DEF Restart
    <3> QED
      BY <3>1 DEF CallRecords, NoCall, Inputs, WriteReady, KeptIsStored
  <2>3. CASE call[c].step \notin {"write", "send", "record"}
    <3>1. call'[c] = call[c]
      BY <2>3 DEF Restart
    <3> QED
      BY <2>1, <2>3, <3>1 DEF ChannelInv, WriteReady, KeptIsStored
  <2> QED
    BY <2>2, <2>3
<1>2. ChannelTypeOK' /\ RowComplete'
  BY <1>1 DEF Restart, ChannelInv, ChannelTypeOK, CallRecords, RowComplete, Exists
<1> QED
  BY <1>1, <1>2 DEF ChannelInv

LEMMA StepHolds == ChannelInv /\ [ChannelNext]_channelVars => ChannelInv'
<1> SUFFICES ASSUME ChannelInv, [ChannelNext]_channelVars PROVE ChannelInv'
  OBVIOUS
<1>1. ASSUME NEW c \in Callers, NEW app \in Inputs, NEW secret \in Inputs,
             NEW enabled \in BOOLEAN, SaveRead(c, app, secret, enabled)
      PROVE  ChannelInv'
  BY <1>1, BeginHolds
<1>2. ASSUME NEW c \in Callers, NEW app \in Inputs, NEW secret \in Inputs,
             TestRead(c, app, secret)
      PROVE  ChannelInv'
  BY <1>2, BeginHolds
<1>3. ASSUME NEW c \in Callers, NotifyRead(c) \/ Refuse(c) \/ Collect(c)
      PROVE  ChannelInv'
  BY <1>3, BeginHolds DEF Inputs
<1>4. CASE UNCHANGED channelVars
  BY <1>4 DEF channelVars, ChannelInv, ChannelTypeOK, RowComplete, WriteReady,
              KeptIsStored, Exists, Readable
<1> QED
  BY <1>1, <1>2, <1>3, <1>4, SendHolds, RecordHolds, SaveWriteHolds, RestartHolds
  DEF ChannelNext

LEMMA InvHolds == ChannelSpec => []ChannelInv
BY InitHolds, StepHolds, PTL DEF ChannelSpec

\* The row, the key and the calls have their types.
THEOREM TypeCorrect == ChannelSpec => []ChannelTypeOK
BY InvHolds, PTL DEF ChannelInv

-----------------------------------------------------------------------------
(***************************************************************************)
(* Refinement of ChannelStore, and the action property.                    *)
(***************************************************************************)
LEMMA ConfigOfRow ==
  ASSUME ChannelInv, Exists
  PROVE  Config \in Configs /\ Config # Blank
BY ChannelAssumption DEF ChannelInv, ChannelTypeOK, RowComplete, Config, Configs

LEMMA InitRefines == ChannelInit => Store!StoreInit
BY DEF ChannelInit, Store!StoreInit, Config, Exists, NoRow

LEMMA SaveRefines ==
  ASSUME ChannelInv, ChannelInv', NEW c \in Callers, SaveWrite(c)
  PROVE  [Store!Save]_(Store!storeVars)
<1>1. CASE UNCHANGED row
  BY <1>1 DEF Store!storeVars, Config, Exists
<1>2. CASE row' = [row EXCEPT !.app = call[c].app, !.secret = call[c].secret,
                              !.sealed = key, !.enable = call[c].enable]
  <2>1. /\ row'.failed = row.failed /\ row'.sends = row.sends
        /\ row'.app = call[c].app
    BY <1>2 DEF ChannelInv, ChannelTypeOK
  <2>2. row'.app \in Apps /\ NoRow.app = Blank /\ Blank \notin Apps
    BY <2>1, ChannelAssumption DEF ChannelInv, WriteReady, SaveWrite, NoRow
  <2>3. Exists'
    BY <2>2 DEF Exists
  <2>4. Config' \in Configs
    BY <2>3, ConfigOfRow DEF ChannelInv, ChannelTypeOK, RowComplete, Config, Configs
  <2> QED
    BY <2>1, <2>4 DEF Store!Save
<1> QED
  BY <1>1, <1>2 DEF SaveWrite

LEMMA RecordRefines ==
  ASSUME ChannelInv, NEW c \in Callers, Record(c)
  PROVE  [Store!Record]_(Store!storeVars)
<1>1. CASE UNCHANGED row
  BY <1>1 DEF Store!storeVars, Config, Exists
<1>2. CASE Exists /\ row' = [row EXCEPT !.failed = call[c].failed, !.sends = @ + 1]
  <2>1. /\ row'.app = row.app /\ row'.secret = row.secret /\ row'.enable = row.enable
        /\ row'.failed = call[c].failed /\ row'.sends = row.sends + 1
        /\ call[c].failed \in BOOLEAN
    BY <1>2 DEF ChannelInv, ChannelTypeOK
  <2>2. NoRow.app = Blank /\ Blank \notin Apps /\ row.app \in Apps
    BY <1>2, ChannelAssumption DEF NoRow, ChannelInv, RowComplete
  <2>3. Exists'
    BY <2>1, <2>2 DEF Exists
  <2> QED
    BY <1>2, <2>1, <2>3, ConfigOfRow DEF Store!Record, Config
<1> QED
  BY <1>1, <1>2 DEF Record

\* The channel implements the two registers of ChannelStore: every save is
\* one replacement of the configuration by a complete one, every result one
\* replacement of the result, and everything else a stutter.
THEOREM ChannelRefinesStore == ChannelSpec => RefinesChannelStore
<1>1. ASSUME ChannelInv, ChannelInv', [ChannelNext]_channelVars
      PROVE  [Store!Save \/ Store!Record]_(Store!storeVars)
  <2>1. CASE UNCHANGED row
    BY <2>1 DEF Store!storeVars, Config, Exists
  <2>2. ASSUME NEW c \in Callers, SaveWrite(c)
        PROVE  [Store!Save \/ Store!Record]_(Store!storeVars)
    BY <1>1, <2>2, SaveRefines
  <2>3. ASSUME NEW c \in Callers, Record(c)
        PROVE  [Store!Save \/ Store!Record]_(Store!storeVars)
    BY <1>1, <2>3, RecordRefines
  <2> QED
    BY <1>1, <2>1, <2>2, <2>3
    DEF ChannelNext, channelVars, SaveRead, TestRead, NotifyRead, Refuse, Collect,
        Send, Restart
<1> QED
  BY <1>1, InitRefines, InvHolds, PTL
  DEF ChannelSpec, RefinesChannelStore, Store!StoreSpec

\* Whatever overlaps, a save without a secret keeps the one in force unless
\* it was overtaken.
THEOREM KeptSecretStaysHolds == ChannelSpec => KeptSecretStays
<1>1. ASSUME ChannelInv, [ChannelNext]_channelVars, NEW c \in Callers,
             call[c].step = "write", call'[c].step # "write",
             call[c].kept, ~call[c].overtaken
      PROVE  Readable /\ row'.secret = row.secret
  <2>1. Readable /\ call[c].secret = row.secret
    BY <1>1 DEF ChannelInv, KeptIsStored
  <2>2. CASE UNCHANGED row
    BY <2>1, <2>2
  <2>3. ASSUME NEW d \in Callers, SaveWrite(d) \/ Record(d), row' # row
        PROVE  row'.secret = row.secret
    <3>1. CASE Record(d)
      BY <1>1, <2>3, <3>1 DEF Record, ChannelInv, ChannelTypeOK
    <3>2. CASE SaveWrite(d) /\ d = c
      BY <1>1, <2>1, <2>3, <3>2 DEF SaveWrite, ChannelInv, ChannelTypeOK
    <3>3. CASE SaveWrite(d) /\ d # c
      <4>1. call'[c] = [call[c] EXCEPT !.overtaken = @ \/ call[c].kept]
        BY <2>3, <3>3 DEF SaveWrite
      <4>2. call'[c].step = call[c].step
        BY <4>1 DEF ChannelInv, ChannelTypeOK
      <4> QED
        BY <1>1, <4>2
    <3> QED
      BY <2>3, <3>1, <3>2, <3>3
  <2> QED
    BY <1>1, <2>1, <2>2, <2>3
    DEF ChannelNext, channelVars, SaveRead, TestRead, NotifyRead, Refuse, Collect,
        Send, Restart
<1>2. ChannelInv /\ [ChannelNext]_channelVars =>
        [\A c \in Callers :
           (/\ call[c].step = "write" /\ call'[c].step # "write"
            /\ call[c].kept /\ ~call[c].overtaken)
           => Readable /\ row'.secret = row.secret]_channelVars
  BY <1>1
<1> QED
  BY <1>2, InvHolds, PTL DEF ChannelSpec, KeptSecretStays

-----------------------------------------------------------------------------
(***************************************************************************)
(* The dialog.                                                             *)
(***************************************************************************)
DialogInv == ChannelInv /\ TypeOK

LEMMA ResponseTyped ==
  ASSUME ChannelTypeOK
  PROVE  Response \in [configured : BOOLEAN, app : Inputs, enable : BOOLEAN,
                       failed : BOOLEAN, sends : Nat]
BY DEF ChannelTypeOK, Response, Unconfigured, Inputs

\* Every step of the dialog is a step of the channel, or none.
LEMMA DialogStep ==
  ASSUME DialogInv, [Next]_vars
  PROVE  [ChannelNext]_channelVars
<1> USE DialogAssumption
<1>1. CASE User
  <2>1. CASE SaveForm
    BY <2>1 DEF SaveForm, DialogInv, TypeOK, ChannelNext
  <2>2. CASE SaveSwitch
    BY <2>2 DEF SaveSwitch, DialogInv, TypeOK, ChannelNext
  <2>3. ASSUME NEW c \in Others, Test(c) PROVE [ChannelNext]_channelVars
    BY <2>3 DEF Test, Others, DialogInv, TypeOK, ChannelNext
  <2> QED
    BY <1>1, <2>1, <2>2, <2>3
    DEF User, Type, ScanSucceeds, FlipInForm, Edit, LeaveEdit, channelVars
<1>2. CASE Answers
  BY <1>2 DEF Answers, Saved, SaveFailed, Refetch, Tested, Others, ChannelNext, channelVars
<1>3. ASSUME NEW c \in Others, OtherClient(c) PROVE [ChannelNext]_channelVars
  BY <1>3 DEF OtherClient, Others, Inputs, ChannelNext
<1>4. CASE Server
  BY <1>4 DEF Server, ChannelNext
<1> QED
  BY <1>1, <1>2, <1>3, <1>4 DEF Next, vars, channelVars

LEMMA DialogTypes ==
  ASSUME DialogInv, ChannelInv', [Next]_vars
  PROVE  TypeOK'
<1>1. ChannelTypeOK' /\ Response \in [configured : BOOLEAN, app : Inputs,
                                     enable : BOOLEAN, failed : BOOLEAN, sends : Nat]
  BY ResponseTyped DEF DialogInv, ChannelInv
<1>2. FormOf(Response) \in [app : Inputs, secret : Inputs]
  BY <1>1 DEF FormOf, Inputs
<1>3. ASSUME NEW newForm \in [app : Inputs, secret : Inputs], Filled(newForm)
      PROVE  /\ shown' \in [configured : BOOLEAN, app : Inputs, enable : BOOLEAN,
                            failed : BOOLEAN, sends : Nat]
             /\ form' \in [app : Inputs, secret : Inputs]
             /\ enable' \in BOOLEAN
  BY <1>1, <1>2, <1>3 DEF Filled, DialogInv, TypeOK
<1>4. CASE User
  <2>1. ASSUME NEW app \in Apps, NEW blank \in BOOLEAN,
               Type(app, IF blank THEN Blank ELSE app)
        PROVE  TypeOK'
    BY <1>1, <2>1 DEF Type, DialogInv, TypeOK, Inputs
  <2>2. ASSUME NEW app \in Apps, ScanSucceeds(app) PROVE TypeOK'
    BY <1>1, <2>2 DEF ScanSucceeds, DialogInv, TypeOK, Inputs
  <2>3. CASE FlipInForm \/ Edit \/ LeaveEdit
    BY <1>1, <2>3 DEF FlipInForm, Edit, LeaveEdit, DialogInv, TypeOK
  <2>4. CASE SaveForm
    BY <1>1, <2>4 DEF SaveForm, DialogInv, TypeOK
  <2>5. CASE SaveSwitch
    BY <1>1, <2>5 DEF SaveSwitch, DialogInv, TypeOK
  <2>6. ASSUME NEW c \in Others, Test(c) PROVE TypeOK'
    BY <1>1, <2>6 DEF Test, dialogVars, DialogInv, TypeOK
  <2> QED
    BY <1>4, <2>1, <2>2, <2>3, <2>4, <2>5, <2>6 DEF User
<1>5. CASE Saved
  <2> DEFINE kept == IF saving.by = "form" THEN [form EXCEPT !.secret = Blank] ELSE form
  <2>1. kept \in [app : Inputs, secret : Inputs]
    BY DEF DialogInv, TypeOK, Inputs
  <2> QED
    BY <1>1, <1>3, <1>5, <2>1 DEF Saved, NotSaving, DialogInv, TypeOK
<1>6. CASE SaveFailed
  BY <1>1, <1>6 DEF SaveFailed, NotSaving, DialogInv, TypeOK
<1>7. ASSUME Refetch \/ \E c \in Others : Tested(c) PROVE TypeOK'
  BY <1>1, <1>3, <1>7 DEF Refetch, Tested, DialogInv, TypeOK
<1>8. CASE UNCHANGED dialogVars
  BY <1>1, <1>8 DEF dialogVars, DialogInv, TypeOK
<1>9. CASE Answers
  BY <1>5, <1>6, <1>7, <1>9 DEF Answers
<1>10. User \/ Answers \/ UNCHANGED dialogVars
  BY DEF Next, vars, dialogVars
<1> QED
  BY <1>4, <1>8, <1>9, <1>10

LEMMA DialogInvHolds == Spec => []DialogInv /\ ChannelSpec
<1>1. ASSUME Init PROVE ChannelInit /\ DialogInv
  <2>1. ChannelInit /\ ChannelInv
    BY <1>1, InitHolds DEF Init
  <2>2. ChannelTypeOK
    BY <2>1 DEF ChannelInv
  <2>3. TypeOK
    BY <1>1, <2>2 DEF Init, TypeOK, Unconfigured, FormOf, NotSaving, Inputs
  <2> QED
    BY <2>1, <2>3 DEF DialogInv
<1>2. DialogInv /\ [Next]_vars => [ChannelNext]_channelVars /\ DialogInv'
  BY DialogStep, DialogTypes, StepHolds DEF DialogInv
<1> QED
  BY <1>1, <1>2, PTL DEF Spec, ChannelSpec

\* The dialog, the form and what it shows have their types.
THEOREM DialogTypeCorrect == Spec => []TypeOK
BY DialogInvHolds, PTL DEF DialogInv

\* What is proved about the channel holds while the dialog uses it.
THEOREM DialogUsesChannel == Spec => RefinesChannelStore /\ KeptSecretStays
BY DialogInvHolds, ChannelRefinesStore, KeptSecretStaysHolds, PTL

\* A save by the switch, with the form as it was loaded, keeps the secret.
SwitchKeeps ==
  (saving.by = "switch" /\ saving.clean /\ call[Saver].step = "write") => call[Saver].kept

SwitchInv == DialogInv /\ SwitchKeeps

LEMMA SwitchKeepsStays == SwitchInv /\ [Next]_vars => SwitchKeeps'
<1> SUFFICES ASSUME SwitchInv, [Next]_vars PROVE SwitchKeeps'
  OBVIOUS
<1>1. Saver \in Callers /\ Saver \notin Others /\ call \in [Callers -> CallRecords]
  BY DialogAssumption DEF Others, SwitchInv, DialogInv, ChannelInv, ChannelTypeOK, CallRecords
\* Nobody else makes the save of the dialog one that writes.
<1>2. ASSUME UNCHANGED saving,
             call'[Saver].step = "write" =>
               call[Saver].step = "write" /\ call'[Saver].kept = call[Saver].kept
      PROVE  SwitchKeeps'
  BY <1>2 DEF SwitchInv, SwitchKeeps
<1>3. CASE User
  <2>1. CASE SaveForm
    BY <2>1 DEF SaveForm, SwitchKeeps
  <2>2. CASE SaveSwitch
    <3>1. CASE saving'.clean /\ SaveRead(Saver, form.app, form.secret, ~enable)
      <4>1. form.secret = Blank
        <5>1. saving'.clean = (form = FormOf(shown))
          BY <2>2 DEF SaveSwitch
        <5>2. form = FormOf(shown)
          BY <3>1, <5>1, Zenon
        <5> QED
          BY <5>2 DEF FormOf
      <4>2. call'[Saver].kept = (form.secret = Blank)
        BY <1>1, <3>1 DEF SaveRead, Begin, NoCall
      <4>3. call'[Saver].kept
        BY <4>1, <4>2, Zenon
      <4> QED
        BY <4>3 DEF SwitchKeeps
    <3>2. CASE Refuse(Saver)
      BY <1>1, <3>2 DEF Refuse, Begin, SwitchKeeps, NoCall
    <3> QED
      BY <2>2, <3>1, <3>2 DEF SaveSwitch, SwitchKeeps
  <2>3. ASSUME NEW c \in Others, Test(c) PROVE SwitchKeeps'
    BY <1>1, <1>2, <2>3 DEF Test, TestRead, Begin, dialogVars
  <2> QED
    BY <1>2, <1>3, <2>1, <2>2, <2>3
    DEF User, Type, ScanSucceeds, FlipInForm, Edit, LeaveEdit, channelVars
<1>4. CASE Answers
  <2>1. CASE Saved \/ SaveFailed
    BY <2>1 DEF Saved, SaveFailed, NotSaving, SwitchKeeps
  <2>2. CASE Refetch
    BY <1>2, <2>2 DEF Refetch, channelVars
  <2>3. ASSUME NEW c \in Others, Tested(c) PROVE SwitchKeeps'
    BY <1>1, <1>2, <2>3 DEF Tested, Collect
  <2> QED
    BY <1>4, <2>1, <2>2, <2>3 DEF Answers
<1>5. ASSUME NEW c \in Others, OtherClient(c), UNCHANGED dialogVars PROVE SwitchKeeps'
  <2>1. call'[Saver] = call[Saver]
    BY <1>1, <1>5 DEF OtherClient, SaveRead, NotifyRead, Refuse, Begin, Collect
  <2> QED
    BY <1>2, <1>5, <2>1 DEF dialogVars
<1>6. CASE Server /\ UNCHANGED dialogVars
  <2>1. ASSUME NEW c \in Callers, SaveWrite(c)
        PROVE  call'[Saver].step = "write" =>
                 call[Saver].step = "write" /\ call'[Saver].kept = call[Saver].kept
    BY <1>1, <2>1 DEF SaveWrite, Answer, NoCall, CallRecords
  <2>2. ASSUME NEW c \in Callers, Send(c) \/ Record(c)
        PROVE  call'[Saver].step = "write" =>
                 call[Saver].step = "write" /\ call'[Saver].kept = call[Saver].kept
    BY <1>1, <2>2 DEF Send, Record, Answer, NoCall, CallRecords
  <2>3. ASSUME NEW newKey \in Seals, Restart(newKey)
        PROVE  call'[Saver].step # "write"
    BY <1>1, <2>3 DEF Restart, NoCall
  <2> QED
    BY <1>2, <1>6, <2>1, <2>2, <2>3 DEF Server, dialogVars
<1>7. CASE UNCHANGED vars
  BY <1>2, <1>7 DEF vars
<1> QED
  BY <1>3, <1>4, <1>5, <1>6, <1>7 DEF Next

\* The switch of the panel changes the switch only.
THEOREM SwitchKeepsCredentialsHolds == Spec => SwitchKeepsCredentials
<1>1. ASSUME SwitchInv, [Next]_vars,
             saving.by = "switch", saving.clean,
             call[Saver].step = "write", call'[Saver].step # "write",
             call[Saver].app = row.app, ~call[Saver].overtaken
      PROVE  row'.app = row.app /\ row'.secret = row.secret
  <2>1. /\ Saver \in Callers /\ ChannelTypeOK /\ [ChannelNext]_channelVars
        /\ Readable /\ call[Saver].secret = row.secret
    BY <1>1, DialogAssumption, DialogStep
       DEF SwitchInv, DialogInv, SwitchKeeps, ChannelInv, KeptIsStored
  <2>2. ASSUME NEW d \in Callers, Record(d)
        PROVE  row'.app = row.app /\ row'.secret = row.secret
    BY <2>1, <2>2 DEF Record, ChannelTypeOK
  <2>3. ASSUME NEW d \in Callers, SaveWrite(d), row' # row
        PROVE  row'.app = row.app /\ row'.secret = row.secret
    <3>1. CASE d = Saver
      BY <1>1, <2>1, <2>3, <3>1 DEF SaveWrite, ChannelTypeOK
    <3>2. CASE d # Saver
      <4>1. call'[Saver] = [call[Saver] EXCEPT !.overtaken = @ \/ call[Saver].kept]
        BY <2>1, <2>3, <3>2 DEF SaveWrite
      <4>2. call'[Saver].step = call[Saver].step
        BY <2>1, <4>1 DEF ChannelTypeOK
      <4> QED
        BY <1>1, <4>2
    <3> QED
      BY <3>1, <3>2
  <2> QED
    BY <2>1, <2>2, <2>3
    DEF ChannelNext, channelVars, SaveRead, TestRead, NotifyRead, Refuse, Collect,
        Send, Restart
<1>2. Init => SwitchKeeps
  BY DEF Init, NotSaving, SwitchKeeps
<1>3. DialogInv /\ DialogInv' /\ SwitchKeeps /\ [Next]_vars =>
        /\ SwitchKeeps'
        /\ [(/\ saving.by = "switch" /\ saving.clean
             /\ call[Saver].step = "write" /\ call'[Saver].step # "write"
             /\ call[Saver].app = row.app /\ ~call[Saver].overtaken)
            => <<row'.app, row'.secret>> = <<row.app, row.secret>>]_vars
  BY <1>1, SwitchKeepsStays DEF SwitchInv
<1> QED
  BY <1>2, <1>3, DialogInvHolds, PTL DEF Spec, SwitchKeepsCredentials

=============================================================================
