------------------------- MODULE NotificationDialog -------------------------
(***************************************************************************)
(* The dialog that edits the notification channel                          *)
(* (src/web/src/components/settings/NotificationDialog.tsx and             *)
(* src/web/src/hooks/use-notification.ts) over the channel: the form, the  *)
(* query cache it is filled from, the save and the tests it has under way. *)
(* Other browsers and failed jobs use the channel at the same time.        *)
(***************************************************************************)
EXTENDS NotificationChannel

CONSTANTS
  Saver,  \* the caller that is the save of the dialog
  Masked  \* the secret as responses show it

\* Tests of the dialog, other browsers and notifications.
Others == Callers \ {Saver}

ASSUME DialogAssumption == Saver \in Callers

VARIABLES
  shown,    \* the response in the query cache
  form,     \* what the fields hold: application and secret
  enable,   \* the position of the switch
  editing,  \* the button Edit was pressed
  saving    \* the save under way: of the form or of the switch, where the
            \* switch was put, and whether the form was as loaded then (for
            \* the properties only)

dialogVars == <<shown, form, enable, editing, saving>>
vars == <<row, key, call, shown, form, enable, editing, saving>>

NotSaving == [by |-> "none", next |-> FALSE, clean |-> FALSE]

TypeOK ==
  /\ ChannelTypeOK
  /\ shown \in [configured : BOOLEAN, app : Inputs, enable : BOOLEAN,
                failed : BOOLEAN, sends : Nat]
  /\ form \in [app : Inputs, secret : Inputs]
  /\ enable \in BOOLEAN
  /\ editing \in BOOLEAN
  /\ saving \in [by : {"none", "form", "switch"}, next : BOOLEAN, clean : BOOLEAN]

\* Mutant: the field of the secret is filled with the mask.
FormWithMask(response) == [app |-> response.app, secret |-> Masked]

\* The form a response is turned into.
FormOf(response) == [app |-> response.app, secret |-> Blank]

Init ==
  /\ ChannelInit
  /\ shown = Unconfigured
  /\ form = FormOf(Unconfigured)
  /\ enable = TRUE
  /\ editing = FALSE
  /\ saving = NotSaving

\* The fields are shown before there is a configuration, and in edit mode.
ShowForm == ~shown.configured \/ editing

-----------------------------------------------------------------------------
(***************************************************************************)
(* The query cache.                                                        *)
(***************************************************************************)

\* A response that differs from the cached one fills the form; newForm is
\* what the form is otherwise.
Filled(newForm) ==
  /\ shown' = Response
  /\ form' = IF Response # shown THEN FormOf(Response) ELSE newForm
  /\ enable' = IF Response # shown THEN Response.enable ELSE enable

\* The window gets the focus back, or the cache is stale.
Refetch ==
  /\ Filled(form)
  /\ UNCHANGED <<channelVars, editing, saving>>

-----------------------------------------------------------------------------
(***************************************************************************)
(* The user.                                                               *)
(***************************************************************************)
Type(app, secret) ==
  /\ ShowForm
  /\ form' = [app |-> app, secret |-> secret]
  /\ UNCHANGED <<channelVars, shown, enable, editing, saving>>

FlipInForm ==
  /\ ShowForm
  /\ enable' = ~enable
  /\ UNCHANGED <<channelVars, shown, form, editing, saving>>

Edit ==
  /\ ~ShowForm
  /\ editing' = TRUE
  /\ UNCHANGED <<channelVars, shown, form, enable, saving>>

\* Cancel, or the dialog is closed: the fields keep what was typed.
LeaveEdit ==
  /\ editing
  /\ editing' = FALSE
  /\ UNCHANGED <<channelVars, shown, form, enable, saving>>

\* A scan (Registration.tla) brought an application with its secret.
ScanSucceeds(app) ==
  /\ form' = [app |-> app, secret |-> app]
  /\ editing' = TRUE
  /\ UNCHANGED <<channelVars, shown, enable, saving>>

-----------------------------------------------------------------------------
(***************************************************************************)
(* Saving and testing.                                                     *)
(***************************************************************************)
SaveForm ==
  /\ ShowForm
  /\ saving = NotSaving
  /\ SaveRead(Saver, form.app, form.secret, enable) \/ Refuse(Saver)
  /\ saving' = [NotSaving EXCEPT !.by = "form"]
  /\ UNCHANGED <<shown, form, enable, editing>>

\* The switch of the panel sends the form with it.
SaveSwitch ==
  /\ ~ShowForm
  /\ saving = NotSaving
  /\ enable' = ~enable
  /\ SaveRead(Saver, form.app, form.secret, ~enable) \/ Refuse(Saver)
  /\ saving' = [by |-> "switch", next |-> ~enable, clean |-> form = FormOf(shown)]
  /\ UNCHANGED <<shown, form, editing>>

\* The response is fetched again, which may fail, before the handler goes on.
Saved ==
  /\ call[Saver].step = "ok"
  /\ Collect(Saver)
  /\ LET kept == IF saving.by = "form" THEN [form EXCEPT !.secret = Blank] ELSE form
     IN  \/ Filled(kept)
         \/ form' = kept /\ UNCHANGED <<shown, enable>>
  /\ editing' = (editing /\ saving.by # "form")
  /\ saving' = NotSaving

\* The switch goes back from where the user had put it, wherever a response
\* that came meanwhile has moved it.
SaveFailed ==
  /\ call[Saver].step = "error"
  /\ Collect(Saver)
  /\ enable' = IF saving.by = "switch" THEN ~saving.next ELSE enable
  /\ saving' = NotSaving
  /\ UNCHANGED <<shown, form, editing>>

Test(c) ==
  /\ TestRead(c, form.app, form.secret)
  /\ UNCHANGED dialogVars

\* After a success the response is fetched again.
Tested(c) ==
  /\ call[c].step = "ok"
  /\ Collect(c)
  /\ Filled(form)
  /\ UNCHANGED <<editing, saving>>

\* Bound: the user waits for the answer before he edits on.
User ==
  \/ /\ saving = NotSaving
     /\ \/ \E app \in Apps, blank \in BOOLEAN :
             Type(app, IF blank THEN Blank ELSE app)
        \/ FlipInForm \/ Edit \/ LeaveEdit
  \/ \E app \in Apps : ScanSucceeds(app)
  \/ SaveForm \/ SaveSwitch \/ \E c \in Others : Test(c)

Answers == Saved \/ SaveFailed \/ Refetch \/ \E c \in Others : Tested(c)

\* Another browser that saves, and the notifications of failed jobs.
OtherClient(c) ==
  \/ \E app \in Apps, on \in BOOLEAN :
       \E secret \in {app, Blank} : SaveRead(c, app, secret, on)
  \/ NotifyRead(c) \/ Refuse(c) \/ Collect(c)

Server ==
  \/ \E c \in Callers : SaveWrite(c) \/ Send(c) \/ Record(c)
  \/ \E newKey \in Seals : Restart(newKey)

Next ==
  \/ User
  \/ Answers
  \/ (Server \/ \E c \in Others : OtherClient(c)) /\ UNCHANGED dialogVars

Spec == Init /\ [][Next]_vars

-----------------------------------------------------------------------------
(***************************************************************************)
(* Properties.                                                             *)
(***************************************************************************)

\* The switch of the panel sends a whole configuration, but changes nothing
\* except the switch: the credentials that are stored stay, if the form was
\* as loaded, shows the application that is stored, and no other save came
\* between.  (After a cancelled edit the form is not as loaded.)
SwitchKeepsCredentials ==
  [][(/\ saving.by = "switch" /\ saving.clean
      /\ call[Saver].step = "write" /\ call'[Saver].step # "write"
      /\ call[Saver].app = row.app /\ ~call[Saver].overtaken)
     => <<row'.app, row'.secret>> = <<row.app, row.secret>>]_vars

(***************************************************************************)
(* What a comment of the repository says and the code does not do.         *)
(***************************************************************************)

\* The comment at NotificationDialog.tsx:81: what the user has typed is not
\* silently cleared by a response that arrives, here by one that brings no
\* other configuration.
SameConfig(r, s) ==
  <<r.configured, r.app, r.enable>> = <<s.configured, s.app, s.enable>>

DraftIsKept ==
  [][Answers /\ ShowForm /\ saving = NotSaving /\ SameConfig(Response, shown)
     => form' = form]_vars

=============================================================================
