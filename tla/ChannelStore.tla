---------------------------- MODULE ChannelStore ----------------------------
(***************************************************************************)
(* What the notification channel promises: two registers.  The             *)
(* configuration is replaced as a whole by a save and by nothing else, is  *)
(* complete from the first save on and never goes away; the result of the  *)
(* last message is written beside it, by a message and by nothing else.    *)
(***************************************************************************)
EXTENDS Naturals

CONSTANTS Complete,  \* the complete configurations
          None       \* there is none yet

VARIABLES config,    \* what is configured
          result     \* the recorded result: failed or not, and the how many-th

storeVars == <<config, result>>

StoreInit == config = None /\ result = [failed |-> FALSE, count |-> 0]

\* A save answers with an error, or puts one configuration in force.
Save == config' \in Complete /\ UNCHANGED result

\* A message was sent, or failed, while something was configured.
Record ==
  /\ config # None
  /\ \E failed \in BOOLEAN :
       result' = [failed |-> failed, count |-> result.count + 1]
  /\ UNCHANGED config

StoreSpec == StoreInit /\ [][Save \/ Record]_storeVars

=============================================================================
