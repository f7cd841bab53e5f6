------------------------------ MODULE RunRecord ------------------------------
(***************************************************************************)
(* What the run history promises to whoever reads it: the record of one    *)
(* execution of a cron job.  The record does not exist until the execution *)
(* has been registered; from then on its log only grows at the end, its    *)
(* lines stay in the order in which the handler emitted them, and once the *)
(* outcome is recorded nothing changes any more.                           *)
(*                                                                         *)
(* RunLog.tla models how the worker keeps that promise.                    *)
(***************************************************************************)
EXTENDS Naturals, Sequences

VARIABLES
  lines,    \* the persisted log lines of the execution, oldest first
  status    \* "absent", "running", "success" or "failed"

rvars == <<lines, status>>

(***************************************************************************)
(* t continues s: same lines, same places, possibly more at the end.       *)
(***************************************************************************)
Continues(s, t) ==
  /\ Len(s) <= Len(t)
  /\ \A i \in 1 .. Len(s) : t[i] = s[i]

(***************************************************************************)
(* The lines the handler emitted (kind "log") carry the position at which  *)
(* they were captured; the record never shows two of them out of order and *)
(* never shows one twice.                                                  *)
(***************************************************************************)
InCaptureOrder(s) ==
  \A i, j \in 1 .. Len(s) :
    (i < j /\ s[i].kind = "log" /\ s[j].kind = "log") => s[i].cap < s[j].cap

RecordInit ==
  /\ lines = <<>>
  /\ status = "absent"

Register ==
  /\ status = "absent"
  /\ status' = "running"
  /\ UNCHANGED lines

AddLines ==
  /\ status = "running"
  /\ Continues(lines, lines')
  /\ InCaptureOrder(lines')
  /\ UNCHANGED status

RecordOutcome ==
  /\ status = "running"
  /\ status' \in {"success", "failed"}
  /\ UNCHANGED lines

RecordNext == Register \/ AddLines \/ RecordOutcome

RecordSpec == RecordInit /\ [][RecordNext]_rvars

=============================================================================
