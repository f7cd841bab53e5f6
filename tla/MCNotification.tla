--------------------------- MODULE MCNotification ---------------------------
(***************************************************************************)
(* NotificationDialog for TLC: applications are interchangeable.           *)
(***************************************************************************)
EXTENDS NotificationDialog, TLC

Symmetry == Permutations(Apps)

=============================================================================
