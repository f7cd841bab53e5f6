----------------------------- MODULE MCSessions -----------------------------
(***************************************************************************)
(* Sessions for TLC: browsers, names and passwords are interchangeable.    *)
(***************************************************************************)
EXTENDS Sessions, TLC

Interchangeable ==
  Permutations(Clients) \cup Permutations(Names) \cup Permutations(Passwords)

=============================================================================
