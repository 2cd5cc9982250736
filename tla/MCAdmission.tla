---------------------------- MODULE MCAdmission ----------------------------
(* Admission for TLC: both actions at the limits 1 and 2, a limit of 0 that *)
(* config.Load replaces and one that it never saw, and a limit that int32   *)
(* cuts to a negative number.                                               *)
EXTENDS Admission, TLC

Both(limit, fromFile) ==
  {[limit |-> limit, fromFile |-> fromFile, reject |-> reject] : reject \in BOOLEAN}

MCConfigs ==
  Both(1, TRUE) \cup Both(2, TRUE) \cup Both(0, TRUE) \cup Both(0, FALSE) \cup Both(5, TRUE)

Symmetry == Permutations(Requests)
=============================================================================
