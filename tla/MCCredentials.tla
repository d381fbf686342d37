---------------------------- MODULE MCCredentials ----------------------------
(* Credentials on one account with two requests at a time: see the README. *)
EXTENDS Credentials, TLC

Symmetry == Permutations(Requests) \cup Permutations(Links) \cup Permutations(Sessions)

=============================================================================
