----------------------------- MODULE MCScreens -----------------------------
(* Screens on small instances: see the README for the bounds of the .cfg. *)
EXTENDS Screens, TLC

\* Accounts and calls differ in their names only.
Symmetry == Permutations(Accounts) \cup Permutations(Calls)

=============================================================================
