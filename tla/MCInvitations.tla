---------------------------- MODULE MCInvitations ----------------------------
(* Invitations on small instances: see the README for the bounds. *)
EXTENDS Invitations, TLC

Symmetry == Permutations(Invites) \cup Permutations(Links) \cup Permutations(Requests)

=============================================================================
