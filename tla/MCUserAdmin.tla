---------------------------- MODULE MCUserAdmin ----------------------------
(* UserAdmin on a tenant with a few administrators: see the README for the bounds. *)
EXTENDS UserAdmin, TLC

\* Users with the same initial role are interchangeable.
Symmetry == Permutations(Requests) \cup Permutations(SuperAdmins)

=============================================================================
