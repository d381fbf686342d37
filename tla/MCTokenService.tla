--------------------------- MODULE MCTokenService ---------------------------
(* TokenService on small instances: see the README for the bounds of each .cfg. *)
EXTENDS TokenService, TLC

Symmetry == Permutations(Tokens) \cup Permutations(Requests) \cup Permutations(Users)
            \cup Permutations(Sessions)

=============================================================================
