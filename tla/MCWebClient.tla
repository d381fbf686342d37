---------------------------- MODULE MCWebClient ----------------------------
(* WebClient on small instances: see the README for the bounds of each .cfg. *)
EXTENDS WebClient, TLC

Symmetry == Permutations(Tabs) \cup Permutations(Calls) \cup Permutations(Tokens)

=============================================================================
