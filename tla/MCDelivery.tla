----------------------------- MODULE MCDelivery -----------------------------
(* Delivery on a small instance: see the README for the bounds of the .cfg. *)
EXTENDS Delivery, TLC

Symmetry == Permutations(Requests) \cup Permutations(Clients) \cup Permutations(Projects)
            \cup Permutations(Tenants) \cup Permutations(Codes)

=============================================================================
