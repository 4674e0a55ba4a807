------------------------ MODULE MCContentLifecycle ------------------------
(* Instances of ContentLifecycle for TLC. *)
EXTENDS ContentLifecycle, TLC

\* People differ only in their roles and items not at all.
Symmetry == Permutations(Users) \cup Permutations(Items)
=============================================================================
