------------------------------ MODULE MCSessions ------------------------------
(* Instances of Sessions: accounts, tokens and requests are interchangeable. *)
EXTENDS Sessions, TLC

Symmetry == Permutations(Users) \cup Permutations(SessionTokens)
              \cup Permutations(CsrfTokens) \cup Permutations(Requests)
=============================================================================
