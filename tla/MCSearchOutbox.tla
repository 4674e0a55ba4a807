--------------------------- MODULE MCSearchOutbox ---------------------------
(* Instances of SearchOutbox for TLC. *)
EXTENDS SearchOutbox

CONSTANTS w1, w2

\* Every process has a lease owner of its own.
OwnOwner == [w \in Processes |-> IF w = w1 THEN "placedb-indexer-1" ELSE "placedb-indexer-2"]
=============================================================================
