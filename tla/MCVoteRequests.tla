---------------------------- MODULE MCVoteRequests ----------------------------
(* Instances of VoteRequests: two accounts vote on one question of a third,  *)
(* and the first changes its vote.                                           *)
EXTENDS VoteRequests, TLC

CONSTANTS author, u1, u2, q1, j1, j2, j3

OneAuthor == [q \in Questions |-> author]
Ask(u, v) == [user |-> u, question |-> q1, value |-> v]
AsksHere == j1 :> Ask(u1, 1) @@ j2 :> Ask(u2, 5) @@ j3 :> Ask(u1, 5)

Symmetry == Permutations(Threads)
=============================================================================
