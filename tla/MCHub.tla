--------------------------------- MODULE MCHub ---------------------------------
(* TLC instance of Hub, with unique client IDs. *)
EXTENDS Hub, TLC

OwnId(c) == c
Symmetry == Permutations(Client)
=============================================================================
