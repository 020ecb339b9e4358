---------------------------- MODULE MCRetrieval ----------------------------
(* TLC instances of Retrieval: two users with a file each, or one user.     *)
EXTENDS Retrieval, TLC

CONSTANTS f1, f2, u1, u2

TwoOwners == f1 :> u1 @@ f2 :> u2
OneOwner == f1 :> u1

Symmetry == Permutations(Runs)
=============================================================================
