---------------------------- MODULE MCIngestion ----------------------------
(* TLC instances of Ingestion.                                              *)
EXTENDS IngestionInv, TLC

Symmetry == Permutations(Runs) \cup Permutations(Puts)
=============================================================================
