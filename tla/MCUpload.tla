------------------------------ MODULE MCUpload ------------------------------
(* TLC instances of Upload.                                                *)
EXTENDS Upload

CONSTANTS x, y, g1, g2
=============================================================================
