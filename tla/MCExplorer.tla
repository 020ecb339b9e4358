----------------------------- MODULE MCExplorer -----------------------------
(* TLC instances of Explorer.                                              *)
EXTENDS Explorer, TLC

CONSTANTS c, d, f1, g1, g2, h1

HomeOf == g1 :> c @@ g2 :> c @@ h1 :> d
Rows0 == f1 :> [name |-> "lectures", folder |-> g1, status |-> "uploaded"]
Top(n) == [name |-> n, parent |-> None]
Names0 == g1 :> Top("lectures") @@ h1 :> Top("lectures")
=============================================================================
