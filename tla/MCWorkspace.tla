---------------------------- MODULE MCWorkspace ----------------------------
(* TLC instances of ChatScope, and with it of Workspace.                   *)
EXTENDS ChatScope, TLC

CONSTANTS c, d, f1, f2, lectures

HomeOf == f1 :> c @@ f2 :> c
OneFolder == [f \in Files |-> lectures]
=============================================================================
