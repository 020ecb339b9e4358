---------------------------- MODULE MCChatClient ----------------------------
(* TLC instance of ChatClient.                                             *)
EXTENDS ChatClient

Symmetry == Permutations(Convs) \cup Permutations(Sends)
=============================================================================
