----------------------------- MODULE MCChatTurn -----------------------------
(* TLC instances of ChatTurn: a conversation with three turns behind it, or
   with none.                                                              *)
EXTENDS ChatTurn, TLC

CONSTANTS p1, p2, p3, c1, c2, c3, u1, u2

ThreeTurns == <<p1, p2, p3>>
NoTurns == <<>>
\* c3 is an id no course has.
OneCourseEach == c1 :> u1 @@ c2 :> u2 @@ c3 :> None
OneCourse == c1 :> u1

Symmetry == Permutations(Turns \ {p1, p2, p3}) \cup Permutations(Convs \ {PastConv})
=============================================================================
