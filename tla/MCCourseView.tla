----------------------------- MODULE MCCourseView -----------------------------
(* TLC instances of CourseView.                                            *)
EXTENDS CourseView, TLC

CONSTANTS c, d, e, m1, m2, m3, m4

\* Two milestones, the first of which is done.
Milestones0 ==
  m1 :> [course |-> c, position |-> 0, done |-> TRUE]
    @@ m2 :> [course |-> c, position |-> 1, done |-> FALSE]
Symmetry == Permutations({m3, m4})
=============================================================================
