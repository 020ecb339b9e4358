---------------------------- MODULE MCCourseTree ----------------------------
(* TLC instance of CourseTree: two handlers at a time over two courses. *)
EXTENDS CourseTree, TLC

Symmetry == Permutations(Courses) \cup Permutations(Folders) \cup Permutations(Requests)
              \cup Permutations(Keys)
=============================================================================
