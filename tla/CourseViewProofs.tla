-------------------------- MODULE CourseViewProofs --------------------------
(***************************************************************************)
(* Theorems about CourseView, the course in view with its roadmap, for any  *)
(* courses, milestones, positions and number of writes.                     *)
(***************************************************************************)
EXTENDS CourseView, FiniteSetTheorems, WellFoundedInduction, TLAPS

----------------------------------------------------------------------------
\* A course's milestones as the server has them, or as an answer lists them.
RowList == [Milestones -> MilestoneRow \cup {None}]

\* The types the proofs need.
ViewTyped ==
  /\ owned \subseteq Courses
  /\ milestone \in RowList
  /\ IsFiniteSet(drawn) /\ drawn \subseteq Milestones
  /\ \A m \in Milestones : milestone[m] # None => m \in drawn
  /\ coursesQ \in Entry(SUBSET owned)
  /\ rowsQ \in [Courses -> Entry(RowList)]

\* The list of courses has c, or is about to.
Lists(c) ==
  /\ coursesQ.wire = "idle" => c \in coursesQ.data
  /\ coursesQ.wire = "read" => c \in coursesQ.reply

\* The course being added is there once the server has answered.
AddingHolds ==
  adding # None =>
    /\ adding \in [stage : {"asked", "done", "refused", "refetching", "error"},
                   course : Courses \cup {None}, sure : BOOLEAN]
    /\ adding.stage = "done" => adding.course \in owned
    /\ adding.stage = "refetching" => adding.course \in owned
    /\ adding.stage = "refetching" /\ adding.sure => Lists(adding.course)

\* The course that was opened is in view, in the list and in what it is replaced by.
OpenedHolds ==
  opened # None => /\ course = opened /\ opened \in owned /\ opened \in coursesQ.data
                   /\ coursesQ.wire = "read" => opened \in coursesQ.reply

\* The rows of a roadmap are rows of its course, and as many as were drawn at most.
RowsAreOf(c, d) ==
  \A m \in Milestones : d[m] # None =>
    m \in drawn /\ (milestone[m] # None => milestone[m].course = c)

\* A roadmap is what the server has, unless a change of it is being answered or it
\* was not told of one.
ToldAll(c) ==
  c \notin untold /\ ~(saving # None /\ saving.stage = "done" /\ saving.course = c)

RoadmapHolds(c) ==
  /\ RowsAreOf(c, rowsQ[c].data) /\ RowsAreOf(c, rowsQ[c].reply)
  /\ rowsQ[c].wire # "idle" => rowsQ[c].old \/ ~rowsQ[c].loaded
  /\ ToldAll(c) => /\ Settled(rowsQ[c]) => rowsQ[c].data = RowsOf(c)
                   /\ rowsQ[c].wire = "read" => rowsQ[c].reply = RowsOf(c)

\* A change that was asked for is about a milestone of the course it was made in; a
\* new one that was placed in a roadmap as the server has it goes behind all there are.
SavingHolds ==
  saving # None =>
    /\ saving \in Change
    /\ saving.stage \in {"asked", "done"} => saving.course \in Courses
    /\ saving.op = "add" => saving.value \in Int
    /\ saving.op = "toggle" => saving.value \in BOOLEAN
    /\ saving.op # "add" => saving.id \in Milestones
    /\ saving.stage = "asked" /\ saving.op # "add" /\ milestone[saving.id] # None
         => milestone[saving.id].course = saving.course
    /\ saving.stage = "asked" /\ saving.op = "add" /\ saving.sure =>
         \A o \in drawn :
           milestone[o] # None /\ milestone[o].course = saving.course
             => milestone[o].position < saving.value

ViewInv ==
  /\ ViewTyped /\ AddingHolds /\ OpenedHolds /\ SavingHolds
  /\ \A c \in Courses : RoadmapHolds(c)

\* A set that has 0, and the successor of each of its members, has every natural.
LEMMA Induction ==
  ASSUME NEW S, 0 \in S, \A n \in Nat : n \in S => n + 1 \in S
  PROVE  Nat \subseteq S
<1> DEFINE T == Nat \ S
           Less == {ss \in Nat \X Nat : ss[1] < ss[2]}
<1> SUFFICES ASSUME T # {} PROVE FALSE
  OBVIOUS
<1>1. IsWellFoundedOn(Less, Nat)
  BY NatLessThanWellFounded DEF OpToRel
<1>2. PICK m \in T : \A n \in T : ~(<<n, m>> \in Less)
  BY <1>1, WFMin
<1>3. m - 1 \in Nat /\ m - 1 < m
  BY <1>2
<1>4. <<m - 1, m>> \in Less
  BY <1>2, <1>3
<1> QED
  BY <1>2, <1>3, <1>4

\* Finitely many positions have a last one.
LEMMA LastExists ==
  ASSUME NEW S \in SUBSET Int, S # {}, IsFiniteSet(S)
  PROVE  Max(S) \in S /\ \A p \in S : p <= Max(S)
<1> DEFINE Has(P) == \E p \in P : \A q \in P : q <= p
           N == {n \in Nat : \A P \in SUBSET Int :
                   IsFiniteSet(P) /\ Cardinality(P) = n /\ P # {} => Has(P)}
<1>1. 0 \in N
  BY FS_EmptySet
<1>2. ASSUME NEW n \in Nat, n \in N PROVE n + 1 \in N
  <2> SUFFICES ASSUME NEW P \in SUBSET Int, IsFiniteSet(P), Cardinality(P) = n + 1, P # {}
               PROVE  Has(P)
    OBVIOUS
  <2>1. PICK p \in P : TRUE
    OBVIOUS
  <2>2. IsFiniteSet(P \ {p}) /\ Cardinality(P \ {p}) = n
    <3>1. Cardinality(P \ {p}) = Cardinality(P) - 1 /\ IsFiniteSet(P \ {p})
      BY FS_RemoveElement
    <3>2. (n + 1) - 1 = n
      OBVIOUS
    <3> QED
      BY <3>1, <3>2
  <2>3. CASE P \ {p} = {}
    BY <2>3
  <2>4. CASE P \ {p} # {}
    <3>1. PICK q \in P \ {p} : \A r \in P \ {p} : r <= q
      BY <1>2, <2>2, <2>4
    <3> QED
      BY <3>1
  <2> QED
    BY <2>3, <2>4
<1>3. Nat \subseteq N
  <2> HIDE DEF N
  <2> QED
    BY <1>1, <1>2, Induction
<1>4. Cardinality(S) \in Nat
  BY FS_CardinalityType
<1>5. Has(S)
  BY <1>3, <1>4
<1>6. \E p \in S : \A q \in S : p >= q
  BY <1>5
<1> QED
  BY <1>6 DEF Max

\* What befalls a roadmap's entry beside an answer leaves its claims true.
LEMMA RoadmapStays ==
  ASSUME ViewTyped, NEW c \in Courses, RoadmapHolds(c), UNCHANGED <<milestone, drawn>>,
         ToldAll(c)' => ToldAll(c),
         \/ rowsQ'[c] \in {rowsQ[c], InView(rowsQ[c]), Invalidate(rowsQ[c], TRUE, NoRows)}
         \/ rowsQ'[c] \in Lapsed(rowsQ[c], NoRows)
  PROVE  rowsQ'[c] \in Entry(RowList) /\ RoadmapHolds(c)'
<1> SUFFICES ASSUME NEW e, e = rowsQ[c], NEW f, f = rowsQ'[c]
             PROVE  f \in Entry(RowList) /\ RoadmapHolds(c)'
  OBVIOUS
<1>1. e \in Entry(RowList) /\ NoRows \in RowList
  BY DEF ViewTyped, RowList, NoRows
<1>2. e.wire # "idle" => e.old \/ ~e.loaded
  BY DEF RoadmapHolds
<1>3. /\ f \in Entry(RowList)
      /\ f.data = e.data /\ f.reply \in {e.reply, NoRows}
      /\ f.wire = "read" => e.wire = "read" /\ f.reply = e.reply
      /\ Settled(f) => Settled(e)
      /\ f.wire # "idle" => f.old \/ ~f.loaded
  <2>1. CASE f = e
    BY <1>1, <1>2, <2>1
  <2>2. CASE f = InView(e)
    BY <1>1, <1>2, <2>2 DEF InView, Entry, Settled
  <2>3. CASE f = Invalidate(e, TRUE, NoRows)
    BY <1>1, <1>2, <2>3 DEF Invalidate, Entry, Settled
  <2>4. CASE f = Cancel(e, NoRows)
    BY <1>1, <1>2, <2>4 DEF Cancel, Entry, Settled
  <2>5. CASE f = [e EXCEPT !.old = TRUE]
    BY <1>1, <1>2, <2>5 DEF Entry, Settled
  <2> QED
    BY <2>1, <2>2, <2>3, <2>4, <2>5 DEF Lapsed
<1>4. RowsAreOf(c, NoRows)'
  BY DEF RowsAreOf, NoRows
<1>5. RowsAreOf(c, f.data)' /\ RowsAreOf(c, f.reply)'
  <2>1. RowsAreOf(c, e.data) /\ RowsAreOf(c, e.reply)
    BY DEF RoadmapHolds
  <2>2. RowsAreOf(c, e.data)' /\ RowsAreOf(c, e.reply)'
    BY <2>1 DEF RowsAreOf
  <2> QED
    BY <1>3, <1>4, <2>2
<1>6. RowsOf(c)' = RowsOf(c)
  BY DEF RowsOf
<1>7. ToldAll(c) => /\ Settled(e) => e.data = RowsOf(c)
                    /\ e.wire = "read" => e.reply = RowsOf(c)
  BY DEF RoadmapHolds
<1>8. ToldAll(c)' => /\ Settled(f) => f.data = RowsOf(c)'
                     /\ f.wire = "read" => f.reply = RowsOf(c)'
  BY <1>3, <1>6, <1>7
<1>9. RoadmapHolds(c)'
  BY <1>3, <1>5, <1>8 DEF RoadmapHolds, Settled
<1> QED
  BY <1>3, <1>9

\* Steps that leave the milestones alone and bring no rows.
LEMMA RoadmapsStay ==
  ASSUME ViewTyped, \A c \in Courses : RoadmapHolds(c), UNCHANGED <<milestone, drawn, saving>>,
         untold \subseteq untold',
         rowsQ' = rowsQ \/ \E c \in Courses : Look(c)
  PROVE  rowsQ' \in [Courses -> Entry(RowList)] /\ \A c \in Courses : RoadmapHolds(c)'
<1>1. \A k \in Courses : rowsQ'[k] \in {rowsQ[k], InView(rowsQ[k])}
  BY DEF Look, ViewTyped
<1>2. \A k \in Courses : ToldAll(k)' => ToldAll(k)
  BY DEF ToldAll
<1>3. \A k \in Courses : rowsQ'[k] \in Entry(RowList) /\ RoadmapHolds(k)'
  BY <1>1, <1>2, RoadmapStays
<1>4. rowsQ' = [k \in Courses |-> rowsQ'[k]]
  BY DEF Look, ViewTyped
<1> QED
  BY <1>3, <1>4

\* Steps of the page and of the dialog leave the milestones and their saving alone.
LEMMA PageStepKeepsViewInv ==
  ASSUME ViewInv, UNCHANGED <<milestone, drawn, saving, untold>>,
         rowsQ' = rowsQ \/ (\E c \in Courses : Look(c)),
         owned' \subseteq Courses, coursesQ' \in Entry(SUBSET owned'), AddingHolds', OpenedHolds'
  PROVE  ViewInv'
<1>1. rowsQ' \in [Courses -> Entry(RowList)] /\ \A c \in Courses : RoadmapHolds(c)'
  BY RoadmapsStay DEF ViewInv
<1>2. ViewTyped'
  BY <1>1 DEF ViewInv, ViewTyped
<1>3. SavingHolds'
  BY DEF ViewInv, SavingHolds
<1> QED
  BY <1>1, <1>2, <1>3 DEF ViewInv

\* A course comes into view.
LEMMA CourseComesKeepsViewInv ==
  ASSUME ViewInv, InitializeCourse \/ \E c \in Courses : SwitchCourse(c)
  PROVE  ViewInv'
<1>1. /\ \E c \in Courses : Look(c)
      /\ UNCHANGED <<owned, milestone, drawn, saving, untold, coursesQ, adding>>
      /\ (InitializeCourse /\ opened' = opened) \/ opened' = None
  BY DEF InitializeCourse, SwitchCourse, Firsts, ViewInv, ViewTyped, Entry, server, dialogs, notes
<1>2. InitializeCourse /\ opened # None => FALSE
  BY DEF InitializeCourse, Tidy, Firsts, ViewInv, OpenedHolds
<1>3. AddingHolds' /\ OpenedHolds'
  BY <1>1, <1>2 DEF ViewInv, AddingHolds, Lists, OpenedHolds
<1> QED
  BY <1>1, <1>3, PageStepKeepsViewInv DEF ViewInv, ViewTyped

\* The dialog is submitted, refused, and closed.
LEMMA DialogKeepsViewInv ==
  ASSUME ViewInv, AddCourse \/ AddFails \/ CloseDialog
  PROVE  ViewInv'
<1>1. UNCHANGED <<owned, milestone, drawn, saving, untold, coursesQ, rowsQ, course, opened>>
  BY DEF AddCourse, AddFails, CloseDialog, server, lists, notes
<1>2. AddingHolds'
  <2>1. CASE adding' = None
    BY <2>1 DEF AddingHolds
  <2>2. CASE AddCourse
    BY <2>2 DEF AddCourse, AddingHolds
  <2>3. CASE AddFails
    BY <2>3 DEF AddFails, ViewInv, AddingHolds
  <2> QED
    BY <2>1, <2>2, <2>3 DEF CloseDialog
<1>3. OpenedHolds'
  BY <1>1 DEF ViewInv, OpenedHolds
<1> QED
  BY <1>1, <1>2, <1>3, PageStepKeepsViewInv DEF ViewInv, ViewTyped

\* The server stores the course, or refuses it.
LEMMA CourseStoredKeepsViewInv ==
  ASSUME ViewInv, CourseStored
  PROVE  ViewInv'
<1>1. /\ UNCHANGED <<milestone, drawn, saving, untold, coursesQ, rowsQ, course, opened>>
      /\ adding # None /\ owned \subseteq owned' /\ owned' \subseteq Courses
  BY DEF CourseStored, lists, notes, ViewInv, ViewTyped
<1>2. /\ adding' \in [stage : {"asked", "done", "refused", "refetching", "error"},
                      course : Courses \cup {None}, sure : BOOLEAN]
      /\ adding'.stage \in {"done", "refused"}
      /\ adding'.stage = "done" => adding'.course \in owned'
  BY DEF CourseStored, ViewInv, AddingHolds
<1>3. AddingHolds'
  BY <1>2 DEF AddingHolds
<1>4. OpenedHolds'
  BY <1>1 DEF ViewInv, OpenedHolds
<1>5. coursesQ' \in Entry(SUBSET owned')
  BY <1>1 DEF ViewInv, ViewTyped, Entry
<1> QED
  BY <1>1, <1>3, <1>4, <1>5, PageStepKeepsViewInv

\* The list of courses is fetched again.
LEMMA CourseAnsweredKeepsViewInv ==
  ASSUME ViewInv, CourseAnswered
  PROVE  ViewInv'
<1>1. /\ UNCHANGED <<owned, milestone, drawn, saving, untold, rowsQ, course, opened>>
      /\ adding # None /\ adding.stage = "done"
      /\ coursesQ' = Invalidate(coursesQ, TRUE, {})
      /\ adding' = [adding EXCEPT !.stage = "refetching", !.sure = coursesQ.loaded]
  BY DEF CourseAnswered, RefetchFirst, server, notes
<1>2. coursesQ \in Entry(SUBSET owned)
  BY DEF ViewInv, ViewTyped
<1>3. /\ coursesQ' \in Entry(SUBSET owned) /\ coursesQ'.data = coursesQ.data
      /\ coursesQ'.wire = "read" => coursesQ.wire = "read" /\ coursesQ'.reply = coursesQ.reply
      /\ coursesQ.loaded => coursesQ'.wire = "asked"
  BY <1>1, <1>2 DEF Invalidate, Entry
<1>4. AddingHolds'
  BY <1>1, <1>2, <1>3 DEF ViewInv, AddingHolds, Lists, Entry
<1>5. OpenedHolds'
  BY <1>1, <1>3 DEF ViewInv, OpenedHolds
<1> QED
  BY <1>1, <1>3, <1>4, <1>5, PageStepKeepsViewInv DEF ViewInv, ViewTyped

\* The new course is opened.
LEMMA CourseOpenedKeepsViewInv ==
  ASSUME ViewInv, CourseOpened
  PROVE  ViewInv'
<1>1. /\ UNCHANGED <<owned, milestone, drawn, saving, untold, coursesQ>>
      /\ adding # None /\ adding.stage = "refetching" /\ coursesQ.wire = "idle"
      /\ course' = adding.course /\ adding' = None
      /\ opened' = IF adding.sure THEN course' ELSE None
      /\ IF course' \in coursesQ.data THEN Look(course') ELSE UNCHANGED rowsQ
  BY DEF CourseOpened, server
<1>2. adding.course \in owned /\ (adding.sure => adding.course \in coursesQ.data)
  BY <1>1 DEF ViewInv, AddingHolds, Lists
<1>3. AddingHolds'
  BY <1>1 DEF AddingHolds
<1>4. OpenedHolds'
  BY <1>1, <1>2 DEF OpenedHolds
<1> QED
  BY <1>1, <1>2, <1>3, <1>4, PageStepKeepsViewInv DEF ViewInv, ViewTyped

\* The list of courses is read and arrives.
LEMMA CoursesArriveKeepsViewInv ==
  ASSUME ViewInv, CoursesArrive
  PROVE  ViewInv'
<1>1. /\ UNCHANGED <<owned, milestone, drawn, saving, untold, course, opened, adding>>
      /\ rowsQ' = rowsQ \/ Look(course)
  BY DEF CoursesArrive, server, dialogs, notes
<1>2. coursesQ \in Entry(SUBSET owned) /\ owned \subseteq Courses
  BY DEF ViewInv, ViewTyped
<1>3. /\ coursesQ' \in Entry(SUBSET owned)
      /\ \/ coursesQ'.wire = "read" /\ coursesQ'.reply = owned /\ coursesQ'.data = coursesQ.data
         \/ coursesQ.wire = "read" /\ coursesQ'.wire = "idle" /\ coursesQ'.data = coursesQ.reply
  BY <1>2 DEF CoursesArrive, Read, Deliver, Entry
<1>4. rowsQ' = rowsQ \/ (course \in Courses /\ Look(course))
  <2>1. coursesQ'.data \subseteq Courses
    BY <1>2, <1>3 DEF Entry
  <2>2. \/ UNCHANGED rowsQ
        \/ IF course \in coursesQ'.data \ coursesQ.data THEN Look(course) ELSE UNCHANGED rowsQ
    BY DEF CoursesArrive
  <2>3. course \in coursesQ'.data \ coursesQ.data => course \in Courses
    BY <2>1
  <2> QED
    BY <2>2, <2>3
<1>5. AddingHolds' /\ OpenedHolds'
  BY <1>1, <1>3 DEF ViewInv, AddingHolds, Lists, OpenedHolds
<1> QED
  BY <1>1, <1>2, <1>3, <1>4, <1>5, PageStepKeepsViewInv

\* Steps of the roadmap leave the page alone.
LEMMA PageStays ==
  ASSUME ViewInv, UNCHANGED <<owned, course, coursesQ, adding, opened>>
  PROVE  AddingHolds' /\ OpenedHolds'
BY DEF ViewInv, AddingHolds, Lists, OpenedHolds

\* The course in view is one of the user's.
LEMMA CurrentCourseIsOwned == ViewInv /\ CurrentCourse # None => CurrentCourse \in owned
BY DEF ViewInv, ViewTyped, CurrentCourse, Entry

\* A change of the roadmap is submitted.
LEMMA SaveKeepsViewInv ==
  ASSUME ViewInv, CurrentCourse # None, NEW op, NEW id, NEW value, Save(op, id, value),
         \/ op = "toggle" /\ id \in Rows /\ value \in BOOLEAN
         \/ op = "delete" /\ id \in Rows /\ value = None
         \/ op = "add" /\ id = None
            /\ value = NextPosition({Row(m).position : m \in Rows})
  PROVE  ViewInv'
<1> DEFINE c == CurrentCourse
           d == rowsQ[c].data
           P == {Row(m).position : m \in Rows}
<1>1. /\ saving = None
      /\ saving' = [op |-> op, id |-> id, value |-> value, course |-> c, stage |-> "asked",
                    sure |-> Sure(c)]
      /\ UNCHANGED <<owned, milestone, drawn, course, coursesQ, rowsQ, adding, opened, untold>>
  BY DEF Save, server, lists, notes
<1>2. c \in Courses /\ d \in RowList
  BY CurrentCourseIsOwned DEF ViewInv, ViewTyped, Entry
<1>3. /\ Rows \subseteq drawn /\ Rows \subseteq Milestones
      /\ \A m \in Rows : d[m] \in MilestoneRow
                         /\ (milestone[m] # None => milestone[m].course = c)
  BY <1>2 DEF Rows, ViewInv, RoadmapHolds, RowsAreOf, RowList
<1>4. op = "add" => /\ value \in Int
                    /\ \A m \in Rows : Row(m).position \in Int /\ Row(m).position < value
  <2> DEFINE S == {0} \cup {p + 1 : p \in P}
  <2>1. \A m \in Rows : Row(m).position \in Int
    BY <1>3 DEF Row, MilestoneRow
  <2>2. IsFiniteSet(P)
    <3>1. IsFiniteSet(Rows)
      BY <1>3, FS_Subset DEF ViewInv, ViewTyped
    <3> DEFINE f == [m \in Rows |-> Row(m).position]
    <3>2. f \in Surjection(Rows, P)
      BY DEF Surjection
    <3> QED
      BY <3>1, <3>2, FS_Surjection
  <2>3. IsFiniteSet({p + 1 : p \in P})
    <3> DEFINE f == [p \in P |-> p + 1]
    <3>1. f \in Surjection(P, {p + 1 : p \in P})
      BY DEF Surjection
    <3> QED
      BY <2>2, <3>1, FS_Surjection
  <2>4. IsFiniteSet(S) /\ S # {} /\ S \in SUBSET Int
    <3>1. IsFiniteSet({0})
      BY FS_Singleton
    <3>2. IsFiniteSet(S)
      BY <2>3, <3>1, FS_Union
    <3>3. \A p \in P : p + 1 \in Int
      BY <2>1
    <3> QED
      BY <3>2, <3>3
  <2>5. Max(S) \in S /\ \A p \in S : p <= Max(S)
    <3> HIDE DEF S
    <3> QED
      BY <2>4, LastExists
  <2>6. \A m \in Rows : Row(m).position + 1 \in S
    OBVIOUS
  <2>7. op = "add" => value = Max(S)
    BY DEF NextPosition
  <2> HIDE DEF S
  <2>8. Max(S) \in Int
    BY <2>4, <2>5
  <2>9. ASSUME NEW m \in Rows PROVE Row(m).position < Max(S)
    <3>1. Row(m).position \in Int /\ Row(m).position + 1 <= Max(S)
      BY <2>1, <2>5, <2>6
    <3> HIDE DEF Row
    <3> QED
      BY <2>8, <3>1
  <2> QED
    BY <2>1, <2>7, <2>8, <2>9
<1>5. op = "add" /\ Sure(c) =>
        \A o \in drawn : milestone[o] # None /\ milestone[o].course = c
                           => milestone[o].position < value
  <2>1. Sure(c) => d = RowsOf(c)
    BY <1>1, <1>2 DEF Sure, ViewInv, RoadmapHolds, ToldAll
  <2>2. ASSUME NEW o \in drawn, Sure(c), milestone[o] # None, milestone[o].course = c
        PROVE  o \in Rows /\ Row(o) = milestone[o]
    BY <2>1, <2>2 DEF RowsOf, Rows, Row, ViewInv, ViewTyped
  <2> QED
    BY <1>4, <2>2
<1>6. SavingHolds'
  <2>1. Sure(c) \in BOOLEAN
    BY DEF Sure, Settled
  <2>2. id \in Milestones \cup {None} /\ value \in BOOLEAN \cup Int \cup {None}
        /\ op \in {"toggle", "add", "delete"}
    BY <1>3, <1>4
  <2> HIDE DEF c
  <2>3. /\ saving'.op = op /\ saving'.id = id /\ saving'.value = value /\ saving'.course = c
        /\ saving'.stage = "asked" /\ saving'.sure = Sure(c)
        /\ saving' \in Change
    BY <1>1, <1>2, <2>1, <2>2 DEF Change
  <2> QED
    BY <1>1, <1>2, <1>3, <1>4, <1>5, <2>3 DEF SavingHolds
<1>7. \A k \in Courses : RoadmapHolds(k)'
  BY <1>1 DEF ViewInv, RoadmapHolds, RowsAreOf, ToldAll, RowsOf, Settled
<1>8. ViewTyped'
  BY <1>1 DEF ViewInv, ViewTyped
<1> QED
  BY <1>1, <1>6, <1>7, <1>8, PageStays DEF ViewInv

\* The roadmap's buttons.
LEMMA ButtonsKeepViewInv ==
  ASSUME ViewInv, Add \/ \E m \in Milestones : Toggle(m) \/ Delete(m)
  PROVE  ViewInv'
<1>1. ASSUME NEW m \in Milestones, Toggle(m) PROVE ViewInv'
  <2>1. CurrentCourse # None /\ m \in Rows /\ Save("toggle", m, ~Row(m).done)
    BY <1>1 DEF Toggle
  <2>2. (~Row(m).done) \in BOOLEAN
    OBVIOUS
  <2> QED
    BY <2>1, <2>2, SaveKeepsViewInv
<1>2. ASSUME NEW m \in Milestones, Delete(m) PROVE ViewInv'
  BY <1>2, SaveKeepsViewInv DEF Delete
<1>3. CASE Add
  BY <1>3, SaveKeepsViewInv DEF Add
<1> QED
  BY <1>1, <1>2, <1>3

\* The server stores a change of the roadmap.
LEMMA MilestoneStoredKeepsViewInv ==
  ASSUME ViewInv, MilestoneStored
  PROVE  ViewInv'
<1> DEFINE c == saving.course
<1>1. /\ UNCHANGED <<owned, course, coursesQ, rowsQ, adding, opened, untold>>
      /\ saving # None /\ saving.stage = "asked" /\ saving' = [saving EXCEPT !.stage = "done"]
  BY DEF MilestoneStored, lists, notes
<1>2. /\ saving \in Change
      /\ c \in Courses /\ (saving.op = "add" => saving.value \in Int)
      /\ saving.op = "toggle" => saving.value \in BOOLEAN
      /\ saving.op # "add" => saving.id \in Milestones
      /\ saving.op # "add" /\ milestone[saving.id] # None => milestone[saving.id].course = c
  BY <1>1 DEF ViewInv, SavingHolds
<1>3. /\ milestone \in RowList /\ IsFiniteSet(drawn) /\ drawn \subseteq Milestones
      /\ \A m \in Milestones : milestone[m] # None => m \in drawn
  BY DEF ViewInv, ViewTyped
<1>4. PICK m \in Milestones :
        /\ milestone' \in RowList /\ \A k \in Milestones : k # m => milestone'[k] = milestone[k]
        /\ milestone[m] # None => milestone[m].course = c
        /\ milestone'[m] # None => milestone'[m].course = c /\ m \in drawn'
        /\ m \notin drawn => drawn' = drawn \cup {m}
        /\ m \in drawn => drawn' = drawn /\ milestone[m] # None
  <2>1. CASE saving.op = "toggle" /\ milestone[saving.id] # None
             /\ milestone' = [milestone EXCEPT ![saving.id].done = saving.value] /\ UNCHANGED drawn
    <3>1. milestone[saving.id] \in MilestoneRow
      BY <1>2, <1>3, <2>1 DEF RowList
    <3>2. /\ milestone'[saving.id] = [milestone[saving.id] EXCEPT !.done = saving.value]
          /\ \A k \in Milestones : k # saving.id => milestone'[k] = milestone[k]
          /\ milestone' = [k \in Milestones |-> milestone'[k]]
      BY <1>2, <1>3, <2>1 DEF RowList
    <3>3. /\ milestone'[saving.id] \in MilestoneRow
          /\ milestone'[saving.id].course = milestone[saving.id].course
      BY <1>2, <2>1, <3>1, <3>2 DEF MilestoneRow
    <3>4. milestone' \in RowList
      BY <1>3, <3>2, <3>3 DEF RowList
    <3> QED
      BY <1>2, <1>3, <2>1, <3>2, <3>3, <3>4
  <2>2. CASE saving.op = "delete" /\ milestone[saving.id] # None
             /\ milestone' = [milestone EXCEPT ![saving.id] = None] /\ UNCHANGED drawn
    BY <1>2, <1>3, <2>2 DEF RowList
  <2>3. ASSUME NEW k \in Milestones \ drawn, saving.op = "add",
               milestone' = [milestone EXCEPT ![k] =
                 [course |-> c, position |-> saving.value, done |-> FALSE]],
               drawn' = drawn \cup {k}
        PROVE  /\ k \in Milestones /\ milestone' \in RowList
               /\ \A j \in Milestones : j # k => milestone'[j] = milestone[j]
               /\ milestone[k] # None => milestone[k].course = c
               /\ milestone'[k] # None => milestone'[k].course = c /\ k \in drawn'
               /\ k \notin drawn => drawn' = drawn \cup {k}
               /\ k \in drawn => drawn' = drawn /\ milestone[k] # None
    BY <1>2, <1>3, <2>3 DEF RowList, MilestoneRow
  <2> QED
    BY <2>1, <2>2, <2>3 DEF MilestoneStored
<1>5. ViewTyped'
  <2>1. IsFiniteSet(drawn')
    BY <1>3, <1>4, FS_AddElement
  <2> QED
    BY <1>1, <1>3, <1>4, <2>1 DEF ViewInv, ViewTyped
<1>6. SavingHolds'
  <2>1. /\ saving'.op = saving.op /\ saving'.id = saving.id /\ saving'.value = saving.value
        /\ saving'.course = c /\ saving'.stage = "done"
        /\ saving' \in Change
    BY <1>1, <1>2 DEF Change
  <2> QED
    BY <1>2, <2>1 DEF SavingHolds
<1>7. ASSUME NEW k \in Courses PROVE RoadmapHolds(k)'
  <2>1. /\ RowsAreOf(k, rowsQ[k].data) /\ RowsAreOf(k, rowsQ[k].reply)
        /\ rowsQ[k].wire # "idle" => rowsQ[k].old \/ ~rowsQ[k].loaded
    BY DEF ViewInv, RoadmapHolds
  <2>2. ASSUME NEW d, RowsAreOf(k, d) PROVE RowsAreOf(k, d)'
    <3> SUFFICES ASSUME NEW j \in Milestones, d[j] # None
                 PROVE  j \in drawn' /\ (milestone'[j] # None => milestone'[j].course = k)
      BY DEF RowsAreOf
    <3>1. j \in drawn /\ (milestone[j] # None => milestone[j].course = k)
      BY <2>2 DEF RowsAreOf
    <3>2. CASE j # m
      BY <1>4, <3>1, <3>2
    <3>3. CASE j = m
      BY <1>4, <3>1, <3>3
    <3> QED
      BY <3>2, <3>3
  <2>3. RowsAreOf(k, rowsQ[k].data)' /\ RowsAreOf(k, rowsQ[k].reply)'
    BY <1>1, <2>1, <2>2
  <2>4. ASSUME ToldAll(k)'
        PROVE  k # c /\ ToldAll(k)
    <3>1. saving' \in Change /\ saving'.stage = "done" /\ saving'.course = c
      BY <1>1, <1>2 DEF Change
    <3>2. saving' # None
      BY <3>1, NoneAssumption
    <3> QED
      BY <1>1, <2>4, <3>1, <3>2 DEF ToldAll
  <2>5. k # c => RowsOf(k)' = RowsOf(k)
    <3>1. ASSUME NEW j \in Milestones, k # c
          PROVE  (IF milestone'[j] # None /\ milestone'[j].course = k THEN milestone'[j] ELSE None)
                   = (IF milestone[j] # None /\ milestone[j].course = k THEN milestone[j] ELSE None)
      BY <1>4, <3>1
    <3> QED
      BY <3>1 DEF RowsOf
  <2> QED
    BY <1>1, <2>1, <2>3, <2>4, <2>5 DEF ViewInv, RoadmapHolds, Settled
<1> QED
  BY <1>1, <1>5, <1>6, <1>7, PageStays DEF ViewInv

\* The roadmap in view is fetched again.
LEMMA MilestoneAnsweredKeepsViewInv ==
  ASSUME ViewInv, MilestoneAnswered
  PROVE  ViewInv'
<1> DEFINE v == CurrentCourse
<1>1. /\ UNCHANGED <<owned, milestone, drawn, course, coursesQ, adding, opened>>
      /\ saving # None /\ saving.stage = "done"
      /\ saving' = [saving EXCEPT !.stage = "refetching", !.course = v]
      /\ \A c \in Courses :
           rowsQ'[c] = IF c = v THEN Invalidate(rowsQ[c], TRUE, NoRows) ELSE rowsQ[c]
      /\ rowsQ' = [c \in Courses |-> rowsQ'[c]]
      /\ untold' = IF saving.course = v /\ ~Joins(v) THEN untold ELSE untold \cup {saving.course}
  BY DEF MilestoneAnswered, server
<1>2. saving \in Change
  BY <1>1 DEF ViewInv, SavingHolds
<1>3. v \in Courses \cup {None}
  BY CurrentCourseIsOwned DEF ViewInv, ViewTyped
<1>4. SavingHolds'
  <2> HIDE DEF v
  <2>1. /\ saving'.op = saving.op /\ saving'.id = saving.id /\ saving'.value = saving.value
        /\ saving'.stage = "refetching"
        /\ saving' \in Change
    BY <1>1, <1>2, <1>3 DEF Change
  <2> QED
    BY <1>1, <2>1 DEF ViewInv, SavingHolds
<1>5. ASSUME NEW k \in Courses PROVE rowsQ'[k] \in Entry(RowList) /\ RoadmapHolds(k)'
  <2>1. CASE k = saving.course /\ k = v /\ ~Joins(v)
    <3>1. rowsQ[k] \in Entry(RowList) /\ NoRows \in RowList
      BY DEF ViewInv, ViewTyped, RowList, NoRows
    <3>2. /\ rowsQ'[k] \in Entry(RowList) /\ rowsQ'[k].wire = "asked" /\ rowsQ'[k].old
          /\ rowsQ'[k].data = rowsQ[k].data /\ rowsQ'[k].reply \in {rowsQ[k].reply, NoRows}
      <4>1. rowsQ'[k] = Invalidate(rowsQ[k], TRUE, NoRows)
        BY <1>1, <2>1
      <4>2. rowsQ[k].loaded \/ rowsQ[k].wire # "read"
        BY <2>1 DEF Joins
      <4> QED
        BY <3>1, <4>1, <4>2 DEF Invalidate, Entry
    <3>3. RowsAreOf(k, rowsQ[k].data) /\ RowsAreOf(k, rowsQ[k].reply) /\ RowsAreOf(k, NoRows)
      BY DEF ViewInv, RoadmapHolds, RowsAreOf, NoRows
    <3>4. ASSUME NEW d, RowsAreOf(k, d) PROVE RowsAreOf(k, d)'
      BY <1>1, <3>4 DEF RowsAreOf
    <3>5. RowsAreOf(k, rowsQ[k].data)' /\ RowsAreOf(k, rowsQ[k].reply)'
      BY <3>2, <3>3, <3>4
    <3> QED
      BY <3>2, <3>5 DEF RoadmapHolds, Settled
  <2>2. CASE ~(k = saving.course /\ k = v /\ ~Joins(v))
    <3>1. ToldAll(k)' => ToldAll(k)
      BY <1>1, <2>2 DEF ToldAll
    <3>2. rowsQ'[k] \in {rowsQ[k], InView(rowsQ[k]), Invalidate(rowsQ[k], TRUE, NoRows)}
      BY <1>1
    <3>3. ViewTyped /\ RoadmapHolds(k) /\ UNCHANGED <<milestone, drawn>>
      BY <1>1 DEF ViewInv
    <3> QED
      BY <3>1, <3>2, <3>3, RoadmapStays
  <2> QED
    BY <2>1, <2>2
<1>6. ViewTyped'
  BY <1>1, <1>5 DEF ViewInv, ViewTyped
<1> QED
  BY <1>1, <1>4, <1>5, <1>6, PageStays DEF ViewInv

\* Saving is over.
LEMMA SavingEndsKeepsViewInv ==
  ASSUME ViewInv, SaveEnds \/ SaveFails
  PROVE  ViewInv'
<1>1. /\ UNCHANGED <<owned, milestone, drawn, course, coursesQ, rowsQ, adding, opened>>
      /\ saving # None /\ saving' = None
      /\ untold' = IF saving.stage = "done" THEN untold \cup {saving.course} ELSE untold
  BY DEF SaveEnds, SaveFails, server, lists, notes
<1>2. \A k \in Courses : ToldAll(k)' => ToldAll(k)
  BY <1>1 DEF ToldAll
<1>3. \A k \in Courses : RoadmapHolds(k)'
  BY <1>1, <1>2 DEF ViewInv, RoadmapHolds, RowsAreOf, RowsOf, Settled
<1>4. SavingHolds' /\ ViewTyped'
  BY <1>1 DEF ViewInv, SavingHolds, ViewTyped
<1> QED
  BY <1>1, <1>3, <1>4, PageStays DEF ViewInv

\* Rows are read and arrive.
LEMMA RowsArriveKeepsViewInv ==
  ASSUME ViewInv, NEW c \in Courses, RowsArrive(c)
  PROVE  ViewInv'
<1>1. /\ UNCHANGED <<owned, milestone, drawn, course, coursesQ, adding, opened, saving>>
      /\ untold' \subseteq untold /\ untold \subseteq untold' \cup {c}
      /\ \A k \in Courses : k # c => rowsQ'[k] = rowsQ[k]
      /\ rowsQ' = [k \in Courses |-> rowsQ'[k]]
  BY DEF RowsArrive, server, dialogs, notes, ViewInv, ViewTyped
<1>2. /\ rowsQ[c] \in Entry(RowList) /\ NoRows \in RowList /\ RowsOf(c) \in RowList
      /\ RowsAreOf(c, RowsOf(c)) /\ RowsAreOf(c, NoRows)
  BY DEF ViewInv, ViewTyped, RowList, RowsOf, NoRows, RowsAreOf
<1>3. /\ rowsQ'[c] \in Entry(RowList)
      /\ \/ /\ rowsQ[c].wire = "asked" /\ rowsQ'[c].wire = "read" /\ rowsQ'[c].reply = RowsOf(c)
            /\ rowsQ'[c].data = rowsQ[c].data
            /\ rowsQ[c].old => rowsQ'[c].old
            /\ rowsQ'[c].loaded => rowsQ[c].loaded
         \/ /\ rowsQ[c].wire = "read" /\ rowsQ'[c].wire = "idle" /\ rowsQ'[c].reply = NoRows
            /\ rowsQ'[c].data = rowsQ[c].reply /\ untold' = untold
  <2>1. CASE rowsQ[c].wire = "asked" /\ rowsQ' = [rowsQ EXCEPT ![c] = Read(@, RowsOf(c))]
    <3> SUFFICES ASSUME NEW e, e = rowsQ[c], NEW f, f = rowsQ'[c], NEW d, d = RowsOf(c)
                 PROVE  /\ f \in Entry(RowList) /\ f.wire = "read" /\ f.reply = d
                        /\ f.data = e.data /\ (e.old => f.old) /\ (f.loaded => e.loaded)
      BY <2>1
    <3>1. f = Read(e, d)
      BY <2>1 DEF ViewInv, ViewTyped
    <3>2. e \in Entry(RowList) /\ d \in RowList
      BY <1>2
    <3> QED
      BY <3>1, <3>2 DEF Read, Entry
  <2>2. CASE /\ rowsQ[c].wire = "read" /\ rowsQ' = [rowsQ EXCEPT ![c] = Deliver(@, NoRows)]
             /\ untold' = untold
    <3> SUFFICES ASSUME NEW e, e = rowsQ[c], NEW f, f = rowsQ'[c], NEW d, d = NoRows
                 PROVE  /\ f \in Entry(RowList) /\ f.wire = "idle" /\ f.reply = d
                        /\ f.data = e.reply
      BY <2>2
    <3>1. f = Deliver(e, d)
      BY <2>2 DEF ViewInv, ViewTyped
    <3>2. e \in Entry(RowList) /\ d \in RowList
      BY <1>2
    <3> QED
      BY <3>1, <3>2 DEF Deliver, Entry
  <2> QED
    BY <2>1, <2>2 DEF RowsArrive
<1>4. RoadmapHolds(c)'
  <2>1. /\ RowsAreOf(c, rowsQ[c].data) /\ RowsAreOf(c, rowsQ[c].reply)
        /\ rowsQ[c].wire # "idle" => rowsQ[c].old \/ ~rowsQ[c].loaded
        /\ ToldAll(c) /\ rowsQ[c].wire = "read" => rowsQ[c].reply = RowsOf(c)
    BY DEF ViewInv, RoadmapHolds
  <2>2. ASSUME NEW d, RowsAreOf(c, d) PROVE RowsAreOf(c, d)'
    BY <1>1, <2>2 DEF RowsAreOf
  <2>3. RowsAreOf(c, rowsQ[c].data)' /\ RowsAreOf(c, rowsQ[c].reply)'
    BY <1>2, <1>3, <2>1, <2>2
  <2>4. RowsOf(c)' = RowsOf(c)
    BY <1>1 DEF RowsOf
  <2>5. ToldAll(c)' /\ untold' = untold => ToldAll(c)
    BY <1>1 DEF ToldAll
  <2> QED
    BY <1>3, <2>1, <2>3, <2>4, <2>5 DEF RoadmapHolds, Settled
<1>5. ASSUME NEW k \in Courses, k # c PROVE rowsQ'[k] \in Entry(RowList) /\ RoadmapHolds(k)'
  <2>1. ToldAll(k)' => ToldAll(k)
    BY <1>1, <1>5 DEF ToldAll
  <2>2. ViewTyped /\ RoadmapHolds(k) /\ UNCHANGED <<milestone, drawn>>
    BY <1>1 DEF ViewInv
  <2> QED
    BY <1>1, <1>5, <2>1, <2>2, RoadmapStays
<1>6. SavingHolds'
  BY <1>1 DEF ViewInv, SavingHolds
<1>7. ViewTyped'
  BY <1>1, <1>3, <1>5 DEF ViewInv, ViewTyped
<1> QED
  BY <1>1, <1>4, <1>5, <1>6, <1>7, PageStays DEF ViewInv

\* A fetch fails, or an entry gets old.
LEMMA LapseKeepsViewInv ==
  ASSUME ViewInv, Lapse
  PROVE  ViewInv'
<1>1. UNCHANGED <<owned, milestone, drawn, course, opened, saving, untold>>
  BY DEF Lapse, server, notes
<1>2. ASSUME NEW e \in Lapsed(coursesQ, {}), coursesQ' = e, UNCHANGED rowsQ,
             adding' = IF adding # None THEN [adding EXCEPT !.sure = FALSE] ELSE None
      PROVE  ViewInv'
  <2>1. coursesQ \in Entry(SUBSET owned)
    BY DEF ViewInv, ViewTyped
  <2>2. /\ coursesQ' \in Entry(SUBSET owned) /\ coursesQ'.data = coursesQ.data
        /\ coursesQ'.wire = "read" => coursesQ.wire = "read" /\ coursesQ'.reply = coursesQ.reply
    <3>1. CASE e = Cancel(coursesQ, {})
      BY <1>2, <2>1, <3>1 DEF Cancel, Entry
    <3>2. CASE e = [coursesQ EXCEPT !.old = TRUE]
      BY <1>2, <2>1, <3>2 DEF Entry
    <3> QED
      BY <3>1, <3>2 DEF Lapsed
  <2>3. AddingHolds'
    BY <1>1, <1>2 DEF ViewInv, AddingHolds
  <2>4. OpenedHolds'
    BY <1>1, <2>2 DEF ViewInv, OpenedHolds
  <2> QED
    BY <1>1, <1>2, <2>2, <2>3, <2>4, PageStepKeepsViewInv DEF ViewInv, ViewTyped
<1>3. ASSUME NEW c \in Courses, NEW e \in Lapsed(rowsQ[c], NoRows),
             rowsQ' = [rowsQ EXCEPT ![c] = e], UNCHANGED <<coursesQ, adding>>
      PROVE  ViewInv'
  <2>1. /\ \A k \in Courses : rowsQ'[k] = IF k = c THEN e ELSE rowsQ[k]
        /\ rowsQ' = [k \in Courses |-> rowsQ'[k]]
    BY <1>3 DEF ViewInv, ViewTyped
  <2>2. \A k \in Courses : ToldAll(k)' => ToldAll(k)
    BY <1>1 DEF ToldAll
  <2>3. ASSUME NEW k \in Courses PROVE rowsQ'[k] \in Entry(RowList) /\ RoadmapHolds(k)'
    <3>1. ViewTyped /\ RoadmapHolds(k) /\ UNCHANGED <<milestone, drawn>>
      BY <1>1 DEF ViewInv
    <3>2. rowsQ'[k] = rowsQ[k] \/ rowsQ'[k] \in Lapsed(rowsQ[k], NoRows)
      BY <1>3, <2>1
    <3> QED
      BY <2>2, <3>1, <3>2, RoadmapStays
  <2>4. ViewTyped'
    BY <1>1, <1>3, <2>1, <2>3 DEF ViewInv, ViewTyped
  <2>5. SavingHolds'
    BY <1>1 DEF ViewInv, SavingHolds
  <2> QED
    BY <1>1, <1>3, <2>3, <2>4, <2>5, PageStays DEF ViewInv
<1> QED
  BY <1>2, <1>3 DEF Lapse

\* The first courses, nothing loaded.
LEMMA InitViewInv == Init => ViewInv
<1> SUFFICES ASSUME Init PROVE ViewInv
  OBVIOUS
<1> USE CourseViewAssumption
<1>1. NoRows \in RowList
  BY DEF NoRows, RowList
<1>2. /\ coursesQ = [loaded |-> FALSE, data |-> {}, old |-> TRUE, wire |-> "asked", reply |-> {}]
      /\ rowsQ = [c \in Courses |->
           [loaded |-> FALSE, data |-> NoRows, old |-> TRUE, wire |-> "idle", reply |-> NoRows]]
  BY DEF Init, InView, NoEntry
<1>3. coursesQ \in Entry(SUBSET owned) /\ rowsQ \in [Courses -> Entry(RowList)]
  BY <1>1, <1>2 DEF Entry
<1>4. /\ milestone \in RowList
      /\ \A m \in Milestones : milestone[m] # None => m \in drawn
  BY DEF Init, RowList
<1>5. ViewTyped
  BY <1>3, <1>4 DEF Init, ViewTyped
<1>6. AddingHolds /\ OpenedHolds /\ SavingHolds
  BY DEF Init, AddingHolds, OpenedHolds, SavingHolds
<1>7. ASSUME NEW c \in Courses PROVE RoadmapHolds(c)
  <2>1. RowsAreOf(c, NoRows)
    BY DEF RowsAreOf, NoRows
  <2>2. /\ rowsQ[c].data = NoRows /\ rowsQ[c].reply = NoRows /\ rowsQ[c].wire = "idle"
        /\ ~rowsQ[c].loaded
    BY <1>2
  <2> QED
    BY <2>1, <2>2 DEF RoadmapHolds, Settled
<1> QED
  BY <1>5, <1>6, <1>7 DEF ViewInv

\* Every step keeps it.
LEMMA NextKeepsViewInv == ViewInv /\ [Next]_vars => ViewInv'
<1> SUFFICES ASSUME ViewInv, [Next]_vars PROVE ViewInv'
  OBVIOUS
<1>1. CASE UNCHANGED vars
  <2>1. /\ UNCHANGED <<owned, milestone, drawn, course, coursesQ, rowsQ, adding, saving>>
        /\ UNCHANGED <<opened, untold>>
    BY <1>1 DEF vars, server, lists, dialogs, notes
  <2> QED
    BY <2>1, PageStays, PageStepKeepsViewInv DEF ViewInv, ViewTyped
<1> QED
  BY <1>1, CourseComesKeepsViewInv, DialogKeepsViewInv, CourseStoredKeepsViewInv,
     CourseAnsweredKeepsViewInv, CourseOpenedKeepsViewInv, CoursesArriveKeepsViewInv,
     ButtonsKeepViewInv, MilestoneStoredKeepsViewInv, MilestoneAnsweredKeepsViewInv,
     SavingEndsKeepsViewInv, RowsArriveKeepsViewInv, LapseKeepsViewInv DEF Next

\* Whatever is added, saved, switched, fetched and lost, the page, its dialogs and the
\* query cache stand to the server as ViewInv says (dashboard.tsx:85-201, useRoadmap.ts).
THEOREM ViewInvariantHolds == Spec => []ViewInv
BY InitViewInv, NextKeepsViewInv, PTL DEF Spec

\* A course that was added stays open until the user leaves it, however its list is
\* fetched and lost in the meantime (dashboard.tsx:92-98).
THEOREM AddedCourseAlwaysStaysOpen == Spec => []AddedCourseStaysOpen
<1>1. ViewInv => AddedCourseStaysOpen
  BY DEF ViewInv, OpenedHolds, AddedCourseStaysOpen, Tidy, Firsts
<1> QED
  BY <1>1, ViewInvariantHolds, PTL

\* A new milestone is stored behind all of its roadmap, whatever was deleted,
\* completed or left while it was saved (roadmap.ts:36-39).
THEOREM NewMilestonesAlwaysGoLast == Spec => NewMilestonesGoLast
<1>1. ViewInv /\ [Next]_vars =>
        [\A m \in drawn' \ drawn :
           saving.sure =>
             \A o \in drawn :
               milestone[o] # None /\ milestone[o].course = milestone'[m].course
                 => milestone[o].position < milestone'[m].position]_vars
  <2> SUFFICES ASSUME ViewInv, [Next]_vars, NEW m \in drawn' \ drawn, saving.sure, NEW o \in drawn,
                      milestone[o] # None, milestone[o].course = milestone'[m].course
               PROVE  milestone[o].position < milestone'[m].position
    OBVIOUS
  <2>1. MilestoneStored
    BY DEF Next, InitializeCourse, SwitchCourse, RowsArrive, AddCourse, CourseStored,
           CourseAnswered, CourseOpened, AddFails, CloseDialog, Toggle, Delete, Add, Save,
           MilestoneAnswered, SaveEnds, SaveFails, CoursesArrive, Lapse, vars, server
  <2>2. /\ saving # None /\ saving.stage = "asked" /\ saving.op = "add" /\ m \in Milestones
        /\ milestone' = [milestone EXCEPT ![m] =
             [course |-> saving.course, position |-> saving.value, done |-> FALSE]]
    BY <2>1 DEF MilestoneStored
  <2>3. milestone'[m].course = saving.course /\ milestone'[m].position = saving.value
    BY <2>2 DEF ViewInv, ViewTyped, RowList
  <2> QED
    BY <2>2, <2>3 DEF ViewInv, SavingHolds
<1> QED
  BY <1>1, ViewInvariantHolds, PTL DEF Spec, NewMilestonesGoLast
=============================================================================
