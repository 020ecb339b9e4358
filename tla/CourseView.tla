------------------------------ MODULE CourseView ------------------------------
(***************************************************************************)
(* The course in view: the list of courses it is chosen from, "Add course", *)
(* and the roadmap of its milestones, as the query cache holds them.        *)
(*                                                                         *)
(* The dialog of "Add course" is modal and waits for what it submitted. The *)
(* roadmap may be closed, and the course left, while a change is being      *)
(* saved; it takes no other change until then.                              *)
(***************************************************************************)
EXTENDS Integers, FiniteSets, FiniteSetsExt, QueryCache

CONSTANTS
  Courses, Milestones, \* ids, the ones still to be drawn included
  FirstCourses,        \* the courses there are at first
  FirstMilestones,     \* and their milestones
  None,
  MaxWrites, MaxSwitches, MaxFaults

\* A row of the roadmap; nothing bounds its position.
MilestoneRow == [course : Courses, position : Int, done : BOOLEAN]

\* A change of the roadmap that is being saved.
Change ==
  [op : {"toggle", "add", "delete"}, id : Milestones \cup {None},
   value : BOOLEAN \cup Int \cup {None}, course : Courses \cup {None},
   stage : {"asked", "done", "refetching"}, sure : BOOLEAN]

ASSUME CourseViewAssumption ==
  /\ FirstCourses \subseteq Courses /\ DOMAIN FirstMilestones \subseteq Milestones
  /\ IsFiniteSet(DOMAIN FirstMilestones)
  /\ FirstMilestones \in [DOMAIN FirstMilestones -> MilestoneRow]
  /\ {MaxWrites, MaxSwitches, MaxFaults} \subseteq Nat
ASSUME NoneAssumption == None \notin MilestoneRow \cup Change

VARIABLES
  \* The server.
  owned,     \* the user's active courses
  milestone, \* the rows: course, position and whether it is completed
  drawn,     \* the milestone ids that were used
  \* The page.
  course,    \* activeCourseId; None, or an id the server does not list
  coursesQ,  \* ["courses"]
  rowsQ,     \* ["courses", c, "milestones"]
  adding,    \* the dialog of "Add course", once submitted
  saving,    \* the change of the roadmap that is being saved
  \* Bookkeeping.
  opened,    \* the course that was added last and that nobody has left
  untold,    \* courses with changes of milestones nobody was told
  writes, switches, faults

server == <<owned, milestone, drawn>>
lists == <<coursesQ, rowsQ>>
dialogs == <<adding, saving>>
notes == <<opened, untold>>
bounds == <<writes, switches, faults>>
vars == <<server, course, lists, dialogs, notes, bounds>>

NoRows == [m \in Milestones |-> None]
RowsOf(c) ==
  [m \in Milestones |->
     IF milestone[m] # None /\ milestone[m].course = c THEN milestone[m] ELSE None]

Fault == faults < MaxFaults /\ faults' = faults + 1
Write == writes < MaxWrites /\ writes' = writes + 1

----------------------------------------------------------------------------
(* The course in view                                                      *)

\* The server lists courses in no order: courses[0] is any of them.
Firsts == coursesQ.data

\* The active course, if it is listed; if not, courses[0] is shown until the
\* effect makes it the active one, which is one render later.
CurrentCourse == IF course \in coursesQ.data THEN course ELSE None

\* The effect that initializes the course has nothing to do.
Tidy == Firsts # {} => course \in Firsts

\* The roadmap of course c, now that it is the current one.
Look(c) == rowsQ' = [rowsQ EXCEPT ![c] = InView(@)]

InitializeCourse ==
  /\ ~Tidy
  /\ \E c \in Firsts : course' = c /\ Look(c)
  /\ UNCHANGED <<server, coursesQ, dialogs, notes, bounds>>

\* One of the selectors of the top bar.
SwitchCourse(c) ==
  /\ Tidy /\ adding = None /\ switches < MaxSwitches
  /\ c \in Firsts \ {course}
  /\ switches' = switches + 1
  /\ course' = c /\ Look(c)
  /\ opened' = None
  /\ UNCHANGED <<server, coursesQ, dialogs, untold, writes, faults>>

----------------------------------------------------------------------------
(* Add course                                                              *)

\* handleSubmit, the first time or after an error.
AddCourse ==
  /\ Tidy /\ (adding # None => adding.stage = "error") /\ Write
  /\ adding' = [stage |-> "asked", course |-> None, sure |-> FALSE]
  /\ UNCHANGED <<server, course, lists, saving, notes, switches, faults>>

\* The route draws an id, or refuses a code the user has in that semester.
CourseStored ==
  /\ adding # None /\ adding.stage = "asked"
  /\ \/ \E c \in Courses \ owned :
          /\ owned' = owned \cup {c}
          /\ adding' = [adding EXCEPT !.stage = "done", !.course = c]
     \/ adding' = [adding EXCEPT !.stage = "refused"] /\ UNCHANGED owned
  /\ UNCHANGED <<milestone, drawn, course, lists, saving, notes, bounds>>

\* handleCreateCourse: the list is fetched again and waited for, though a
\* first fetch that has not ended is joined (and the bug of going on at once).
RefetchLater == UNCHANGED coursesQ
RefetchFirst == coursesQ' = Invalidate(coursesQ, TRUE, {})
CourseAnswered ==
  /\ adding # None /\ adding.stage = "done"
  /\ RefetchFirst
  /\ adding' = [adding EXCEPT !.stage = "refetching", !.sure = coursesQ.loaded]
  /\ UNCHANGED <<server, course, rowsQ, saving, notes, bounds>>

\* Then the new course is opened and the dialog closes.
CourseOpened ==
  /\ adding # None /\ adding.stage = "refetching" /\ coursesQ.wire = "idle"
  /\ course' = adding.course
  /\ IF course' \in coursesQ.data THEN Look(course') ELSE UNCHANGED rowsQ
  /\ opened' = IF adding.sure THEN course' ELSE None
  /\ adding' = None
  /\ UNCHANGED <<server, coursesQ, saving, untold, bounds>>

\* The request was refused, or it or its answer is lost.
AddFails ==
  /\ adding # None
  /\ \/ adding.stage = "refused" /\ UNCHANGED faults
     \/ adding.stage \in {"asked", "done"} /\ Fault
  /\ adding' = [adding EXCEPT !.stage = "error"]
  /\ UNCHANGED <<server, course, lists, saving, notes, writes, switches>>

CloseDialog ==
  /\ adding # None /\ adding.stage = "error"
  /\ adding' = None
  /\ UNCHANGED <<server, course, lists, saving, notes, bounds>>

----------------------------------------------------------------------------
(* The roadmap                                                             *)

\* rows: what the cache has, or none.
Rows == {m \in Milestones : rowsQ[CurrentCourse].data[m] # None}
Row(m) == rowsQ[CurrentCourse].data[m]

\* nextPosition (and the bug of counting the rows).
CountOfRows(ps) == Cardinality(ps)
NextPosition(ps) == Max({0} \cup {p + 1 : p \in ps})

\* What the roadmap shows is what the server has.
Sure(c) == Settled(rowsQ[c]) /\ c \notin untold

\* A change of the roadmap in view; isSaving disables the others.
Save(op, id, value) ==
  /\ Tidy /\ adding = None /\ CurrentCourse # None
  /\ saving = None /\ Write
  /\ saving' = [op |-> op, id |-> id, value |-> value, course |-> CurrentCourse,
                stage |-> "asked", sure |-> Sure(CurrentCourse)]
  /\ UNCHANGED <<server, course, lists, adding, notes, switches, faults>>

Toggle(m) == CurrentCourse # None /\ m \in Rows /\ Save("toggle", m, ~Row(m).done)
Add ==
  CurrentCourse # None /\ Save("add", None, NextPosition({Row(m).position : m \in Rows}))
Delete(m) == CurrentCourse # None /\ m \in Rows /\ Save("delete", m, None)

MilestoneStored ==
  /\ saving # None /\ saving.stage = "asked"
  /\ \/ /\ saving.op = "toggle" /\ milestone[saving.id] # None
        /\ milestone' = [milestone EXCEPT ![saving.id].done = saving.value]
        /\ UNCHANGED drawn
     \/ /\ saving.op = "delete" /\ milestone[saving.id] # None
        /\ milestone' = [milestone EXCEPT ![saving.id] = None]
        /\ UNCHANGED drawn
     \/ \E m \in Milestones \ drawn :
          /\ saving.op = "add"
          /\ milestone' = [milestone EXCEPT ![m] =
               [course |-> saving.course, position |-> saving.value, done |-> FALSE]]
          /\ drawn' = drawn \cup {m}
  /\ saving' = [saving EXCEPT !.stage = "done"]
  /\ UNCHANGED <<owned, course, lists, adding, notes, bounds>>

\* refresh, and with it the roadmap that is in view by now: the hook gave the
\* running mutation its newest options. A course that was left is not told, nor
\* is one whose first rows were read before and are joined.
Joins(c) == ~rowsQ[c].loaded /\ rowsQ[c].wire = "read"
MilestoneAnswered ==
  /\ saving # None /\ saving.stage = "done"
  /\ rowsQ' = [c \in Courses |->
       IF c = CurrentCourse THEN Invalidate(rowsQ[c], TRUE, NoRows) ELSE rowsQ[c]]
  /\ untold' = IF saving.course = CurrentCourse /\ ~Joins(CurrentCourse) THEN untold
               ELSE untold \cup {saving.course}
  /\ saving' = [saving EXCEPT !.stage = "refetching", !.course = CurrentCourse]
  /\ UNCHANGED <<server, course, coursesQ, adding, opened, bounds>>

\* onSuccess waits for the rows.
RowsAreBack(c) == c # None => rowsQ[c].wire = "idle"
SaveEnds ==
  /\ saving # None /\ saving.stage = "refetching" /\ RowsAreBack(saving.course)
  /\ saving' = None
  /\ UNCHANGED <<server, course, lists, adding, notes, bounds>>

\* 404, or the request or its answer is lost: a toast says so.
SaveFails ==
  /\ saving # None
  /\ \/ /\ saving.stage = "asked" /\ saving.op # "add" /\ milestone[saving.id] = None
        /\ UNCHANGED <<untold, faults>>
     \/ /\ saving.stage \in {"asked", "done"} /\ Fault
        /\ untold' = IF saving.stage = "done" THEN untold \cup {saving.course} ELSE untold
  /\ saving' = None
  /\ UNCHANGED <<server, course, lists, adding, opened, writes, switches>>

----------------------------------------------------------------------------
(* The lists                                                               *)

\* A new list of courses may bring the active one into view.
CoursesArrive ==
  /\ \/ /\ coursesQ.wire = "asked"
        /\ coursesQ' = Read(coursesQ, owned) /\ UNCHANGED rowsQ
     \/ /\ coursesQ.wire = "read"
        /\ coursesQ' = Deliver(coursesQ, {})
        /\ IF course \in coursesQ'.data \ coursesQ.data THEN Look(course) ELSE UNCHANGED rowsQ
  /\ UNCHANGED <<server, course, dialogs, notes, bounds>>

RowsArrive(c) ==
  /\ \/ /\ rowsQ[c].wire = "asked"
        /\ rowsQ' = [rowsQ EXCEPT ![c] = Read(@, RowsOf(c))]
        /\ untold' = untold \ {c}
     \/ /\ rowsQ[c].wire = "read"
        /\ rowsQ' = [rowsQ EXCEPT ![c] = Deliver(@, NoRows)]
        /\ UNCHANGED untold
  /\ UNCHANGED <<server, course, coursesQ, dialogs, opened, bounds>>

\* A fetch and its retry fail, or staleTime passes.
Lapse ==
  /\ Fault
  /\ \/ \E e \in Lapsed(coursesQ, {}) :
          /\ coursesQ' = e
          /\ adding' = IF adding # None THEN [adding EXCEPT !.sure = FALSE] ELSE None
          /\ UNCHANGED rowsQ
     \/ \E c \in Courses : \E e \in Lapsed(rowsQ[c], NoRows) :
          rowsQ' = [rowsQ EXCEPT ![c] = e] /\ UNCHANGED <<coursesQ, adding>>
  /\ UNCHANGED <<server, course, saving, notes, writes, switches>>

----------------------------------------------------------------------------

Init ==
  /\ owned = FirstCourses
  /\ milestone =
       [m \in Milestones |-> IF m \in DOMAIN FirstMilestones THEN FirstMilestones[m] ELSE None]
  /\ drawn = DOMAIN FirstMilestones
  /\ course \in FirstCourses \cup {None}
  /\ coursesQ = InView(NoEntry({}))
  /\ rowsQ = [c \in Courses |-> NoEntry(NoRows)]
  /\ adding = None /\ saving = None /\ opened = None /\ untold = {}
  /\ writes = 0 /\ switches = 0 /\ faults = 0

Next ==
  \/ InitializeCourse
  \/ \E c \in Courses : SwitchCourse(c) \/ RowsArrive(c)
  \/ AddCourse \/ CourseStored \/ CourseAnswered \/ CourseOpened \/ AddFails \/ CloseDialog
  \/ \E m \in Milestones : Toggle(m) \/ Delete(m)
  \/ Add
  \/ MilestoneStored \/ MilestoneAnswered \/ SaveEnds \/ SaveFails
  \/ CoursesArrive \/ Lapse

Spec == Init /\ [][Next]_vars

----------------------------------------------------------------------------
(* Properties                                                              *)

\* A course that was added is opened and stays in view until the user leaves
\* it: the effect that sends an unlisted id back to courses[0] never takes it
\* away, provided the list could be fetched (dashboard.tsx:92-98).
AddedCourseStaysOpen == opened # None => course = opened /\ Tidy

\* A milestone goes to the end of its roadmap, behind all there are, whatever
\* was deleted and wherever the user went while it was saved -- if the roadmap
\* was loaded, and no change or refetch of it was lost (roadmap.ts:36-39).
NewMilestonesGoLast ==
  [][\A m \in drawn' \ drawn :
       saving.sure =>
         \A o \in drawn :
           milestone[o] # None /\ milestone[o].course = milestone'[m].course
             => milestone[o].position < milestone'[m].position]_vars
=============================================================================
