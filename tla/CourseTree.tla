----------------------------- MODULE CourseTree -----------------------------
(***************************************************************************)
(* Courses, their folders, the files in them and the milestones that name  *)
(* files: routers/courses.py, folder.py, milestone.py, and the part of      *)
(* files.py that places a file in the tree.                                *)
(*                                                                         *)
(* A handler is a sequence of statements, each of which sees what is        *)
(* committed when it runs; the statement that writes and the commit behind  *)
(* it are one action.  One user's courses: every handler finds its first    *)
(* row through the owner and answers 404 to anybody else.                   *)
(***************************************************************************)
EXTENDS Naturals, FiniteSets

CONSTANTS
  Courses, Folders, Files, Milestones,  \* the ids that can be drawn
  Keys,            \* (code, year, semester)
  Requests,        \* handlers that run at a time
  DefaultFolders,  \* how many folders a new course starts with
  None,            \* no parent, no row
  Gone,            \* a row that was deleted
  Keep             \* a field a PATCH does not mention

ASSUME DefaultFoldersAssumption == DefaultFolders \in Nat \ {0}
\* One id names one row, and no row is one of the marks.
ASSUME IdsAssumption == Folders \cap Files = {} /\ None \notin Folders /\ None # Gone

VARIABLES
  course, folder, file, milestone,  \* the four tables
  req,    \* where each handler stands and what it holds
  late    \* what entered the folder a delete_folder is about, after it looked

vars == <<course, folder, file, milestone, req, late>>

CourseRow == [key : Keys, status : {"active", "archived"}]
FolderRow == [course : Courses, parent : Folders \cup {None}]
FileRow == [course : Courses, folder : Folders]
MilestoneRow == [course : Courses, files : SUBSET Files]

ASSUME RowsAssumption ==
  {None, Gone} \cap (CourseRow \cup FolderRow \cup FileRow \cup MilestoneRow) = {}

\* What a PATCH of a course mentions.
Changes == [key : Keys \cup {Keep}, status : {"active", "archived", Keep}]

Idle == [op |-> "none"]

Handlers ==
  {Idle}
  \cup [op : {"update_course"}, course : Courses, was : CourseRow, change : Changes]
  \cup [op : {"create_folder"}, course : Courses, parent : Folders \cup {None}, id : Folders]
  \cup [op : {"delete_folder"}, at : {"folders", "files", "delete"}, folder : Folders]
  \cup [op : {"upload"}, course : Courses, folder : Folders, id : Files]
  \cup [op : {"move"}, at : {"find", "write"}, file : Files, was : FileRow, to : Folders]
  \cup [op : {"delete_file"}, file : Files]
  \cup [op : {"create_milestone"}, course : Courses, files : SUBSET Files, id : Milestones]
  \cup [op : {"update_milestone"}, at : {"check", "write"}, milestone : Milestones,
        was : MilestoneRow, files : SUBSET Files]
  \cup [op : {"delete_milestone"}, milestone : Milestones]

TypeOK ==
  /\ course \in [Courses -> CourseRow \cup {None}]
  /\ folder \in [Folders -> FolderRow \cup {None, Gone}]
  /\ file \in [Files -> FileRow \cup {None, Gone}]
  /\ milestone \in [Milestones -> MilestoneRow \cup {None, Gone}]
  /\ req \in [Requests -> Handlers]
  /\ late \in [Requests -> SUBSET (Files \cup Folders)]

CoursesNow == {c \in Courses : course[c] # None}
FoldersNow == {f \in Folders : folder[f] \notin {None, Gone}}
FilesNow == {g \in Files : file[g] \notin {None, Gone}}
MilestonesNow == {m \in Milestones : milestone[m] \notin {None, Gone}}

----------------------------------------------------------------------------
Start(r, handler) ==
  /\ req[r] = Idle
  /\ req' = [req EXCEPT ![r] = handler]
  /\ UNCHANGED <<course, folder, file, milestone, late>>

\* One more SELECT of the handler was answered.
Proceed(r, at) ==
  /\ req' = [req EXCEPT ![r].at = at]
  /\ UNCHANGED <<course, folder, file, milestone, late>>

End(r) == req' = [req EXCEPT ![r] = Idle]

\* 404, 409, or an exception after which the session is closed.
Refuse(r) == End(r) /\ late' = [late EXCEPT ![r] = {}]
             /\ UNCHANGED <<course, folder, file, milestone>>

At(r, op) == req[r].op = op
AtStep(r, op, at) == req[r].op = op /\ req[r].at = at

\* Ids are never drawn twice: not by a row, not by a handler that has yet to insert.
Drawn == {req[q].id : q \in
  {p \in Requests : req[p].op \in {"create_folder", "upload", "create_milestone"}}}
FreshFolders == {f \in Folders : folder[f] = None} \ Drawn
FreshFiles == {g \in Files : file[g] = None} \ Drawn
FreshMilestones == {m \in Milestones : milestone[m] = None} \ Drawn

\* Row x enters folder f while some delete_folder of f has already looked.
Enters(x, f) ==
  late' = [r \in Requests |->
    IF /\ At(r, "delete_folder") /\ req[r].folder = f
       /\ req[r].at \in (IF x \in Files THEN {"delete"} ELSE {"files", "delete"})
    THEN late[r] \cup {x} ELSE late[r]]

----------------------------------------------------------------------------
(***************************************************************************)
(* Courses.                                                                *)
(***************************************************************************)
KeyIsFree(k, c) == \A d \in CoursesNow \ {c} : course[d].key # k

\* The course and its first folders are one transaction.
CreateCourse(r) ==
  /\ req[r] = Idle
  /\ \E c \in Courses \ CoursesNow, k \in Keys, D \in SUBSET FreshFolders :
       /\ Cardinality(D) = DefaultFolders /\ KeyIsFree(k, c)
       /\ course' = [course EXCEPT ![c] = [key |-> k, status |-> "active"]]
       /\ folder' = [f \in Folders |->
                       IF f \in D THEN [course |-> c, parent |-> None] ELSE folder[f]]
  /\ UNCHANGED <<file, milestone, req, late>>

\* update_course; delete_course is the change to "archived".
LoadCourse(r) ==
  \E c \in CoursesNow, h \in Changes :
    Start(r, [op |-> "update_course", course |-> c, was |-> course[c], change |-> h])

\* A flush writes an attribute that was assigned something else than was loaded.
Column(now, was, new) == IF new \in {Keep, was} THEN now ELSE new

\* (The bug: the whole row is written as it was loaded.)
WrittenWhole(now, was, h) ==
  [key |-> IF h.key = Keep THEN was.key ELSE h.key,
   status |-> IF h.status = Keep THEN was.status ELSE h.status]

Written(now, was, h) ==
  [key |-> Column(now.key, was.key, h.key),
   status |-> Column(now.status, was.status, h.status)]

CommitCourse(r) ==
  /\ At(r, "update_course")
  /\ LET c == req[r].course
         new == Written(course[c], req[r].was, req[r].change)
     IN  /\ course' = IF KeyIsFree(new.key, c) THEN [course EXCEPT ![c] = new] ELSE course
         /\ End(r)
  /\ UNCHANGED <<folder, file, milestone, late>>

----------------------------------------------------------------------------
(***************************************************************************)
(* Folders.                                                                *)
(***************************************************************************)
\* (The bug: the parent may be a folder of any course.)
ParentAnywhere(p, c) == p = None \/ p \in FoldersNow
ParentFits(p, c) == p = None \/ (p \in FoldersNow /\ folder[p].course = c)

CheckParent(r) ==
  \E c \in CoursesNow, p \in Folders \cup {None}, f \in FreshFolders :
    /\ ParentFits(p, c)
    /\ Start(r, [op |-> "create_folder", course |-> c, parent |-> p, id |-> f])

InsertFolder(r) ==
  /\ At(r, "create_folder") /\ req[r].parent \in FoldersNow \cup {None}
  /\ folder' = [folder EXCEPT ![req[r].id] = [course |-> req[r].course, parent |-> req[r].parent]]
  /\ Enters(req[r].id, req[r].parent)
  /\ End(r)
  /\ UNCHANGED <<course, file, milestone>>

\* The foreign key to a parent that was deleted meanwhile.
InsertFolderFails(r) ==
  At(r, "create_folder") /\ req[r].parent \notin FoldersNow \cup {None} /\ Refuse(r)

FindFolder(r) ==
  \E f \in FoldersNow :
    Start(r, [op |-> "delete_folder", at |-> "folders", folder |-> f])

FoldersIn(f) == {d \in FoldersNow : folder[d].parent = f}
FilesIn(f) == {g \in FilesNow : file[g].folder = f}

LookForFolders(r) ==
  /\ AtStep(r, "delete_folder", "folders")
  /\ IF FoldersIn(req[r].folder) = {} THEN Proceed(r, "files") ELSE Refuse(r)

\* (The bug: a folder without folders is empty.)
LookNoFurther(r) ==
  /\ AtStep(r, "delete_folder", "files")
  /\ Proceed(r, "delete")

LookForFiles(r) ==
  /\ AtStep(r, "delete_folder", "files")
  /\ IF FilesIn(req[r].folder) = {} THEN Proceed(r, "delete") ELSE Refuse(r)

\* f and what ON DELETE CASCADE takes with it: the least set of folders with f
\* that holds every folder whose parent it holds.
Subtree(f) ==
  {d \in Folders : \A S \in SUBSET Folders :
     f \in S /\ (\A e \in S : FoldersIn(e) \subseteq S) => d \in S}

DeleteFolder(r) ==
  /\ AtStep(r, "delete_folder", "delete")
  /\ LET S == IF req[r].folder \in FoldersNow THEN Subtree(req[r].folder) ELSE {}
     IN  /\ folder' = [d \in Folders |-> IF d \in S THEN Gone ELSE folder[d]]
         /\ file' = [g \in Files |->
                       IF \E d \in S : g \in FilesIn(d) THEN Gone ELSE file[g]]
  /\ End(r) /\ late' = [late EXCEPT ![r] = {}]
  /\ UNCHANGED <<course, milestone>>

----------------------------------------------------------------------------
(***************************************************************************)
(* Files in the tree.                                                      *)
(***************************************************************************)
FindUploadFolder(r) ==
  \E f \in FoldersNow, g \in FreshFiles :
    Start(r, [op |-> "upload", course |-> folder[f].course, folder |-> f, id |-> g])

\* fk_file_folder_course_agree.
Agree(f, c) == f \in FoldersNow /\ folder[f].course = c

InsertFile(r) ==
  /\ At(r, "upload") /\ Agree(req[r].folder, req[r].course)
  /\ file' = [file EXCEPT ![req[r].id] = [course |-> req[r].course, folder |-> req[r].folder]]
  /\ Enters(req[r].id, req[r].folder)
  /\ End(r)
  /\ UNCHANGED <<course, folder, milestone>>

InsertFileFails(r) ==
  At(r, "upload") /\ ~Agree(req[r].folder, req[r].course) /\ Refuse(r)

FindFileToMove(r) ==
  \E g \in FilesNow, f \in Folders :
    Start(r, [op |-> "move", at |-> "find", file |-> g, was |-> file[g], to |-> f])

FindDestination(r) ==
  /\ AtStep(r, "move", "find")
  /\ IF req[r].to \in FoldersNow /\ folder[req[r].to].course = req[r].was.course
     THEN Proceed(r, "write") ELSE Refuse(r)

UpdateFile(r) ==
  /\ AtStep(r, "move", "write")
  /\ IF req[r].to = req[r].was.folder  \* nothing to flush
     THEN file' = file /\ late' = late
     ELSE /\ req[r].file \in FilesNow /\ Agree(req[r].to, file[req[r].file].course)
          /\ file' = [file EXCEPT ![req[r].file].folder = req[r].to]
          /\ Enters(req[r].file, req[r].to)
  /\ End(r)
  /\ UNCHANGED <<course, folder, milestone>>

\* No row to update any more, or the foreign key.
UpdateFileFails(r) ==
  /\ AtStep(r, "move", "write") /\ req[r].to # req[r].was.folder
  /\ req[r].file \notin FilesNow \/ ~Agree(req[r].to, req[r].was.course)
  /\ Refuse(r)

FindFileToDelete(r) ==
  \E g \in FilesNow : Start(r, [op |-> "delete_file", file |-> g])

DeleteFile(r) ==
  /\ At(r, "delete_file")
  /\ file' = [file EXCEPT ![req[r].file] = Gone]
  /\ End(r)
  /\ UNCHANGED <<course, folder, milestone, late>>

----------------------------------------------------------------------------
(***************************************************************************)
(* Milestones.  The ids in file_ids are checked, and no foreign key keeps   *)
(* them what they were.                                                    *)
(***************************************************************************)
\* (The bug: that the files exist is all that is checked.)
CheckedAnywhere(G, c) == G \subseteq FilesNow
Checked(G, c) == \A g \in G : g \in FilesNow /\ file[g].course = c

CheckNewMilestone(r) ==
  \E c \in CoursesNow, G \in SUBSET Files, m \in FreshMilestones :
    /\ Checked(G, c)
    /\ Start(r, [op |-> "create_milestone", course |-> c, files |-> G, id |-> m])

InsertMilestone(r) ==
  /\ At(r, "create_milestone")
  /\ milestone' = [milestone EXCEPT ![req[r].id] =
                     [course |-> req[r].course, files |-> req[r].files]]
  /\ End(r)
  /\ UNCHANGED <<course, folder, file, late>>

FindMilestone(r) ==
  \E m \in MilestonesNow, G \in SUBSET Files :
    Start(r, [op |-> "update_milestone", at |-> "check", milestone |-> m,
              was |-> milestone[m], files |-> G])

CheckAttachments(r) ==
  /\ AtStep(r, "update_milestone", "check")
  /\ IF Checked(req[r].files, req[r].was.course) THEN Proceed(r, "write") ELSE Refuse(r)

UpdateMilestone(r) ==
  /\ AtStep(r, "update_milestone", "write")
  /\ LET m == req[r].milestone
     IN  milestone' = IF m \in MilestonesNow
                      THEN [milestone EXCEPT ![m].files =
                              Column(milestone[m].files, req[r].was.files, req[r].files)]
                      ELSE milestone
  /\ End(r)
  /\ UNCHANGED <<course, folder, file, late>>

FindMilestoneToDelete(r) ==
  \E m \in MilestonesNow : Start(r, [op |-> "delete_milestone", milestone |-> m])

DeleteMilestone(r) ==
  /\ At(r, "delete_milestone")
  /\ milestone' = [milestone EXCEPT ![req[r].milestone] = Gone]
  /\ End(r)
  /\ UNCHANGED <<course, folder, file, late>>

----------------------------------------------------------------------------
Init ==
  /\ course = [c \in Courses |-> None]
  /\ folder = [f \in Folders |-> None]
  /\ file = [g \in Files |-> None]
  /\ milestone = [m \in Milestones |-> None]
  /\ req = [r \in Requests |-> Idle]
  /\ late = [r \in Requests |-> {}]

Step(r) ==
  \/ CreateCourse(r) \/ LoadCourse(r) \/ CommitCourse(r)
  \/ CheckParent(r) \/ InsertFolder(r) \/ InsertFolderFails(r)
  \/ FindFolder(r) \/ LookForFolders(r) \/ LookForFiles(r) \/ DeleteFolder(r)
  \/ FindUploadFolder(r) \/ InsertFile(r) \/ InsertFileFails(r)
  \/ FindFileToMove(r) \/ FindDestination(r) \/ UpdateFile(r) \/ UpdateFileFails(r)
  \/ FindFileToDelete(r) \/ DeleteFile(r)
  \/ CheckNewMilestone(r) \/ InsertMilestone(r)
  \/ FindMilestone(r) \/ CheckAttachments(r) \/ UpdateMilestone(r)
  \/ FindMilestoneToDelete(r) \/ DeleteMilestone(r)

Next == \E r \in Requests : Step(r)

Spec == Init /\ [][Next]_vars

----------------------------------------------------------------------------
\* Folders hang below folders of their own course, and a file agrees with its
\* folder about the course. For parents no constraint says so: it rests on the
\* check of folder.py:39-49, made in a statement of its own.
TreeIsConsistent ==
  /\ \A f \in FoldersNow :
       /\ folder[f].course \in CoursesNow
       /\ folder[f].parent # None =>
            folder[f].parent \in FoldersNow /\ folder[folder[f].parent].course = folder[f].course
  /\ \A g \in FilesNow : Agree(file[g].folder, file[g].course)

\* A file or folder goes because somebody asked for just that, or because it
\* entered a folder, or one below it, after a delete_folder had read that there
\* was nothing in it (folder.py:198-223).
NothingElseIsLost ==
  [][\A x \in (FoldersNow \cup FilesNow) \ (FoldersNow' \cup FilesNow') :
       \E r \in Requests :
         \/ At(r, "delete_file") /\ req[r].file = x
         \/ /\ AtStep(r, "delete_folder", "delete")
            /\ \/ req[r].folder = x
               \/ x \in late[r]
               \/ \E f \in late[r] \cap FoldersNow :
                    x \in Subtree(f) \/ \E d \in Subtree(f) : x \in FilesIn(d)]_vars

\* What a milestone attaches was a file, and as long as it is one it belongs to
\* the milestone's course, although the check is a statement earlier than the
\* write and the file may have been moved in between (milestone.py:68-106,
\* files.py:428-432).
AttachmentsStayInCourse ==
  \A m \in MilestonesNow : \A g \in milestone[m].files :
    file[g] # None /\ (g \in FilesNow => file[g].course = milestone[m].course)

\* A course that was archived comes back only for a request that says so, not
\* with a renaming that loaded it while it was active (courses.py:125-144).
ArchivedStaysArchived ==
  [][\A c \in CoursesNow :
       course[c].status = "archived" /\ course'[c].status = "active" =>
         \E r \in Requests :
           At(r, "update_course") /\ req[r].course = c /\ req[r].change.status = "active"]_vars
=============================================================================
