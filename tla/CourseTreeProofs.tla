-------------------------- MODULE CourseTreeProofs --------------------------
(***************************************************************************)
(* What holds of CourseTree for any courses, folders, files, milestones    *)
(* and any number of handlers at a time.                                   *)
(***************************************************************************)
EXTENDS CourseTree, TLAPS

\* The files of G were files, and those that still are belong to course c.
Attached(G, c) ==
  \A g \in G : file[g] # None /\ (g \in FilesNow => file[g].course = c)

Inserts(h) == h.op \in {"create_folder", "upload", "create_milestone"}

\* What a handler h read is still so, or the row it read is gone.
HandlerHolds(h) ==
  /\ h.op = "update_course" => h.course \in CoursesNow
  /\ h.op = "create_folder" =>
       /\ h.course \in CoursesNow /\ folder[h.id] = None
       /\ h.parent # None => folder[h.parent] # None
       /\ h.parent \in FoldersNow => folder[h.parent].course = h.course
  /\ h.op = "delete_folder" => folder[h.folder] # None
  /\ h.op = "upload" => file[h.id] = None
  /\ h.op = "delete_file" => file[h.file] # None
  /\ h.op = "create_milestone" => milestone[h.id] = None /\ Attached(h.files, h.course)
  /\ h.op = "update_milestone" =>
       /\ milestone[h.milestone] # None
       /\ h.milestone \in MilestonesNow => milestone[h.milestone].course = h.was.course
       /\ h.at = "write" => Attached(h.files, h.was.course)
  /\ h.op = "delete_milestone" => milestone[h.milestone] # None

HandlersHold == \A r \in Requests : HandlerHolds(req[r])

\* No two handlers are about to insert a row under one id.
IdsAreDrawnOnce ==
  \A q, r \in Requests :
    Inserts(req[q]) /\ Inserts(req[r]) /\ q # r => req[q].id # req[r].id

\* A delete_folder h that has looked for folders, or files, and found none has
\* all that are in the folder now noted in L.
Noted(h, L) ==
  h.op = "delete_folder" =>
    /\ h.at \in {"files", "delete"} => FoldersIn(h.folder) \subseteq L
    /\ h.at = "delete" => FilesIn(h.folder) \subseteq L

LateIsNoted == \A r \in Requests : Noted(req[r], late[r])

IInv ==
  /\ TypeOK /\ HandlersHold /\ IdsAreDrawnOnce /\ LateIsNoted
  /\ TreeIsConsistent /\ AttachmentsStayInCourse

----------------------------------------------------------------------------
(* What the definitions say of types.                                      *)

\* What the request of a handler holds, by its kind.
LEMMA HandlerFields ==
  ASSUME NEW h \in Handlers
  PROVE  /\ h.op = "update_course" =>
              h.course \in Courses /\ h.was \in CourseRow /\ h.change \in Changes
         /\ h.op = "create_folder" =>
              h.course \in Courses /\ h.parent \in Folders \cup {None} /\ h.id \in Folders
         /\ h.op = "delete_folder" => h.folder \in Folders
         /\ h.op = "upload" => h.course \in Courses /\ h.folder \in Folders /\ h.id \in Files
         /\ h.op = "move" => h.file \in Files /\ h.was \in FileRow /\ h.to \in Folders
         /\ h.op = "delete_file" => h.file \in Files
         /\ h.op = "create_milestone" =>
              h.course \in Courses /\ h.files \in SUBSET Files /\ h.id \in Milestones
         /\ h.op = "update_milestone" =>
              h.milestone \in Milestones /\ h.was \in MilestoneRow /\ h.files \in SUBSET Files
         /\ h.op = "delete_milestone" => h.milestone \in Milestones
BY DEF Handlers, Idle

\* What is in a table is a row of its kind.
LEMMA RowTypes ==
  ASSUME TypeOK
  PROVE  /\ \A c \in CoursesNow : course[c] \in CourseRow
         /\ \A f \in FoldersNow : folder[f] \in FolderRow
         /\ \A g \in FilesNow : file[g] \in FileRow
         /\ \A m \in MilestonesNow : milestone[m] \in MilestoneRow
BY DEF TypeOK, CoursesNow, FoldersNow, FilesNow, MilestonesNow

\* A handler ends.
LEMMA EndIsTyped ==
  ASSUME TypeOK, NEW r \in Requests, End(r)
  PROVE  req' \in [Requests -> Handlers]
BY DEF TypeOK, End, Handlers

\* Where a handler stands is all that the next answer to it changes.
LEMMA ProceedOnlyMoves ==
  ASSUME TypeOK, NEW r \in Requests, NEW at, Proceed(r, at)
  PROVE  /\ At(r, "delete_folder") =>
              req' = [req EXCEPT ![r] = [op |-> "delete_folder", at |-> at,
                                         folder |-> req[r].folder]]
         /\ At(r, "move") =>
              req' = [req EXCEPT ![r] = [op |-> "move", at |-> at, file |-> req[r].file,
                                         was |-> req[r].was, to |-> req[r].to]]
         /\ At(r, "update_milestone") =>
              req' = [req EXCEPT ![r] = [op |-> "update_milestone", at |-> at,
                                         milestone |-> req[r].milestone,
                                         was |-> req[r].was, files |-> req[r].files]]
<1>1. req[r] \in Handlers /\ req' = [req EXCEPT ![r] = [req[r] EXCEPT !.at = at]]
  BY DEF TypeOK, Proceed
<1>2. CASE At(r, "delete_folder")
  <2>1. [req[r] EXCEPT !.at = at] = [op |-> "delete_folder", at |-> at, folder |-> req[r].folder]
    BY <1>1, <1>2 DEF Handlers, Idle, At
  <2> QED
    BY <1>1, <1>2, <2>1 DEF At
<1>3. CASE At(r, "move")
  <2>1. [req[r] EXCEPT !.at = at] = [op |-> "move", at |-> at, file |-> req[r].file,
                                     was |-> req[r].was, to |-> req[r].to]
    BY <1>1, <1>3 DEF Handlers, Idle, At
  <2> QED
    BY <1>1, <1>3, <2>1 DEF At
<1>4. CASE At(r, "update_milestone")
  <2>1. [req[r] EXCEPT !.at = at] = [op |-> "update_milestone", at |-> at,
                                     milestone |-> req[r].milestone,
                                     was |-> req[r].was, files |-> req[r].files]
    BY <1>1, <1>4 DEF Handlers, Idle, At
  <2> QED
    BY <1>1, <1>4, <2>1 DEF At
<1> QED
  BY <1>2, <1>3, <1>4

----------------------------------------------------------------------------
(* Handlers that change no row.                                            *)

\* One handler moves on to h: what h has read must hold, an id it drew must be
\* its own, and what it missed must be noted.
LEMMA HandlerMovesOn ==
  ASSUME IInv, NEW r \in Requests, NEW h \in Handlers,
         req' = [req EXCEPT ![r] = h],
         UNCHANGED <<course, folder, file, milestone>>,
         late' \in [Requests -> SUBSET (Files \cup Folders)],
         \A q \in Requests \ {r} : late'[q] = late[q],
         HandlerHolds(h), Noted(h, late'[r]), Inserts(h) => h.id \notin Drawn
  PROVE  IInv'
<1> USE DEF IInv
<1>1. \A q \in Requests : req'[q] = IF q = r THEN h ELSE req[q]
  BY DEF TypeOK
<1>2. TypeOK'
  BY DEF TypeOK
<1>3. HandlersHold'
  BY <1>1 DEF HandlersHold, HandlerHolds, Attached, CoursesNow, FoldersNow, FilesNow, MilestonesNow
<1>4. IdsAreDrawnOnce'
  BY <1>1 DEF IdsAreDrawnOnce, Inserts, Drawn
<1>5. LateIsNoted'
  BY <1>1 DEF LateIsNoted, Noted, FoldersIn, FilesIn, FoldersNow, FilesNow
<1>6. TreeIsConsistent' /\ AttachmentsStayInCourse'
  BY DEF TreeIsConsistent, AttachmentsStayInCourse, Agree, CoursesNow, FoldersNow, FilesNow,
         MilestonesNow
<1> QED
  BY <1>2, <1>3, <1>4, <1>5, <1>6

\* A handler begins.
LEMMA StartKeepsIInv ==
  ASSUME IInv, NEW r \in Requests, NEW h \in Handlers, Start(r, h),
         HandlerHolds(h), Noted(h, late[r]), Inserts(h) => h.id \notin Drawn
  PROVE  IInv'
BY HandlerMovesOn DEF IInv, TypeOK, Start

\* A handler ends without a trace.
LEMMA EndAloneKeepsIInv ==
  ASSUME IInv, NEW r \in Requests, End(r), UNCHANGED <<course, folder, file, milestone>>,
         late' \in [Requests -> SUBSET (Files \cup Folders)],
         \A q \in Requests \ {r} : late'[q] = late[q]
  PROVE  IInv'
<1>1. Idle \in Handlers /\ HandlerHolds(Idle) /\ Noted(Idle, late'[r]) /\ ~Inserts(Idle)
  BY DEF Handlers, HandlerHolds, Noted, Inserts, Idle
<1> QED
  BY <1>1, HandlerMovesOn DEF End

\* So does one that is refused.
LEMMA RefuseKeepsIInv ==
  ASSUME IInv, NEW r \in Requests, Refuse(r)
  PROVE  IInv'
BY EndAloneKeepsIInv DEF Refuse, IInv, TypeOK

----------------------------------------------------------------------------
(* One lemma per action.                                                   *)

\* A course comes with its first folders.
LEMMA CreateCourseKeepsIInv ==
  ASSUME IInv, NEW r \in Requests, CreateCourse(r)
  PROVE  IInv'
<1> USE DEF IInv, CreateCourse
<1>1. TypeOK'
  <2>1. \A c \in Courses, k \in Keys : [key |-> k, status |-> "active"] \in CourseRow
    BY DEF CourseRow
  <2>2. \A c \in Courses : [course |-> c, parent |-> None] \in FolderRow
    BY DEF FolderRow
  <2> QED
    BY <2>1, <2>2 DEF TypeOK
<1>2. HandlersHold'
  BY HandlerFields, IdsAssumption
     DEF TypeOK, HandlersHold, HandlerHolds, Attached, CoursesNow, FoldersNow, FilesNow,
         MilestonesNow, FreshFolders, Drawn
<1>3. IdsAreDrawnOnce'
  BY DEF IdsAreDrawnOnce
<1>4. LateIsNoted'
  BY HandlerFields, IdsAssumption
     DEF TypeOK, LateIsNoted, Noted, FoldersIn, FilesIn, FoldersNow, FilesNow
<1>5. TreeIsConsistent'
  <2>1. PICK c \in Courses \ CoursesNow, k \in Keys, D \in SUBSET FreshFolders :
         /\ course' = [course EXCEPT ![c] = [key |-> k, status |-> "active"]]
         /\ folder' = [f \in Folders |->
                         IF f \in D THEN [course |-> c, parent |-> None] ELSE folder[f]]
    OBVIOUS
  <2>2. CoursesNow' = CoursesNow \cup {c}
    BY <2>1, RowsAssumption DEF TypeOK, CoursesNow, CourseRow
  <2>3. FoldersNow' = FoldersNow \cup D /\ D \cap FoldersNow = {}
    BY <2>1, RowsAssumption DEF TypeOK, FoldersNow, FolderRow, FreshFolders
  <2>4. \A f \in FoldersNow : folder'[f] = folder[f]
    BY <2>1, <2>3 DEF FoldersNow
  <2>5. \A f \in D : folder'[f].course = c /\ folder'[f].parent = None
    BY <2>1 DEF FreshFolders
  <2>6. FilesNow' = FilesNow /\ file' = file
    BY DEF FilesNow
  <2>7. ASSUME NEW f \in FoldersNow'
        PROVE  /\ folder'[f].course \in CoursesNow'
               /\ folder'[f].parent # None =>
                    /\ folder'[f].parent \in FoldersNow'
                    /\ folder'[folder'[f].parent].course = folder'[f].course
    <3>1. CASE f \in D
      BY <2>2, <2>5, <3>1
    <3>2. CASE f \in FoldersNow
      BY <2>2, <2>3, <2>4, <3>2 DEF TreeIsConsistent
    <3> QED
      BY <2>3, <3>1, <3>2
  <2>8. ASSUME NEW g \in FilesNow
        PROVE  Agree(file[g].folder, file[g].course)'
    BY <2>3, <2>4, <2>6 DEF TreeIsConsistent, Agree
  <2> QED
    BY <2>6, <2>7, <2>8 DEF TreeIsConsistent
<1>6. AttachmentsStayInCourse'
  BY DEF AttachmentsStayInCourse, MilestonesNow, FilesNow
<1> QED
  BY <1>1, <1>2, <1>3, <1>4, <1>5, <1>6

\* A PATCH of a course has loaded it.
LEMMA LoadCourseKeepsIInv ==
  ASSUME IInv, NEW r \in Requests, LoadCourse(r)
  PROVE  IInv'
<1>1. PICK c \in CoursesNow, h \in Changes :
         Start(r, [op |-> "update_course", course |-> c, was |-> course[c], change |-> h])
  BY DEF LoadCourse
<1> DEFINE H == [op |-> "update_course", course |-> c, was |-> course[c], change |-> h]
<1>2. H \in Handlers
  BY <1>1, RowTypes DEF IInv, Handlers, CoursesNow
<1>3. HandlerHolds(H)
  BY DEF HandlerHolds
<1>4. Noted(H, late[r]) /\ (Inserts(H) => H.id \notin Drawn)
  BY <1>1 DEF Noted, Inserts, FreshFolders, FreshFiles, FreshMilestones
<1> QED
  BY <1>1, <1>2, <1>3, <1>4, StartKeepsIInv

\* The columns that were assigned are written, if the key is free.
LEMMA CommitCourseKeepsIInv ==
  ASSUME IInv, NEW r \in Requests, CommitCourse(r)
  PROVE  IInv'
<1> USE DEF IInv, CommitCourse, End, Written, Column
<1> DEFINE c == req[r].course
<1>0. /\ CoursesNow' = CoursesNow
      /\ course' \in [Courses -> CourseRow \cup {None}]
  <2>1. c \in CoursesNow /\ c \in Courses /\ req[r].was \in CourseRow /\ req[r].change \in Changes
    BY HandlerFields DEF HandlersHold, HandlerHolds, TypeOK, At
  <2>2. course[c] \in CourseRow
    BY <2>1, RowTypes
  <2>3. Written(course[c], req[r].was, req[r].change) \in CourseRow
    BY <2>1, <2>2 DEF CourseRow, Changes
  <2> QED
    BY <2>1, <2>3, RowsAssumption DEF TypeOK, CoursesNow
<1>1. TypeOK'
  BY <1>0, EndIsTyped DEF TypeOK
<1>2. HandlersHold'
  <2> HIDE DEF CommitCourse
  <2>1. /\ UNCHANGED <<folder, file, milestone>>
        /\ \A q \in Requests : req'[q] = req[q] \/ req'[q] = Idle
    BY DEF CommitCourse, TypeOK
  <2> QED
    BY <1>0, <2>1
       DEF HandlersHold, HandlerHolds, Idle, Attached, FoldersNow, FilesNow, MilestonesNow
<1>3. IdsAreDrawnOnce'
  BY DEF IdsAreDrawnOnce, Inserts, Idle
<1>4. LateIsNoted'
  BY DEF LateIsNoted, Noted, FoldersIn, FilesIn, FoldersNow, FilesNow, Idle
<1>5. TreeIsConsistent'
  BY <1>0 DEF TreeIsConsistent, Agree, FoldersNow, FilesNow
<1>6. AttachmentsStayInCourse'
  BY DEF AttachmentsStayInCourse, MilestonesNow, FilesNow
<1> QED
  BY <1>1, <1>2, <1>3, <1>4, <1>5, <1>6

\* A new folder's parent was found in its course.
LEMMA CheckParentKeepsIInv ==
  ASSUME IInv, NEW r \in Requests, CheckParent(r)
  PROVE  IInv'
<1>1. PICK c \in CoursesNow, p \in Folders \cup {None}, f \in FreshFolders :
         ParentFits(p, c) /\
         Start(r, [op |-> "create_folder", course |-> c, parent |-> p, id |-> f])
  BY DEF CheckParent
<1> DEFINE H == [op |-> "create_folder", course |-> c, parent |-> p, id |-> f]
<1>2. H \in Handlers
  BY <1>1, RowTypes DEF IInv, Handlers, CoursesNow, FreshFolders
<1>3. HandlerHolds(H)
  BY <1>1, IdsAssumption DEF HandlerHolds, FoldersNow, FreshFolders, ParentFits
<1>4. Noted(H, late[r]) /\ (Inserts(H) => H.id \notin Drawn)
  BY <1>1 DEF Noted, Inserts, FreshFolders, FreshFiles, FreshMilestones
<1> QED
  BY <1>1, <1>2, <1>3, <1>4, StartKeepsIInv

\* A folder is inserted below a parent that is still there.
LEMMA InsertFolderKeepsIInv ==
  ASSUME IInv, NEW r \in Requests, InsertFolder(r)
  PROVE  IInv'
<1> USE DEF IInv, InsertFolder, End, Enters
<1>1. TypeOK'
  <2>1. [course |-> req[r].course, parent |-> req[r].parent] \in FolderRow
    BY HandlerFields DEF TypeOK, At, FolderRow
  <2>2. req[r].id \in Folders
    BY HandlerFields DEF TypeOK, At
  <2>3. late' \in [Requests -> SUBSET (Files \cup Folders)]
    BY <2>2 DEF TypeOK
  <2> QED
    BY <2>1, <2>2, <2>3, EndIsTyped DEF TypeOK
<1>2. HandlersHold'
  BY IdsAssumption
     DEF TypeOK, HandlersHold, HandlerHolds, IdsAreDrawnOnce, Inserts, Idle, At, Attached,
         CoursesNow, FoldersNow, FilesNow, MilestonesNow
<1>3. IdsAreDrawnOnce'
  BY DEF IdsAreDrawnOnce, Inserts, Idle
<1>4. LateIsNoted'
  BY IdsAssumption DEF LateIsNoted, Noted, FoldersIn, FilesIn, FoldersNow, FilesNow, Idle, At
<1>5. TreeIsConsistent'
  BY DEF TreeIsConsistent, Agree, CoursesNow, FoldersNow, FilesNow, HandlersHold, HandlerHolds, At
<1>6. AttachmentsStayInCourse'
  BY DEF AttachmentsStayInCourse, MilestonesNow, FilesNow
<1> QED
  BY <1>1, <1>2, <1>3, <1>4, <1>5, <1>6

\* The folder to delete was found.
LEMMA FindFolderKeepsIInv ==
  ASSUME IInv, NEW r \in Requests, FindFolder(r)
  PROVE  IInv'
<1>1. PICK f \in FoldersNow :
         Start(r, [op |-> "delete_folder", at |-> "folders", folder |-> f])
  BY DEF FindFolder
<1> DEFINE H == [op |-> "delete_folder", at |-> "folders", folder |-> f]
<1>2. H \in Handlers
  BY <1>1, RowTypes DEF IInv, Handlers, FoldersNow
<1>3. HandlerHolds(H)
  BY DEF HandlerHolds, FoldersNow
<1>4. Noted(H, late[r]) /\ (Inserts(H) => H.id \notin Drawn)
  BY <1>1 DEF Noted, Inserts, FreshFolders, FreshFiles, FreshMilestones
<1> QED
  BY <1>1, <1>2, <1>3, <1>4, StartKeepsIInv

\* The folder to delete holds no folders.
LEMMA LookForFoldersKeepsIInv ==
  ASSUME IInv, NEW r \in Requests, LookForFolders(r)
  PROVE  IInv'
<1> DEFINE H == [op |-> "delete_folder", at |-> "files", folder |-> req[r].folder]
<1>1. CASE Refuse(r)
  BY <1>1, RefuseKeepsIInv
<1>2. CASE FoldersIn(req[r].folder) = {} /\ Proceed(r, "files")
  <2>1. At(r, "delete_folder") /\ req[r].at = "folders" /\ req[r] \in Handlers
    BY DEF LookForFolders, AtStep, At, IInv, TypeOK
  <2>2. req' = [req EXCEPT ![r] = H] /\ UNCHANGED <<course, folder, file, milestone, late>>
    BY <1>2, <2>1, ProceedOnlyMoves DEF IInv, Proceed
  <2>3. H \in Handlers
    BY <2>1, HandlerFields DEF Handlers, At
  <2>4. HandlerHolds(H)
    BY <1>2, <2>1, HandlerFields DEF IInv, HandlersHold, HandlerHolds, At
  <2>5. Noted(H, late[r]) /\ ~Inserts(H)
    BY <1>2, <2>1 DEF IInv, LateIsNoted, Noted, Inserts, At
  <2> QED
    BY <2>2, <2>3, <2>4, <2>5, HandlerMovesOn DEF IInv, TypeOK
<1> QED
  BY <1>1, <1>2 DEF LookForFolders

\* Nor does it hold files.
LEMMA LookForFilesKeepsIInv ==
  ASSUME IInv, NEW r \in Requests, LookForFiles(r)
  PROVE  IInv'
<1> DEFINE H == [op |-> "delete_folder", at |-> "delete", folder |-> req[r].folder]
<1>1. CASE Refuse(r)
  BY <1>1, RefuseKeepsIInv
<1>2. CASE FilesIn(req[r].folder) = {} /\ Proceed(r, "delete")
  <2>1. At(r, "delete_folder") /\ req[r].at = "files" /\ req[r] \in Handlers
    BY DEF LookForFiles, AtStep, At, IInv, TypeOK
  <2>2. req' = [req EXCEPT ![r] = H] /\ UNCHANGED <<course, folder, file, milestone, late>>
    BY <1>2, <2>1, ProceedOnlyMoves DEF IInv, Proceed
  <2>3. H \in Handlers
    BY <2>1, HandlerFields DEF Handlers, At
  <2>4. HandlerHolds(H)
    BY <1>2, <2>1, HandlerFields DEF IInv, HandlersHold, HandlerHolds, At
  <2>5. Noted(H, late[r]) /\ ~Inserts(H)
    BY <1>2, <2>1 DEF IInv, LateIsNoted, Noted, Inserts, At
  <2> QED
    BY <2>2, <2>3, <2>4, <2>5, HandlerMovesOn DEF IInv, TypeOK
<1> QED
  BY <1>1, <1>2 DEF LookForFiles

\* What a deleted folder takes with it is closed under "is inside of".
LEMMA SubtreeIsClosed ==
  ASSUME NEW f \in Folders
  PROVE  /\ f \in Subtree(f)
         /\ \A d \in Subtree(f) : FoldersIn(d) \subseteq Subtree(f)
<1>1. ASSUME NEW d \in Subtree(f), NEW e \in FoldersIn(d)
      PROVE  e \in Subtree(f)
  <2>1. ASSUME NEW S \in SUBSET Folders, f \in S, \A x \in S : FoldersIn(x) \subseteq S
        PROVE  e \in S
    BY <1>1, <2>1 DEF Subtree
  <2>2. e \in Folders
    BY DEF FoldersIn, FoldersNow
  <2> QED
    BY <2>1, <2>2 DEF Subtree
<1> QED
  BY <1>1 DEF Subtree

\* A folder that is there is deleted with folders that are there.
LEMMA SubtreeIsThere ==
  ASSUME NEW f \in FoldersNow
  PROVE  Subtree(f) \subseteq FoldersNow
<1>1. \A e \in FoldersNow : FoldersIn(e) \subseteq FoldersNow
  BY DEF FoldersIn
<1>2. FoldersNow \in SUBSET Folders
  BY DEF FoldersNow
<1> QED
  BY <1>1, <1>2 DEF Subtree

\* The folder goes, and with it all that is inside.
LEMMA DeleteFolderKeepsIInv ==
  ASSUME IInv, NEW r \in Requests, DeleteFolder(r)
  PROVE  IInv'
<1> USE DEF IInv
<1> DEFINE S == IF req[r].folder \in FoldersNow THEN Subtree(req[r].folder) ELSE {}
<1>1. S \subseteq FoldersNow /\ \A d \in S : FoldersIn(d) \subseteq S
  BY SubtreeIsClosed, SubtreeIsThere DEF FoldersNow
<1>2. /\ folder' = [d \in Folders |-> IF d \in S THEN Gone ELSE folder[d]]
      /\ file' = [g \in Files |-> IF \E d \in S : g \in FilesIn(d) THEN Gone ELSE file[g]]
      /\ End(r) /\ late' = [late EXCEPT ![r] = {}] /\ UNCHANGED <<course, milestone>>
  BY DEF DeleteFolder
<1> HIDE DEF S
<1>3. /\ \A f \in Folders : folder'[f] = IF f \in S THEN Gone ELSE folder[f]
      /\ FoldersNow' = FoldersNow \ S
  BY <1>1, <1>2 DEF FoldersNow
<1>4. \A g \in Files : file'[g] = IF g \in FilesNow /\ file[g].folder \in S THEN Gone ELSE file[g]
  BY <1>2 DEF FilesIn
<1>5. FilesNow' = {g \in FilesNow : file[g].folder \notin S}
  BY <1>4 DEF FilesNow
<1>6. \A q \in Requests : /\ req'[q] = IF q = r THEN Idle ELSE req[q]
                          /\ late'[q] = IF q = r THEN {} ELSE late[q]
  BY <1>2 DEF End, TypeOK
<1>7. TypeOK'
  BY <1>2, EndIsTyped DEF TypeOK
<1>8. HandlersHold'
  <2>1. \A f \in Folders : folder[f] = None <=> folder'[f] = None
    BY <1>1, <1>3, IdsAssumption DEF FoldersNow
  <2>2. \A g \in Files : file[g] = None <=> file'[g] = None
    BY <1>4, IdsAssumption DEF FilesNow
  <2>3. /\ CoursesNow' = CoursesNow /\ MilestonesNow' = MilestonesNow
        /\ UNCHANGED <<course, milestone>>
    BY <1>2 DEF CoursesNow, MilestonesNow
  <2>4. \A G \in SUBSET Files : \A c : Attached(G, c) => Attached(G, c)'
    BY <1>4, <1>5, <2>2 DEF Attached
  <2>5. \A f \in FoldersNow' : f \in FoldersNow /\ folder'[f] = folder[f]
    BY <1>3 DEF FoldersNow
  <2>6. ASSUME NEW q \in Requests
        PROVE  HandlerHolds(req[q])'
    <3>1. CASE q = r
      BY <1>6, <3>1 DEF HandlerHolds, Idle
    <3>2. CASE q # r
      <4>1. req'[q] = req[q] /\ req[q] \in Handlers /\ HandlerHolds(req[q])
        BY <1>6, <3>2 DEF HandlersHold, TypeOK
      <4> QED
        BY <4>1, <2>1, <2>2, <2>3, <2>4, <2>5, HandlerFields DEF HandlerHolds
    <3> QED
      BY <3>1, <3>2
  <2> QED
    BY <2>6 DEF HandlersHold
<1>9. IdsAreDrawnOnce'
  BY <1>6 DEF IdsAreDrawnOnce, Inserts, Idle
<1>10. LateIsNoted'
  <2>1. \A f : FoldersIn(f)' \subseteq FoldersIn(f) /\ FilesIn(f)' \subseteq FilesIn(f)
    BY <1>3, <1>4, <1>5 DEF FoldersIn, FilesIn, FoldersNow, FilesNow
  <2> QED
    BY <1>6, <2>1 DEF LateIsNoted, Noted, Idle
<1>11. TreeIsConsistent'
  <2>1. ASSUME NEW f \in FoldersNow'
        PROVE  /\ f \in FoldersNow /\ folder'[f] = folder[f]
               /\ folder[f].parent # None => folder[f].parent \in FoldersNow'
    BY <1>1, <1>3 DEF FoldersIn, FoldersNow, TreeIsConsistent
  <2>2. \A g \in FilesNow' : g \in FilesNow /\ file'[g] = file[g] /\ file[g].folder \in FoldersNow'
    BY <1>3, <1>4, <1>5 DEF FilesNow, TreeIsConsistent, Agree
  <2>3. CoursesNow' = CoursesNow
    BY <1>2 DEF CoursesNow
  <2> QED
    BY <2>1, <2>2, <2>3 DEF TreeIsConsistent, Agree
<1>12. AttachmentsStayInCourse'
  <2>1. \A m \in MilestonesNow : milestone[m].files \subseteq Files
    BY RowTypes DEF MilestoneRow
  <2> QED
    BY <1>2, <1>4, <1>5, <2>1, IdsAssumption DEF AttachmentsStayInCourse, MilestonesNow, FilesNow
<1> QED
  BY <1>7, <1>8, <1>9, <1>10, <1>11, <1>12

\* The folder of an upload was found.
LEMMA FindUploadFolderKeepsIInv ==
  ASSUME IInv, NEW r \in Requests, FindUploadFolder(r)
  PROVE  IInv'
<1>1. PICK f \in FoldersNow, g \in FreshFiles :
         Start(r, [op |-> "upload", course |-> folder[f].course, folder |-> f, id |-> g])
  BY DEF FindUploadFolder
<1> DEFINE H == [op |-> "upload", course |-> folder[f].course, folder |-> f, id |-> g]
<1>2. H \in Handlers
  BY <1>1, RowTypes DEF IInv, Handlers, FoldersNow, FolderRow, FreshFiles
<1>3. HandlerHolds(H)
  BY DEF HandlerHolds, FreshFiles
<1>4. Noted(H, late[r]) /\ (Inserts(H) => H.id \notin Drawn)
  BY <1>1 DEF Noted, Inserts, FreshFolders, FreshFiles, FreshMilestones
<1> QED
  BY <1>1, <1>2, <1>3, <1>4, StartKeepsIInv

\* A file is inserted where the foreign key lets it.
LEMMA InsertFileKeepsIInv ==
  ASSUME IInv, NEW r \in Requests, InsertFile(r)
  PROVE  IInv'
<1> USE DEF IInv, InsertFile, End, Enters, Agree
<1>1. TypeOK'
  <2>1. [course |-> req[r].course, folder |-> req[r].folder] \in FileRow
    BY HandlerFields DEF TypeOK, At, FileRow
  <2>2. req[r].id \in Files
    BY HandlerFields DEF TypeOK, At
  <2>3. late' \in [Requests -> SUBSET (Files \cup Folders)]
    BY <2>2 DEF TypeOK
  <2> QED
    BY <2>1, <2>2, <2>3, EndIsTyped DEF TypeOK
<1>2. HandlersHold'
  BY DEF TypeOK, HandlersHold, HandlerHolds, IdsAreDrawnOnce, Inserts, Idle, At, Attached,
         CoursesNow, FoldersNow, FilesNow, MilestonesNow
<1>3. IdsAreDrawnOnce'
  BY DEF IdsAreDrawnOnce, Inserts, Idle
<1>4. LateIsNoted'
  BY DEF LateIsNoted, Noted, FoldersIn, FilesIn, FoldersNow, FilesNow, Idle, At
<1>5. TreeIsConsistent'
  BY DEF TreeIsConsistent, CoursesNow, FoldersNow, FilesNow
<1>6. AttachmentsStayInCourse'
  BY DEF AttachmentsStayInCourse, MilestonesNow, FilesNow, HandlersHold, HandlerHolds, At
<1> QED
  BY <1>1, <1>2, <1>3, <1>4, <1>5, <1>6

\* The file to move was found.
LEMMA FindFileToMoveKeepsIInv ==
  ASSUME IInv, NEW r \in Requests, FindFileToMove(r)
  PROVE  IInv'
<1>1. PICK g \in FilesNow, f \in Folders :
         Start(r, [op |-> "move", at |-> "find", file |-> g, was |-> file[g], to |-> f])
  BY DEF FindFileToMove
<1> DEFINE H == [op |-> "move", at |-> "find", file |-> g, was |-> file[g], to |-> f]
<1>2. H \in Handlers
  BY <1>1, RowTypes DEF IInv, Handlers, FilesNow
<1>3. HandlerHolds(H)
  BY DEF HandlerHolds
<1>4. Noted(H, late[r]) /\ (Inserts(H) => H.id \notin Drawn)
  BY <1>1 DEF Noted, Inserts, FreshFolders, FreshFiles, FreshMilestones
<1> QED
  BY <1>1, <1>2, <1>3, <1>4, StartKeepsIInv

\* The folder to move it to was found in the file's course.
LEMMA FindDestinationKeepsIInv ==
  ASSUME IInv, NEW r \in Requests, FindDestination(r)
  PROVE  IInv'
<1> DEFINE H == [op |-> "move", at |-> "write", file |-> req[r].file, was |-> req[r].was,
                to |-> req[r].to]
<1>1. CASE Refuse(r)
  BY <1>1, RefuseKeepsIInv
<1>2. CASE /\ req[r].to \in FoldersNow /\ folder[req[r].to].course = req[r].was.course
           /\ Proceed(r, "write")
  <2>1. At(r, "move") /\ req[r].at = "find" /\ req[r] \in Handlers
    BY DEF FindDestination, AtStep, At, IInv, TypeOK
  <2>2. req' = [req EXCEPT ![r] = H] /\ UNCHANGED <<course, folder, file, milestone, late>>
    BY <1>2, <2>1, ProceedOnlyMoves DEF IInv, Proceed
  <2>3. H \in Handlers
    BY <2>1, HandlerFields DEF Handlers, At
  <2>4. HandlerHolds(H)
    BY <1>2, <2>1, HandlerFields DEF IInv, HandlersHold, HandlerHolds, At
  <2>5. Noted(H, late[r]) /\ ~Inserts(H)
    BY <1>2, <2>1 DEF IInv, LateIsNoted, Noted, Inserts, At
  <2> QED
    BY <2>2, <2>3, <2>4, <2>5, HandlerMovesOn DEF IInv, TypeOK
<1> QED
  BY <1>1, <1>2 DEF FindDestination

\* A file that is still there moves to a folder of its course.
LEMMA UpdateFileKeepsIInv ==
  ASSUME IInv, NEW r \in Requests, UpdateFile(r)
  PROVE  IInv'
<1> DEFINE g == req[r].file
           f == req[r].to
<1>1. CASE f = req[r].was.folder
  BY <1>1, EndAloneKeepsIInv DEF IInv, TypeOK, UpdateFile
<1>2. CASE f # req[r].was.folder
  <2> USE DEF IInv
  <2>1. /\ g \in FilesNow /\ f \in FoldersNow /\ folder[f].course = file[g].course
        /\ file[g] \in FileRow /\ End(r) /\ Enters(g, f)
        /\ file' = [file EXCEPT ![g].folder = f]
        /\ UNCHANGED <<course, folder, milestone>>
    BY <1>2, RowTypes DEF UpdateFile, Agree
  <2>2. /\ file'[g].course = file[g].course /\ file'[g].folder = f /\ file'[g] \in FileRow
        /\ \A x \in Files : x # g => file'[x] = file[x]
        /\ FilesNow' = FilesNow
    BY <2>1, RowsAssumption DEF TypeOK, FilesNow, FoldersNow, FileRow
  <2>3. \A q \in Requests : req'[q] = IF q = r THEN Idle ELSE req[q]
    BY <2>1 DEF End, TypeOK
  <2>4. TypeOK'
    <3>1. file' \in [Files -> FileRow \cup {None, Gone}]
      BY <2>1, <2>2 DEF TypeOK
    <3>2. late' \in [Requests -> SUBSET (Files \cup Folders)]
      BY <2>1 DEF TypeOK, Enters, FilesNow
    <3> QED
      BY <2>1, <3>1, <3>2, EndIsTyped DEF TypeOK
  <2>5. HandlersHold'
    BY <2>1, <2>2, <2>3, RowsAssumption, HandlerFields
       DEF HandlersHold, HandlerHolds, Attached, Idle, At, CoursesNow, FoldersNow, FilesNow,
           MilestonesNow, TypeOK
  <2>6. IdsAreDrawnOnce'
    BY <2>3 DEF IdsAreDrawnOnce, Inserts, Idle
  <2>7. LateIsNoted'
    BY <2>1, <2>2, <2>3 DEF LateIsNoted, Noted, FoldersIn, FilesIn, FoldersNow, Enters, Idle, At
  <2>8. TreeIsConsistent'
    BY <2>1, <2>2 DEF TreeIsConsistent, Agree, CoursesNow, FoldersNow, FilesNow
  <2>9. AttachmentsStayInCourse'
    BY <2>1, <2>2, RowTypes
       DEF AttachmentsStayInCourse, MilestonesNow, MilestoneRow, FilesNow, TypeOK
  <2> QED
    BY <2>4, <2>5, <2>6, <2>7, <2>8, <2>9
<1> QED
  BY <1>1, <1>2

\* The file to delete was found.
LEMMA FindFileToDeleteKeepsIInv ==
  ASSUME IInv, NEW r \in Requests, FindFileToDelete(r)
  PROVE  IInv'
<1>1. PICK g \in FilesNow :
         Start(r, [op |-> "delete_file", file |-> g])
  BY DEF FindFileToDelete
<1> DEFINE H == [op |-> "delete_file", file |-> g]
<1>2. H \in Handlers
  BY <1>1, RowTypes DEF IInv, Handlers, FilesNow
<1>3. HandlerHolds(H)
  BY DEF HandlerHolds, FilesNow
<1>4. Noted(H, late[r]) /\ (Inserts(H) => H.id \notin Drawn)
  BY <1>1 DEF Noted, Inserts, FreshFolders, FreshFiles, FreshMilestones
<1> QED
  BY <1>1, <1>2, <1>3, <1>4, StartKeepsIInv

\* A file is deleted, and stays attached where it was.
LEMMA DeleteFileKeepsIInv ==
  ASSUME IInv, NEW r \in Requests, DeleteFile(r)
  PROVE  IInv'
<1> USE DEF IInv, DeleteFile, End
<1>1. TypeOK'
  BY EndIsTyped DEF TypeOK
<1>2. HandlersHold'
  BY IdsAssumption
     DEF HandlersHold, HandlerHolds, Idle, At, Attached, CoursesNow, FoldersNow, FilesNow,
         MilestonesNow
<1>3. IdsAreDrawnOnce'
  BY DEF IdsAreDrawnOnce, Inserts, Idle
<1>4. LateIsNoted'
  BY DEF LateIsNoted, Noted, FoldersIn, FilesIn, FoldersNow, FilesNow, Idle
<1>5. TreeIsConsistent'
  BY DEF TreeIsConsistent, Agree, CoursesNow, FoldersNow, FilesNow
<1>6. AttachmentsStayInCourse'
  <2>1. \A g \in Files : file'[g] = file[g] \/ file'[g] = Gone
    BY DEF TypeOK
  <2>2. \A m \in MilestonesNow : milestone[m].files \subseteq Files
    BY RowTypes DEF MilestoneRow
  <2> QED
    BY <2>1, <2>2, IdsAssumption DEF AttachmentsStayInCourse, MilestonesNow, FilesNow
<1> QED
  BY <1>1, <1>2, <1>3, <1>4, <1>5, <1>6

\* What a new milestone attaches was found in its course.
LEMMA CheckNewMilestoneKeepsIInv ==
  ASSUME IInv, NEW r \in Requests, CheckNewMilestone(r)
  PROVE  IInv'
<1>1. PICK c \in CoursesNow, G \in SUBSET Files, m \in FreshMilestones :
         Checked(G, c) /\
         Start(r, [op |-> "create_milestone", course |-> c, files |-> G, id |-> m])
  BY DEF CheckNewMilestone
<1> DEFINE H == [op |-> "create_milestone", course |-> c, files |-> G, id |-> m]
<1>2. H \in Handlers
  BY <1>1, RowTypes DEF IInv, Handlers, CoursesNow, FreshMilestones
<1>3. HandlerHolds(H)
  BY <1>1 DEF HandlerHolds, Attached, FilesNow, FreshMilestones, Checked
<1>4. Noted(H, late[r]) /\ (Inserts(H) => H.id \notin Drawn)
  BY <1>1 DEF Noted, Inserts, FreshFolders, FreshFiles, FreshMilestones
<1> QED
  BY <1>1, <1>2, <1>3, <1>4, StartKeepsIInv

\* A milestone is inserted with what was found.
LEMMA InsertMilestoneKeepsIInv ==
  ASSUME IInv, NEW r \in Requests, InsertMilestone(r)
  PROVE  IInv'
<1> USE DEF IInv, InsertMilestone, End
<1>1. TypeOK'
  <2>1. [course |-> req[r].course, files |-> req[r].files] \in MilestoneRow
    BY HandlerFields DEF TypeOK, At, MilestoneRow
  <2> QED
    BY <2>1, EndIsTyped DEF TypeOK
<1>2. HandlersHold'
  BY DEF TypeOK, HandlersHold, HandlerHolds, IdsAreDrawnOnce, Inserts, Idle, At, Attached,
         CoursesNow, FoldersNow, FilesNow, MilestonesNow
<1>3. IdsAreDrawnOnce'
  BY DEF IdsAreDrawnOnce, Inserts, Idle
<1>4. LateIsNoted'
  BY DEF LateIsNoted, Noted, FoldersIn, FilesIn, FoldersNow, FilesNow, Idle
<1>5. TreeIsConsistent'
  BY DEF TreeIsConsistent, Agree, CoursesNow, FoldersNow, FilesNow
<1>6. AttachmentsStayInCourse'
  BY DEF AttachmentsStayInCourse, MilestonesNow, FilesNow, HandlersHold, HandlerHolds, At, Attached
<1> QED
  BY <1>1, <1>2, <1>3, <1>4, <1>5, <1>6

\* The milestone to change was found.
LEMMA FindMilestoneKeepsIInv ==
  ASSUME IInv, NEW r \in Requests, FindMilestone(r)
  PROVE  IInv'
<1>1. PICK m \in MilestonesNow, G \in SUBSET Files :
         Start(r, [op |-> "update_milestone", at |-> "check", milestone |-> m,
                                      was |-> milestone[m], files |-> G])
  BY DEF FindMilestone
<1> DEFINE H == [op |-> "update_milestone", at |-> "check", milestone |-> m,
                                      was |-> milestone[m], files |-> G]
<1>2. H \in Handlers
  BY <1>1, RowTypes DEF IInv, Handlers, MilestonesNow
<1>3. HandlerHolds(H)
  BY DEF HandlerHolds, MilestonesNow
<1>4. Noted(H, late[r]) /\ (Inserts(H) => H.id \notin Drawn)
  BY <1>1 DEF Noted, Inserts, FreshFolders, FreshFiles, FreshMilestones
<1> QED
  BY <1>1, <1>2, <1>3, <1>4, StartKeepsIInv

\* What it attaches was found in its course.
LEMMA CheckAttachmentsKeepsIInv ==
  ASSUME IInv, NEW r \in Requests, CheckAttachments(r)
  PROVE  IInv'
<1> DEFINE H == [op |-> "update_milestone", at |-> "write", milestone |-> req[r].milestone,
                was |-> req[r].was, files |-> req[r].files]
<1>1. CASE Refuse(r)
  BY <1>1, RefuseKeepsIInv
<1>2. CASE Checked(req[r].files, req[r].was.course) /\ Proceed(r, "write")
  <2>1. At(r, "update_milestone") /\ req[r].at = "check" /\ req[r] \in Handlers
    BY DEF CheckAttachments, AtStep, At, IInv, TypeOK
  <2>2. req' = [req EXCEPT ![r] = H] /\ UNCHANGED <<course, folder, file, milestone, late>>
    BY <1>2, <2>1, ProceedOnlyMoves DEF IInv, Proceed
  <2>3. H \in Handlers
    BY <2>1, HandlerFields DEF Handlers, At
  <2>4. HandlerHolds(H)
    BY <1>2, <2>1 DEF IInv, HandlersHold, HandlerHolds, At, Attached, FilesNow, Checked
  <2>5. Noted(H, late[r]) /\ ~Inserts(H)
    BY <1>2, <2>1 DEF IInv, LateIsNoted, Noted, Inserts, At
  <2> QED
    BY <2>2, <2>3, <2>4, <2>5, HandlerMovesOn DEF IInv, TypeOK
<1> QED
  BY <1>1, <1>2 DEF CheckAttachments

\* A milestone that is still there is given what was found.
LEMMA UpdateMilestoneKeepsIInv ==
  ASSUME IInv, NEW r \in Requests, UpdateMilestone(r)
  PROVE  IInv'
<1> DEFINE m == req[r].milestone
           G == Column(milestone[m].files, req[r].was.files, req[r].files)
<1>1. CASE m \notin MilestonesNow
  BY <1>1, EndAloneKeepsIInv DEF IInv, TypeOK, UpdateMilestone
<1>2. CASE m \in MilestonesNow
  <2> USE DEF IInv
  <2>1. /\ milestone' = [milestone EXCEPT ![m].files = G]
        /\ End(r) /\ UNCHANGED <<course, folder, file, late>>
    BY <1>2 DEF UpdateMilestone
  <2>2. milestone[m] \in MilestoneRow /\ G \in {milestone[m].files, req[r].files}
    BY <1>2, RowTypes DEF Column
  <2>3. /\ req[r].files \subseteq Files /\ Attached(req[r].files, milestone[m].course)
    BY <1>2, HandlerFields DEF UpdateMilestone, AtStep, At, HandlersHold, HandlerHolds, TypeOK
  <2>4. Attached(G, milestone[m].course) /\ G \subseteq Files
    BY <1>2, <2>2, <2>3 DEF AttachmentsStayInCourse, Attached, MilestoneRow
  <2> HIDE DEF G
  <2>5. /\ milestone'[m].course = milestone[m].course /\ milestone'[m].files = G
        /\ milestone'[m] \in MilestoneRow
        /\ \A x \in Milestones : x # m => milestone'[x] = milestone[x]
        /\ MilestonesNow' = MilestonesNow
    BY <1>2, <2>1, <2>2, <2>4, RowsAssumption DEF TypeOK, MilestonesNow, MilestoneRow
  <2>6. \A q \in Requests : req'[q] = IF q = r THEN Idle ELSE req[q]
    BY <2>1 DEF End, TypeOK
  <2>7. TypeOK'
    <3>1. milestone' \in [Milestones -> MilestoneRow \cup {None, Gone}]
      BY <2>1, <2>5 DEF TypeOK
    <3> QED
      BY <2>1, <3>1, EndIsTyped DEF TypeOK
  <2>8. HandlersHold'
    BY <2>1, <2>5, <2>6, <1>2
       DEF HandlersHold, HandlerHolds, Attached, Idle, CoursesNow, FoldersNow, FilesNow,
           MilestonesNow
  <2>9. IdsAreDrawnOnce' /\ LateIsNoted'
    BY <2>1, <2>6
       DEF IdsAreDrawnOnce, LateIsNoted, Noted, Inserts, Idle, FoldersIn, FilesIn, FoldersNow,
           FilesNow
  <2>10. TreeIsConsistent'
    BY <2>1 DEF TreeIsConsistent, Agree, CoursesNow, FoldersNow, FilesNow
  <2>11. AttachmentsStayInCourse'
    BY <2>1, <2>4, <2>5 DEF AttachmentsStayInCourse, Attached, MilestonesNow, FilesNow
  <2> QED
    BY <2>7, <2>8, <2>9, <2>10, <2>11
<1> QED
  BY <1>1, <1>2

\* The milestone to delete was found.
LEMMA FindMilestoneToDeleteKeepsIInv ==
  ASSUME IInv, NEW r \in Requests, FindMilestoneToDelete(r)
  PROVE  IInv'
<1>1. PICK m \in MilestonesNow :
         Start(r, [op |-> "delete_milestone", milestone |-> m])
  BY DEF FindMilestoneToDelete
<1> DEFINE H == [op |-> "delete_milestone", milestone |-> m]
<1>2. H \in Handlers
  BY <1>1, RowTypes DEF IInv, Handlers, MilestonesNow
<1>3. HandlerHolds(H)
  BY DEF HandlerHolds, MilestonesNow
<1>4. Noted(H, late[r]) /\ (Inserts(H) => H.id \notin Drawn)
  BY <1>1 DEF Noted, Inserts, FreshFolders, FreshFiles, FreshMilestones
<1> QED
  BY <1>1, <1>2, <1>3, <1>4, StartKeepsIInv

\* A milestone is deleted.
LEMMA DeleteMilestoneKeepsIInv ==
  ASSUME IInv, NEW r \in Requests, DeleteMilestone(r)
  PROVE  IInv'
<1> USE DEF IInv, DeleteMilestone, End
<1>1. TypeOK'
  BY EndIsTyped DEF TypeOK
<1>2. HandlersHold'
  BY IdsAssumption
     DEF HandlersHold, HandlerHolds, Idle, At, Attached, CoursesNow, FoldersNow, FilesNow,
         MilestonesNow
<1>3. IdsAreDrawnOnce'
  BY DEF IdsAreDrawnOnce, Inserts, Idle
<1>4. LateIsNoted'
  BY DEF LateIsNoted, Noted, FoldersIn, FilesIn, FoldersNow, FilesNow, Idle
<1>5. TreeIsConsistent'
  BY DEF TreeIsConsistent, Agree, CoursesNow, FoldersNow, FilesNow
<1>6. AttachmentsStayInCourse'
  BY DEF AttachmentsStayInCourse, MilestonesNow, FilesNow
<1> QED
  BY <1>1, <1>2, <1>3, <1>4, <1>5, <1>6

----------------------------------------------------------------------------
(* The inductive invariant.                                                *)

LEMMA InitIInv == Init => IInv
<1> SUFFICES ASSUME Init PROVE IInv
  OBVIOUS
<1>1. TypeOK
  BY DEF Init, TypeOK, Handlers
<1>2. HandlersHold /\ IdsAreDrawnOnce /\ LateIsNoted
  BY DEF Init, HandlersHold, HandlerHolds, IdsAreDrawnOnce, Inserts, LateIsNoted, Noted, Idle
<1>3. TreeIsConsistent /\ AttachmentsStayInCourse
  BY DEF Init, TreeIsConsistent, AttachmentsStayInCourse, FoldersNow, FilesNow, MilestonesNow
<1> QED
  BY <1>1, <1>2, <1>3 DEF IInv

LEMMA StepKeepsIInv ==
  ASSUME IInv, NEW r \in Requests, Step(r)
  PROVE  IInv'
<1>1. CASE CreateCourse(r) \/ LoadCourse(r) \/ CommitCourse(r)
  BY <1>1, CreateCourseKeepsIInv, LoadCourseKeepsIInv, CommitCourseKeepsIInv
<1>2. CASE CheckParent(r) \/ InsertFolder(r) \/ InsertFolderFails(r)
  BY <1>2, CheckParentKeepsIInv, InsertFolderKeepsIInv, RefuseKeepsIInv DEF InsertFolderFails
<1>3. CASE FindFolder(r) \/ LookForFolders(r) \/ LookForFiles(r) \/ DeleteFolder(r)
  BY <1>3, FindFolderKeepsIInv, LookForFoldersKeepsIInv, LookForFilesKeepsIInv,
     DeleteFolderKeepsIInv
<1>4. CASE FindUploadFolder(r) \/ InsertFile(r) \/ InsertFileFails(r)
  BY <1>4, FindUploadFolderKeepsIInv, InsertFileKeepsIInv, RefuseKeepsIInv DEF InsertFileFails
<1>5. CASE FindFileToMove(r) \/ FindDestination(r) \/ UpdateFile(r) \/ UpdateFileFails(r)
  BY <1>5, FindFileToMoveKeepsIInv, FindDestinationKeepsIInv, UpdateFileKeepsIInv,
     RefuseKeepsIInv DEF UpdateFileFails
<1>6. CASE FindFileToDelete(r) \/ DeleteFile(r)
  BY <1>6, FindFileToDeleteKeepsIInv, DeleteFileKeepsIInv
<1>7. CASE CheckNewMilestone(r) \/ InsertMilestone(r)
  BY <1>7, CheckNewMilestoneKeepsIInv, InsertMilestoneKeepsIInv
<1>8. CASE FindMilestone(r) \/ CheckAttachments(r) \/ UpdateMilestone(r)
  BY <1>8, FindMilestoneKeepsIInv, CheckAttachmentsKeepsIInv, UpdateMilestoneKeepsIInv
<1>9. CASE FindMilestoneToDelete(r) \/ DeleteMilestone(r)
  BY <1>9, FindMilestoneToDeleteKeepsIInv, DeleteMilestoneKeepsIInv
<1> QED
  BY <1>1, <1>2, <1>3, <1>4, <1>5, <1>6, <1>7, <1>8, <1>9 DEF Step

LEMMA NextKeepsIInv == IInv /\ [Next]_vars => IInv'
<1> SUFFICES ASSUME IInv, [Next]_vars PROVE IInv'
  OBVIOUS
<1>1. CASE UNCHANGED vars
  BY <1>1 DEF vars, IInv, TypeOK, HandlersHold, HandlerHolds, Attached, IdsAreDrawnOnce, Inserts,
              LateIsNoted, Noted, FoldersIn, FilesIn, TreeIsConsistent, Agree,
              AttachmentsStayInCourse, CoursesNow, FoldersNow, FilesNow, MilestonesNow
<1>2. CASE Next
  BY <1>2, StepKeepsIInv DEF Next
<1> QED
  BY <1>1, <1>2

\* Whatever the handlers interleave, what each of them read before its last
\* statement still holds or the row is gone (routers/folder.py, files.py,
\* milestone.py, courses.py); it is what the properties below rest on.
THEOREM TreeInvariantHolds == Spec => []IInv
  BY InitIInv, NextKeepsIInv, PTL DEF Spec

\* No folder and no file is ever below a folder of another course, or below one
\* that is gone, although for folders only a check made a statement earlier says
\* so (folder.py:39-49).
THEOREM TreeIsAlwaysConsistent == Spec => []TreeIsConsistent
<1>1. IInv => TreeIsConsistent
  BY DEF IInv
<1> QED
  BY <1>1, TreeInvariantHolds, PTL

\* A milestone attaches files of its own course, whatever moved or went since
\* they were checked (milestone.py:68-106, files.py:428-432).
THEOREM AttachmentsAlwaysStayInCourse == Spec => []AttachmentsStayInCourse
<1>1. IInv => AttachmentsStayInCourse
  BY DEF IInv
<1> QED
  BY <1>1, TreeInvariantHolds, PTL

----------------------------------------------------------------------------
(* What a step may not do.                                                 *)

\* What a folder takes with it is the folder and what the folders in it take.
LEMMA SubtreeByParts ==
  ASSUME NEW f \in Folders, NEW d \in Subtree(f), d # f
  PROVE  \E c \in FoldersIn(f) : d \in Subtree(c)
<1> DEFINE S == {f} \cup UNION {Subtree(c) : c \in FoldersIn(f)}
<1>1. S \in SUBSET Folders /\ f \in S
  BY DEF Subtree
<1>2. ASSUME NEW e \in S
      PROVE  FoldersIn(e) \subseteq S
  <2>1. \A c \in FoldersIn(f) : c \in Folders
    BY DEF FoldersIn, FoldersNow
  <2>2. CASE e = f
    BY <2>1, <2>2, SubtreeIsClosed
  <2>3. CASE e # f
    <3>1. PICK c \in FoldersIn(f) : e \in Subtree(c)
      BY <1>2, <2>3
    <3>2. FoldersIn(e) \subseteq Subtree(c)
      BY <2>1, <3>1, SubtreeIsClosed
    <3> QED
      BY <3>1, <3>2
  <2> QED
    BY <2>2, <2>3
<1>3. d \in S
  BY <1>1, <1>2 DEF Subtree
<1> QED
  BY <1>3

\* What delete_folder takes besides the folder entered it, or a folder inside of
\* it, after it looked.
LEMMA DeleteFolderTakes ==
  ASSUME IInv, NEW r \in Requests, DeleteFolder(r),
         NEW x \in (FoldersNow \cup FilesNow) \ (FoldersNow' \cup FilesNow')
  PROVE  \/ req[r].folder = x
         \/ x \in late[r]
         \/ \E f \in late[r] \cap FoldersNow :
              x \in Subtree(f) \/ \E d \in Subtree(f) : x \in FilesIn(d)
<1> DEFINE f == req[r].folder
           S == IF f \in FoldersNow THEN Subtree(f) ELSE {}
<1>1. /\ At(r, "delete_folder") /\ f \in Folders
      /\ FoldersIn(f) \subseteq late[r] /\ FilesIn(f) \subseteq late[r]
  BY HandlerFields DEF DeleteFolder, AtStep, At, IInv, TypeOK, LateIsNoted, Noted
<1>2. /\ folder' = [d \in Folders |-> IF d \in S THEN Gone ELSE folder[d]]
      /\ file' = [g \in Files |-> IF \E d \in S : g \in FilesIn(d) THEN Gone ELSE file[g]]
  BY DEF DeleteFolder
<1>3. x \in S \/ \E d \in S : x \in FilesIn(d)
  BY <1>2 DEF FoldersNow, FilesNow
<1>4. f \in FoldersNow /\ S = Subtree(f)
  BY <1>3
<1>5. \A d \in S : d = f \/ \E c \in late[r] \cap FoldersNow : d \in Subtree(c)
  BY <1>1, <1>4, SubtreeByParts DEF FoldersIn
<1> QED
  BY <1>1, <1>3, <1>5

\* Only a delete takes a row away.
LEMMA OthersTakeNothing ==
  ASSUME IInv, NEW r \in Requests, Step(r), ~DeleteFolder(r), ~DeleteFile(r)
  PROVE  FoldersNow \subseteq FoldersNow' /\ FilesNow \subseteq FilesNow'
<1> USE IdsAssumption, RowsAssumption
<1>1. CASE CreateCourse(r)
  <2>1. \A c \in Courses : [course |-> c, parent |-> None] \in FolderRow
    BY DEF FolderRow
  <2> QED
    BY <1>1, <2>1 DEF CreateCourse, FoldersNow, FilesNow
<1>2. CASE InsertFolder(r)
  <2>1. [course |-> req[r].course, parent |-> req[r].parent] \in FolderRow /\ req[r].id \in Folders
    BY <1>2, HandlerFields DEF InsertFolder, At, IInv, TypeOK, FolderRow
  <2> QED
    BY <1>2, <2>1 DEF InsertFolder, IInv, TypeOK, FoldersNow, FilesNow
<1>3. CASE InsertFile(r)
  <2>1. [course |-> req[r].course, folder |-> req[r].folder] \in FileRow /\ req[r].id \in Files
    BY <1>3, HandlerFields DEF InsertFile, At, IInv, TypeOK, FileRow
  <2> QED
    BY <1>3, <2>1 DEF InsertFile, IInv, TypeOK, FoldersNow, FilesNow
<1>4. CASE UpdateFile(r)
  <2>1. CASE req[r].to = req[r].was.folder
    BY <1>4, <2>1 DEF UpdateFile, FoldersNow, FilesNow
  <2>2. CASE req[r].to # req[r].was.folder
    <3>1. /\ req[r].file \in FilesNow /\ req[r].to \in FoldersNow
          /\ file' = [file EXCEPT ![req[r].file].folder = req[r].to] /\ folder' = folder
      BY <1>4, <2>2 DEF UpdateFile, Agree
    <3>2. file'[req[r].file] \in FileRow
      BY <3>1, RowTypes DEF IInv, TypeOK, FileRow, FilesNow, FoldersNow
    <3> QED
      BY <3>1, <3>2 DEF IInv, TypeOK, FoldersNow, FilesNow
  <2> QED
    BY <2>1, <2>2
<1>5. ASSUME UNCHANGED <<folder, file>>
      PROVE  FoldersNow \subseteq FoldersNow' /\ FilesNow \subseteq FilesNow'
  BY <1>5 DEF FoldersNow, FilesNow
<1> QED
  BY <1>1, <1>2, <1>3, <1>4, <1>5
     DEF Step, LoadCourse, CommitCourse, CheckParent, InsertFolderFails, FindFolder, LookForFolders,
         LookForFiles, FindUploadFolder, InsertFileFails, FindFileToMove, FindDestination,
         UpdateFileFails, FindFileToDelete, CheckNewMilestone, InsertMilestone, FindMilestone,
         CheckAttachments, UpdateMilestone, FindMilestoneToDelete, DeleteMilestone,
         Start, Proceed, Refuse

\* No cascade takes a file or a folder that delete_folder had seen: what goes
\* with the folder came after the two queries that found it empty, or lies below
\* such a latecomer (folder.py:198-223).
THEOREM NothingElseIsEverLost == Spec => NothingElseIsLost
<1> DEFINE Lost == \A x \in (FoldersNow \cup FilesNow) \ (FoldersNow' \cup FilesNow') :
             \E r \in Requests :
               \/ At(r, "delete_file") /\ req[r].file = x
               \/ /\ AtStep(r, "delete_folder", "delete")
                  /\ \/ req[r].folder = x
                     \/ x \in late[r]
                     \/ \E f \in late[r] \cap FoldersNow :
                          x \in Subtree(f) \/ \E d \in Subtree(f) : x \in FilesIn(d)
<1>1. ASSUME IInv, Next
      PROVE  Lost
  <2> SUFFICES ASSUME NEW x \in (FoldersNow \cup FilesNow) \ (FoldersNow' \cup FilesNow')
               PROVE  \E r \in Requests :
                        \/ At(r, "delete_file") /\ req[r].file = x
                        \/ /\ AtStep(r, "delete_folder", "delete")
                           /\ \/ req[r].folder = x
                              \/ x \in late[r]
                              \/ \E f \in late[r] \cap FoldersNow :
                                   x \in Subtree(f) \/ \E d \in Subtree(f) : x \in FilesIn(d)
    OBVIOUS
  <2>1. PICK r \in Requests : Step(r)
    BY <1>1 DEF Next
  <2>2. CASE DeleteFolder(r)
    BY <1>1, <2>2, DeleteFolderTakes DEF DeleteFolder
  <2>3. CASE DeleteFile(r)
    BY <1>1, <2>3 DEF DeleteFile, FoldersNow, FilesNow, IInv, TypeOK
  <2>4. CASE ~DeleteFolder(r) /\ ~DeleteFile(r)
    BY <1>1, <2>1, <2>4, OthersTakeNothing
  <2> QED
    BY <2>2, <2>3, <2>4
<1>2. IInv /\ [Next]_vars => [Lost]_vars
  BY <1>1
<1> HIDE DEF Lost
<1>3. Spec => [][Lost]_vars
  BY <1>2, TreeInvariantHolds, PTL DEF Spec
<1> QED
  BY <1>3 DEF NothingElseIsLost, Lost

\* A renaming that loaded the course while it was active does not write that
\* back: the flush writes what was assigned, and a status that was not mentioned,
\* or is what was loaded, is not (courses.py:125-144).
THEOREM ArchivedStaysArchivedAlways == Spec => ArchivedStaysArchived
<1> DEFINE Stays == \A c \in CoursesNow :
             course[c].status = "archived" /\ course'[c].status = "active" =>
               \E r \in Requests :
                 At(r, "update_course") /\ req[r].course = c /\ req[r].change.status = "active"
<1>1. ASSUME IInv, Next
      PROVE  Stays
  <2> SUFFICES ASSUME NEW c \in CoursesNow,
                      course[c].status = "archived", course'[c].status = "active"
               PROVE  \E r \in Requests :
                        /\ At(r, "update_course") /\ req[r].course = c
                        /\ req[r].change.status = "active"
    OBVIOUS
  <2>1. PICK r \in Requests : Step(r)
    BY <1>1 DEF Next
  <2>2. course' # course
    OBVIOUS
  <2>3. CASE CreateCourse(r)
    BY <1>1, <2>3 DEF CreateCourse, IInv, TypeOK, CoursesNow
  <2>4. CASE CommitCourse(r)
    <3> DEFINE d == req[r].course
               new == Written(course[d], req[r].was, req[r].change)
    <3>1. d \in Courses /\ At(r, "update_course")
      BY <1>1, <2>4, HandlerFields DEF CommitCourse, At, IInv, TypeOK
    <3>2. course' = [course EXCEPT ![d] = new]
      BY <2>2, <2>4 DEF CommitCourse
    <3>3. c = d /\ course'[c] = new
      BY <1>1, <3>1, <3>2 DEF IInv, TypeOK, CoursesNow
    <3>4. req[r].change.status = "active"
      BY <3>3 DEF Written, Column
    <3> QED
      BY <3>1, <3>3, <3>4
  <2> QED
    BY <2>1, <2>2, <2>3, <2>4
       DEF Step, LoadCourse, CheckParent, InsertFolder, InsertFolderFails, FindFolder,
           LookForFolders, LookForFiles, DeleteFolder, FindUploadFolder, InsertFile,
           InsertFileFails, FindFileToMove, FindDestination, UpdateFile, UpdateFileFails,
           FindFileToDelete, DeleteFile, CheckNewMilestone, InsertMilestone, FindMilestone,
           CheckAttachments, UpdateMilestone, FindMilestoneToDelete, DeleteMilestone,
           Start, Proceed, Refuse
<1>2. IInv /\ [Next]_vars => [Stays]_vars
  BY <1>1
<1> HIDE DEF Stays
<1>3. Spec => [][Stays]_vars
  BY <1>2, TreeInvariantHolds, PTL DEF Spec
<1> QED
  BY <1>3 DEF ArchivedStaysArchived, Stays
=============================================================================
