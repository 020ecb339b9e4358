------------------------------ MODULE Explorer ------------------------------
(***************************************************************************)
(* The explorer pane: the lists of files and folders of each course as the *)
(* query cache holds them, the dialogs that change the server, "Start      *)
(* indexing", and the polling that follows a file through its indexing.    *)
(*                                                                         *)
(* A dialog is modal and does not close while it is submitting.  But all   *)
(* dialogs except that of a new top folder are drawn by the row they are   *)
(* about: a list that cannot be fetched again, or that brings the row      *)
(* elsewhere, takes the dialog away, and its request goes on with nobody   *)
(* waiting for it, like the requests to start indexing, which outlive a    *)
(* switch of course.                                                       *)
(***************************************************************************)
EXTENDS Naturals, FiniteSets, SequencesExt, QueryCache

CONSTANTS
  Courses, Files, Folders, Names,
  CourseOf,      \* the course of each folder id
  FirstFiles,    \* the rows there are at first
  FirstFolders,  \* the folders there are at first: their names and parents
  FirstCourse, None,
  MaxWrites, MaxSwitches, MaxFaults  \* bounds: submissions, turns to a list, faults

Status == {"uploaded", "processing", "ready", "failed"}
FileRow == [name : Names, folder : Folders, status : Status]
FolderRow == [name : Names, parent : Folders \cup {None}]
Op == {"rename_file", "move", "delete_file", "ingest", "create_folder", "rename_folder",
       "delete_folder"}
Target == Files \cup Folders \cup {None}
Value == Names \cup Folders \cup FolderRow \cup {None}
Dialog ==
  [op : Op, id : Target, to : Value, stage : {"asked", "done", "refused", "refetching", "error"}]
Request ==
  [nr : Nat, op : Op, id : Target, to : Value, course : Courses, stage : {"asked", "done"}]

ASSUME ExplorerAssumption ==
  /\ CourseOf \in [Folders -> Courses] /\ FirstCourse \in Courses
  /\ {MaxWrites, MaxSwitches, MaxFaults} \subseteq Nat
\* There are rows at first, and the first folders are at the top.
ASSUME FirstRowsAssumption ==
  /\ \E F \in SUBSET Files : FirstFiles \in [F -> FileRow]
  /\ \E G \in SUBSET Folders : FirstFolders \in [G -> [name : Names, parent : {None}]]
\* "None" is no name, no id, no row and no dialog.
ASSUME NoneAssumption == None \notin Names \cup Folders \cup FileRow \cup FolderRow \cup Dialog
ASSUME NamesAssumption == IsFiniteSet(Names)

VARIABLES
  \* The server.
  file,     \* its rows: name, folder and status
  folder,   \* its folders: parents, and names, which need not differ
  queued,   \* how many indexing tasks of a file are to begin
  running,  \* how many have begun
  \* The pane.
  course,   \* activeCourseId
  filesQ,   \* ["courses", c, "files"]
  foldersQ, \* ["courses", c, "folders"]
  broken,   \* isError: the lists whose last fetch failed
  dialog,   \* the dialog that is submitting or shows an error
  loose,    \* requests that nobody waits for
  \* Bookkeeping.
  untold,   \* lists the server changed without anybody being told
  writes, switches, faults

server == <<file, folder, queued, running>>
lists == <<filesQ, foldersQ>>
bounds == <<writes, switches, faults>>
vars == <<server, course, lists, broken, dialog, loose, untold, bounds>>

NoFiles == [f \in Files |-> None]
NoFolders == [g \in Folders |-> None]

FilesOf(c) == [f \in Files |->
  IF file[f] # None /\ CourseOf[file[f].folder] = c THEN file[f] ELSE None]
FoldersOf(c) == [g \in Folders |-> IF CourseOf[g] = c THEN folder[g] ELSE None]

----------------------------------------------------------------------------
(* What the pane shows                                                     *)

ListedFiles == {f \in Files : filesQ[course].data[f] # None}
ListedFolders == {g \in Folders : foldersQ[course].data[g] # None}
Loaded == filesQ[course].loaded /\ foldersQ[course].loaded
Ready == Loaded /\ {<<"files", course>>, <<"folders", course>>} \cap broken = {}

\* hasPendingFile of refetchInterval (and the bug of polling only until the
\* task has begun).
IsWaiting(rows) == \E f \in Files : rows[f] # None /\ rows[f].status = "uploaded"
Pending == {"uploaded", "processing"}
IsPending(rows) == \E f \in Files : rows[f] # None /\ rows[f].status \in Pending

\* Folders are addressed by name: apiFolders.find takes the first one.
NameOf(g) == foldersQ[course].data[g].name
Named(n) == {g \in ListedFolders : NameOf(g) = n}
FirstNamed(n) == CHOOSE g \in Named(n) : TRUE

\* The tree is drawn by name too: the categories, the one each is inside of
\* (folderParents), and the one a file is in, if its folder is listed.
Categories == {NameOf(g) : g \in ListedFolders}
ParentOf(n) ==
  LET up == foldersQ[course].data[FirstNamed(n)].parent
  IN  IF up \in ListedFolders THEN NameOf(up) ELSE None
Category(f) ==
  LET g == filesQ[course].data[f].folder IN IF g \in ListedFolders THEN NameOf(g) ELSE None

\* filteredFiles and visibleCategories of a search that fits the names in q;
\* without one every name fits.
Hits(q) == {f \in ListedFiles : {filesQ[course].data[f].name, Category(f)} \cap q # {}}
Visible(q) == Categories \cap (q \cup {Category(f) : f \in Hits(q)})

\* rootCategories: those whose parent is not on the screen (and the bug of
\* taking those without a parent), and what renderFolder draws below them, but
\* for what is inside of a folder that is collapsed, also during a search.
RootsOnly(q) == {n \in Visible(q) : ParentOf(n) = None}
Roots(q) == {n \in Visible(q) : ParentOf(n) \notin Visible(q)}
Children(n, q) == {m \in Visible(q) : ParentOf(m) = n}
Below(top, q, collapsed) ==
  LET below[i \in 0 .. Cardinality(Names)] ==
        IF i = 0 THEN top
        ELSE LET above == below[i - 1]
             IN  above \cup UNION {Children(n, q) : n \in above \ collapsed}
  IN  below[Cardinality(Names)]
Drawn(q, collapsed) == Below(Roots(q), q, collapsed)

\* A folder is deleted when no listed file is in a folder of its name, and the
\* search shows none inside it.
IsBlocked(n, q) == (\E f \in ListedFiles : Category(f) = n) \/ Children(n, q) # {}

----------------------------------------------------------------------------
(* Invalidation                                                            *)

\* useExplorerMutations: the list of files, or of folders, of course c is
\* marked, and fetched again if it is in view (and the bug of marking the
\* files whatever was changed).
FilesOfCourse(kind, c) ==
  /\ filesQ' = [filesQ EXCEPT ![c] = Invalidate(@, c = course, NoFiles)]
  /\ UNCHANGED foldersQ
ListOfCourse(kind, c) ==
  IF kind = "files"
  THEN /\ filesQ' = [filesQ EXCEPT ![c] = Invalidate(@, c = course, NoFiles)]
       /\ UNCHANGED foldersQ
  ELSE /\ foldersQ' = [foldersQ EXCEPT ![c] = Invalidate(@, c = course, NoFolders)]
       /\ UNCHANGED filesQ

Fault == faults < MaxFaults /\ faults' = faults + 1

----------------------------------------------------------------------------
(* Dialogs                                                                 *)

FolderOps == {"create_folder", "rename_folder", "delete_folder"}
KindOf(op) == IF op \in FolderOps THEN "folders" ELSE "files"

\* handleSubmit of a dialog and the handler of the dashboard behind it: the
\* request names the ids the lists gave for what the dialog shows.
Submit(op, id, to) ==
  /\ dialog = None /\ Ready /\ writes < MaxWrites
  /\ writes' = writes + 1
  /\ dialog' = [op |-> op, id |-> id, to |-> to, stage |-> "asked"]
  /\ UNCHANGED <<server, course, lists, broken, loose, untold, switches, faults>>

RenameFile(f, n) ==
  f \in ListedFiles /\ filesQ[course].data[f].name # n /\ Submit("rename_file", f, n)
MoveFile(f, n) ==
  /\ f \in ListedFiles /\ Named(n) # {}
  /\ filesQ[course].data[f].folder \notin Named(n)
  /\ Submit("move", f, FirstNamed(n))
DeleteFile(f) == f \in ListedFiles /\ Submit("delete_file", f, None)
RetryIndexing(f) ==
  f \in ListedFiles /\ filesQ[course].data[f].status = "failed" /\ Submit("ingest", f, None)
Create(n, parent) == Submit("create_folder", None, [name |-> n, parent |-> parent])
CreateFolder(n) == Create(n, None)
CreateSubfolder(n, m) == Named(n) # {} /\ Create(m, FirstNamed(n))
RenameFolder(n, m) == Named(n) # {} /\ m # n /\ Submit("rename_folder", FirstNamed(n), m)
DeleteFolder(n) ==
  /\ Named(n) # {} /\ Submit("delete_folder", FirstNamed(n), None)
  /\ \E q \in SUBSET Names : n \in Drawn(q, {}) /\ ~IsBlocked(n, q)

\* What the server makes of a request; what it refuses changes nothing.  It draws
\* the id of a folder, while there are any left.
IsEmpty(g) ==
  /\ \A f \in Files : file[f] # None => file[f].folder # g
  /\ \A h \in Folders : folder[h] # None => folder[h].parent # g
Exists(g) == g \in {None} \cup {h \in Folders : folder[h] # None}

ServerDoes(op, id, to, c) ==
  \/ /\ op = "rename_file" /\ file[id] # None
     /\ file' = [file EXCEPT ![id].name = to] /\ UNCHANGED <<folder, queued, running>>
  \/ /\ op = "move" /\ file[id] # None /\ folder[to] # None
     /\ file' = [file EXCEPT ![id].folder = to] /\ UNCHANGED <<folder, queued, running>>
  \/ /\ op = "delete_file" /\ file[id] # None
     /\ file' = [file EXCEPT ![id] = None] /\ UNCHANGED folder
     /\ queued' = [queued EXCEPT ![id] = 0] /\ running' = [running EXCEPT ![id] = 0]
  \/ /\ op = "ingest" /\ file[id] # None
     /\ queued' = [queued EXCEPT ![id] = @ + 1] /\ UNCHANGED <<file, folder, running>>
  \/ /\ op = "create_folder" /\ Exists(to.parent)
     /\ \E g \in Folders : /\ CourseOf[g] = c /\ folder[g] = None
                         /\ folder' = [folder EXCEPT ![g] = to]
     /\ UNCHANGED <<file, queued, running>>
  \/ /\ op = "rename_folder" /\ folder[id] # None
     /\ folder' = [folder EXCEPT ![id].name = to] /\ UNCHANGED <<file, queued, running>>
  \/ /\ op = "delete_folder" /\ folder[id] # None /\ IsEmpty(id)
     /\ folder' = [folder EXCEPT ![id] = None] /\ UNCHANGED <<file, queued, running>>

Refuses(op, id, to) ==
  \/ op \in {"rename_file", "move", "delete_file", "ingest"} /\ file[id] = None
  \/ op = "move" /\ folder[to] = None
  \/ op = "create_folder" /\ ~Exists(to.parent)
  \/ op \in {"rename_folder", "delete_folder"} /\ folder[id] = None
  \/ op = "delete_folder" /\ ~IsEmpty(id)

ServerAnswers ==
  /\ dialog # None /\ dialog.stage = "asked"
  /\ \/ /\ ServerDoes(dialog.op, dialog.id, dialog.to, course)
        /\ dialog' = [dialog EXCEPT !.stage = "done"]
     \/ /\ Refuses(dialog.op, dialog.id, dialog.to)
        /\ dialog' = [dialog EXCEPT !.stage = "refused"]
        /\ UNCHANGED server
  /\ UNCHANGED <<course, lists, broken, loose, untold, bounds>>

\* onSuccess invalidates and waits for the fetch; the dialog closes after it.
Succeeds ==
  /\ dialog # None /\ dialog.stage = "done"
  /\ ListOfCourse(KindOf(dialog.op), course)
  /\ dialog' = [dialog EXCEPT !.stage = "refetching"]
  /\ UNCHANGED <<server, course, broken, loose, untold, bounds>>

CloseAfterwards ==
  /\ dialog # None /\ dialog.stage = "refetching"
  /\ IF KindOf(dialog.op) = "files" THEN filesQ[course].wire = "idle"
     ELSE foldersQ[course].wire = "idle"
  /\ dialog' = None
  /\ UNCHANGED <<server, course, lists, broken, loose, untold, bounds>>

\* The request was refused, or its answer is lost: the dialog says it could
\* not be done, and no list is invalidated.
FailsInDialog ==
  /\ dialog # None
  /\ \/ dialog.stage = "refused" /\ UNCHANGED <<untold, faults>>
     \/ /\ dialog.stage \in {"asked", "done"} /\ Fault
        /\ untold' = IF dialog.stage = "asked" THEN untold
                     ELSE untold \cup {<<KindOf(dialog.op), course>>}
  /\ dialog' = [dialog EXCEPT !.stage = "error"]
  /\ UNCHANGED <<server, course, lists, broken, loose, writes, switches>>

SubmitAgain ==
  /\ dialog # None /\ dialog.stage = "error" /\ writes < MaxWrites
  /\ writes' = writes + 1
  /\ dialog' = [dialog EXCEPT !.stage = "asked"]
  /\ UNCHANGED <<server, course, lists, broken, loose, untold, switches, faults>>

CloseDialog ==
  /\ dialog # None /\ dialog.stage = "error"
  /\ dialog' = None
  /\ UNCHANGED <<server, course, lists, broken, loose, untold, bounds>>

----------------------------------------------------------------------------
(* Requests that nobody waits for                                          *)

\* "Start indexing" of a file that was only stored.
StartIndexing(f) ==
  /\ dialog = None /\ Ready /\ writes < MaxWrites
  /\ f \in ListedFiles /\ filesQ[course].data[f].status = "uploaded"
  /\ writes' = writes + 1
  /\ loose' = loose \cup {[nr |-> writes', op |-> "ingest", id |-> f, to |-> None,
                          course |-> course, stage |-> "asked"]}
  /\ UNCHANGED <<server, course, lists, broken, dialog, untold, switches, faults>>

\* The row of the dialog is drawn no longer: what it asked for goes on.
InRow == dialog # None /\ (dialog.op = "create_folder" => dialog.to.parent # None)
Unmount ==
  /\ dialog' = None
  /\ loose' = IF dialog.stage \in {"asked", "done"}
              THEN loose \cup {[nr |-> writes, op |-> dialog.op, id |-> dialog.id, to |-> dialog.to,
                               course |-> course, stage |-> dialog.stage]}
              ELSE loose

LooseStored(r) ==
  /\ r.stage = "asked" /\ ServerDoes(r.op, r.id, r.to, r.course)
  /\ loose' = (loose \ {r}) \cup {[r EXCEPT !.stage = "done"]}
  /\ UNCHANGED <<course, lists, broken, dialog, untold, bounds>>

\* onSuccess runs with the course its observer was rendered with last: that in
\* view now, or when the observer was given another request.  A course that is
\* not the request's is told of a change it has nothing of.
IsTold(kind, c) == ~IsLostOn(IF kind = "files" THEN filesQ[c] ELSE foldersQ[c], c = course)

LooseAnswered(r) ==
  /\ r.stage = "done"
  /\ loose' = loose \ {r}
  /\ \E c \in Courses :
       /\ ListOfCourse(KindOf(r.op), c)
       /\ untold' = IF r.op = "ingest" \/ (c = r.course /\ IsTold(KindOf(r.op), c)) THEN untold
                    ELSE untold \cup {<<KindOf(r.op), r.course>>}
  /\ UNCHANGED <<server, course, broken, dialog, bounds>>

LooseFails(r) ==
  /\ \/ /\ r.stage = "asked" /\ Refuses(r.op, r.id, r.to)
        /\ UNCHANGED <<untold, faults>>
     \/ /\ Fault
        /\ untold' = IF r.stage = "asked" \/ r.op = "ingest" THEN untold
                     ELSE untold \cup {<<KindOf(r.op), r.course>>}
  /\ loose' = loose \ {r}
  /\ UNCHANGED <<server, course, lists, broken, dialog, writes, switches>>

----------------------------------------------------------------------------
(* Indexing: the server's tasks, any number of them for one file           *)

\* The list of a file that had been indexed, or had failed, may have been
\* fetched before a task touches it: no poll is due then.
Reports(f, s) ==
  /\ file' = [file EXCEPT ![f].status = s]
  /\ untold' = IF file[f].status \in Pending \cup {s} THEN untold
               ELSE untold \cup {<<"files", CourseOf[file[f].folder]>>}

TaskBegins(f) ==
  /\ queued[f] > 0
  /\ queued' = [queued EXCEPT ![f] = @ - 1]
  /\ running' = [running EXCEPT ![f] = @ + 1]
  /\ Reports(f, "processing")
  /\ UNCHANGED <<folder, course, lists, broken, dialog, loose, bounds>>

TaskEnds(f) ==
  /\ running[f] > 0
  /\ running' = [running EXCEPT ![f] = @ - 1]
  /\ \E s \in {"ready", "failed"} : Reports(f, s)
  /\ UNCHANGED <<folder, queued, course, lists, broken, dialog, loose, bounds>>

\* What a task does outside of its try fails: the status stays as it is.
TaskIsLost(f) ==
  /\ \/ /\ queued[f] > 0 /\ queued' = [queued EXCEPT ![f] = @ - 1] /\ UNCHANGED running
     \/ /\ running[f] > 0 /\ running' = [running EXCEPT ![f] = @ - 1] /\ UNCHANGED queued
  /\ UNCHANGED <<file, folder, course, lists, broken, dialog, loose, untold, bounds>>

\* The API restarts: its tasks are gone, and recover_interrupted_ingestion fails
\* the files that were being indexed.
Restart ==
  /\ Fault
  /\ queued' = [f \in Files |-> 0] /\ running' = [f \in Files |-> 0]
  /\ file' = [f \in Files |->
       IF file[f] # None /\ file[f].status = "processing"
       THEN [file[f] EXCEPT !.status = "failed"] ELSE file[f]]
  /\ UNCHANGED <<folder, course, lists, broken, dialog, loose, untold, writes, switches>>

----------------------------------------------------------------------------
(* The lists                                                               *)

SwitchCourse(c) ==
  /\ dialog = None /\ c # course /\ switches < MaxSwitches
  /\ switches' = switches + 1
  /\ course' = c
  /\ filesQ' = [filesQ EXCEPT ![c] = InView(@)]
  /\ foldersQ' = [foldersQ EXCEPT ![c] = InView(@)]
  /\ UNCHANGED <<server, broken, dialog, loose, untold, writes, faults>>

\* refetchInterval.
Poll ==
  /\ filesQ[course].loaded /\ filesQ[course].wire = "idle" /\ IsPending(filesQ[course].data)
  /\ filesQ' = [filesQ EXCEPT ![course].wire = "asked"]
  /\ UNCHANGED <<server, course, foldersQ, broken, dialog, loose, untold, bounds>>

ServerLists(c) ==
  /\ \/ /\ filesQ[c].wire = "asked"
        /\ filesQ' = [filesQ EXCEPT ![c] = Read(@, FilesOf(c))]
        /\ untold' = untold \ {<<"files", c>>}
        /\ UNCHANGED foldersQ
     \/ /\ foldersQ[c].wire = "asked"
        /\ foldersQ' = [foldersQ EXCEPT ![c] = Read(@, FoldersOf(c))]
        /\ untold' = untold \ {<<"folders", c>>}
        /\ UNCHANGED filesQ
  /\ UNCHANGED <<server, course, broken, dialog, loose, bounds>>

\* A row that is drawn elsewhere now, or not at all, takes its dialog along.
ListArrives(c) ==
  /\ \/ /\ filesQ[c].wire = "read"
        /\ filesQ' = [filesQ EXCEPT ![c] = Deliver(@, NoFiles)] /\ UNCHANGED foldersQ
        /\ broken' = broken \ {<<"files", c>>}
     \/ /\ foldersQ[c].wire = "read"
        /\ foldersQ' = [foldersQ EXCEPT ![c] = Deliver(@, NoFolders)] /\ UNCHANGED filesQ
        /\ broken' = broken \ {<<"folders", c>>}
  /\ \/ UNCHANGED <<dialog, loose>>
     \/ /\ c = course /\ InRow /\ Unmount
        /\ filesQ'[c].data # filesQ[c].data \/ foldersQ'[c].data # foldersQ[c].data
  /\ UNCHANGED <<server, course, untold, bounds>>

\* A fetch and its retry fail: the explorer of that course shows its error state.
\* What the lost answer would have told has not been told.
FetchFails(c) ==
  /\ Fault
  /\ \/ /\ filesQ[c].wire # "idle"
        /\ filesQ' = [filesQ EXCEPT ![c] = Cancel(@, NoFiles)] /\ UNCHANGED foldersQ
        /\ broken' = broken \cup {<<"files", c>>}
        /\ untold' = untold \cup {u \in {<<"files", c>>} : filesQ[c].wire = "read"}
     \/ /\ foldersQ[c].wire # "idle"
        /\ foldersQ' = [foldersQ EXCEPT ![c] = Cancel(@, NoFolders)] /\ UNCHANGED filesQ
        /\ broken' = broken \cup {<<"folders", c>>}
        /\ untold' = untold \cup {u \in {<<"folders", c>>} : foldersQ[c].wire = "read"}
  /\ IF c = course /\ InRow THEN Unmount ELSE UNCHANGED <<dialog, loose>>
  /\ UNCHANGED <<server, course, writes, switches>>

\* staleTime passes.
Stale(c) ==
  /\ Fault
  /\ \/ ~filesQ[c].old /\ filesQ' = [filesQ EXCEPT ![c].old = TRUE] /\ UNCHANGED foldersQ
     \/ ~foldersQ[c].old /\ foldersQ' = [foldersQ EXCEPT ![c].old = TRUE] /\ UNCHANGED filesQ
  /\ UNCHANGED <<server, course, broken, dialog, loose, untold, writes, switches>>

\* "Try again" of the error state, which is not there during a first fetch.
RetryLoad ==
  /\ ~Ready /\ switches < MaxSwitches
  /\ switches' = switches + 1
  /\ filesQ[course].loaded \/ filesQ[course].wire = "idle"
  /\ foldersQ[course].loaded \/ foldersQ[course].wire = "idle"
  /\ filesQ' = [filesQ EXCEPT ![course] = Refetch(@, NoFiles)]
  /\ foldersQ' = [foldersQ EXCEPT ![course] = Refetch(@, NoFolders)]
  /\ untold' = untold \cup {u \in {<<"files", course>>} : filesQ[course].wire = "read"}
                     \cup {u \in {<<"folders", course>>} : foldersQ[course].wire = "read"}
  /\ UNCHANGED <<server, course, broken, dialog, loose, writes, faults>>

----------------------------------------------------------------------------

Init ==
  /\ file = [f \in Files |-> IF f \in DOMAIN FirstFiles THEN FirstFiles[f] ELSE None]
  /\ folder = [g \in Folders |-> IF g \in DOMAIN FirstFolders THEN FirstFolders[g] ELSE None]
  /\ queued = [f \in Files |-> 0] /\ running = [f \in Files |-> 0]
  /\ course = FirstCourse
  /\ filesQ = [c \in Courses |->
       IF c = course THEN InView(NoEntry(NoFiles)) ELSE NoEntry(NoFiles)]
  /\ foldersQ = [c \in Courses |->
       IF c = course THEN InView(NoEntry(NoFolders)) ELSE NoEntry(NoFolders)]
  /\ broken = {} /\ dialog = None /\ loose = {} /\ untold = {}
  /\ writes = 0 /\ switches = 0 /\ faults = 0

UserNext ==
  \/ \E f \in Files :
       \/ DeleteFile(f) \/ RetryIndexing(f) \/ StartIndexing(f)
       \/ \E n \in Names : RenameFile(f, n) \/ MoveFile(f, n)
  \/ \E n \in Names : CreateFolder(n) \/ DeleteFolder(n)
  \/ \E n, m \in Names : RenameFolder(n, m) \/ CreateSubfolder(n, m)
  \/ SubmitAgain \/ CloseDialog \/ RetryLoad
  \/ \E c \in Courses : SwitchCourse(c)

TaskStep(f) == TaskBegins(f) \/ TaskEnds(f) \/ TaskIsLost(f)

SystemNext ==
  \/ ServerAnswers \/ Succeeds \/ CloseAfterwards \/ FailsInDialog
  \/ \E r \in loose : LooseStored(r) \/ LooseAnswered(r) \/ LooseFails(r)
  \/ \E f \in Files : TaskStep(f)
  \/ \E c \in Courses : ServerLists(c) \/ ListArrives(c) \/ FetchFails(c) \/ Stale(c)
  \/ Poll \/ Restart

Next == UserNext \/ SystemNext

\* Requests are answered, the interval fires, and indexing tasks end, somehow.
Fairness ==
  /\ WF_vars(Poll)
  /\ \A c \in Courses : WF_vars(ServerLists(c)) /\ WF_vars(ListArrives(c))
  /\ \A f \in Files : WF_vars(TaskStep(f))

Spec == Init /\ [][Next]_vars /\ Fairness

----------------------------------------------------------------------------
(* Properties                                                              *)

\* A change of the lists of a kind whose answer is not in yet; indexing changes
\* none before its task begins.
Waits(r, kind) == r.stage = "done" /\ r.op # "ingest" /\ KindOf(r.op) = kind
Answered(kind, c) ==
  /\ ~(dialog # None /\ c = course /\ Waits(dialog, kind))
  /\ \A r \in loose : ~(r.course = c /\ Waits(r, kind))

\* A list that is neither old nor being fetched is what the server has, in every
\* course -- while the answer to a change is not in yet, a file of the list waits
\* for its indexing, or a change was never told (its answer was lost, or came when
\* another course was in view or an older list on its way), it need not be
\* (useExplorerMutations.ts:9-106, useExplorerData.ts:22-40).
CalmListsAreTheServer ==
  \A c \in Courses :
    /\ Settled(filesQ[c]) /\ ~IsPending(filesQ[c].data) /\ <<"files", c>> \notin untold
         /\ Answered("files", c) => filesQ[c].data = FilesOf(c)
    /\ Settled(foldersQ[c]) /\ <<"folders", c>> \notin untold
         /\ Answered("folders", c) => foldersQ[c].data = FoldersOf(c)

\* A file shown as being indexed does not stay so: the list follows its tasks to
\* the last, as long as its course is in view (useExplorerData.ts:32-39) -- unless
\* they ended without a word (files.py:306-317), when only a restart can tell.
ShownIndexing(f) ==
  LET row == filesQ[course].data[f] IN row # None /\ row.status = "processing"
Abandoned(f) ==
  file[f] # None /\ file[f].status = "processing" /\ queued[f] = 0 /\ running[f] = 0

BadgeFollowsTheTask ==
  \A f \in Files : ShownIndexing(f) ~> ~ShownIndexing(f) \/ Abandoned(f)

\* Whatever is searched for and whatever is collapsed, the folders and files the
\* search fits are on the screen, also when the folder they are inside of does
\* not fit, unless they are inside of a folder on the screen that is collapsed --
\* as long as no two folders of the course have one name, and the file's folder
\* is listed; if not its category is "Unknown folder" (FileExplorer.tsx:78-201,
\* FolderItem.tsx:141, dashboard.tsx:210-223, explorerData.ts:41).
Hidden(q, collapsed) == Below(Drawn(q, collapsed) \cap collapsed, q, {})

WhatFitsIsShown ==
  Ready /\ (\A g, h \in ListedFolders : NameOf(g) = NameOf(h) => g = h) =>
    \A q, collapsed \in SUBSET Names :
      LET there == Drawn(q, collapsed) \cup Hidden(q, collapsed)
      IN  /\ Categories \cap q \subseteq there
          /\ \A f \in Hits(q) : Category(f) # None => Category(f) \in there
=============================================================================
