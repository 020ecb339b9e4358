------------------------------ MODULE Workspace ------------------------------
(***************************************************************************)
(* The desk: the tabs and the active document of every course, the viewers *)
(* the dashboard keeps mounted, the bytes the viewer in front shows, and   *)
(* the copy in localStorage a reload starts from, while the lists of files *)
(* arrive, files are deleted and replaced, and courses are switched.       *)
(*                                                                         *)
(* React renders after every change and runs the effects before the next   *)
(* event: each action ends in Render, and the user acts once the effect    *)
(* that closes the tabs of missing files has nothing to do.                *)
(***************************************************************************)
EXTENDS Naturals, FiniteSets, SequencesExt

CONSTANTS
  Courses, Files, CourseOf,
  Pdf,          \* the files DocumentViewer fetches itself (previewState "ready")
  Cited,        \* the files the conversation of their course cites
  MaxViewers,   \* maxCapacity of useLruList
  FirstCourse,  \* courses[0]
  None,         \* null
  MaxReloads, MaxReplacements, MaxBurst

ASSUME WorkspaceAssumption ==
  /\ CourseOf \in [Files -> Courses] /\ Pdf \subseteq Files /\ Cited \subseteq Files
  /\ FirstCourse \in Courses /\ None \notin Courses \cup Files
  /\ MaxViewers \in Nat \ {0}
  /\ {MaxReloads, MaxReplacements, MaxBurst} \subseteq Nat

VARIABLES
  \* The server.
  stored,   \* the files it has
  version,  \* how often the bytes of a file were replaced
  \* The store.
  course,   \* activeCourseId
  tabs,     \* byCourse[c].tabs
  active,   \* byCourse[c].activeFileId
  \* The dashboard.
  listed,   \* the list of files of each course
  ready,    \* explorerStatus: it arrived, and no refetch failed since
  cached,   \* useLruList
  cite,     \* selectedCitation of the chat, its file
  content,  \* useFileContent of the viewer in front
  wanted,   \* the version of its file when it was last loaded
  requests, \* GET /files/{id}/content whose answer will be looked at
  \* localStorage.
  saved, burst,
  reloads

server == <<stored, version>>
store == <<course, tabs, active>>
lists == <<listed, ready>>
viewer == <<cached, content, wanted, requests>>
disk == <<saved, burst, reloads>>
vars == <<server, store, lists, cite, viewer, disk>>

NoContent == [status |-> "idle", file |-> None, bytes |-> 0]
NoDesk == [course |-> None, tabs |-> [c \in Courses |-> <<>>], active |-> [c \in Courses |-> None]]
Desk == [course |-> course, tabs |-> tabs, active |-> active]

----------------------------------------------------------------------------
(* What is derived in a render                                             *)

\* selectTabs; activeFileId with its fallback to the first tab.
TabsOf(desk) == IF desk.course = None THEN <<>> ELSE desk.tabs[desk.course]
ActiveFileOf(desk) ==
  IF desk.course = None THEN None
  ELSE IF desk.active[desk.course] # None THEN desk.active[desk.course]
  ELSE IF TabsOf(desk) # <<>> THEN TabsOf(desk)[1] ELSE None
Tabs == TabsOf(Desk)
ActiveFile == ActiveFileOf(Desk)

Fit(s) == SubSeq(s, 1, IF Len(s) > MaxViewers THEN MaxViewers ELSE Len(s))

\* The elements of a sequence that are in S, in their order.
Only(s, S) ==
  LET kept[i \in 0 .. Len(s)] ==
        IF i = 0 THEN <<>>
        ELSE IF s[i] \in S THEN Append(kept[i - 1], s[i]) ELSE kept[i - 1]
  IN  kept[Len(s)]

\* useLruList: the active document first, as many as fit (and the bug of
\* putting it last).
ActiveLast(f, rest) == Fit(Append(rest, f))
ActiveFirst(f, rest) == Fit(<<f>> \o rest)

Lru(old, was, now, valid) ==
  IF now = was \/ now = None THEN old
  ELSE ActiveFirst(now, Only(old, valid \ {now}))

\* The documents that have a viewer, and the one whose bytes it fetches.
Mounted(lru, desk, files) == ToSet(lru) \cap ToSet(TabsOf(desk)) \cap files
ShownList(desk, lst) == IF desk.course = None THEN {} ELSE lst[desk.course]
InFront(lru, desk, files) ==
  IF ActiveFileOf(desk) \in Mounted(lru, desk, files) \cap Pdf THEN ActiveFileOf(desk) ELSE None

\* useFileContent's cleanup: no answer to a request of before is taken (and the
\* bug of leaving that to the reducer).
KeepRequests(reqs) == reqs
CancelRequests(reqs) == {}

Request(f) == [file |-> f, read |-> FALSE, bytes |-> 0]

\* Its effect: load what came to the front, reset what left it.
Load(f) ==
  /\ content' = [status |-> "loading", file |-> f, bytes |-> 0]
  /\ wanted' = version[f]
  /\ requests' = CancelRequests(requests) \cup {Request(f)}
Reset ==
  /\ content' = NoContent
  /\ wanted' = 0
  /\ requests' = CancelRequests(requests)

\* The render after the store or the lists changed.
Render ==
  LET desk == [course |-> course', tabs |-> tabs', active |-> active']
      now  == ActiveFileOf(desk)
  IN  /\ cached' = Lru(cached, ActiveFile, now, ToSet(TabsOf(desk)))
      /\ LET front == InFront(cached', desk, ShownList(desk, listed'))
             was   == InFront(cached, Desk, ShownList(Desk, listed))
         IN  IF front = was THEN UNCHANGED <<content, wanted, requests>>
             ELSE IF front = None THEN Reset ELSE Load(front)

----------------------------------------------------------------------------
(* The store                                                               *)

\* closeTab: the last tab becomes active when the active one goes (and the
\* bug of leaving it).
ActiveAfterNoCheck(c, f, rest) == active[c]
ActiveAfterClose(c, f, rest) ==
  IF active[c] # f THEN active[c] ELSE IF rest = <<>> THEN None ELSE Last(rest)

\* withTab, openCitation, setActiveFile, closeTab of course c.
OpenTab(c, f) ==
  /\ tabs' = [tabs EXCEPT ![c] = IF Contains(@, f) THEN @ ELSE Append(@, f)]
  /\ active' = [active EXCEPT ![c] = f]
OpenCitation(c, f) == course' = c /\ OpenTab(c, f)
SetActiveFile(c, f) == active' = [active EXCEPT ![c] = f] /\ UNCHANGED tabs
CloseTab(c, f) ==
  LET rest == Only(tabs[c], Files \ {f})
  IN  /\ tabs' = [tabs EXCEPT ![c] = rest]
      /\ active' = [active EXCEPT ![c] = ActiveAfterClose(c, f, rest)]

\* Every change restarts the debounce of the write.  What is written matters
\* while a reload can still come.
Touch ==
  /\ IF reloads < MaxReloads THEN burst < MaxBurst /\ burst' = burst + 1 ELSE UNCHANGED burst
  /\ UNCHANGED <<saved, reloads>>

----------------------------------------------------------------------------
(* Effects of the dashboard                                                *)

\* A tab of the course in view whose file the list does not name.
Missing == {f \in ToSet(Tabs) : ready[course] /\ f \notin listed[course]}
Tidy == course # None /\ Missing = {}

InitializeCourse ==
  /\ course = None
  /\ course' = FirstCourse
  /\ Touch
  /\ UNCHANGED <<server, tabs, active, lists, cite>>
  /\ Render

CloseMissingTabs ==
  /\ course # None
  /\ \E f \in Missing : CloseTab(course, f)
  /\ UNCHANGED <<server, course, lists, cite, disk>>
  /\ Render

----------------------------------------------------------------------------
(* The user                                                                *)

SwitchCourse(c) ==
  /\ Tidy /\ c # course
  /\ course' = c
  /\ Touch
  /\ UNCHANGED <<server, tabs, active, lists, cite>>
  /\ Render

\* handleOpenFile: a row of the explorer, or one of the recent files, which the
\* list that failed to be fetched again still has, while nothing is open.
HandleOpenFile(f) ==
  /\ Tidy /\ f \in listed[course] /\ f # ActiveFile
  /\ OpenTab(course, f)
  /\ Touch
  /\ UNCHANGED <<server, course, lists, cite>>
  /\ Render
OpenFile(f) == course # None /\ ready[course] /\ HandleOpenFile(f)
OpenRecent(f) == Tabs = <<>> /\ HandleOpenFile(f)

SelectTab(f) ==
  /\ Tidy /\ f \in ToSet(Tabs) /\ f # ActiveFile
  /\ SetActiveFile(course, f)
  /\ Touch
  /\ UNCHANGED <<server, course, lists, cite>>
  /\ Render

CloseTabClicked(f) ==
  /\ Tidy /\ f \in ToSet(Tabs)
  /\ CloseTab(course, f)
  /\ Touch
  /\ UNCHANGED <<server, course, lists, cite>>
  /\ Render

\* A citation of an answer in the course's conversation: the drawer takes it
\* and it opens where the user is.
CitationClick(f) ==
  /\ Tidy /\ f \in Cited /\ CourseOf[f] = course
  /\ cite' = f
  /\ OpenCitation(course, f)
  /\ Touch
  /\ UNCHANGED <<server, lists>>
  /\ Render

\* "Open Document" of the drawer, which stays when the course is switched.
OpenFromDrawer ==
  /\ Tidy /\ cite # None /\ cite # ActiveFile
  /\ OpenTab(course, cite)
  /\ Touch
  /\ UNCHANGED <<server, course, lists, cite>>
  /\ Render

CloseDrawer ==
  /\ Tidy /\ cite # None
  /\ cite' = None
  /\ UNCHANGED <<server, store, lists, viewer, disk>>

\* handleDeleteFile, once the server has deleted the file and the lists are
\* marked: the tab of the course in view is closed at once.
DeleteFile(f) ==
  /\ Tidy /\ ready[course] /\ f \in listed[course] \cap stored
  /\ stored' = stored \ {f}
  /\ CloseTab(course, f)
  /\ Touch
  /\ UNCHANGED <<version, course, lists, cite>>
  /\ Render

----------------------------------------------------------------------------
(* Lists, contents, and what others do                                     *)

ListArrives(c) ==
  /\ course = c /\ Missing = {}
  /\ listed' = [listed EXCEPT ![c] = {f \in stored : CourseOf[f] = c}]
  /\ ready' = [ready EXCEPT ![c] = TRUE]
  /\ listed' # listed \/ ready' # ready
  /\ UNCHANGED <<server, store, cite, disk>>
  /\ Render

\* A refetch fails: the explorer shows an error, the rows there were stay.
ListFails(c) ==
  /\ course = c /\ Missing = {} /\ ready[c]
  /\ ready' = [ready EXCEPT ![c] = FALSE]
  /\ UNCHANGED <<server, store, listed, cite, viewer, disk>>

\* Another device replaces the bytes of a file.
Replace(f) ==
  /\ f \in stored \cap Pdf /\ version[f] < MaxReplacements
  /\ version' = [version EXCEPT ![f] = @ + 1]
  /\ UNCHANGED <<stored, store, lists, cite, viewer, disk>>

ServerReads(r) ==
  /\ ~r.read
  /\ requests' = (requests \ {r}) \cup {[r EXCEPT !.read = TRUE, !.bytes = version[r.file]]}
  /\ UNCHANGED <<server, store, lists, cite, cached, content, wanted, disk>>

\* fileContentReducer: only what is waited for is taken.
Awaited(f) == content.status = "loading" /\ content.file = f

ContentArrives(r) ==
  /\ r.read
  /\ requests' = requests \ {r}
  /\ content' = IF Awaited(r.file)
                THEN [status |-> "ready", file |-> r.file, bytes |-> r.bytes]
                ELSE content
  /\ UNCHANGED <<server, store, lists, cite, cached, wanted, disk>>

ContentFails(r) ==
  /\ requests' = requests \ {r}
  /\ content' = IF Awaited(r.file)
                THEN [status |-> "error", file |-> r.file, bytes |-> 0]
                ELSE content
  /\ UNCHANGED <<server, store, lists, cite, cached, wanted, disk>>

\* "Try again" of the viewer.
RetryContent ==
  /\ Tidy /\ content.status = "error"
  /\ Load(content.file)
  /\ UNCHANGED <<server, store, lists, cite, cached, disk>>

\* savePersistedWorkspace, 300 ms after the last change; the mentions and the
\* lists are not part of it.
Save ==
  /\ burst > 0
  /\ saved' = Desk
  /\ burst' = 0
  /\ UNCHANGED <<server, store, lists, cite, viewer, reloads>>

\* The window is closed or reloaded: the store starts from localStorage, and
\* every query from nothing.
Reload ==
  /\ reloads < MaxReloads
  /\ reloads' = reloads + 1
  /\ course' = saved.course /\ tabs' = saved.tabs /\ active' = saved.active
  /\ listed' = [c \in Courses |-> {}]
  /\ ready' = [c \in Courses |-> FALSE]
  /\ cached' = Lru(<<>>, None, ActiveFileOf(saved), ToSet(TabsOf(saved)))
  /\ cite' = None /\ content' = NoContent /\ wanted' = 0 /\ requests' = {}
  /\ burst' = 0
  /\ saved' = IF reloads' = MaxReloads THEN NoDesk ELSE saved
  /\ UNCHANGED server

----------------------------------------------------------------------------

Init ==
  /\ stored = Files
  /\ version = [f \in Files |-> 0]
  /\ course = None
  /\ tabs = NoDesk.tabs /\ active = NoDesk.active
  /\ listed = [c \in Courses |-> {}]
  /\ ready = [c \in Courses |-> FALSE]
  /\ cached = <<>>
  /\ cite = None
  /\ content = NoContent /\ wanted = 0 /\ requests = {}
  /\ saved = NoDesk
  /\ burst = 0 /\ reloads = 0

Next ==
  \/ InitializeCourse \/ CloseMissingTabs
  \/ \E c \in Courses : SwitchCourse(c) \/ ListArrives(c) \/ ListFails(c)
  \/ \E f \in Files :
       OpenFile(f) \/ OpenRecent(f) \/ SelectTab(f) \/ CloseTabClicked(f) \/ CitationClick(f)
         \/ DeleteFile(f) \/ Replace(f)
  \/ OpenFromDrawer \/ CloseDrawer \/ RetryContent
  \/ \E r \in requests : ServerReads(r) \/ ContentArrives(r) \/ ContentFails(r)
  \/ Save \/ Reload

Spec == Init /\ [][Next]_vars

----------------------------------------------------------------------------
(* Properties                                                              *)

\* The desk of every course is in order: no document has two tabs, the active
\* one has a tab, and before the user can act the course in view has no tab of
\* a file its list does not name (workspace.ts:107-130, 198-210,
\* dashboard.tsx:177-189).
DeskIsInOrder ==
  /\ \A c \in Courses : IsInjective(tabs[c]) /\ active[c] \in ToSet(tabs[c]) \cup {None}
  /\ Tidy /\ ready[course] => ToSet(Tabs) \subseteq listed[course]

\* Whatever was opened, closed or evicted before, the active document has a
\* viewer as soon as its list names it (useLruList, dashboard.tsx:32-54,
\* 525-552).
ActiveIsMounted ==
  course # None /\ ActiveFile \in listed[course] =>
    ActiveFile \in Mounted(cached, Desk, listed[course])

\* The bytes on the screen are those of the document in front, and not older
\* than what the server had when it came to the front, whatever requests of
\* earlier visits answer meanwhile (useFileContent.tsx:26-47,
\* lib/fileContent.ts:42-66).
ShownBytesAreFresh ==
  content.status # "idle" =>
    /\ content.file = ActiveFile
    /\ content.status = "ready" => content.bytes >= wanted

\* workspace.ts:92-97 says of openCitation that it switches course, opens and
\* focuses at once, as "Doing it as three separate calls is how tabs end up in
\* the wrong course."  The drawer, still open after a switch of course, opens
\* its document in the course in view (dashboard.tsx:353-360).
TabsStayInTheirCourse == \A c \in Courses : \A f \in ToSet(tabs[c]) : CourseOf[f] = c
=============================================================================
