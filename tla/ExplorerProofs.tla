---------------------------- MODULE ExplorerProofs ----------------------------
(***************************************************************************)
(* What holds of Explorer for every set of courses, files, folders and     *)
(* names: once all is answered the lists are the server's, and the tree    *)
(* shows whatever fits a search.                                           *)
(***************************************************************************)
EXTENDS Explorer, FiniteSetTheorems, WellFoundedInduction, TLAPS

----------------------------------------------------------------------------
(* The inductive invariant                                                 *)

FileList == [Files -> FileRow \cup {None}]
FolderList == [Folders -> FolderRow \cup {None}]

\* Tasks are of files that exist: deleting a file takes them along.
TasksAreOfFiles ==
  /\ queued \in [Files -> Nat] /\ running \in [Files -> Nat]
  /\ \A f \in Files : queued[f] > 0 \/ running[f] > 0 => file[f] # None
TypeOK ==
  /\ file \in FileList /\ folder \in FolderList /\ TasksAreOfFiles
  /\ course \in Courses /\ writes \in Nat
  /\ dialog \in Dialog \cup {None} /\ loose \subseteq Request

\* Folders can be ranked so that each is above the one it is inside of: there
\* is no cycle of folders, on the server or in a list.
IsRank(rank, rows) ==
  \A g, h \in Folders :
    rows[g] # None /\ rows[h] # None /\ rows[g].parent = h => rank[h] < rank[g]
Rooted(rows) == \E rank \in [Folders -> Nat] : IsRank(rank, rows)
TreeIsRooted ==
  /\ Rooted(folder)
  /\ \A g \in Folders : folder[g] # None => Exists(folder[g].parent)

\* A file that course c has listed, or is about to, belongs to it as long as it
\* exists; its folders have no cycle.
BelongsTo(f, c) == file[f] # None => CourseOf[file[f].folder] = c
OwnFiles(c) == {rows \in FileList : \A f \in Files : rows[f] # None => BelongsTo(f, c)}
OwnFolders(c) ==
  {rows \in FolderList : Rooted(rows) /\ \A g \in Folders : rows[g] # None => CourseOf[g] = c}
ListsAreOwn ==
  /\ filesQ = [c \in Courses |-> filesQ[c]] /\ foldersQ = [c \in Courses |-> foldersQ[c]]
  /\ \A c \in Courses :
       filesQ[c] \in Entry(OwnFiles(c)) /\ foldersQ[c] \in Entry(OwnFolders(c))

\* A request is about rows of the course it was submitted in, whoever waits for it.
IsAbout(r, c) ==
  /\ KindOf(r.op) = "files" => r.id \in Files /\ BelongsTo(r.id, c)
  /\ r.op = "move" => r.to \in Folders /\ CourseOf[r.to] = c
  /\ r.op = "create_folder" => r.to \in FolderRow
  /\ r.op \in {"rename_folder", "delete_folder"} => r.id \in Folders /\ CourseOf[r.id] = c
  /\ r.op \in {"rename_file", "rename_folder"} => r.to \in Names
RequestsAreOwn ==
  /\ dialog # None => Loaded /\ IsAbout(dialog, course)
  /\ \A r \in loose : IsAbout(r, r.course)

\* The list of a kind may differ from what course c has: it was not told, or
\* the answer that will tell it is still to come.  A list of files that waits
\* for an indexing task may differ too.
Excused(kind, c) == <<kind, c>> \in untold \/ ~Answered(kind, c)
TrueFiles(c) == {rows \in FileList : rows = FilesOf(c) \/ IsPending(rows) \/ Excused("files", c)}
TrueFolders(c) == {rows \in FolderList : rows = FoldersOf(c) \/ Excused("folders", c)}

\* What is on its way is what the server has, unless it is excused; so is what
\* counts as new, and stays so if the fetch that may run is given up.
Kept(e) == e.loaded /\ ~e.old /\ e.wire # "read"
Good(e, S) == (e.wire = "read" => e.reply \in S) /\ (Kept(e) => e.data \in S)
ListsAreTrue ==
  \A c \in Courses : Good(filesQ[c], TrueFiles(c)) /\ Good(foldersQ[c], TrueFolders(c))

IInv == TypeOK /\ TreeIsRooted /\ ListsAreOwn /\ RequestsAreOwn /\ ListsAreTrue

----------------------------------------------------------------------------
(* Entries of the cache                                                    *)

\* What befalls an entry leaves it one, and what is loaded stays so.
LEMMA EntriesStay ==
  ASSUME NEW D, NEW e \in Entry(D), NEW blank \in D, NEW d \in D, NEW v \in BOOLEAN
  PROVE  /\ \A f \in {InView(e), Invalidate(e, v, blank), Refetch(e, blank), Cancel(e, blank),
                      Read(e, d), [e EXCEPT !.wire = "asked"], [e EXCEPT !.old = TRUE]} :
              f \in Entry(D) /\ (e.loaded => f.loaded)
         /\ Deliver(e, blank) \in Entry(D) /\ Deliver(e, blank).loaded
<1>1. InView(e) \in Entry(D) /\ (e.loaded => InView(e).loaded)
  BY DEF Entry, InView
<1>2. Invalidate(e, v, blank) \in Entry(D) /\ (e.loaded => Invalidate(e, v, blank).loaded)
  BY DEF Entry, Invalidate
<1>3. \A f \in {Refetch(e, blank), Cancel(e, blank), Read(e, d), [e EXCEPT !.wire = "asked"],
                [e EXCEPT !.old = TRUE]} : f \in Entry(D) /\ (e.loaded => f.loaded)
  BY DEF Entry, Refetch, Cancel, Read
<1>4. Deliver(e, blank) \in Entry(D) /\ Deliver(e, blank).loaded
  BY DEF Entry, Deliver
<1> QED
  BY <1>1, <1>2, <1>3, <1>4

\* Nor does it make an entry say what is not so, but for a fetch that is given
\* up after it was answered.
LEMMA GoodStays ==
  ASSUME NEW D, NEW S, NEW e \in Entry(D), Good(e, S), NEW blank, NEW d, NEW v \in BOOLEAN
  PROVE  /\ Good(InView(e), S) /\ Good(Invalidate(e, v, blank), S)
         /\ Good([e EXCEPT !.old = TRUE], S)
         /\ e.wire = "idle" => Good([e EXCEPT !.wire = "asked"], S)
         /\ d \in S => Good(Read(e, d), S)
         /\ e.wire = "read" => Good(Deliver(e, blank), S)
         /\ e.wire # "read" => Good(Cancel(e, blank), S) /\ Good(Refetch(e, blank), S)
<1> USE DEF Entry, Good, Kept
<1>1. Good(InView(e), S)
  BY DEF InView
<1>2. Good(Invalidate(e, v, blank), S)
  BY DEF Invalidate
<1>3. /\ e.wire = "idle" => Good([e EXCEPT !.wire = "asked"], S)
      /\ d \in S => Good(Read(e, d), S)
      /\ e.wire = "read" => Good(Deliver(e, blank), S)
      /\ Good([e EXCEPT !.old = TRUE], S)
  BY DEF Read, Deliver
<1>4. e.wire # "read" => Good(Cancel(e, blank), S) /\ Good(Refetch(e, blank), S)
  BY DEF Refetch, Cancel
<1> QED
  BY <1>1, <1>2, <1>3, <1>4

\* A list that is invalidated claims nothing, unless that is lost on a fetch.
LEMMA InvalidatedClaimsNothing ==
  ASSUME NEW D, NEW S, NEW e \in Entry(D), NEW v \in BOOLEAN, ~IsLostOn(e, v), NEW blank
  PROVE  Good(Invalidate(e, v, blank), S)
BY DEF Entry, Good, Kept, Invalidate, IsLostOn

\* What an entry claims of few lists it claims of more.
LEMMA GoodGrows ==
  ASSUME NEW S, NEW T, S \subseteq T, NEW e, Good(e, S)
  PROVE  Good(e, T)
BY DEF Good

\* An entry of few lists is one of more.
LEMMA EntriesGrow ==
  ASSUME NEW D, NEW E, D \subseteq E, NEW e \in Entry(D)
  PROVE  e \in Entry(E)
BY DEF Entry

\* The blank lists, and those of the server, belong to the course.
LEMMA ServerListsAreOwn ==
  ASSUME TypeOK, TreeIsRooted, NEW c \in Courses
  PROVE  /\ NoFiles \in OwnFiles(c) /\ NoFolders \in OwnFolders(c)
         /\ FilesOf(c) \in OwnFiles(c) /\ FoldersOf(c) \in OwnFolders(c)
         /\ FilesOf(c) \in TrueFiles(c) /\ FoldersOf(c) \in TrueFolders(c)
<1>1. NoFiles \in OwnFiles(c)
  BY DEF NoFiles, OwnFiles, FileList
<1>2. NoFolders \in OwnFolders(c)
  <2>1. [g \in Folders |-> 0] \in [Folders -> Nat]
    OBVIOUS
  <2>2. Rooted(NoFolders)
    BY <2>1 DEF Rooted, IsRank, NoFolders
  <2> QED
    BY <2>2 DEF NoFolders, OwnFolders, FolderList
<1>3. FilesOf(c) \in OwnFiles(c)
  BY DEF FilesOf, OwnFiles, FileList, TypeOK, BelongsTo
<1>4. FoldersOf(c) \in OwnFolders(c)
  <2>1. \A g \in Folders : FoldersOf(c)[g] # None => folder[g] = FoldersOf(c)[g] /\ CourseOf[g] = c
    BY DEF FoldersOf
  <2>2. Rooted(FoldersOf(c))
    <3>1. PICK rank \in [Folders -> Nat] : IsRank(rank, folder)
      BY DEF TreeIsRooted, Rooted
    <3>2. IsRank(rank, FoldersOf(c))
      BY <2>1, <3>1 DEF IsRank
    <3> QED
      BY <3>2 DEF Rooted
  <2>3. FoldersOf(c) \in FolderList
    BY DEF FoldersOf, FolderList, TypeOK
  <2> QED
    BY <2>1, <2>2, <2>3 DEF OwnFolders
<1>5. FilesOf(c) \in TrueFiles(c) /\ FoldersOf(c) \in TrueFolders(c)
  BY <1>3, <1>4 DEF TrueFiles, TrueFolders, OwnFiles, OwnFolders
<1> QED
  BY <1>1, <1>2, <1>3, <1>4, <1>5

\* The lists of the course are entries, own and true.
LEMMA ListsOf ==
  ASSUME IInv, NEW c \in Courses
  PROVE  /\ filesQ[c] \in Entry(OwnFiles(c)) /\ foldersQ[c] \in Entry(OwnFolders(c))
         /\ Good(filesQ[c], TrueFiles(c)) /\ Good(foldersQ[c], TrueFolders(c))
         /\ NoFiles \in OwnFiles(c) /\ NoFolders \in OwnFolders(c)
BY ServerListsAreOwn DEF IInv, ListsAreOwn, ListsAreTrue

----------------------------------------------------------------------------
(* What a step leaves alone                                                *)

\* Every request after the step is one from before it, in the dialog or not.
SameRequest(r, s) == r.op = s.op /\ r.id = s.id /\ r.to = s.to
NoNewRequest ==
  /\ dialog' # None => dialog # None /\ SameRequest(dialog', dialog)
  /\ \A r \in loose' :
       \/ \E s \in loose : SameRequest(r, s) /\ r.course = s.course
       \/ dialog # None /\ SameRequest(r, dialog) /\ r.course = course
ExcusesStay == \A c \in Courses : \A kind \in {"files", "folders"} :
  Excused(kind, c) => Excused(kind, c)'

\* Requests stay about their course while their files do.
LEMMA RequestsStayOwn ==
  ASSUME RequestsAreOwn, loose \subseteq Request, loose' \subseteq Request, course \in Courses,
         NoNewRequest, dialog = None \/ course' = course,
         Loaded => Loaded' \/ dialog = None,
         \A f \in Files, c \in Courses : BelongsTo(f, c) => BelongsTo(f, c)'
  PROVE  RequestsAreOwn'
<1>1. ASSUME NEW r, NEW s, NEW c \in Courses, SameRequest(r, s), IsAbout(s, c)
      PROVE  IsAbout(r, c)'
  BY <1>1 DEF SameRequest, IsAbout
<1>2. (dialog # None => Loaded /\ IsAbout(dialog, course))'
  <2> SUFFICES ASSUME dialog' # None PROVE Loaded' /\ IsAbout(dialog, course)'
    OBVIOUS
  <2>1. dialog # None /\ SameRequest(dialog', dialog) /\ course' = course
    BY DEF NoNewRequest
  <2>2. IsAbout(dialog, course)'
    BY <2>1 DEF RequestsAreOwn, IsAbout, SameRequest
  <2> QED
    BY <2>1, <2>2 DEF RequestsAreOwn
<1>3. ASSUME NEW r \in loose' PROVE IsAbout(r, r.course)'
  <2>1. r.course \in Courses
    BY DEF Request
  <2>2. \/ \E s \in loose : SameRequest(r, s) /\ r.course = s.course
        \/ dialog # None /\ SameRequest(r, dialog) /\ r.course = course
    BY DEF NoNewRequest
  <2> QED
    BY <1>1, <2>1, <2>2 DEF RequestsAreOwn
<1> QED
  BY <1>2, <1>3 DEF RequestsAreOwn

\* The lists stay as they are, and what may be in them grows.
LEMMA ListsKeep ==
  ASSUME IInv, UNCHANGED lists,
         \A c \in Courses : /\ OwnFiles(c) \subseteq OwnFiles(c)'
                            /\ TrueFiles(c) \subseteq TrueFiles(c)'
                            /\ TrueFolders(c) \subseteq TrueFolders(c)'
  PROVE  ListsAreOwn' /\ ListsAreTrue'
<1>0. filesQ' = filesQ /\ foldersQ' = foldersQ
  BY DEF lists
<1>1. ASSUME NEW c \in Courses
      PROVE  /\ filesQ[c] \in Entry(OwnFiles(c)') /\ foldersQ[c] \in Entry(OwnFolders(c)')
             /\ Good(filesQ[c], TrueFiles(c)') /\ Good(foldersQ[c], TrueFolders(c)')
  <2>1. /\ filesQ[c] \in Entry(OwnFiles(c)) /\ foldersQ[c] \in Entry(OwnFolders(c))
        /\ Good(filesQ[c], TrueFiles(c)) /\ Good(foldersQ[c], TrueFolders(c))
    BY DEF IInv, ListsAreOwn, ListsAreTrue
  <2>2. filesQ[c] \in Entry(OwnFiles(c)') /\ Good(filesQ[c], TrueFiles(c)')
    BY <2>1, EntriesGrow, GoodGrows
  <2>3. Good(foldersQ[c], TrueFolders(c)')
    BY <2>1, GoodGrows
  <2>4. foldersQ[c] \in Entry(OwnFolders(c)')
    BY <2>1 DEF OwnFolders
  <2> QED
    BY <2>2, <2>3, <2>4
<1>2. ListsAreTrue'
  BY <1>0, <1>1 DEF ListsAreTrue
<1> QED
  BY <1>0, <1>1, <1>2 DEF IInv, ListsAreOwn

\* What is true stays so while the server and the excuses do.
LEMMA TruthsStay ==
  ASSUME UNCHANGED <<file, folder>>, NEW c \in Courses,
         \A kind \in {"files", "folders"} : Excused(kind, c) => Excused(kind, c)'
  PROVE  TrueFiles(c) \subseteq TrueFiles(c)' /\ TrueFolders(c) \subseteq TrueFolders(c)'
<1>1. FilesOf(c)' = FilesOf(c) /\ FoldersOf(c)' = FoldersOf(c)
  BY DEF FilesOf, FoldersOf
<1> QED
  BY <1>1 DEF TrueFiles, TrueFolders

\* Neither the server's rows nor the lists change, and no excuse is lost: steps
\* of requests.
LEMMA QuietStep ==
  ASSUME IInv, UNCHANGED <<file, folder, course, lists>>, TasksAreOfFiles', writes' \in Nat,
         dialog' \in Dialog \cup {None}, loose' \subseteq Request, RequestsAreOwn', ExcusesStay
  PROVE  IInv'
<1>1. TypeOK' /\ TreeIsRooted'
  BY DEF IInv, TypeOK, TreeIsRooted, Exists
<1>2. \A c \in Courses : /\ OwnFiles(c) \subseteq OwnFiles(c)'
                         /\ TrueFiles(c) \subseteq TrueFiles(c)'
                         /\ TrueFolders(c) \subseteq TrueFolders(c)'
  BY TruthsStay DEF ExcusesStay, OwnFiles, BelongsTo
<1>3. ListsAreOwn' /\ ListsAreTrue'
  BY <1>2, ListsKeep
<1> QED
  BY <1>1, <1>3 DEF IInv

\* The same of requests that were there before.
LEMMA RequestStep ==
  ASSUME IInv, UNCHANGED <<file, folder, course, lists>>, TasksAreOfFiles', writes' \in Nat,
         dialog' \in Dialog \cup {None}, loose' \subseteq Request, NoNewRequest, ExcusesStay
  PROVE  IInv'
<1>1. RequestsAreOwn'
  BY RequestsStayOwn DEF IInv, TypeOK, BelongsTo, Loaded, lists
<1> QED
  BY <1>1, QuietStep

\* The two lists of a course move on, each to one that is own and true; the excuses
\* of the other courses stay.
LEMMA CourseStep ==
  ASSUME IInv, UNCHANGED server, writes' \in Nat,
         course' \in Courses, dialog = None \/ course' = course,
         dialog' \in Dialog \cup {None}, loose' \subseteq Request, NoNewRequest,
         NEW c \in Courses, NEW e \in Entry(OwnFiles(c)), NEW g \in Entry(OwnFolders(c)),
         filesQ' = [filesQ EXCEPT ![c] = e], foldersQ' = [foldersQ EXCEPT ![c] = g],
         filesQ[c].loaded => e.loaded, foldersQ[c].loaded => g.loaded,
         Good(e, TrueFiles(c)'), Good(g, TrueFolders(c)'),
         \A d \in Courses \ {c} : \A kind \in {"files", "folders"} :
           Excused(kind, d) => Excused(kind, d)'
  PROVE  IInv'
<1> DEFINE fs == [d \in Courses |-> IF d = c THEN e ELSE filesQ[d]]
           gs == [d \in Courses |-> IF d = c THEN g ELSE foldersQ[d]]
<1>1. filesQ' = fs /\ foldersQ' = gs
  BY DEF IInv, ListsAreOwn
<1>2. UNCHANGED <<file, folder, queued, running>>
  BY DEF server
<1>3. TypeOK' /\ TreeIsRooted'
  BY <1>2 DEF IInv, TypeOK, TasksAreOfFiles, TreeIsRooted, Exists
<1>4. course \in Courses
  BY DEF IInv, TypeOK
<1>5. RequestsAreOwn'
  <2>1. Loaded => Loaded' \/ dialog = None
    BY <1>1, <1>4 DEF Loaded
  <2> QED
    BY <1>2, <1>4, <2>1, RequestsStayOwn DEF IInv, TypeOK, BelongsTo
<1>6. ASSUME NEW d \in Courses
      PROVE  /\ fs[d] \in Entry(OwnFiles(d)) /\ gs[d] \in Entry(OwnFolders(d))
             /\ Good(fs[d], TrueFiles(d)') /\ Good(gs[d], TrueFolders(d)')
  <2>1. CASE d = c
    BY <2>1
  <2>2. CASE d # c
    <3>1. TrueFiles(d) \subseteq TrueFiles(d)' /\ TrueFolders(d) \subseteq TrueFolders(d)'
      BY <1>2, <2>2, TruthsStay
    <3>2. /\ filesQ[d] \in Entry(OwnFiles(d)) /\ foldersQ[d] \in Entry(OwnFolders(d))
          /\ Good(filesQ[d], TrueFiles(d)) /\ Good(foldersQ[d], TrueFolders(d))
      BY ListsOf
    <3>3. fs[d] = filesQ[d] /\ gs[d] = foldersQ[d]
      BY <2>2
    <3> QED
      BY <3>1, <3>2, <3>3, GoodGrows
  <2> QED
    BY <2>1, <2>2
<1>7. \A d \in Courses : OwnFiles(d)' = OwnFiles(d) /\ OwnFolders(d)' = OwnFolders(d)
  BY <1>2 DEF OwnFiles, OwnFolders, BelongsTo
<1>8. fs = [d \in Courses |-> fs[d]] /\ gs = [d \in Courses |-> gs[d]]
  OBVIOUS
<1> HIDE DEF fs, gs
<1>9. ListsAreOwn'
  BY <1>1, <1>6, <1>7, <1>8 DEF ListsAreOwn
<1>10. ListsAreTrue'
  BY <1>1, <1>6 DEF ListsAreTrue
<1> QED
  BY <1>3, <1>5, <1>9, <1>10 DEF IInv

\* One list of files moves on; but for it no excuse is lost.
LEMMA FilesStep ==
  ASSUME IInv, UNCHANGED <<server, course, foldersQ>>, writes' \in Nat,
         dialog' \in Dialog \cup {None}, loose' \subseteq Request, NoNewRequest,
         NEW c \in Courses, NEW e \in Entry(OwnFiles(c)), filesQ' = [filesQ EXCEPT ![c] = e],
         filesQ[c].loaded => e.loaded, Good(e, TrueFiles(c)'),
         \A d \in Courses : \A kind \in {"files", "folders"} :
           <<kind, d>> # <<"files", c>> /\ Excused(kind, d) => Excused(kind, d)'
  PROVE  IInv'
<1>1. foldersQ' = [foldersQ EXCEPT ![c] = foldersQ[c]] /\ course' \in Courses
  BY DEF IInv, ListsAreOwn, TypeOK
<1>2. UNCHANGED <<file, folder>>
  BY DEF server
<1>3. TrueFolders(c) \subseteq TrueFolders(c)'
  BY <1>2 DEF TrueFolders, FoldersOf
<1>4. foldersQ[c] \in Entry(OwnFolders(c)) /\ Good(foldersQ[c], TrueFolders(c)')
  BY <1>3, ListsOf, GoodGrows
<1>5. \A d \in Courses \ {c} : \A kind \in {"files", "folders"} :
        Excused(kind, d) => Excused(kind, d)'
  OBVIOUS
<1> QED
  BY <1>1, <1>4, <1>5, CourseStep

\* The same of a list of folders.
LEMMA FoldersStep ==
  ASSUME IInv, UNCHANGED <<server, course, filesQ>>, writes' \in Nat,
         dialog' \in Dialog \cup {None}, loose' \subseteq Request, NoNewRequest,
         NEW c \in Courses, NEW e \in Entry(OwnFolders(c)),
         foldersQ' = [foldersQ EXCEPT ![c] = e],
         foldersQ[c].loaded => e.loaded, Good(e, TrueFolders(c)'),
         \A d \in Courses : \A kind \in {"files", "folders"} :
           <<kind, d>> # <<"folders", c>> /\ Excused(kind, d) => Excused(kind, d)'
  PROVE  IInv'
<1>1. filesQ' = [filesQ EXCEPT ![c] = filesQ[c]] /\ course' \in Courses
  BY DEF IInv, ListsAreOwn, TypeOK
<1>2. UNCHANGED <<file, folder>>
  BY DEF server
<1>3. TrueFiles(c) \subseteq TrueFiles(c)'
  BY <1>2 DEF TrueFiles, FilesOf
<1>4. filesQ[c] \in Entry(OwnFiles(c)) /\ Good(filesQ[c], TrueFiles(c)')
  BY <1>3, ListsOf, GoodGrows
<1>5. \A d \in Courses \ {c} : \A kind \in {"files", "folders"} :
        Excused(kind, d) => Excused(kind, d)'
  OBVIOUS
<1> QED
  BY <1>1, <1>4, <1>5, CourseStep

----------------------------------------------------------------------------
(* Dialogs                                                                 *)

\* What is listed belongs to the course in view, and so does the folder a name
\* stands for.
LEMMA ListedIsHere ==
  ASSUME IInv
  PROVE  /\ \A f \in ListedFiles : f \in Files /\ BelongsTo(f, course)
         /\ \A g \in ListedFolders : g \in Folders /\ CourseOf[g] = course
         /\ \A n : Named(n) # {} => FirstNamed(n) \in ListedFolders
<1>1. course \in Courses /\ filesQ[course].data \in OwnFiles(course)
      /\ foldersQ[course].data \in OwnFolders(course)
  BY DEF IInv, TypeOK, ListsAreOwn, Entry
<1>2. \A n : Named(n) # {} => FirstNamed(n) \in Named(n)
  BY DEF FirstNamed
<1> QED
  BY <1>1, <1>2 DEF ListedFiles, ListedFolders, Named, OwnFiles, OwnFolders

\* A dialog is submitted.
LEMMA SubmitKeepsIInv ==
  ASSUME IInv, NEW op, NEW id, NEW to, Submit(op, id, to),
         [op |-> op, id |-> id, to |-> to, stage |-> "asked"] \in Dialog,
         IsAbout([op |-> op, id |-> id, to |-> to], course)
  PROVE  IInv'
<1>1. /\ dialog = None /\ Loaded /\ writes' = writes + 1
      /\ UNCHANGED <<server, course, lists, loose, untold>>
      /\ dialog' = [op |-> op, id |-> id, to |-> to, stage |-> "asked"]
  BY DEF Submit, Ready
<1>2. UNCHANGED <<file, folder, queued, running, filesQ, foldersQ>>
  BY <1>1 DEF server, lists
<1>3. RequestsAreOwn'
  <2>1. Loaded'
    BY <1>1, <1>2 DEF Loaded
  <2>2. IsAbout(dialog, course)'
    BY <1>1, <1>2 DEF IsAbout, BelongsTo
  <2>3. \A r \in loose : IsAbout(r, r.course)'
    BY <1>2 DEF IInv, RequestsAreOwn, IsAbout, BelongsTo
  <2> QED
    BY <1>1, <2>1, <2>2, <2>3 DEF RequestsAreOwn
<1>4. ExcusesStay
  BY <1>1 DEF ExcusesStay, Excused, Answered
<1>5. TasksAreOfFiles' /\ writes' \in Nat /\ loose' \subseteq Request
  BY <1>1, <1>2 DEF IInv, TypeOK, TasksAreOfFiles
<1> QED
  BY <1>1, <1>2, <1>3, <1>4, <1>5, QuietStep DEF lists

\* A dialog about a file is submitted: rename, move, delete, "Try again".
LEMMA FileDialogsKeepIInv ==
  ASSUME IInv, NEW f \in Files,
         \/ DeleteFile(f) \/ RetryIndexing(f)
         \/ \E n \in Names : RenameFile(f, n) \/ MoveFile(f, n)
  PROVE  IInv'
<1> USE SubmitKeepsIInv, ListedIsHere DEF KindOf, FolderOps, Dialog, IsAbout, Op, Target, Value
<1>1. CASE DeleteFile(f)
  BY <1>1 DEF DeleteFile
<1>2. CASE RetryIndexing(f)
  BY <1>2 DEF RetryIndexing
<1>3. ASSUME NEW n \in Names, RenameFile(f, n) PROVE IInv'
  BY <1>3 DEF RenameFile
<1>4. ASSUME NEW n \in Names, MoveFile(f, n) PROVE IInv'
  BY <1>4 DEF MoveFile
<1> QED
  BY <1>1, <1>2, <1>3, <1>4

\* A dialog about a folder is submitted: create, rename, delete.
LEMMA FolderDialogsKeepIInv ==
  ASSUME IInv, NEW n \in Names,
         \/ CreateFolder(n) \/ DeleteFolder(n)
         \/ \E m \in Names : RenameFolder(n, m) \/ CreateSubfolder(n, m)
  PROVE  IInv'
<1> USE SubmitKeepsIInv, ListedIsHere DEF KindOf, FolderOps, Dialog, IsAbout, Op, Target, Value
<1>1. CASE CreateFolder(n)
  BY <1>1 DEF CreateFolder, Create, FolderRow
<1>2. CASE DeleteFolder(n)
  BY <1>2 DEF DeleteFolder
<1>3. ASSUME NEW m \in Names, RenameFolder(n, m) PROVE IInv'
  BY <1>3 DEF RenameFolder
<1>4. ASSUME NEW m \in Names, CreateSubfolder(n, m) PROVE IInv'
  BY <1>4 DEF CreateSubfolder, Create, FolderRow
<1> QED
  BY <1>1, <1>2, <1>3, <1>4

\* A dialog fails, is submitted again, closes: it stays about the same rows.
LEMMA DialogMovesOn ==
  ASSUME IInv, dialog # None, UNCHANGED <<server, course, lists, loose>>, writes' \in Nat,
         NEW stage \in {"asked", "error"},
         dialog' = None \/ dialog' = [dialog EXCEPT !.stage = stage],
         untold \subseteq untold',
         \A kind \in {"files", "folders"} : Waits(dialog, kind) => <<kind, course>> \in untold'
  PROVE  IInv'
<1>1. dialog \in Dialog /\ dialog' \in Dialog \cup {None}
  BY DEF IInv, TypeOK, Dialog
<1>2. NoNewRequest
  BY <1>1 DEF NoNewRequest, SameRequest, Dialog, IInv, TypeOK
<1>3. ExcusesStay
  BY DEF ExcusesStay, Excused, Answered
<1> QED
  BY <1>1, <1>2, <1>3, RequestStep DEF server, lists, IInv, TypeOK, TasksAreOfFiles

\* What becomes of a dialog whose request is not answered, or was refetched after.
LEMMA DialogStepsKeepIInv ==
  ASSUME IInv, FailsInDialog \/ SubmitAgain \/ CloseDialog \/ CloseAfterwards
  PROVE  IInv'
<1>0. writes \in Nat /\ ("asked" \in {"asked", "error"}) /\ ("error" \in {"asked", "error"})
  BY DEF IInv, TypeOK
<1>1. CASE FailsInDialog
  <2>1. /\ dialog # None /\ dialog' = [dialog EXCEPT !.stage = "error"]
        /\ UNCHANGED <<server, course, lists, loose, writes>> /\ untold \subseteq untold'
    BY <1>1 DEF FailsInDialog
  <2>2. \A kind \in {"files", "folders"} : Waits(dialog, kind) => <<kind, course>> \in untold'
    BY <1>1 DEF FailsInDialog, Waits
  <2> QED
    BY <1>0, <2>1, <2>2, DialogMovesOn
<1>2. CASE SubmitAgain
  BY <1>0, <1>2, DialogMovesOn DEF SubmitAgain, Waits
<1>3. CASE CloseDialog
  BY <1>0, <1>3, DialogMovesOn DEF CloseDialog, Waits, bounds
<1>4. CASE CloseAfterwards
  BY <1>0, <1>4, DialogMovesOn DEF CloseAfterwards, Waits, bounds
<1> QED
  BY <1>1, <1>2, <1>3, <1>4

----------------------------------------------------------------------------
(* Requests that nobody waits for                                          *)

\* Indexing is asked for.
LEMMA StartIndexingKeepsIInv ==
  ASSUME IInv, NEW f \in Files, StartIndexing(f)
  PROVE  IInv'
<1> DEFINE r == [nr |-> writes + 1, op |-> "ingest", id |-> f, to |-> None,
                 course |-> course, stage |-> "asked"]
<1>1. /\ loose' = loose \cup {r} /\ writes' = writes + 1 /\ BelongsTo(f, course)
      /\ UNCHANGED <<file, folder, queued, running, course, filesQ, foldersQ, dialog, untold>>
  BY ListedIsHere DEF StartIndexing, server, lists
<1>2. r \in Request /\ IsAbout(r, course) /\ ~Waits(r, "files") /\ ~Waits(r, "folders")
  BY <1>1 DEF Request, Op, Target, Value, IsAbout, KindOf, FolderOps, Waits, IInv, TypeOK
<1>3. r.course = course
  OBVIOUS
<1> HIDE DEF r
<1>4. RequestsAreOwn'
  BY <1>1, <1>2, <1>3 DEF IInv, RequestsAreOwn, IsAbout, BelongsTo, Loaded
<1>5. ExcusesStay
  BY <1>1, <1>2 DEF ExcusesStay, Excused, Answered
<1>6. TasksAreOfFiles' /\ writes' \in Nat
  BY <1>1 DEF IInv, TypeOK, TasksAreOfFiles
<1> QED
  BY <1>1, <1>2, <1>4, <1>5, <1>6, QuietStep DEF IInv, TypeOK, lists

\* A request fails, or its answer is lost.
LEMMA LooseFailsKeepsIInv ==
  ASSUME IInv, NEW r \in loose, LooseFails(r)
  PROVE  IInv'
<1>1. /\ UNCHANGED <<server, course, lists, dialog, writes>> /\ untold \subseteq untold'
      /\ loose' = loose \ {r}
      /\ r.stage = "asked" \/ r.op = "ingest" \/ <<KindOf(r.op), r.course>> \in untold'
  BY DEF LooseFails
<1>2. ExcusesStay
  BY <1>1 DEF ExcusesStay, Excused, Answered, Waits
<1>3. NoNewRequest
  BY <1>1 DEF NoNewRequest, SameRequest
<1> QED
  BY <1>1, <1>2, <1>3, RequestStep DEF server, lists, IInv, TypeOK, TasksAreOfFiles

\* Its answer has a list fetched again: that of its course, which is true from
\* then on, unless the invalidation was lost, or another.
LEMMA LooseAnsweredKeepsIInv ==
  ASSUME IInv, NEW r \in loose, LooseAnswered(r)
  PROVE  IInv'
<1> DEFINE kind == KindOf(r.op)
<1>1. PICK c \in Courses :
        /\ ListOfCourse(kind, c)
        /\ untold' = IF r.op = "ingest" \/ (c = r.course /\ IsTold(kind, c)) THEN untold
                     ELSE untold \cup {<<kind, r.course>>}
  BY DEF LooseAnswered
<1>2. /\ UNCHANGED <<server, course, dialog, writes>> /\ loose' = loose \ {r}
      /\ r.stage = "done" /\ untold \subseteq untold'
  BY <1>1 DEF LooseAnswered, bounds
<1>3. /\ writes' \in Nat /\ dialog' \in Dialog \cup {None} /\ loose' \subseteq Request
      /\ course \in Courses /\ r \in Request
  BY <1>2 DEF IInv, TypeOK
<1>4. NoNewRequest
  BY <1>2 DEF NoNewRequest, SameRequest
<1>5. kind \in {"files", "folders"}
  BY DEF KindOf
\* Only the excuse of the list that is told may go.
<1>6. ASSUME NEW d \in Courses, NEW k \in {"files", "folders"}, Excused(k, d)
      PROVE  Excused(k, d)' \/ (k = kind /\ d = c /\ IsTold(kind, c))
  BY <1>1, <1>2, <1>6 DEF Excused, Answered, Waits
<1>7. (c = course) \in BOOLEAN /\ UNCHANGED <<file, folder>>
  BY <1>2 DEF server
<1> HIDE DEF kind
<1>8. CASE kind = "files"
  <2> DEFINE e == Invalidate(filesQ[c], c = course, NoFiles)
  <2>1. filesQ' = [filesQ EXCEPT ![c] = e] /\ UNCHANGED foldersQ
    BY <1>1, <1>8 DEF ListOfCourse
  <2>2. e \in Entry(OwnFiles(c)) /\ (filesQ[c].loaded => e.loaded) /\ Good(e, TrueFiles(c))
    BY <1>7, ListsOf, EntriesStay, GoodStays
  <2>3. Good(e, TrueFiles(c)')
    <3>1. CASE IsTold(kind, c)
      <4>1. ~IsLostOn(filesQ[c], c = course)
        BY <1>8, <3>1 DEF IsTold
      <4> QED
        BY <1>7, <4>1, ListsOf, InvalidatedClaimsNothing
    <3>2. CASE ~IsTold(kind, c)
      <4>1. TrueFiles(c) \subseteq TrueFiles(c)'
        BY <1>6, <1>7, <3>2, TruthsStay
      <4> QED
        BY <2>2, <4>1, GoodGrows
    <3> QED
      BY <3>1, <3>2
  <2> HIDE DEF e
  <2>4. \A d \in Courses : \A k \in {"files", "folders"} :
          <<k, d>> # <<"files", c>> /\ Excused(k, d) => Excused(k, d)'
    BY <1>6, <1>8
  <2> QED
    BY <1>2, <1>3, <1>4, <2>1, <2>2, <2>3, <2>4, FilesStep
<1>9. CASE kind = "folders"
  <2> DEFINE e == Invalidate(foldersQ[c], c = course, NoFolders)
  <2>1. foldersQ' = [foldersQ EXCEPT ![c] = e] /\ UNCHANGED filesQ
    BY <1>1, <1>9 DEF ListOfCourse
  <2>2. e \in Entry(OwnFolders(c)) /\ (foldersQ[c].loaded => e.loaded) /\ Good(e, TrueFolders(c))
    BY <1>7, ListsOf, EntriesStay, GoodStays
  <2>3. Good(e, TrueFolders(c)')
    <3>1. CASE IsTold(kind, c)
      <4>1. ~IsLostOn(foldersQ[c], c = course)
        BY <1>9, <3>1 DEF IsTold
      <4> QED
        BY <1>7, <4>1, ListsOf, InvalidatedClaimsNothing
    <3>2. CASE ~IsTold(kind, c)
      <4>1. TrueFolders(c) \subseteq TrueFolders(c)'
        BY <1>6, <1>7, <3>2, TruthsStay
      <4> QED
        BY <2>2, <4>1, GoodGrows
    <3> QED
      BY <3>1, <3>2
  <2> HIDE DEF e
  <2>4. \A d \in Courses : \A k \in {"files", "folders"} :
          <<k, d>> # <<"folders", c>> /\ Excused(k, d) => Excused(k, d)'
    BY <1>6, <1>9
  <2> QED
    BY <1>2, <1>3, <1>4, <2>1, <2>2, <2>3, <2>4, FoldersStep
<1> QED
  BY <1>5, <1>8, <1>9

----------------------------------------------------------------------------
(* The server                                                              *)

\* Some files change their rows, or go, and none comes or leaves its course:
\* the lists remain those of files of their course.
LEMMA FilesStayOwn ==
  ASSUME \A f \in Files : file'[f] # None =>
           file[f] # None /\ CourseOf[file'[f].folder] = CourseOf[file[f].folder]
  PROVE  /\ \A f \in Files, c \in Courses : BelongsTo(f, c) => BelongsTo(f, c)'
         /\ \A c \in Courses : OwnFiles(c) \subseteq OwnFiles(c)'
BY DEF OwnFiles, BelongsTo

\* A request of course c changes files, or folders, of it only, and from then on
\* the list of that kind is excused there.
LEMMA ChangeKeepsIInv ==
  ASSUME IInv, UNCHANGED <<course, lists, untold, writes>>,
         dialog' \in Dialog \cup {None}, loose' \subseteq Request, NoNewRequest, ExcusesStay,
         NEW c \in Courses, NEW kind \in {"files", "folders"},
         file' \in FileList, folder' \in FolderList, TreeIsRooted', TasksAreOfFiles',
         \A f \in Files : file'[f] # None => file[f] # None,
         \A f \in Files : file'[f] # file[f] =>
           /\ kind = "files" /\ file[f] # None /\ Excused(kind, c)'
           /\ BelongsTo(f, c) /\ BelongsTo(f, c)',
         \A g \in Folders : folder'[g] # folder[g] =>
           kind = "folders" /\ CourseOf[g] = c /\ Excused(kind, c)'
  PROVE  IInv'
<1>1. TypeOK'
  BY DEF IInv, TypeOK
<1>2. \A f \in Files : file'[f] # None =>
        file[f] # None /\ CourseOf[file'[f].folder] = CourseOf[file[f].folder]
  BY DEF BelongsTo
<1>3. RequestsAreOwn'
  BY <1>2, FilesStayOwn, RequestsStayOwn DEF IInv, TypeOK, Loaded, lists
<1>4. ASSUME NEW d \in Courses
      PROVE  FilesOf(d)' = FilesOf(d) \/ Excused("files", d)'
  <2>1. CASE d = c /\ \E f \in Files : file'[f] # file[f]
    BY <2>1
  <2>2. CASE d # c \/ \A f \in Files : file'[f] = file[f]
    <3>1. ASSUME NEW f \in Files
          PROVE  FilesOf(d)'[f] = FilesOf(d)[f]
      BY <1>2, <2>2 DEF FilesOf, BelongsTo
    <3> QED
      BY <3>1 DEF FilesOf
  <2> QED
    BY <2>1, <2>2
<1>5. ASSUME NEW d \in Courses
      PROVE  FoldersOf(d)' = FoldersOf(d) \/ Excused("folders", d)'
  <2>1. CASE d = c /\ \E g \in Folders : folder'[g] # folder[g]
    BY <2>1
  <2>2. CASE d # c \/ \A g \in Folders : folder'[g] = folder[g]
    <3>1. ASSUME NEW g \in Folders
          PROVE  FoldersOf(d)'[g] = FoldersOf(d)[g]
      BY <2>2 DEF FoldersOf
    <3> QED
      BY <3>1 DEF FoldersOf
  <2> QED
    BY <2>1, <2>2
<1>6. \A d \in Courses : TrueFiles(d) \subseteq TrueFiles(d)'
  BY <1>4 DEF TrueFiles, ExcusesStay
<1>7. \A d \in Courses : TrueFolders(d) \subseteq TrueFolders(d)'
  BY <1>5 DEF TrueFolders, ExcusesStay
<1> QED
  BY <1>1, <1>2, <1>3, <1>6, <1>7, FilesStayOwn, ListsKeep DEF IInv

\* A new name leaves the tree as it is.
LEMMA RenamedTreeIsRooted ==
  ASSUME TypeOK, TreeIsRooted, NEW g \in Folders, folder[g] # None, NEW n \in Names,
         folder' = [folder EXCEPT ![g].name = n]
  PROVE  folder' \in FolderList /\ TreeIsRooted'
<1>1. /\ folder' \in FolderList
      /\ \A h \in Folders : folder'[h] = None <=> folder[h] = None
      /\ \A h \in Folders : folder[h] # None => folder'[h].parent = folder[h].parent
  BY NoneAssumption DEF TypeOK, FolderList, FolderRow
<1>2. Rooted(folder)'
  BY <1>1 DEF TreeIsRooted, Rooted, IsRank
<1> QED
  BY <1>1, <1>2 DEF TreeIsRooted, Exists

\* A folder that goes had none inside.
LEMMA PrunedTreeIsRooted ==
  ASSUME TypeOK, TreeIsRooted, NEW g \in Folders, IsEmpty(g),
         folder' = [folder EXCEPT ![g] = None]
  PROVE  folder' \in FolderList /\ TreeIsRooted'
<1>1. /\ folder' \in FolderList
      /\ \A h \in Folders : folder'[h] # None => h # g /\ folder'[h] = folder[h]
  BY DEF TypeOK, FolderList
<1>2. Rooted(folder)'
  BY <1>1 DEF TreeIsRooted, Rooted, IsRank
<1>3. ASSUME NEW h \in Folders, folder'[h] # None
      PROVE  LET up == folder'[h].parent
             IN  up = None \/ (up \in Folders /\ folder'[up] # None)
  <2>1. folder'[h] = folder[h] /\ Exists(folder[h].parent) /\ folder[h].parent # g
    BY <1>1, <1>3 DEF TreeIsRooted, IsEmpty
  <2> QED
    BY <1>1, <2>1 DEF Exists, TypeOK, FolderList
<1> QED
  BY <1>1, <1>2, <1>3 DEF TreeIsRooted, Exists

\* A folder is created below one that exists, with an id nothing is below.
LEMMA GrownTreeIsRooted ==
  ASSUME TypeOK, TreeIsRooted, NEW g \in Folders, folder[g] = None, NEW to \in FolderRow,
         Exists(to.parent), folder' = [folder EXCEPT ![g] = to]
  PROVE  folder' \in FolderList /\ TreeIsRooted'
<1>1. /\ folder' \in FolderList
      /\ \A h \in Folders : folder'[h] = IF h = g THEN to ELSE folder[h]
  BY DEF TypeOK, FolderList
<1>2. g # None /\ to # None
  BY NoneAssumption
<1>3. ASSUME NEW h \in Folders, folder'[h] # None
      PROVE  LET up == folder'[h].parent
             IN  up = None \/ (up \in Folders /\ folder'[up] # None)
  BY <1>1, <1>2, <1>3 DEF TreeIsRooted, Exists
<1>4. PICK rank \in [Folders -> Nat] : IsRank(rank, folder)
  BY DEF TreeIsRooted, Rooted
<1> DEFINE above == IF to.parent \in Folders THEN rank[to.parent] + 1 ELSE 0
           higher == [rank EXCEPT ![g] = above]
<1>5. higher \in [Folders -> Nat] /\ \A h \in Folders : higher[h] = IF h = g THEN above ELSE rank[h]
  OBVIOUS
<1>6. ASSUME NEW e \in Folders, NEW h \in Folders,
             folder'[e] # None, folder'[h] # None, folder'[e].parent = h
      PROVE  higher[h] < higher[e]
  <2>1. CASE e = g
    <3>1. h = to.parent /\ h # g /\ rank[h] \in Nat
      BY <1>1, <1>2, <1>6, <2>1 DEF Exists
    <3> QED
      BY <1>5, <2>1, <3>1
  <2>2. CASE e # g
    <3>1. folder[e] # None /\ folder[e].parent = h /\ Exists(h)
      BY <1>1, <1>6, <2>2 DEF TreeIsRooted
    <3>2. h # g /\ folder[h] # None
      BY <1>2, <3>1, NoneAssumption DEF Exists
    <3> QED
      BY <1>4, <1>5, <2>2, <3>1, <3>2 DEF IsRank
  <2> QED
    BY <2>1, <2>2
<1>7. IsRank(higher, folder')
  <2> HIDE DEF higher
  <2> QED
    BY <1>6 DEF IsRank
<1>8. Rooted(folder)'
  <2> HIDE DEF higher
  <2> QED
    BY <1>5, <1>7 DEF Rooted
<1> QED
  BY <1>1, <1>3, <1>8 DEF TreeIsRooted, Exists

\* The server does what a request of course c asks for.
LEMMA RequestDone ==
  ASSUME IInv, UNCHANGED <<course, lists, untold, writes>>,
         dialog' \in Dialog \cup {None}, loose' \subseteq Request, NoNewRequest, ExcusesStay,
         NEW op \in Op, NEW id, NEW to, NEW c \in Courses, ServerDoes(op, id, to, c),
         IsAbout([op |-> op, id |-> id, to |-> to], c),
         op # "ingest" => Excused(KindOf(op), c)'
  PROVE  IInv'
<1>1. TypeOK /\ TreeIsRooted /\ TasksAreOfFiles
  BY DEF IInv, TypeOK
<1>2. /\ UNCHANGED <<lists, course, untold, writes>>
      /\ "files" \in {"files", "folders"} /\ "folders" \in {"files", "folders"}
  OBVIOUS
<1>3. CASE op = "rename_file"
  <2>1. /\ id \in Files /\ BelongsTo(id, c) /\ to \in Names /\ file[id] # None
        /\ file' = [file EXCEPT ![id].name = to] /\ UNCHANGED <<folder, queued, running>>
        /\ Excused("files", c)'
    BY <1>3 DEF ServerDoes, IsAbout, KindOf, FolderOps
  <2>2. /\ file' \in FileList /\ file'[id] # None /\ file'[id].folder = file[id].folder
        /\ \A f \in Files : f # id => file'[f] = file[f]
    BY <1>1, <2>1, NoneAssumption DEF TypeOK, FileList, FileRow
  <2>3. TreeIsRooted' /\ TasksAreOfFiles' /\ folder' \in FolderList
    BY <1>1, <2>1, <2>2 DEF TypeOK, TasksAreOfFiles, TreeIsRooted, Exists
  <2>4. BelongsTo(id, c)'
    BY <2>1, <2>2 DEF BelongsTo
  <2> QED
    BY <1>2, <2>1, <2>2, <2>3, <2>4, ChangeKeepsIInv
<1>4. CASE op = "move"
  <2>1. /\ id \in Files /\ BelongsTo(id, c) /\ to \in Folders /\ CourseOf[to] = c
        /\ file[id] # None /\ UNCHANGED <<folder, queued, running>>
        /\ file' = [file EXCEPT ![id].folder = to] /\ Excused("files", c)'
    BY <1>4 DEF ServerDoes, IsAbout, KindOf, FolderOps
  <2>2. /\ file' \in FileList /\ file'[id] # None /\ file'[id].folder = to
        /\ \A f \in Files : f # id => file'[f] = file[f]
    BY <1>1, <2>1, NoneAssumption DEF TypeOK, FileList, FileRow
  <2>3. TreeIsRooted' /\ TasksAreOfFiles' /\ folder' \in FolderList
    BY <1>1, <2>1, <2>2 DEF TypeOK, TasksAreOfFiles, TreeIsRooted, Exists
  <2> QED
    BY <1>2, <2>1, <2>2, <2>3, ChangeKeepsIInv DEF BelongsTo
<1>5. CASE op = "delete_file"
  <2>1. /\ id \in Files /\ BelongsTo(id, c) /\ file[id] # None /\ UNCHANGED folder
        /\ file' = [file EXCEPT ![id] = None] /\ Excused("files", c)'
        /\ queued' = [queued EXCEPT ![id] = 0] /\ running' = [running EXCEPT ![id] = 0]
    BY <1>5 DEF ServerDoes, IsAbout, KindOf, FolderOps
  <2>2. /\ file' \in FileList /\ file'[id] = None
        /\ \A f \in Files : f # id => file'[f] = file[f]
    BY <1>1, <2>1 DEF TypeOK, FileList
  <2>3. TreeIsRooted' /\ TasksAreOfFiles' /\ folder' \in FolderList
    BY <1>1, <2>1, <2>2 DEF TypeOK, TasksAreOfFiles, TreeIsRooted, Exists
  <2> QED
    BY <1>2, <2>1, <2>2, <2>3, ChangeKeepsIInv DEF BelongsTo
<1>6. CASE op = "ingest"
  <2>1. /\ id \in Files /\ file[id] # None /\ UNCHANGED <<file, folder, running>>
        /\ queued' = [queued EXCEPT ![id] = @ + 1]
    BY <1>6 DEF ServerDoes, IsAbout, KindOf, FolderOps
  <2>2. TasksAreOfFiles' /\ TreeIsRooted'
    BY <1>1, <2>1 DEF TypeOK, TasksAreOfFiles, TreeIsRooted, Exists
  <2>3. \A f \in Files : file'[f] = file[f]
    BY <2>1
  <2>4. \A g \in Folders : folder'[g] = folder[g]
    BY <2>1
  <2>5. file' \in FileList /\ folder' \in FolderList
    BY <1>1, <2>1 DEF TypeOK
  <2> QED
    BY <1>2, <2>2, <2>3, <2>4, <2>5, ChangeKeepsIInv
<1>7. CASE op \in FolderOps
  <2>1. UNCHANGED <<file, queued, running>> /\ Excused("folders", c)'
    BY <1>7 DEF ServerDoes, FolderOps, KindOf
  <2>2. PICK g \in Folders : /\ CourseOf[g] = c
                             /\ \A h \in Folders : h # g => folder'[h] = folder[h]
                             /\ folder' \in FolderList /\ TreeIsRooted'
    <3>1. CASE op = "create_folder"
      <4>1. to \in FolderRow /\ Exists(to.parent)
        BY <3>1 DEF ServerDoes, IsAbout
      <4>2. PICK g \in Folders : /\ CourseOf[g] = c /\ folder[g] = None
                                 /\ folder' = [folder EXCEPT ![g] = to]
        BY <3>1 DEF ServerDoes
      <4> QED
        BY <1>1, <4>1, <4>2, GrownTreeIsRooted DEF TypeOK, FolderList
    <3>2. CASE op = "rename_folder"
      <4>1. /\ id \in Folders /\ CourseOf[id] = c /\ folder[id] # None /\ to \in Names
            /\ folder' = [folder EXCEPT ![id].name = to]
        BY <3>2 DEF ServerDoes, IsAbout
      <4> QED
        BY <1>1, <4>1, RenamedTreeIsRooted DEF TypeOK, FolderList
    <3>3. CASE op = "delete_folder"
      <4>1. /\ id \in Folders /\ CourseOf[id] = c /\ IsEmpty(id)
            /\ folder' = [folder EXCEPT ![id] = None]
        BY <3>3 DEF ServerDoes, IsAbout
      <4> QED
        BY <1>1, <4>1, PrunedTreeIsRooted DEF TypeOK, FolderList
    <3> QED
      BY <1>7, <3>1, <3>2, <3>3 DEF FolderOps
  <2>3. TasksAreOfFiles' /\ file' \in FileList
    BY <1>1, <2>1 DEF TypeOK, TasksAreOfFiles
  <2> QED
    BY <1>2, <2>1, <2>2, <2>3, ChangeKeepsIInv
<1> QED
  BY <1>3, <1>4, <1>5, <1>6, <1>7 DEF Op, FolderOps

\* The server answers a dialog.
LEMMA ServerAnswersKeepsIInv ==
  ASSUME IInv, ServerAnswers
  PROVE  IInv'
<1>1. /\ dialog # None /\ dialog.stage = "asked" /\ dialog \in Dialog
      /\ UNCHANGED <<course, lists, loose, untold, writes>> /\ course \in Courses
  BY DEF ServerAnswers, IInv, TypeOK, bounds
<1>2. PICK stage \in {"done", "refused"} :
        /\ dialog' = [dialog EXCEPT !.stage = stage]
        /\ IF stage = "done" THEN ServerDoes(dialog.op, dialog.id, dialog.to, course)
           ELSE UNCHANGED server
  BY DEF ServerAnswers
<1>3. /\ dialog' \in Dialog /\ dialog' # None /\ dialog'.stage = stage
      /\ dialog'.op = dialog.op /\ dialog'.id = dialog.id /\ dialog'.to = dialog.to
  BY <1>1, <1>2, NoneAssumption DEF Dialog
<1>4. NoNewRequest
  BY <1>1, <1>3 DEF NoNewRequest, SameRequest
<1>5. ExcusesStay
  BY <1>1 DEF ExcusesStay, Excused, Answered, Waits
<1>6. loose' \subseteq Request /\ writes' \in Nat
  BY <1>1 DEF IInv, TypeOK
<1>7. CASE stage = "refused"
  <2>1. UNCHANGED <<file, folder, queued, running>>
    BY <1>2, <1>7 DEF server
  <2>2. TasksAreOfFiles'
    BY <2>1 DEF IInv, TypeOK, TasksAreOfFiles
  <2> QED
    BY <1>1, <1>3, <1>4, <1>5, <1>6, <2>1, <2>2, RequestStep
<1>8. CASE stage = "done"
  <2>1. dialog.op \in Op /\ ServerDoes(dialog.op, dialog.id, dialog.to, course)
    BY <1>1, <1>2, <1>8 DEF Dialog
  <2>2. IsAbout([op |-> dialog.op, id |-> dialog.id, to |-> dialog.to], course)
    BY <1>1 DEF IInv, RequestsAreOwn, IsAbout
  <2>3. dialog.op # "ingest" => Excused(KindOf(dialog.op), course)'
    BY <1>1, <1>3, <1>8 DEF Excused, Answered, Waits, KindOf
  <2> QED
    BY <1>1, <1>3, <1>4, <1>5, <1>6, <2>1, <2>2, <2>3, RequestDone
<1> QED
  BY <1>7, <1>8

\* The server does what a request nobody waits for asks for.
LEMMA LooseStoredKeepsIInv ==
  ASSUME IInv, NEW r \in loose, LooseStored(r)
  PROVE  IInv'
<1> DEFINE s == [r EXCEPT !.stage = "done"]
<1>1. /\ r \in Request /\ r.stage = "asked" /\ loose' = (loose \ {r}) \cup {s}
      /\ UNCHANGED <<course, lists, dialog, untold, writes>>
      /\ ServerDoes(r.op, r.id, r.to, r.course)
  BY DEF LooseStored, IInv, TypeOK, bounds
<1>2. /\ s \in Request /\ s.op = r.op /\ s.id = r.id /\ s.to = r.to /\ s.course = r.course
      /\ s.stage = "done"
  BY <1>1 DEF Request
<1> HIDE DEF s
<1>3. /\ dialog' \in Dialog \cup {None} /\ loose' \subseteq Request
      /\ r.op \in Op /\ r.course \in Courses
  BY <1>1, <1>2 DEF IInv, TypeOK, Request
<1>4. NoNewRequest
  BY <1>1, <1>2 DEF NoNewRequest, SameRequest
<1>5. ExcusesStay
  BY <1>1 DEF ExcusesStay, Excused, Answered, Waits
<1>6. IsAbout([op |-> r.op, id |-> r.id, to |-> r.to], r.course)
  BY DEF IInv, RequestsAreOwn, IsAbout
<1>7. r.op # "ingest" => Excused(KindOf(r.op), r.course)'
  BY <1>1, <1>2 DEF Excused, Answered, Waits
<1> QED
  BY <1>1, <1>3, <1>4, <1>5, <1>6, <1>7, RequestDone

\* Some files change their status: a list that has one waits for that, or is not
\* told.
LEMMA StatusStep ==
  ASSUME IInv, UNCHANGED <<folder, course, lists, dialog, loose, writes>>,
         untold \subseteq untold', TasksAreOfFiles', file' \in FileList,
         \A f \in Files :
           \/ file'[f] = file[f]
           \/ /\ file[f] # None /\ file'[f] # None /\ file'[f].folder = file[f].folder
              /\ \/ file[f].status \in Pending
                 \/ <<"files", CourseOf[file[f].folder]>> \in untold'
  PROVE  IInv'
<1>1. TypeOK' /\ TreeIsRooted'
  BY DEF IInv, TypeOK, TreeIsRooted, Exists
<1>2. \A f \in Files : file'[f] # None =>
        file[f] # None /\ CourseOf[file'[f].folder] = CourseOf[file[f].folder]
  OBVIOUS
<1>3. NoNewRequest /\ ExcusesStay
  BY DEF NoNewRequest, SameRequest, ExcusesStay, Excused, Answered
<1>4. RequestsAreOwn'
  BY <1>2, <1>3, FilesStayOwn, RequestsStayOwn DEF IInv, TypeOK, Loaded, lists
<1>5. \A c \in Courses : TrueFolders(c) \subseteq TrueFolders(c)'
  BY <1>3 DEF TrueFolders, FoldersOf, ExcusesStay
<1>6. ASSUME NEW c \in Courses
      PROVE  IsPending(FilesOf(c)) \/ FilesOf(c)' = FilesOf(c) \/ Excused("files", c)'
  <2>1. CASE \E f \in Files : /\ file'[f] # file[f] /\ CourseOf[file[f].folder] = c
    <3>1. PICK f \in Files : file'[f] # file[f] /\ CourseOf[file[f].folder] = c
      BY <2>1
    <3>2. FilesOf(c)[f] = file[f] /\ file[f] # None
      BY <3>1 DEF FilesOf
    <3> QED
      BY <3>1, <3>2 DEF IsPending, Excused
  <2>2. CASE \A f \in Files : file'[f] = file[f] \/ CourseOf[file[f].folder] # c
    <3>1. ASSUME NEW f \in Files
          PROVE  FilesOf(c)'[f] = FilesOf(c)[f]
      BY <2>2 DEF FilesOf
    <3> QED
      BY <3>1 DEF FilesOf
  <2> QED
    BY <2>1, <2>2
<1>7. \A c \in Courses : TrueFiles(c) \subseteq TrueFiles(c)'
  BY <1>3, <1>6 DEF TrueFiles, ExcusesStay
<1> QED
  BY <1>1, <1>2, <1>4, <1>5, <1>7, FilesStayOwn, ListsKeep DEF IInv

\* A task reports.
LEMMA ReportsKeepsIInv ==
  ASSUME IInv, NEW f \in Files, queued[f] > 0 \/ running[f] > 0,
         NEW s \in Status, Reports(f, s), TasksAreOfFiles',
         UNCHANGED <<folder, course, lists, dialog, loose, writes>>
  PROVE  IInv'
<1>1. file[f] # None /\ file[f] \in FileRow /\ file \in FileList
  BY DEF IInv, TypeOK, TasksAreOfFiles, FileList
<1>2. /\ file' \in FileList /\ file'[f] # None /\ file'[f].folder = file[f].folder
      /\ file[f].status = s => file'[f] = file[f]
      /\ \A g \in Files : g # f => file'[g] = file[g]
  BY <1>1, NoneAssumption DEF Reports, FileList, FileRow
<1>3. /\ untold \subseteq untold'
      /\ file[f].status \in Pending \cup {s} \/ <<"files", CourseOf[file[f].folder]>> \in untold'
  BY DEF Reports
<1> QED
  BY <1>1, <1>2, <1>3, StatusStep

\* A task begins, ends, or is lost; all are when the API restarts.
LEMMA TasksKeepIInv ==
  ASSUME IInv, Restart \/ \E f \in Files : TaskStep(f)
  PROVE  IInv'
<1>1. TasksAreOfFiles /\ file \in FileList /\ writes \in Nat /\ dialog \in Dialog \cup {None}
      /\ loose \subseteq Request
  BY DEF IInv, TypeOK
<1>2. ASSUME NEW f \in Files, TaskBegins(f) PROVE IInv'
  <2>1. /\ queued[f] > 0 /\ Reports(f, "processing") /\ "processing" \in Status
        /\ UNCHANGED <<folder, course, lists, dialog, loose, writes>>
        /\ file' = [file EXCEPT ![f].status = "processing"]
    BY <1>2 DEF TaskBegins, Reports, Status, bounds
  <2>2. file[f] # None /\ file[f] \in FileRow
    BY <1>1, <2>1 DEF TasksAreOfFiles, FileList
  <2>3. file'[f] # None /\ \A g \in Files : g # f => file'[g] = file[g]
    BY <1>1, <2>1, <2>2, NoneAssumption DEF FileList, FileRow
  <2>4. TasksAreOfFiles'
    BY <1>1, <1>2, <2>3 DEF TasksAreOfFiles, TaskBegins
  <2> QED
    BY <2>1, <2>4, ReportsKeepsIInv
<1>3. ASSUME NEW f \in Files, TaskEnds(f) PROVE IInv'
  <2>1. PICK s \in {"ready", "failed"} : Reports(f, s)
    BY <1>3 DEF TaskEnds
  <2>2. /\ running[f] > 0 /\ s \in Status
        /\ UNCHANGED <<folder, course, lists, dialog, loose, writes>>
        /\ file' = [file EXCEPT ![f].status = s]
    BY <1>3, <2>1 DEF TaskEnds, Reports, Status, bounds
  <2>3. file[f] # None /\ file[f] \in FileRow
    BY <1>1, <2>2 DEF TasksAreOfFiles, FileList
  <2>4. file'[f] # None /\ \A g \in Files : g # f => file'[g] = file[g]
    BY <1>1, <2>2, <2>3, NoneAssumption DEF FileList, FileRow
  <2>5. TasksAreOfFiles'
    BY <1>1, <1>3, <2>4 DEF TasksAreOfFiles, TaskEnds
  <2> QED
    BY <2>1, <2>2, <2>5, ReportsKeepsIInv
<1>4. ASSUME NEW f \in Files, TaskIsLost(f) PROVE IInv'
  <2>1. UNCHANGED <<file, folder, course, lists, dialog, loose, untold, writes>>
    BY <1>4 DEF TaskIsLost, bounds
  <2>2. TasksAreOfFiles'
    BY <1>1, <1>4 DEF TasksAreOfFiles, TaskIsLost
  <2>3. NoNewRequest /\ ExcusesStay
    BY <2>1 DEF NoNewRequest, SameRequest, ExcusesStay, Excused, Answered
  <2> QED
    BY <1>1, <2>1, <2>2, <2>3, RequestStep
<1>5. CASE Restart
  <2>1. UNCHANGED <<folder, course, lists, dialog, loose, untold, writes>>
    BY <1>5 DEF Restart
  <2>2. ASSUME NEW f \in Files
        PROVE  \/ file'[f] = file[f]
               \/ /\ file[f] # None /\ file'[f] # None /\ file'[f].folder = file[f].folder
                  /\ file[f].status \in Pending
                  /\ file'[f] \in FileRow
    <3>1. CASE file[f] # None /\ file[f].status = "processing"
      <4>1. file'[f] = [file[f] EXCEPT !.status = "failed"] /\ file[f] \in FileRow
        BY <1>1, <1>5, <3>1 DEF Restart, FileList
      <4> QED
        BY <3>1, <4>1, NoneAssumption DEF FileRow, Status, Pending
    <3>2. CASE ~(file[f] # None /\ file[f].status = "processing")
      BY <1>5, <3>2 DEF Restart
    <3> QED
      BY <3>1, <3>2
  <2>3. file' \in FileList
    BY <1>1, <1>5, <2>2 DEF Restart, FileList
  <2>4. TasksAreOfFiles'
    BY <1>5 DEF Restart, TasksAreOfFiles
  <2> QED
    BY <2>1, <2>2, <2>3, <2>4, StatusStep
<1> QED
  BY <1>2, <1>3, <1>4, <1>5 DEF TaskStep

----------------------------------------------------------------------------
(* Fetches and invalidations                                               *)

\* What a step that is about lists only leaves alone.
LEMMA RequestsRest ==
  ASSUME IInv, UNCHANGED <<dialog, loose>>
  PROVE  /\ dialog' \in Dialog \cup {None} /\ loose' \subseteq Request /\ NoNewRequest
         /\ course \in Courses /\ writes \in Nat
BY DEF IInv, TypeOK, NoNewRequest, SameRequest

\* A row takes its dialog along: the request goes on, and is excused as it was.
LEMMA RowTakesDialog ==
  ASSUME IInv, dialog # None, Unmount, course' = course
  PROVE  /\ dialog' \in Dialog \cup {None} /\ loose' \subseteq Request /\ NoNewRequest
         /\ \A c \in Courses : \A kind \in {"files", "folders"} :
              ~Answered(kind, c) => ~Answered(kind, c)'
<1> DEFINE r == [nr |-> writes, op |-> dialog.op, id |-> dialog.id, to |-> dialog.to,
                 course |-> course, stage |-> dialog.stage]
<1>1. /\ dialog' = None
      /\ loose' = IF dialog.stage \in {"asked", "done"} THEN loose \cup {r} ELSE loose
  BY DEF Unmount
<1>2. dialog \in Dialog /\ writes \in Nat /\ course \in Courses /\ loose \subseteq Request
  BY DEF IInv, TypeOK
<1>3. /\ dialog.stage \in {"asked", "done"} => r \in Request
      /\ SameRequest(r, dialog) /\ r.course = course /\ r.stage = dialog.stage
      /\ r.op = dialog.op
  BY <1>2 DEF Request, Dialog, SameRequest
<1> HIDE DEF r
<1>4. NoNewRequest
  BY <1>1, <1>3 DEF NoNewRequest, SameRequest
<1>5. ASSUME NEW c \in Courses, NEW kind \in {"files", "folders"}, ~Answered(kind, c)
      PROVE  ~Answered(kind, c)'
  <2>1. CASE c = course /\ Waits(dialog, kind)
    BY <1>1, <1>3, <2>1 DEF Answered, Waits
  <2>2. CASE \E s \in loose : s.course = c /\ Waits(s, kind)
    BY <1>1, <2>2 DEF Answered, Waits
  <2> QED
    BY <1>5, <2>1, <2>2 DEF Answered
<1> QED
  BY <1>1, <1>2, <1>3, <1>4, <1>5

\* A dialog has succeeded: what it changed is fetched again.
LEMMA SucceedsKeepsIInv ==
  ASSUME IInv, Succeeds
  PROVE  IInv'
<1>1. /\ course \in Courses /\ dialog # None /\ dialog \in Dialog /\ Loaded
      /\ UNCHANGED <<server, course, loose, untold, writes>> /\ writes \in Nat
      /\ loose \subseteq Request
  BY DEF Succeeds, IInv, TypeOK, RequestsAreOwn, bounds
<1>2. /\ dialog' \in Dialog /\ dialog' # None /\ dialog'.stage = "refetching"
      /\ dialog'.op = dialog.op /\ dialog'.id = dialog.id /\ dialog'.to = dialog.to
  BY <1>1, NoneAssumption DEF Succeeds, Dialog
<1>3. NoNewRequest
  BY <1>1, <1>2 DEF NoNewRequest, SameRequest
<1> DEFINE kind == KindOf(dialog.op)
<1>4. \A d \in Courses : \A k \in {"files", "folders"} :
        <<k, d>> # <<kind, course>> /\ Excused(k, d) => Excused(k, d)'
  BY <1>1, <1>2 DEF Excused, Answered, Waits
<1>5. ListOfCourse(kind, course) /\ kind \in {"files", "folders"} /\ course = course
  BY DEF Succeeds, KindOf
<1> HIDE DEF kind
<1>6. CASE kind = "files"
  <2> DEFINE e == Invalidate(filesQ[course], course = course, NoFiles)
  <2>1. filesQ' = [filesQ EXCEPT ![course] = e] /\ UNCHANGED foldersQ
    BY <1>5, <1>6 DEF ListOfCourse
  <2>2. e \in Entry(OwnFiles(course)) /\ (filesQ[course].loaded => e.loaded)
    BY <1>1, ListsOf, EntriesStay
  <2>3. Good(e, TrueFiles(course)')
    BY <1>1, ListsOf, InvalidatedClaimsNothing DEF IsLostOn, Loaded
  <2> HIDE DEF e
  <2> QED
    BY <1>1, <1>2, <1>3, <1>4, <1>6, <2>1, <2>2, <2>3, FilesStep
<1>7. CASE kind = "folders"
  <2> DEFINE e == Invalidate(foldersQ[course], course = course, NoFolders)
  <2>1. foldersQ' = [foldersQ EXCEPT ![course] = e] /\ UNCHANGED filesQ
    BY <1>5, <1>7 DEF ListOfCourse
  <2>2. e \in Entry(OwnFolders(course)) /\ (foldersQ[course].loaded => e.loaded)
    BY <1>1, ListsOf, EntriesStay
  <2>3. Good(e, TrueFolders(course)')
    BY <1>1, ListsOf, InvalidatedClaimsNothing DEF IsLostOn, Loaded
  <2> HIDE DEF e
  <2> QED
    BY <1>1, <1>2, <1>3, <1>4, <1>7, <2>1, <2>2, <2>3, FoldersStep
<1> QED
  BY <1>5, <1>6, <1>7

\* The interval fetches the list of files again.
LEMMA PollKeepsIInv ==
  ASSUME IInv, Poll
  PROVE  IInv'
<1> DEFINE e == [filesQ[course] EXCEPT !.wire = "asked"]
<1>1. /\ filesQ[course].wire = "idle" /\ filesQ' = [filesQ EXCEPT ![course] = e]
      /\ UNCHANGED <<server, course, foldersQ, dialog, loose, untold, writes>>
  BY DEF Poll, bounds
<1>2. course \in Courses /\ UNCHANGED <<file, folder>>
  BY <1>1, RequestsRest DEF server
<1>3. Good(e, TrueFiles(course)) /\ e \in Entry(OwnFiles(course))
      /\ (filesQ[course].loaded => e.loaded)
  BY <1>1, <1>2, ListsOf, GoodStays, EntriesStay
<1> HIDE DEF e
<1>4. \A d \in Courses : \A k \in {"files", "folders"} : Excused(k, d) => Excused(k, d)'
  BY <1>1 DEF Excused, Answered
<1>5. Good(e, TrueFiles(course)')
  BY <1>1, <1>2, <1>3, <1>4, TruthsStay, GoodGrows
<1> QED
  BY <1>1, <1>2, <1>3, <1>4, <1>5, RequestsRest, FilesStep

\* The server answers a fetch with what it has then.
LEMMA ServerListsKeepsIInv ==
  ASSUME IInv, NEW c \in Courses, ServerLists(c)
  PROVE  IInv'
<1>1. /\ UNCHANGED <<server, course, dialog, loose, writes>> /\ TypeOK /\ TreeIsRooted
      /\ UNCHANGED <<file, folder>>
  BY DEF ServerLists, IInv, bounds, server
<1>2. /\ FilesOf(c) \in OwnFiles(c) /\ FilesOf(c) \in TrueFiles(c)'
      /\ FoldersOf(c) \in OwnFolders(c) /\ FoldersOf(c) \in TrueFolders(c)'
  <2>1. FilesOf(c)' = FilesOf(c) /\ FoldersOf(c)' = FoldersOf(c)
    BY <1>1 DEF FilesOf, FoldersOf
  <2> QED
    BY <1>1, <2>1, ServerListsAreOwn DEF TrueFiles, TrueFolders, OwnFiles, OwnFolders
<1>3. /\ Good(Read(filesQ[c], FilesOf(c)), TrueFiles(c)')
      /\ Good(Read(foldersQ[c], FoldersOf(c)), TrueFolders(c)')
  BY <1>2, ListsOf DEF Good, Kept, Read, Entry
<1>4. CASE /\ filesQ' = [filesQ EXCEPT ![c] = Read(@, FilesOf(c))]
           /\ untold' = untold \ {<<"files", c>>} /\ UNCHANGED foldersQ
  <2> DEFINE e == Read(filesQ[c], FilesOf(c))
  <2>1. e \in Entry(OwnFiles(c)) /\ (filesQ[c].loaded => e.loaded)
    BY <1>2, ListsOf, EntriesStay
  <2>2. filesQ' = [filesQ EXCEPT ![c] = e] /\ Good(e, TrueFiles(c)')
    BY <1>3, <1>4
  <2>3. \A d \in Courses : \A k \in {"files", "folders"} :
          <<k, d>> # <<"files", c>> /\ Excused(k, d) => Excused(k, d)'
    BY <1>1, <1>4 DEF Excused, Answered
  <2> HIDE DEF e
  <2> QED
    BY <1>1, <1>4, <2>1, <2>2, <2>3, RequestsRest, FilesStep
<1>5. CASE /\ foldersQ' = [foldersQ EXCEPT ![c] = Read(@, FoldersOf(c))]
           /\ untold' = untold \ {<<"folders", c>>} /\ UNCHANGED filesQ
  <2> DEFINE e == Read(foldersQ[c], FoldersOf(c))
  <2>1. e \in Entry(OwnFolders(c)) /\ (foldersQ[c].loaded => e.loaded)
    BY <1>2, ListsOf, EntriesStay
  <2>2. foldersQ' = [foldersQ EXCEPT ![c] = e] /\ Good(e, TrueFolders(c)')
    BY <1>3, <1>5
  <2>3. \A d \in Courses : \A k \in {"files", "folders"} :
          <<k, d>> # <<"folders", c>> /\ Excused(k, d) => Excused(k, d)'
    BY <1>1, <1>5 DEF Excused, Answered
  <2> HIDE DEF e
  <2> QED
    BY <1>1, <1>5, <2>1, <2>2, <2>3, RequestsRest, FoldersStep
<1> QED
  BY <1>4, <1>5 DEF ServerLists

\* The requests of a step that may take a dialog along.
LEMMA RequestsOutlive ==
  ASSUME IInv, UNCHANGED course, untold \subseteq untold',
         UNCHANGED <<dialog, loose>> \/ (InRow /\ Unmount)
  PROVE  /\ dialog' \in Dialog \cup {None} /\ loose' \subseteq Request /\ NoNewRequest
         /\ course \in Courses /\ writes \in Nat
         /\ \A c \in Courses : \A kind \in {"files", "folders"} :
              Excused(kind, c) => Excused(kind, c)'
<1>1. CASE UNCHANGED <<dialog, loose>>
  BY <1>1, RequestsRest DEF Excused, Answered
<1>2. CASE InRow /\ Unmount
  BY <1>2, RowTakesDialog DEF InRow, Excused, IInv, TypeOK
<1> QED
  BY <1>1, <1>2

\* The answer arrives.
LEMMA ListArrivesKeepsIInv ==
  ASSUME IInv, NEW c \in Courses, ListArrives(c)
  PROVE  IInv'
<1>1. /\ UNCHANGED <<server, course, untold, writes>> /\ UNCHANGED <<file, folder>>
      /\ UNCHANGED <<dialog, loose>> \/ (InRow /\ Unmount)
  BY DEF ListArrives, bounds, server
<1>2. CASE /\ filesQ[c].wire = "read" /\ filesQ' = [filesQ EXCEPT ![c] = Deliver(@, NoFiles)]
           /\ UNCHANGED foldersQ
  <2> DEFINE e == Deliver(filesQ[c], NoFiles)
  <2>1. e \in Entry(OwnFiles(c)) /\ e.loaded /\ filesQ' = [filesQ EXCEPT ![c] = e]
        /\ Good(e, TrueFiles(c))
    BY <1>2, ListsOf, EntriesStay, GoodStays
  <2> HIDE DEF e
  <2>2. Good(e, TrueFiles(c)')
    BY <1>1, <2>1, RequestsOutlive, TruthsStay, GoodGrows
  <2> QED
    BY <1>1, <1>2, <2>1, <2>2, RequestsOutlive, FilesStep
<1>3. CASE /\ foldersQ[c].wire = "read" /\ UNCHANGED filesQ
           /\ foldersQ' = [foldersQ EXCEPT ![c] = Deliver(@, NoFolders)]
  <2> DEFINE e == Deliver(foldersQ[c], NoFolders)
  <2>1. e \in Entry(OwnFolders(c)) /\ e.loaded /\ foldersQ' = [foldersQ EXCEPT ![c] = e]
        /\ Good(e, TrueFolders(c))
    BY <1>3, ListsOf, EntriesStay, GoodStays
  <2> HIDE DEF e
  <2>2. Good(e, TrueFolders(c)')
    BY <1>1, <2>1, RequestsOutlive, TruthsStay, GoodGrows
  <2> QED
    BY <1>1, <1>3, <2>1, <2>2, RequestsOutlive, FoldersStep
<1> QED
  BY <1>2, <1>3 DEF ListArrives

\* A fetch that is given up, by a failure or for another: if it was answered any
\* list is true of it now, and if not what counts as new is as true as it was.
LEMMA GivenUpIsGood ==
  ASSUME IInv, NEW c \in Courses, UNCHANGED <<file, folder>>,
         \A kind \in {"files", "folders"} : Excused(kind, c) => Excused(kind, c)'
  PROVE  /\ \A e \in {Cancel(filesQ[c], NoFiles), Refetch(filesQ[c], NoFiles)} :
              /\ e \in Entry(OwnFiles(c)) /\ (filesQ[c].loaded => e.loaded)
              /\ (filesQ[c].wire = "read" => <<"files", c>> \in untold') =>
                   Good(e, TrueFiles(c)')
         /\ \A e \in {Cancel(foldersQ[c], NoFolders), Refetch(foldersQ[c], NoFolders)} :
              /\ e \in Entry(OwnFolders(c)) /\ (foldersQ[c].loaded => e.loaded)
              /\ (foldersQ[c].wire = "read" => <<"folders", c>> \in untold') =>
                   Good(e, TrueFolders(c)')
<1>1. TrueFiles(c) \subseteq TrueFiles(c)' /\ TrueFolders(c) \subseteq TrueFolders(c)'
  BY TruthsStay
<1>2. ASSUME NEW e \in {Cancel(filesQ[c], NoFiles), Refetch(filesQ[c], NoFiles)}
      PROVE  /\ e \in Entry(OwnFiles(c)) /\ (filesQ[c].loaded => e.loaded)
             /\ (filesQ[c].wire = "read" => <<"files", c>> \in untold') =>
                  Good(e, TrueFiles(c)')
  <2>0. filesQ[c] \in Entry(OwnFiles(c)) /\ NoFiles \in OwnFiles(c)
    BY ListsOf
  <2>1. e \in Entry(OwnFiles(c)) /\ (filesQ[c].loaded => e.loaded)
    BY <1>2, <2>0 DEF Entry, Cancel, Refetch
  <2>2. <<"files", c>> \in untold' => Good(e, TrueFiles(c)')
    BY <2>1 DEF Good, Entry, OwnFiles, TrueFiles, Excused
  <2>3. filesQ[c].wire # "read" => Good(e, TrueFiles(c)')
    BY <1>1, ListsOf, GoodStays, GoodGrows
  <2> QED
    BY <2>1, <2>2, <2>3
<1>3. ASSUME NEW e \in {Cancel(foldersQ[c], NoFolders), Refetch(foldersQ[c], NoFolders)}
      PROVE  /\ e \in Entry(OwnFolders(c)) /\ (foldersQ[c].loaded => e.loaded)
             /\ (foldersQ[c].wire = "read" => <<"folders", c>> \in untold') =>
                  Good(e, TrueFolders(c)')
  <2>0. foldersQ[c] \in Entry(OwnFolders(c)) /\ NoFolders \in OwnFolders(c)
    BY ListsOf
  <2>1. e \in Entry(OwnFolders(c)) /\ (foldersQ[c].loaded => e.loaded)
    BY <1>3, <2>0 DEF Entry, Cancel, Refetch
  <2>2. <<"folders", c>> \in untold' => Good(e, TrueFolders(c)')
    BY <2>1 DEF Good, Entry, OwnFolders, TrueFolders, Excused
  <2>3. foldersQ[c].wire # "read" => Good(e, TrueFolders(c)')
    BY <1>1, ListsOf, GoodStays, GoodGrows
  <2> QED
    BY <2>1, <2>2, <2>3
<1> QED
  BY <1>2, <1>3

\* A fetch fails, with the dialog of a row.
LEMMA FetchFailsKeepsIInv ==
  ASSUME IInv, NEW c \in Courses, FetchFails(c)
  PROVE  IInv'
<1>1. /\ UNCHANGED <<server, course, writes>> /\ UNCHANGED <<file, folder>>
      /\ untold \subseteq untold' /\ (UNCHANGED <<dialog, loose>> \/ (InRow /\ Unmount))
  BY DEF FetchFails, server
<1>2. CASE /\ filesQ' = [filesQ EXCEPT ![c] = Cancel(@, NoFiles)] /\ UNCHANGED foldersQ
           /\ untold' = untold \cup {u \in {<<"files", c>>} : filesQ[c].wire = "read"}
  <2> DEFINE e == Cancel(filesQ[c], NoFiles)
  <2>1. filesQ' = [filesQ EXCEPT ![c] = e] /\ e \in Entry(OwnFiles(c))
        /\ (filesQ[c].loaded => e.loaded) /\ Good(e, TrueFiles(c)')
    BY <1>1, <1>2, RequestsOutlive, GivenUpIsGood
  <2> HIDE DEF e
  <2> QED
    BY <1>1, <1>2, <2>1, RequestsOutlive, FilesStep
<1>3. CASE /\ foldersQ' = [foldersQ EXCEPT ![c] = Cancel(@, NoFolders)] /\ UNCHANGED filesQ
           /\ untold' = untold \cup {u \in {<<"folders", c>>} : foldersQ[c].wire = "read"}
  <2> DEFINE e == Cancel(foldersQ[c], NoFolders)
  <2>1. foldersQ' = [foldersQ EXCEPT ![c] = e] /\ e \in Entry(OwnFolders(c))
        /\ (foldersQ[c].loaded => e.loaded) /\ Good(e, TrueFolders(c)')
    BY <1>1, <1>3, RequestsOutlive, GivenUpIsGood
  <2> HIDE DEF e
  <2> QED
    BY <1>1, <1>3, <2>1, RequestsOutlive, FoldersStep
<1> QED
  BY <1>2, <1>3 DEF FetchFails

\* A list grows old.
LEMMA StaleKeepsIInv ==
  ASSUME IInv, NEW c \in Courses, Stale(c)
  PROVE  IInv'
<1>1. /\ UNCHANGED <<server, course, dialog, loose, untold, writes>>
      /\ UNCHANGED <<file, folder>>
  BY DEF Stale, server
<1>2. \A d \in Courses : \A k \in {"files", "folders"} : Excused(k, d) => Excused(k, d)'
  BY <1>1 DEF Excused, Answered
<1>3. CASE filesQ' = [filesQ EXCEPT ![c].old = TRUE] /\ UNCHANGED foldersQ
  <2> DEFINE e == [filesQ[c] EXCEPT !.old = TRUE]
  <2>1. filesQ' = [filesQ EXCEPT ![c] = e] /\ e \in Entry(OwnFiles(c))
        /\ (filesQ[c].loaded => e.loaded) /\ Good(e, TrueFiles(c))
    BY <1>3, ListsOf, EntriesStay, GoodStays
  <2> HIDE DEF e
  <2>2. Good(e, TrueFiles(c)')
    BY <1>1, <1>2, <2>1, TruthsStay, GoodGrows
  <2> QED
    BY <1>1, <1>2, <1>3, <2>1, <2>2, RequestsRest, FilesStep
<1>4. CASE foldersQ' = [foldersQ EXCEPT ![c].old = TRUE] /\ UNCHANGED filesQ
  <2> DEFINE e == [foldersQ[c] EXCEPT !.old = TRUE]
  <2>1. foldersQ' = [foldersQ EXCEPT ![c] = e] /\ e \in Entry(OwnFolders(c))
        /\ (foldersQ[c].loaded => e.loaded) /\ Good(e, TrueFolders(c))
    BY <1>4, ListsOf, EntriesStay, GoodStays
  <2> HIDE DEF e
  <2>2. Good(e, TrueFolders(c)')
    BY <1>1, <1>2, <2>1, TruthsStay, GoodGrows
  <2> QED
    BY <1>1, <1>2, <1>4, <2>1, <2>2, RequestsRest, FoldersStep
<1> QED
  BY <1>3, <1>4 DEF Stale

\* "Try again" gives up what may be on its way.
LEMMA RetryLoadKeepsIInv ==
  ASSUME IInv, RetryLoad
  PROVE  IInv'
<1> DEFINE e == Refetch(filesQ[course], NoFiles)
           g == Refetch(foldersQ[course], NoFolders)
<1>1. /\ UNCHANGED <<server, course, dialog, loose, writes>> /\ UNCHANGED <<file, folder>>
      /\ filesQ' = [filesQ EXCEPT ![course] = e] /\ foldersQ' = [foldersQ EXCEPT ![course] = g]
      /\ untold \subseteq untold'
      /\ filesQ[course].wire = "read" => <<"files", course>> \in untold'
      /\ foldersQ[course].wire = "read" => <<"folders", course>> \in untold'
  BY DEF RetryLoad, server
<1>2. \A d \in Courses : \A k \in {"files", "folders"} : Excused(k, d) => Excused(k, d)'
  BY <1>1 DEF Excused, Answered
<1>3. course \in Courses
  BY <1>1, RequestsRest
<1>4. /\ e \in Entry(OwnFiles(course)) /\ (filesQ[course].loaded => e.loaded)
      /\ g \in Entry(OwnFolders(course)) /\ (foldersQ[course].loaded => g.loaded)
      /\ Good(e, TrueFiles(course)') /\ Good(g, TrueFolders(course)')
  BY <1>1, <1>2, <1>3, GivenUpIsGood
<1> HIDE DEF e, g
<1> QED
  BY <1>1, <1>2, <1>3, <1>4, RequestsRest, CourseStep

\* The user goes to another course.
LEMMA SwitchCourseKeepsIInv ==
  ASSUME IInv, NEW c \in Courses, SwitchCourse(c)
  PROVE  IInv'
<1> DEFINE e == InView(filesQ[c])
           g == InView(foldersQ[c])
<1>1. /\ dialog = None /\ UNCHANGED <<server, dialog, loose, untold, writes>>
      /\ course' = c /\ UNCHANGED <<file, folder>>
      /\ filesQ' = [filesQ EXCEPT ![c] = e] /\ foldersQ' = [foldersQ EXCEPT ![c] = g]
  BY DEF SwitchCourse, server
<1>2. /\ e \in Entry(OwnFiles(c)) /\ g \in Entry(OwnFolders(c))
      /\ Good(e, TrueFiles(c)) /\ Good(g, TrueFolders(c))
      /\ filesQ[c].loaded => e.loaded
      /\ foldersQ[c].loaded => g.loaded
  BY ListsOf, EntriesStay, GoodStays
<1> HIDE DEF e, g
<1>3. \A d \in Courses : \A k \in {"files", "folders"} : Excused(k, d) => Excused(k, d)'
  BY <1>1 DEF Excused, Answered
<1>4. Good(e, TrueFiles(c)') /\ Good(g, TrueFolders(c)')
  BY <1>1, <1>2, <1>3, TruthsStay, GoodGrows
<1> QED
  BY <1>1, <1>2, <1>3, <1>4, RequestsRest, CourseStep

----------------------------------------------------------------------------
(* Safety                                                                  *)

\* At first no list is loaded, and every folder is at the top.
LEMMA InitIInv ==
  ASSUME Init
  PROVE  IInv
<1>1. TypeOK
  <2>1. file \in FileList
    BY FirstRowsAssumption DEF Init, FileList
  <2>2. folder \in FolderList
    BY FirstRowsAssumption DEF Init, FolderList, FolderRow
  <2> QED
    BY <2>1, <2>2, ExplorerAssumption DEF Init, TypeOK, TasksAreOfFiles
<1>2. TreeIsRooted
  <2>1. \A g \in Folders : folder[g] # None => folder[g].parent = None
    BY FirstRowsAssumption DEF Init
  <2>2. [g \in Folders |-> 0] \in [Folders -> Nat]
    OBVIOUS
  <2>3. IsRank([g \in Folders |-> 0], folder)
    BY <2>1, NoneAssumption DEF IsRank
  <2> QED
    BY <2>1, <2>2, <2>3 DEF TreeIsRooted, Rooted, Exists
<1>3. ASSUME NEW c \in Courses
      PROVE  /\ filesQ[c] \in Entry(OwnFiles(c)) /\ foldersQ[c] \in Entry(OwnFolders(c))
             /\ Good(filesQ[c], TrueFiles(c)) /\ Good(foldersQ[c], TrueFolders(c))
  <2>1. NoFiles \in OwnFiles(c) /\ NoFolders \in OwnFolders(c)
    BY <1>1, <1>2, ServerListsAreOwn
  <2>2. filesQ[c] \in {NoEntry(NoFiles), InView(NoEntry(NoFiles))}
        /\ foldersQ[c] \in {NoEntry(NoFolders), InView(NoEntry(NoFolders))}
    BY DEF Init
  <2>3. ASSUME NEW D, NEW S, NEW blank \in D,
               NEW e \in {NoEntry(blank), InView(NoEntry(blank))}
        PROVE  e \in Entry(D) /\ Good(e, S)
    <3>1. PICK w \in {"idle", "asked"} :
            e = [loaded |-> FALSE, data |-> blank, old |-> TRUE, wire |-> w, reply |-> blank]
      BY DEF NoEntry, InView
    <3>2. e \in Entry(D)
      BY <3>1 DEF Entry
    <3>3. e.loaded = FALSE /\ e.wire # "read"
      BY <3>1
    <3> QED
      BY <3>2, <3>3 DEF Good, Kept
  <2>4. filesQ[c] \in Entry(OwnFiles(c)) /\ Good(filesQ[c], TrueFiles(c))
    BY <2>1, <2>2, <2>3
  <2>5. foldersQ[c] \in Entry(OwnFolders(c)) /\ Good(foldersQ[c], TrueFolders(c))
    BY <2>1, <2>2, <2>3
  <2> QED
    BY <2>4, <2>5
<1>4. ListsAreOwn /\ ListsAreTrue
  BY <1>3 DEF Init, ListsAreOwn, ListsAreTrue
<1>5. RequestsAreOwn
  BY DEF Init, RequestsAreOwn
<1> QED
  BY <1>1, <1>2, <1>4, <1>5 DEF IInv

\* Every step keeps the invariant.
LEMMA NextKeepsIInv ==
  ASSUME IInv, [Next]_vars
  PROVE  IInv'
<1>1. CASE UserNext
  BY <1>1, FileDialogsKeepIInv, FolderDialogsKeepIInv, DialogStepsKeepIInv,
     StartIndexingKeepsIInv, RetryLoadKeepsIInv, SwitchCourseKeepsIInv DEF UserNext
<1>2. CASE SystemNext
  BY <1>2, ServerAnswersKeepsIInv, SucceedsKeepsIInv, DialogStepsKeepIInv,
     LooseStoredKeepsIInv, LooseAnsweredKeepsIInv, LooseFailsKeepsIInv, TasksKeepIInv,
     PollKeepsIInv, ServerListsKeepsIInv, ListArrivesKeepsIInv, FetchFailsKeepsIInv,
     StaleKeepsIInv DEF SystemNext
<1>3. CASE UNCHANGED vars
  <2>1. UNCHANGED <<file, folder, queued, running, course, lists, dialog, loose, untold, writes>>
    BY <1>3 DEF vars, server, bounds
  <2>2. /\ NoNewRequest /\ ExcusesStay /\ TasksAreOfFiles' /\ writes' \in Nat
        /\ dialog' \in Dialog \cup {None} /\ loose' \subseteq Request
    BY <2>1 DEF NoNewRequest, SameRequest, ExcusesStay, Excused, Answered, IInv, TypeOK,
       TasksAreOfFiles
  <2> QED
    BY <2>1, <2>2, RequestStep
<1> QED
  BY <1>1, <1>2, <1>3 DEF Next

\* The invariant holds of every run of the pane, whatever fails.
THEOREM ExplorerInvariantHolds == Spec => []IInv
<1>1. Init => IInv
  BY InitIInv
<1>2. IInv /\ [Next]_vars => IInv'
  BY NextKeepsIInv
<1>3. Spec => Init /\ [][Next]_vars
  BY DEF Spec
<1> QED
  BY <1>1, <1>2, <1>3, PTL

\* In every course, a list that is neither old nor being fetched is what the server
\* has: while the answer to a change is not in, a listed file waits for its indexing,
\* or a change was never told, it need not be.
THEOREM CalmListsAreAlwaysTheServer == Spec => []CalmListsAreTheServer
<1>1. ASSUME IInv PROVE CalmListsAreTheServer
  <2>1. \A c \in Courses : Good(filesQ[c], TrueFiles(c)) /\ Good(foldersQ[c], TrueFolders(c))
    BY <1>1, ListsOf
  <2> QED
    BY <2>1 DEF CalmListsAreTheServer, Good, Kept, Settled, TrueFiles, TrueFolders, Excused
<1>2. Spec => []IInv
  BY ExplorerInvariantHolds
<1> QED
  BY <1>1, <1>2, PTL

----------------------------------------------------------------------------
(* What is drawn                                                           *)

Less == {ss \in Nat \X Nat : ss[1] < ss[2]}

\* A set that has 0, and the successor of each of its members, has every natural.
LEMMA SetInduction ==
  ASSUME NEW S, 0 \in S, \A n \in Nat : n \in S => n + 1 \in S
  PROVE  Nat \subseteq S
<1> DEFINE T == Nat \ S
<1> SUFFICES ASSUME T # {} PROVE FALSE
  OBVIOUS
<1>1. IsWellFoundedOn(Less, Nat)
  BY NatLessThanWellFounded DEF OpToRel, Less
<1>2. PICK m \in T : \A n \in T : ~(<<n, m>> \in Less)
  BY <1>1, WFMin
<1>3. m - 1 \in Nat /\ m - 1 < m
  BY <1>2
<1>4. <<m - 1, m>> \in Less
  BY <1>2, <1>3 DEF Less
<1> QED
  BY <1>2, <1>3, <1>4

\* Of some things with ranks one has the lowest.
LEMMA OneIsLowest ==
  ASSUME NEW T, T # {}, NEW r, \A n \in T : r[n] \in Nat
  PROVE  \E n \in T : \A m \in T : ~(r[m] < r[n])
<1> DEFINE R == {r[n] : n \in T}
<1>1. R \subseteq Nat /\ R # {}
  OBVIOUS
<1>2. IsWellFoundedOn(Less, Nat)
  BY NatLessThanWellFounded DEF OpToRel, Less
<1>3. PICK i \in R : \A j \in R : ~(<<j, i>> \in Less)
  <2> HIDE DEF R
  <2> QED
    BY <1>1, <1>2, WFMin
<1>4. \A j \in R : ~(j < i)
  BY <1>1, <1>3 DEF Less
<1> QED
  BY <1>3, <1>4

\* The levels below some categories, each following from the one above; the last
\* has all.
IsLevels(b, top, q, collapsed) ==
  /\ b[0] = top
  /\ \A i \in 1 .. Cardinality(Names) :
       b[i] = b[i - 1] \cup UNION {Children(n, q) : n \in b[i - 1] \ collapsed}
  /\ Below(top, q, collapsed) = b[Cardinality(Names)]

\* They exist.
LEMMA LevelsExist ==
  ASSUME NEW top, NEW q, NEW collapsed
  PROVE  \E b : IsLevels(b, top, q, collapsed)
<1> DEFINE Deeper(above) == above \cup UNION {Children(n, q) : n \in above \ collapsed}
           Step(b, i) == IF i = 0 THEN top ELSE Deeper(b[i - 1])
           Upto(b, n) == b = [i \in 0 .. n |-> Step(b, i)]
           N == {n \in Nat : \E b : Upto(b, n)}
<1>1. 0 \in N
  <2>1. Upto([i \in 0 .. 0 |-> top], 0)
    OBVIOUS
  <2> QED
    BY <2>1
<1>2. ASSUME NEW n \in Nat, n \in N PROVE n + 1 \in N
  <2>1. PICK b : Upto(b, n)
    BY <1>2
  <2> DEFINE l == [i \in 0 .. n + 1 |-> IF i = n + 1 THEN Step(b, i) ELSE b[i]]
  <2>2. ASSUME NEW i \in 0 .. n + 1 PROVE l[i] = Step(l, i)
    <3> HIDE DEF Deeper
    <3>1. CASE i = 0
      BY <2>1, <3>1
    <3>2. CASE i # 0
      <4>1. i - 1 \in 0 .. n /\ l[i - 1] = b[i - 1]
        BY <3>2
      <4>2. CASE i = n + 1
        BY <3>2, <4>1, <4>2
      <4>3. CASE i \in 0 .. n
        <5>1. b[i] = Step(b, i) /\ l[i] = b[i]
          <6> HIDE DEF Step
          <6> QED
            BY <2>1, <4>3
        <5> QED
          BY <3>2, <4>1, <5>1
      <4> QED
        BY <4>2, <4>3
    <3> QED
      BY <3>1, <3>2
  <2>3. l = [i \in 0 .. n + 1 |-> l[i]]
    OBVIOUS
  <2>4. Upto(l, n + 1)
    <3> HIDE DEF l, Step
    <3> QED
      BY <2>2, <2>3
  <2>5. \E j : Upto(j, n + 1)
    <3> HIDE DEF l, Upto
    <3> QED
      BY <2>4
  <2> QED
    BY <2>5
<1>3. Nat \subseteq N
  <2> HIDE DEF N
  <2> QED
    BY <1>1, <1>2, SetInduction
<1>4. Cardinality(Names) \in Nat
  BY NamesAssumption, FS_CardinalityType
<1>5. \E b : Upto(b, Cardinality(Names))
  BY <1>3, <1>4
<1>6. PICK b : b = (CHOOSE below : Upto(below, Cardinality(Names)))
  OBVIOUS
<1>7. Upto(b, Cardinality(Names))
  BY <1>5, <1>6
<1>8. Below(top, q, collapsed) = b[Cardinality(Names)]
  BY <1>6 DEF Below
<1>9. \A i \in 0 .. Cardinality(Names) : b[i] = Step(b, i)
  <2> HIDE DEF Step
  <2> QED
    BY <1>7
<1>10. b[0] = top
  <2>1. 0 \in 0 .. Cardinality(Names)
    BY <1>4
  <2> HIDE DEF Deeper
  <2> QED
    BY <1>9, <2>1
<1>11. \A i \in 1 .. Cardinality(Names) : b[i] = Deeper(b[i - 1])
  <2> HIDE DEF Deeper
  <2> QED
    BY <1>4, <1>9
<1>12. IsLevels(b, top, q, collapsed)
  BY <1>8, <1>10, <1>11 DEF IsLevels
<1> QED
  BY <1>12

\* When each listed folder has a name of its own, a category inside of a visible
\* one has a higher rank.
LEMMA NamesAreRanked ==
  ASSUME IInv, \A g, h \in ListedFolders : NameOf(g) = NameOf(h) => g = h, NEW q
  PROVE  /\ Visible(q) \subseteq Names
         /\ \E r \in [Names -> Nat] :
              \A n \in Visible(q) : ParentOf(n) \in Visible(q) => r[ParentOf(n)] < r[n]
<1> DEFINE rows == foldersQ[course].data
<1>1. course \in Courses
  BY DEF IInv, TypeOK
<1>2. rows \in OwnFolders(course)
  BY <1>1, ListsOf DEF Entry
<1>3. PICK rank \in [Folders -> Nat] : IsRank(rank, rows)
  BY <1>2 DEF OwnFolders, Rooted
<1> DEFINE r == [n \in Names |-> IF n \in Categories THEN rank[FirstNamed(n)] ELSE 0]
<1>4. ASSUME NEW n \in Categories
      PROVE  /\ FirstNamed(n) \in ListedFolders /\ NameOf(FirstNamed(n)) = n
             /\ FirstNamed(n) \in Folders
  <2>1. Named(n) # {}
    BY DEF Categories, Named
  <2>2. FirstNamed(n) \in Named(n)
    BY <2>1 DEF FirstNamed
  <2> QED
    BY <2>2 DEF Named, ListedFolders
<1>5. Categories \subseteq Names /\ Visible(q) \subseteq Categories
  BY <1>2 DEF Categories, Visible, NameOf, ListedFolders, OwnFolders, FolderList, FolderRow
<1>6. r \in [Names -> Nat]
  BY <1>3, <1>4
<1>7. ASSUME NEW n \in Visible(q), ParentOf(n) \in Visible(q)
      PROVE  r[ParentOf(n)] < r[n]
  <2> DEFINE up == rows[FirstNamed(n)].parent
  <2>1. n \in Categories /\ ParentOf(n) \in Categories /\ ParentOf(n) # None
    BY <1>5, <1>7, NoneAssumption
  <2>2. up \in ListedFolders /\ NameOf(up) = ParentOf(n)
    BY <2>1 DEF ParentOf
  <2>3. FirstNamed(ParentOf(n)) = up
    BY <1>4, <2>1, <2>2
  <2>4. rank[up] < rank[FirstNamed(n)]
    BY <1>3, <1>4, <2>1, <2>2 DEF IsRank, ListedFolders
  <2> QED
    BY <1>5, <2>1, <2>3, <2>4
<1> HIDE DEF r
<1> QED
  BY <1>5, <1>6, <1>7

\* Each level that has a category whose children it lacks, and that is not
\* collapsed, holds less than the one below it: the last level has none.
LEMMA BelowIsFull ==
  ASSUME NEW q, Visible(q) \subseteq Names, NEW top \in SUBSET Visible(q), NEW collapsed
  PROVE  /\ top \subseteq Below(top, q, collapsed)
         /\ Below(top, q, collapsed) \subseteq Visible(q)
         /\ \A n \in Below(top, q, collapsed) \ collapsed :
              Children(n, q) \subseteq Below(top, q, collapsed)
<1> DEFINE V == Visible(q)
           N == Cardinality(Names)
           Full(S) == \A n \in S \ collapsed : Children(n, q) \subseteq S
<1>0. PICK b : IsLevels(b, top, q, collapsed)
  BY LevelsExist
<1>1. /\ b[0] = top
      /\ \A i \in 1 .. N :
           b[i] = b[i - 1] \cup UNION {Children(n, q) : n \in b[i - 1] \ collapsed}
      /\ Below(top, q, collapsed) = b[N]
  BY <1>0 DEF IsLevels
<1>2. /\ N \in Nat
      /\ \A S \in SUBSET Names : /\ IsFiniteSet(S) /\ Cardinality(S) \in Nat
                                 /\ Cardinality(S) <= N
  BY NamesAssumption, FS_CardinalityType, FS_Subset
<1> DEFINE Fine(i) == /\ top \subseteq b[i] /\ b[i] \subseteq V
                      /\ Full(b[i]) \/ Cardinality(b[i]) > i
           I == {i \in Nat : i <= N => Fine(i)}
<1>3. 0 \in I
  <2>1. top \in SUBSET Names /\ (top # {} => Cardinality(top) > 0)
    BY <1>2, FS_EmptySet
  <2>2. top = {} => Full(top)
    OBVIOUS
  <2> HIDE DEF Full
  <2> QED
    BY <1>1, <2>1, <2>2
<1>4. ASSUME NEW i \in Nat, i \in I PROVE i + 1 \in I
  <2> SUFFICES ASSUME i + 1 <= N PROVE Fine(i + 1)
    OBVIOUS
  <2>1. Fine(i)
    BY <1>2, <1>4
  <2>2. b[i + 1] = b[i] \cup UNION {Children(n, q) : n \in b[i] \ collapsed}
    <3>1. i + 1 \in 1 .. N /\ (i + 1) - 1 = i
      BY <1>2
    <3> QED
      BY <1>1, <3>1
  <2>3. b[i + 1] \subseteq V /\ b[i] \subseteq b[i + 1] /\ top \subseteq b[i + 1]
    BY <2>1, <2>2 DEF Children
  <2>4. CASE Full(b[i])
    <3>1. b[i + 1] = b[i]
      BY <2>2, <2>4
    <3> QED
      BY <2>1, <2>4, <3>1
  <2>5. CASE ~Full(b[i])
    <3>1. PICK n \in b[i + 1] : n \notin b[i]
      BY <2>2, <2>5
    <3>2. b[i] \cup {n} \subseteq b[i + 1] /\ b[i + 1] \in SUBSET Names /\ b[i] \in SUBSET Names
      BY <2>1, <2>3, <3>1
    <3>3. Cardinality(b[i]) > i
      BY <2>1, <2>5
    <3>4. Cardinality(b[i] \cup {n}) = Cardinality(b[i]) + 1
      BY <1>2, <3>1, <3>2, FS_AddElement
    <3>5. Cardinality(b[i] \cup {n}) <= Cardinality(b[i + 1])
      BY <1>2, <3>2, FS_Subset
    <3>6. Cardinality(b[i]) \in Nat /\ Cardinality(b[i + 1]) \in Nat
      BY <1>2, <3>2
    <3> QED
      BY <2>3, <3>3, <3>4, <3>5, <3>6
  <2> QED
    BY <2>4, <2>5
<1>5. Nat \subseteq I
  <2> HIDE DEF I
  <2> QED
    BY <1>3, <1>4, SetInduction
<1>6. Fine(N)
  BY <1>2, <1>5
<1>7. b[N] \in SUBSET Names
  BY <1>6
<1>8. Cardinality(b[N]) <= N /\ Cardinality(b[N]) \in Nat
  BY <1>2, <1>7
<1>9. Full(b[N])
  BY <1>2, <1>6, <1>8
<1> QED
  BY <1>1, <1>6, <1>9

\* What is visible is on the screen or in a folder there that is collapsed: the lowest
\* of the rest would be a root, or a child of what is there.
LEMMA VisibleIsThere ==
  ASSUME IInv, \A g, h \in ListedFolders : NameOf(g) = NameOf(h) => g = h, NEW q, NEW collapsed
  PROVE  Visible(q) \subseteq Drawn(q, collapsed) \cup Hidden(q, collapsed)
<1> DEFINE V == Visible(q)
           D == Drawn(q, collapsed)
           H == Hidden(q, collapsed)
           T == V \ (D \cup H)
<1>1. V \subseteq Names
  BY NamesAreRanked
<1>2. PICK r \in [Names -> Nat] : \A n \in V : ParentOf(n) \in V => r[ParentOf(n)] < r[n]
  BY NamesAreRanked
<1>3. /\ Roots(q) \subseteq D /\ D \subseteq V
      /\ \A n \in D \ collapsed : Children(n, q) \subseteq D
  <2>1. Roots(q) \in SUBSET Visible(q)
    BY DEF Roots
  <2> QED
    BY <1>1, <2>1, BelowIsFull DEF Drawn
<1>4. /\ D \cap collapsed \subseteq H
      /\ \A n \in H : Children(n, q) \subseteq H
  <2>1. D \cap collapsed \in SUBSET Visible(q)
    BY <1>3
  <2>2. /\ D \cap collapsed \subseteq Below(D \cap collapsed, q, {})
        /\ \A n \in Below(D \cap collapsed, q, {}) \ {} :
             Children(n, q) \subseteq Below(D \cap collapsed, q, {})
    <3> HIDE DEF D
    <3> QED
      BY <1>1, <2>1, BelowIsFull
  <2> QED
    BY <2>2 DEF Hidden
<1> SUFFICES ASSUME T # {} PROVE FALSE
  OBVIOUS
<1>5. PICK n \in T : \A m \in T : ~(r[m] < r[n])
  <2>1. \A n \in T : r[n] \in Nat
    BY <1>1, <1>2
  <2> HIDE DEF T
  <2> QED
    BY <2>1, OneIsLowest
<1>6. n \in V /\ n \notin D \cup H
  BY <1>5
<1>7. ParentOf(n) \in V
  BY <1>3, <1>6 DEF Roots
<1>8. ParentOf(n) \in D \cup H
  BY <1>2, <1>5, <1>7
<1>9. n \in Children(ParentOf(n), q)
  BY <1>6 DEF Children
<1> HIDE DEF D, H, T, V
<1> QED
  BY <1>3, <1>4, <1>6, <1>8, <1>9

\* Whatever is searched for and whatever is collapsed, the folders and files it fits
\* are on the screen or inside of a folder there that is collapsed, also when the
\* folder they are inside of does not fit, as long as no two folders of the course
\* have one name and the file's folder is listed.
THEOREM WhatFitsIsAlwaysShown == Spec => []WhatFitsIsShown
<1>1. ASSUME IInv PROVE WhatFitsIsShown
  <2> SUFFICES ASSUME \A g, h \in ListedFolders : NameOf(g) = NameOf(h) => g = h,
                      NEW q \in SUBSET Names, NEW collapsed \in SUBSET Names
               PROVE  LET there == Drawn(q, collapsed) \cup Hidden(q, collapsed)
                      IN  /\ Categories \cap q \subseteq there
                          /\ \A f \in Hits(q) : Category(f) # None => Category(f) \in there
    BY DEF WhatFitsIsShown
  <2>1. Visible(q) \subseteq Drawn(q, collapsed) \cup Hidden(q, collapsed)
    BY <1>1, VisibleIsThere
  <2>2. Categories \cap q \subseteq Visible(q)
    BY DEF Visible
  <2>3. ASSUME NEW f \in Hits(q), Category(f) # None
        PROVE  Category(f) \in Visible(q)
    BY <2>3 DEF Visible, Category, Categories
  <2> QED
    BY <2>1, <2>2, <2>3
<1>2. Spec => []IInv
  BY ExplorerInvariantHolds
<1> QED
  BY <1>1, <1>2, PTL

=============================================================================
