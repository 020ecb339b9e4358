------------------------------- MODULE Upload -------------------------------
(***************************************************************************)
(* The upload modal: files are chosen, sent all at once to one folder, and *)
(* indexed without being waited for.  The first upload that fails ends the *)
(* wait for the others, which go on: a file may be sent again while its    *)
(* first copy arrives, and answers come in after the modal was closed and  *)
(* the course switched.  The list of files is the one of the course the    *)
(* modal was opened in.                                                    *)
(***************************************************************************)
EXTENDS Naturals, FiniteSets, QueryCache

CONSTANTS
  Locals,   \* the files the user may choose
  Folders,  \* the folders of the course
  None, MaxTries, MaxSwitches, MaxFaults

ASSUME UploadAssumption == {MaxTries, MaxSwitches, MaxFaults} \subseteq Nat

VARIABLES
  \* The modal.
  stage,    \* "closed" while it is not open
  chosen,   \* selectedFiles
  into,     \* the folder the files were last sent to
  tries,    \* clicks on "Upload"
  \* Requests, and what they made: copies of the local files.
  sent,     \* POST /files the server has not processed
  done,     \* ... whose answer is not in
  stored,   \* rows of the server
  starts,   \* copies whose indexing was asked for, until it ends
  indexed,
  \* The list.
  inView,   \* whether the course is the active one
  filesQ,   \* ["courses", courseId, "files"]
  untold,   \* the list changed without being told
  switches, faults

modal == <<stage, chosen, into, tries>>
rows == <<stored, starts, indexed>>
list == <<inView, filesQ, untold>>
bounds == <<switches, faults>>
uploadVars == <<modal, sent, done, rows, list, bounds>>

Copy(l) == [local |-> l, try |-> tries', folder |-> into']
Rows == {<<c, c \in indexed>> : c \in stored}
IsPending(data) == \E r \in data : ~r[2]
Fault == faults < MaxFaults /\ faults' = faults + 1

----------------------------------------------------------------------------
(* The modal                                                               *)

OpenModal ==
  /\ stage = "closed" /\ inView
  /\ stage' = "initial"
  /\ UNCHANGED <<chosen, into, tries, sent, done, rows, list, bounds>>

\* What the modal offers: the drop zone, the chosen files, and the buttons.
DropZone == stage \in {"initial", "selected"}
Removable == IF stage = "selected" THEN chosen ELSE {}
CanUpload == stage \notin {"closed", "uploading", "complete"} /\ chosen # {}
CanClose == stage \notin {"closed", "uploading"}

\* addFiles takes what is not chosen yet.
AddFiles(fs) ==
  /\ DropZone /\ fs \ chosen # {}
  /\ chosen' = chosen \cup fs
  /\ stage' = "selected"
  /\ UNCHANGED <<into, tries, sent, done, rows, list, bounds>>

RemoveFile(l) ==
  /\ l \in Removable
  /\ chosen' = chosen \ {l}
  /\ stage' = IF chosen' = {} THEN "initial" ELSE stage
  /\ UNCHANGED <<into, tries, sent, done, rows, list, bounds>>

ResetAndClose ==
  /\ CanClose
  /\ stage' = "closed" /\ chosen' = {} /\ into' = None
  /\ UNCHANGED <<tries, sent, done, rows, list, bounds>>

\* handleUpload: all files, those of a failed try that did arrive included.
HandleUpload(g) ==
  /\ CanUpload /\ tries < MaxTries
  /\ tries' = tries + 1
  /\ into' = g
  /\ stage' = "uploading"
  /\ sent' = sent \cup {Copy(l) : l \in chosen}
  /\ UNCHANGED <<chosen, done, rows, list, bounds>>

\* Promise.all of the last click: it waits for all, or the first one to fail
\* (and the bug of waiting for the others as if none had).
Awaits(c) == stage = "uploading" /\ c.try = tries
StageAfterRest(c) ==
  IF Awaits(c) /\ {o \in sent \cup done : o.try = tries} = {c} THEN "complete" ELSE stage
StageAfterFailure(c) == IF Awaits(c) THEN "selected" ELSE stage

----------------------------------------------------------------------------
(* Requests                                                                *)

ServerStores(c) ==
  /\ c \in sent
  /\ sent' = sent \ {c} /\ done' = done \cup {c} /\ stored' = stored \cup {c}
  /\ UNCHANGED <<modal, starts, indexed, list, bounds>>

\* onSuccess of the upload invalidates the list -- with the course of the
\* click, or the one in view, whose options the request that was started last
\* may have been given (and the bug of leaving that to the start of indexing).
\* The modal may be opened before the list was fetched for the first time: an
\* invalidation joins that fetch, which may have been read before.
NotInvalidated(told) == UNCHANGED <<filesQ, untold>>
ListInvalidated(told) ==
  /\ filesQ' = IF told THEN Invalidate(filesQ, inView, {}) ELSE filesQ
  /\ untold' = (untold \/ ~told \/ IsLostOn(filesQ, inView))

\* onUploadSuccess, when the answer is in: the modal may wait for others, and
\* indexing is started.
UploadSucceeds(c) ==
  /\ c \in done
  /\ \E told \in {TRUE, inView} : ListInvalidated(told)
  /\ stage' = StageAfterRest(c)
  /\ done' = done \ {c}
  /\ starts' = starts \cup {c}
  /\ UNCHANGED <<chosen, into, tries, sent, stored, indexed, inView, bounds>>

\* The request, or its answer, is lost.
UploadFails(c) ==
  /\ c \in sent \cup done /\ Fault
  /\ stage' = StageAfterFailure(c)
  /\ untold' = (untold \/ c \in done)
  /\ sent' = sent \ {c} /\ done' = done \ {c}
  /\ UNCHANGED <<chosen, into, tries, rows, inView, filesQ, switches>>

\* The task ends; or indexing could not be started, which a toast says.
IndexingEnds(c) ==
  /\ c \in starts
  /\ starts' = starts \ {c}
  /\ \/ indexed' = indexed \cup {c} /\ UNCHANGED faults
     \/ Fault /\ UNCHANGED indexed
  /\ UNCHANGED <<modal, sent, done, stored, list, switches>>

----------------------------------------------------------------------------
(* The list                                                                *)

SwitchCourse ==
  /\ stage = "closed" /\ switches < MaxSwitches
  /\ switches' = switches + 1
  /\ inView' = ~inView
  /\ filesQ' = IF inView' THEN InView(filesQ) ELSE filesQ
  /\ UNCHANGED <<modal, sent, done, rows, untold, faults>>

Poll ==
  /\ inView /\ filesQ.loaded /\ filesQ.wire = "idle" /\ IsPending(filesQ.data)
  /\ filesQ' = [filesQ EXCEPT !.wire = "asked"]
  /\ UNCHANGED <<modal, sent, done, rows, inView, untold, bounds>>

ServerLists ==
  /\ filesQ.wire = "asked"
  /\ filesQ' = Read(filesQ, Rows)
  /\ untold' = FALSE
  /\ UNCHANGED <<modal, sent, done, rows, inView, bounds>>

ListArrives ==
  /\ filesQ.wire = "read"
  /\ filesQ' = Deliver(filesQ, {})
  /\ UNCHANGED <<modal, sent, done, rows, inView, untold, bounds>>

----------------------------------------------------------------------------

UploadInit ==
  /\ stage = "closed" /\ chosen = {} /\ into = None /\ tries = 0
  /\ sent = {} /\ done = {} /\ stored = {} /\ starts = {} /\ indexed = {}
  /\ inView = TRUE /\ untold = FALSE
  /\ filesQ = InView(NoEntry({}))
  /\ switches = 0 /\ faults = 0

UploadNext ==
  \/ OpenModal \/ ResetAndClose \/ SwitchCourse
  \/ \E fs \in SUBSET Locals : AddFiles(fs)
  \/ \E l \in Locals : RemoveFile(l)
  \/ \E g \in Folders : HandleUpload(g)
  \/ \E c \in sent \cup done \cup starts :
       ServerStores(c) \/ UploadSucceeds(c) \/ UploadFails(c) \/ IndexingEnds(c)
  \/ Poll \/ ServerLists \/ ListArrives

UploadSpec == UploadInit /\ [][UploadNext]_uploadVars

----------------------------------------------------------------------------
(* Properties                                                              *)

\* When the modal says "N files uploaded", every one of them is stored in the
\* folder they were sent to last, whatever failed, was removed from the choice
\* or was sent again before (UploadModal.tsx:131-154).
CompleteMeansStored ==
  stage = "complete" =>
    \A l \in chosen : \E c \in stored : c.local = l /\ c.folder = into

\* A list of files that is neither old nor being fetched, and in which nothing
\* waits for its indexing, is what the server has -- unless an answer is still
\* to come or the list was not told: the answer was lost, was for another course
\* in view, or came while an older list was on its way that is not fetched again
\* (useExplorerMutations.ts:22-29).
UploadsReachTheList ==
  Settled(filesQ) /\ ~IsPending(filesQ.data) /\ done = {} /\ ~untold => filesQ.data = Rows
=============================================================================
