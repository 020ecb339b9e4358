------------------------------ MODULE Ingestion ------------------------------
(***************************************************************************)
(* The life of a stored file and of its search index: uploading it,        *)
(* ingesting it in a background task, replacing its bytes, deleting it,    *)
(* a crash of the API process and the recovery its restart performs.       *)
(*                                                                         *)
(* One asyncio process serves every request.  A handler runs undisturbed   *)
(* between two awaits, so an action is one awaited statement, one commit   *)
(* or one operation on the object store.  Rows are read and written at     *)
(* READ COMMITTED; a row lock that outlives a step is visible in the       *)
(* program counter of its owner (PutLocked, DelLocked, pc "publishing").   *)
(*                                                                         *)
(* A content is named by the request that wrote it: Original by the        *)
(* upload, p by the replacement request p.                                 *)
(***************************************************************************)
EXTENDS Naturals

CONSTANTS
  Files,       \* ids an upload may receive (uuid4, never reused)
  Runs,        \* INGESTION_RUN ids, each with the task that works on it
  Puts,        \* PUT /files/{id}/content requests
  Dels,        \* DELETE /files/{id} requests
  Original,    \* the content an upload stores
  NoContent,   \* no object, no chunks
  NoFile,      \* a request or a run that has not started
  MaxCrashes   \* how often the process may die

Content == Puts \cup {Original}

ASSUME ContentAssumption == Original \notin Puts /\ NoContent \notin Content
ASSUME NoFileAssumption == NoFile \notin Files
ASSUME MaxCrashesAssumption == MaxCrashes \in Nat

VARIABLES
  fileStatus,  \* FILE.status, "none" without a row
  fileError,   \* FILE.error_message, "none" for NULL
  fileDigest,  \* the content FILE.sha256 was computed from
  object,      \* the bytes under FILE.storage_key
  uploading,   \* files between write_upload and their INSERT
  runFile,     \* INGESTION_RUN.file_id, kept by the task when the row is gone
  runStatus,   \* INGESTION_RUN.status, "none" without a row
  active,      \* the runs with is_active
  chunks,      \* the content the run's committed CHUNK rows were cut from
  pc,          \* where the background task of a run stands
  taskSaw,     \* FILE.status and .error_message as the task's session has them
  parsed,      \* the content the task parsed, before it is committed
  target,      \* the active runs the task's deactivating UPDATE found
  putPc, putFile, putSaw,  \* the same for a replacement request
  delPc, delFile,          \* and for a delete request
  up,          \* the process is running
  crashes,
  overtaken    \* history: runs whose parsed content a replacement superseded

fileVars == <<fileStatus, fileError, fileDigest>>
runVars  == <<runFile, runStatus, active, chunks>>
taskVars == <<pc, taskSaw, parsed, target>>
putVars  == <<putPc, putFile, putSaw>>
delVars  == <<delPc, delFile>>
sysVars  == <<up, crashes>>
vars == <<fileVars, object, uploading, runVars, taskVars, putVars, delVars,
          sysVars, overtaken>>

----------------------------------------------------------------------------
FileStatus == {"uploaded", "processing", "ready", "failed"}
RunStatus  == {"queued", "processing", "ready", "failed"}

\* A task that a crash would interrupt, and how the others ended: "published"
\* returned after the last commit, "returned" after recording a failure or
\* finding nothing to do, "raised" let an exception escape.
LivePc == {"scheduled", "marking", "starting", "parsing", "embedding", "failing",
           "reporting", "retiring", "locking", "publishing"}
EndPc == {"published", "returned", "raised", "killed"}
TaskPc == LivePc \cup EndPc \cup {"unused"}

\* "refused": nothing kept; "torn": the object is replaced and the row never
\* learns it.
PutLive == {"staging", "renamed", "locked"}
PutPc == PutLive \cup {"unused", "refused", "done", "torn"}
DelLive == {"loaded", "locked", "unlinking"}
DelPc == DelLive \cup {"unused", "done"}

\* The messages a task may leave on its file, and the one the recovery leaves.
TaskReason == {"no text", "failed"}
Reason == TaskReason \cup {"interrupted"}

\* The columns a session holds; "unread" when it has loaded none, or has expired
\* them.
Seen == [status : FileStatus \cup {"none"}, error : Reason \cup {"none", "unread"}]
Unseen == [status |-> "none", error |-> "unread"]

TypeOK ==
  /\ fileStatus \in [Files -> FileStatus \cup {"none"}]
  /\ fileError \in [Files -> Reason \cup {"none"}]
  /\ fileDigest \in [Files -> Content \cup {NoContent}]
  /\ object \in [Files -> Content \cup {NoContent}]
  /\ uploading \in [Files -> {"new", "stored", "over"}]
  /\ runFile \in [Runs -> Files \cup {NoFile}]
  /\ runStatus \in [Runs -> RunStatus \cup {"none"}]
  /\ active \in SUBSET Runs
  /\ chunks \in [Runs -> Content \cup {NoContent}]
  /\ pc \in [Runs -> TaskPc]
  /\ taskSaw \in [Runs -> Seen]
  /\ parsed \in [Runs -> Content \cup {NoContent}]
  /\ target \in [Runs -> SUBSET Runs]
  /\ putPc \in [Puts -> PutPc]
  /\ putFile \in [Puts -> Files \cup {NoFile}]
  /\ putSaw \in [Puts -> Seen]
  /\ delPc \in [Dels -> DelPc]
  /\ delFile \in [Dels -> Files \cup {NoFile}]
  /\ up \in BOOLEAN
  /\ crashes \in 0 .. MaxCrashes
  /\ overtaken \in SUBSET Runs

Init ==
  /\ fileStatus = [f \in Files |-> "none"]
  /\ fileError = [f \in Files |-> "none"]
  /\ fileDigest = [f \in Files |-> NoContent]
  /\ object = [f \in Files |-> NoContent]
  /\ uploading = [f \in Files |-> "new"]
  /\ runFile = [r \in Runs |-> NoFile]
  /\ runStatus = [r \in Runs |-> "none"]
  /\ active = {}
  /\ chunks = [r \in Runs |-> NoContent]
  /\ pc = [r \in Runs |-> "unused"]
  /\ taskSaw = [r \in Runs |-> Unseen]
  /\ parsed = [r \in Runs |-> NoContent]
  /\ target = [r \in Runs |-> {}]
  /\ putPc = [p \in Puts |-> "unused"]
  /\ putFile = [p \in Puts |-> NoFile]
  /\ putSaw = [p \in Puts |-> Unseen]
  /\ delPc = [d \in Dels |-> "unused"]
  /\ delFile = [d \in Dels |-> NoFile]
  /\ up = TRUE
  /\ crashes = 0
  /\ overtaken = {}

----------------------------------------------------------------------------
(* What the statements of the handlers have in common.                     *)

RowOf(f) == fileStatus[f] # "none"
RunRow(r) == runStatus[r] # "none"
RunsOf(f) == {r \in Runs : runFile[r] = f}
ActiveOf(f) == active \cap RunsOf(f)
\* A session loads the columns of a row.
SeenOf(f) == [status |-> fileStatus[f], error |-> fileError[f]]

PutLocked(f) == \E p \in Puts : putPc[p] = "locked" /\ putFile[p] = f
DelLocked(f) == \E d \in Dels : delPc[d] = "locked" /\ delFile[d] = f
\* Another transaction has written the FILE row and not committed yet.
FileLocked(f) == PutLocked(f) \/ DelLocked(f)

\* Tasks of f whose uncommitted UPDATE deactivated the run q.
Holders(q) == {r \in Runs : pc[r] = "publishing" /\ q \in target[r]}

\* A session that silently gives way to what was committed since it loaded.
FlushUnlessChanged(loaded, assigned, committed) ==
  IF loaded = committed THEN assigned ELSE committed

\* The session writes an attribute only when the value it assigns differs from
\* the one it loaded: otherwise the row keeps whatever is committed by then.
Flush(loaded, assigned, committed) ==
  IF assigned = loaded THEN committed ELSE assigned

----------------------------------------------------------------------------
(* POST /files: the bytes first, then the row.                              *)

UploadStore(f) ==
  /\ up
  /\ uploading[f] = "new"
  /\ uploading' = [uploading EXCEPT ![f] = "stored"]
  /\ object' = [object EXCEPT ![f] = Original]
  /\ UNCHANGED <<fileVars, runVars, taskVars, putVars, delVars, sysVars, overtaken>>

UploadCommit(f) ==
  /\ up
  /\ uploading[f] = "stored"
  /\ uploading' = [uploading EXCEPT ![f] = "over"]
  /\ fileStatus' = [fileStatus EXCEPT ![f] = "uploaded"]
  /\ fileDigest' = [fileDigest EXCEPT ![f] = Original]
  /\ UNCHANGED <<fileError, object, runVars, taskVars, putVars, delVars, sysVars,
                 overtaken>>

\* The folder went away while the body was streamed: the INSERT fails and the
\* stored object stays behind.
UploadRejected(f) ==
  /\ up
  /\ uploading[f] = "stored"
  /\ uploading' = [uploading EXCEPT ![f] = "over"]
  /\ UNCHANGED <<fileVars, object, runVars, taskVars, putVars, delVars, sysVars,
                 overtaken>>

----------------------------------------------------------------------------
(* POST /files/{id}/ingest and the background task it leaves.               *)

\* The run is committed and the task handed to BackgroundTasks.
IngestFile(r, f) ==
  /\ up
  /\ RowOf(f) /\ ~DelLocked(f)
  /\ pc[r] = "unused"
  /\ runFile' = [runFile EXCEPT ![r] = f]
  /\ runStatus' = [runStatus EXCEPT ![r] = "queued"]
  /\ pc' = [pc EXCEPT ![r] = "scheduled"]
  /\ UNCHANGED <<fileVars, object, uploading, active, chunks, taskSaw, parsed, target,
                 putVars, delVars, sysVars, overtaken>>

TaskGoto(r, label) == pc' = [pc EXCEPT ![r] = label]
TaskIsAt(r, label) == up /\ pc[r] = label
OnlyTask == UNCHANGED <<object, uploading, runFile, putVars, delVars, sysVars, overtaken>>

\* The task's own session reads both rows, or finds that CASCADE took them.
TaskLoad(r) ==
  LET f == runFile[r] IN
  /\ TaskIsAt(r, "scheduled")
  /\ IF RunRow(r) /\ RowOf(f)
     THEN /\ taskSaw' = [taskSaw EXCEPT ![r] = SeenOf(f)]
          /\ TaskGoto(r, "marking")
     ELSE TaskGoto(r, "returned") /\ UNCHANGED taskSaw
  /\ OnlyTask
  /\ UNCHANGED <<fileVars, runStatus, active, chunks, parsed, target>>

\* file_row.status = PROCESSING; commit.  Outside the try: an UPDATE that finds
\* no row raises out of the task.  A row loaded as processing is not written.
TaskMark(r) ==
  LET f == runFile[r] IN
  /\ TaskIsAt(r, "marking")
  /\ taskSaw[r].status = "processing" \/ ~FileLocked(f)
  /\ IF taskSaw[r].status = "processing" \/ RowOf(f)
     THEN /\ TaskGoto(r, "starting")
          /\ taskSaw' = [taskSaw EXCEPT ![r].status = "processing"]
          /\ fileStatus' = [fileStatus EXCEPT ![f] =
                              Flush(taskSaw[r].status, "processing", @)]
     ELSE TaskGoto(r, "raised") /\ UNCHANGED <<taskSaw, fileStatus>>
  /\ OnlyTask
  /\ UNCHANGED <<fileError, fileDigest, runStatus, active, chunks, parsed, target>>

\* run_ingestion commits the run's PROCESSING.  A failed flush is not rolled
\* back, so the outer handler's commit fails too and the exception escapes.
TaskStart(r) ==
  /\ TaskIsAt(r, "starting")
  /\ ~DelLocked(runFile[r])
  /\ IF RunRow(r)
     THEN TaskGoto(r, "parsing") /\ runStatus' = [runStatus EXCEPT ![r] = "processing"]
     ELSE TaskGoto(r, "raised") /\ UNCHANGED runStatus
  /\ OnlyTask
  /\ UNCHANGED <<fileVars, active, chunks, taskSaw, parsed, target>>

\* The worker thread reads whatever the object holds now.  No object, no text
\* or any failure of the parser or the model leads to the failure path.
TaskParse(r) ==
  LET f == runFile[r] IN
  /\ TaskIsAt(r, "parsing")
  /\ \/ /\ object[f] # NoContent
        /\ TaskGoto(r, "embedding")
        /\ parsed' = [parsed EXCEPT ![r] = object[f]]
     \/ TaskGoto(r, "failing") /\ UNCHANGED parsed
  /\ OnlyTask
  /\ UNCHANGED <<fileVars, runStatus, active, chunks, taskSaw, target>>

\* add_chunks and the run's READY in one transaction.  Chunk inserts need the
\* FILE and INGESTION_RUN rows their composite foreign keys name, and may be
\* refused: the rollback of that open transaction expires what the session holds.
TaskStoreChunks(r) ==
  /\ TaskIsAt(r, "embedding")
  /\ ~DelLocked(runFile[r])
  /\ \/ /\ RunRow(r)
        /\ TaskGoto(r, "retiring")
        /\ runStatus' = [runStatus EXCEPT ![r] = "ready"]
        /\ chunks' = [chunks EXCEPT ![r] = parsed[r]]
        /\ UNCHANGED taskSaw
     \/ /\ TaskGoto(r, "failing")
        /\ taskSaw' = [taskSaw EXCEPT ![r] = Unseen]
        /\ UNCHANGED <<runStatus, chunks>>
  /\ OnlyTask
  /\ UNCHANGED <<fileVars, active, parsed, target>>

\* rollback, then the run's FAILED.  After a failed parse no transaction is open,
\* so the rollback expires nothing.
TaskFailRun(r) ==
  /\ TaskIsAt(r, "failing")
  /\ ~DelLocked(runFile[r])
  /\ IF RunRow(r)
     THEN TaskGoto(r, "reporting") /\ runStatus' = [runStatus EXCEPT ![r] = "failed"]
     ELSE TaskGoto(r, "raised") /\ UNCHANGED runStatus
  /\ OnlyTask
  /\ UNCHANGED <<fileVars, active, chunks, taskSaw, parsed, target>>

\* FILE.status = FAILED with one of the two messages.  A message equal to the one
\* the session loaded, of an earlier failure, is not written again.
TaskReport(r) ==
  LET f == runFile[r] IN
  /\ TaskIsAt(r, "reporting")
  /\ ~FileLocked(f)
  /\ IF RowOf(f)
     THEN /\ TaskGoto(r, "returned")
          /\ fileStatus' = [fileStatus EXCEPT ![f] = Flush(taskSaw[r].status, "failed", @)]
          /\ \E e \in TaskReason :
               fileError' = [fileError EXCEPT ![f] = Flush(taskSaw[r].error, e, @)]
     ELSE TaskGoto(r, "raised") /\ UNCHANGED <<fileStatus, fileError>>
  /\ OnlyTask
  /\ UNCHANGED <<fileDigest, runStatus, active, chunks, taskSaw, parsed, target>>

\* The snapshot of UPDATE ... WHERE file_id = f AND is_active.
TaskRetire(r) ==
  /\ TaskIsAt(r, "retiring")
  /\ TaskGoto(r, "locking")
  /\ target' = [target EXCEPT ![r] = ActiveOf(runFile[r])]
  /\ OnlyTask
  /\ UNCHANGED <<fileVars, runStatus, active, chunks, taskSaw, parsed>>

\* The row locks.  A run another transaction holds is waited for, and rechecked:
\* one that is no longer active is skipped.
TaskLock(r) ==
  /\ TaskIsAt(r, "locking")
  /\ \A q \in target[r] : Holders(q) = {}
  /\ ~DelLocked(runFile[r])
  /\ TaskGoto(r, "publishing")
  /\ target' = [target EXCEPT ![r] = @ \cap active]
  /\ OnlyTask
  /\ UNCHANGED <<fileVars, runStatus, active, chunks, taskSaw, parsed>>

\* ix_ingestion_run_one_active: the commit may leave one active run of the file.
NoIndex(r) == TRUE
IndexAdmits(r) == ActiveOf(runFile[r]) \subseteq target[r]

\* run.is_active = True and FILE.status = READY, committed with the retirement.
TaskPublish(r) ==
  LET f == runFile[r] IN
  /\ TaskIsAt(r, "publishing")
  /\ ~FileLocked(f)
  /\ RowOf(f)
  /\ IndexAdmits(r)
  /\ TaskGoto(r, "published")
  /\ active' = (active \ target[r]) \cup {r}
  /\ target' = [target EXCEPT ![r] = {}]
  /\ fileStatus' = [fileStatus EXCEPT ![f] = Flush(taskSaw[r].status, "ready", @)]
  /\ fileError' = [fileError EXCEPT ![f] = Flush(taskSaw[r].error, "none", @)]
  /\ OnlyTask
  /\ UNCHANGED <<fileDigest, runStatus, chunks, taskSaw, parsed>>

\* The same commit when the rows are gone or the index refuses: no handler.
TaskPublishFails(r) ==
  LET f == runFile[r] IN
  /\ TaskIsAt(r, "publishing")
  /\ ~FileLocked(f)
  /\ ~(RowOf(f) /\ IndexAdmits(r))
  /\ TaskGoto(r, "raised")
  /\ target' = [target EXCEPT ![r] = {}]
  /\ OnlyTask
  /\ UNCHANGED <<fileVars, runStatus, active, chunks, taskSaw, parsed>>

----------------------------------------------------------------------------
(* PUT /files/{id}/content                                                  *)

OnlyPut == UNCHANGED <<uploading, runFile, runStatus, chunks, taskVars, delVars, sysVars>>

PutLoad(p, f) ==
  /\ up
  /\ putPc[p] = "unused"
  /\ RowOf(f)
  /\ putPc' = [putPc EXCEPT ![p] = "staging"]
  /\ putFile' = [putFile EXCEPT ![p] = f]
  /\ putSaw' = [putSaw EXCEPT ![p] = SeenOf(f)]
  /\ OnlyPut
  /\ UNCHANGED <<fileVars, object, active, overtaken>>

\* The limit is found exceeded only when the stored object was overwritten.
PutRefusedLate(p) ==
  /\ up
  /\ putPc[p] = "staging"
  /\ putPc' = [putPc EXCEPT ![p] = "refused"]
  /\ object' = [object EXCEPT ![putFile[p]] = p]
  /\ OnlyPut
  /\ UNCHANGED <<putFile, putSaw, fileVars, active, overtaken>>

\* Wrong suffix or too large: nothing is kept.
PutRefused(p) ==
  /\ up
  /\ putPc[p] = "staging"
  /\ putPc' = [putPc EXCEPT ![p] = "refused"]
  /\ OnlyPut
  /\ UNCHANGED <<putFile, putSaw, fileVars, object, active, overtaken>>

\* The temporary object is complete and renamed over the stored one.
PutRename(p) ==
  /\ up
  /\ putPc[p] = "staging"
  /\ putPc' = [putPc EXCEPT ![p] = "renamed"]
  /\ object' = [object EXCEPT ![putFile[p]] = p]
  /\ OnlyPut
  /\ UNCHANGED <<putFile, putSaw, fileVars, active, overtaken>>

\* The UPDATE of runs autoflushes the FILE row first, which locks it.  A file
\* deleted by now makes that raise, after its object was written again.
PutLock(p) ==
  LET f == putFile[p] IN
  /\ up
  /\ putPc[p] = "renamed"
  /\ ~FileLocked(f)
  /\ putPc' = [putPc EXCEPT ![p] = IF RowOf(f) THEN "locked" ELSE "torn"]
  /\ OnlyPut
  /\ UNCHANGED <<putFile, putSaw, fileVars, object, active, overtaken>>

\* Tasks that read the object before it was replaced and have yet to publish.
InFlight(f) ==
  {r \in RunsOf(f) : pc[r] \in {"embedding", "retiring", "locking", "publishing"}}

\* UPDATE ingestion_run SET is_active = false (and the bug of leaving it out).
WithdrawNothing(f) == active
Withdraw(f) == active \ RunsOf(f)

\* Deactivates the file's runs and commits the row.
PutCommit(p) ==
  LET f == putFile[p] IN
  /\ up
  /\ putPc[p] = "locked"
  /\ \A q \in ActiveOf(f) : Holders(q) = {}
  /\ putPc' = [putPc EXCEPT ![p] = "done"]
  /\ fileDigest' = [fileDigest EXCEPT ![f] = p]
  /\ fileStatus' = [fileStatus EXCEPT ![f] = Flush(putSaw[p].status, "uploaded", @)]
  /\ fileError' = [fileError EXCEPT ![f] = Flush(putSaw[p].error, "none", @)]
  /\ active' = Withdraw(f)
  /\ overtaken' = overtaken \cup InFlight(f)
  /\ OnlyPut
  /\ UNCHANGED <<putFile, putSaw, object>>

----------------------------------------------------------------------------
(* DELETE /files/{id}: the row and, by CASCADE, its runs and their chunks;  *)
(* the object after the commit.                                             *)

OnlyDel == UNCHANGED <<uploading, taskVars, putVars, sysVars, overtaken>>

DelLoad(d, f) ==
  /\ up
  /\ delPc[d] = "unused"
  /\ RowOf(f)
  /\ delPc' = [delPc EXCEPT ![d] = "loaded"]
  /\ delFile' = [delFile EXCEPT ![d] = f]
  /\ OnlyDel
  /\ UNCHANGED <<fileVars, object, runVars>>

\* A DELETE that matches no row is no error: the request goes on to unlink.
DelLock(d) ==
  LET f == delFile[d] IN
  /\ up
  /\ delPc[d] = "loaded"
  /\ ~FileLocked(f)
  /\ delPc' = [delPc EXCEPT ![d] = IF RowOf(f) THEN "locked" ELSE "unlinking"]
  /\ OnlyDel
  /\ UNCHANGED <<delFile, fileVars, object, runVars>>

DelCommit(d) ==
  LET f == delFile[d] IN
  /\ up
  /\ delPc[d] = "locked"
  /\ \A q \in RunsOf(f) : Holders(q) = {}
  /\ delPc' = [delPc EXCEPT ![d] = "unlinking"]
  /\ fileStatus' = [fileStatus EXCEPT ![f] = "none"]
  /\ fileError' = [fileError EXCEPT ![f] = "none"]
  /\ fileDigest' = [fileDigest EXCEPT ![f] = NoContent]
  /\ runStatus' = [r \in Runs |-> IF runFile[r] = f THEN "none" ELSE runStatus[r]]
  /\ chunks' = [r \in Runs |-> IF runFile[r] = f THEN NoContent ELSE chunks[r]]
  /\ active' = active \ RunsOf(f)
  /\ OnlyDel
  /\ UNCHANGED <<delFile, object, runFile>>

\* A delete that removes the bytes before its transaction commits.
DelUnlinkEarly(d) ==
  /\ up
  /\ delPc[d] \in {"locked", "unlinking"}
  /\ delPc' = [delPc EXCEPT ![d] = "done"]
  /\ object' = [object EXCEPT ![delFile[d]] = NoContent]
  /\ OnlyDel
  /\ UNCHANGED <<delFile, fileVars, runVars>>

DelUnlink(d) ==
  /\ up
  /\ delPc[d] = "unlinking"
  /\ delPc' = [delPc EXCEPT ![d] = "done"]
  /\ object' = [object EXCEPT ![delFile[d]] = NoContent]
  /\ OnlyDel
  /\ UNCHANGED <<delFile, fileVars, runVars>>

----------------------------------------------------------------------------
(* A replacement or a delete holds the FILE row and waits for a run the     *)
(* task holds; the task's commit waits for the FILE row.  PostgreSQL aborts *)
(* one of the two.                                                          *)

\* The cycle goes unnoticed (no deadlock_timeout).
NeverDeadlocked(r, f) == FALSE

Deadlocked(r, f) ==
  /\ runFile[r] = f
  /\ pc[r] = "publishing"
  /\ target[r] # {}
  /\ FileLocked(f)

DeadlockAbortsTask(r) ==
  /\ up
  /\ Deadlocked(r, runFile[r])
  /\ TaskGoto(r, "raised")
  /\ target' = [target EXCEPT ![r] = {}]
  /\ OnlyTask
  /\ UNCHANGED <<fileVars, runStatus, active, chunks, taskSaw, parsed>>

DeadlockAbortsPut(p) ==
  /\ up
  /\ putPc[p] = "locked"
  /\ \E r \in Runs : Deadlocked(r, putFile[p])
  /\ putPc' = [putPc EXCEPT ![p] = "torn"]
  /\ OnlyPut
  /\ UNCHANGED <<putFile, putSaw, fileVars, object, active, overtaken>>

DeadlockAbortsDel(d) ==
  /\ up
  /\ delPc[d] = "locked"
  /\ \E r \in Runs : Deadlocked(r, delFile[d])
  /\ delPc' = [delPc EXCEPT ![d] = "done"]
  /\ OnlyDel
  /\ UNCHANGED <<delFile, fileVars, object, runVars>>

----------------------------------------------------------------------------
(* The process dies and systemd starts it again.                            *)

\* Requests, tasks and open transactions are lost; rows and objects stay.
Crash ==
  /\ up
  /\ crashes < MaxCrashes
  /\ up' = FALSE
  /\ crashes' = crashes + 1
  /\ uploading' = [f \in Files |-> IF uploading[f] = "stored" THEN "over" ELSE uploading[f]]
  /\ pc' = [r \in Runs |-> IF pc[r] \in LivePc THEN "killed" ELSE pc[r]]
  /\ target' = [r \in Runs |-> {}]
  /\ putPc' = [p \in Puts |-> IF putPc[p] = "staging" THEN "refused"
                               ELSE IF putPc[p] \in {"renamed", "locked"} THEN "torn"
                               ELSE putPc[p]]
  /\ delPc' = [d \in Dels |-> IF delPc[d] \in DelLive THEN "done" ELSE delPc[d]]
  /\ UNCHANGED <<fileVars, object, runVars, taskSaw, parsed, putFile, putSaw, delFile,
                 overtaken>>

\* What a restart finds half-done, and a way to get the list wrong.
ForgetQueued == {"processing"}
Interrupted == {"queued", "processing"}

\* lifespan runs recover_interrupted_ingestion before any request is served.
Recover ==
  /\ ~up
  /\ up' = TRUE
  /\ fileStatus' = [f \in Files |->
       IF fileStatus[f] = "processing" THEN "failed" ELSE fileStatus[f]]
  /\ fileError' = [f \in Files |->
       IF fileStatus[f] = "processing" THEN "interrupted" ELSE fileError[f]]
  /\ runStatus' = [r \in Runs |->
       IF runStatus[r] \in Interrupted THEN "failed" ELSE runStatus[r]]
  /\ UNCHANGED <<fileDigest, object, uploading, runFile, active, chunks, taskVars, putVars,
                 delVars, crashes, overtaken>>

----------------------------------------------------------------------------
TaskStep(r) ==
  \/ TaskLoad(r) \/ TaskMark(r) \/ TaskStart(r) \/ TaskParse(r)
  \/ TaskStoreChunks(r) \/ TaskFailRun(r) \/ TaskReport(r)
  \/ TaskRetire(r) \/ TaskLock(r) \/ TaskPublish(r) \/ TaskPublishFails(r)
PutStep(p) == PutRefused(p) \/ PutRename(p) \/ PutLock(p) \/ PutCommit(p)
DelStep(d) == DelLock(d) \/ DelCommit(d) \/ DelUnlink(d)
Deadlock ==
  \/ \E r \in Runs : DeadlockAbortsTask(r)
  \/ \E p \in Puts : DeadlockAbortsPut(p)
  \/ \E d \in Dels : DeadlockAbortsDel(d)

\* Every request has been answered and every task has ended.
Quiet ==
  /\ up
  /\ \A f \in Files : uploading[f] = "over"
  /\ \A r \in Runs : pc[r] \notin LivePc
  /\ \A p \in Puts : putPc[p] \notin PutLive
  /\ \A d \in Dels : delPc[d] \notin DelLive
  /\ UNCHANGED vars

Next ==
  \/ \E f \in Files : UploadStore(f) \/ UploadCommit(f) \/ UploadRejected(f)
  \/ \E r \in Runs, f \in Files : IngestFile(r, f)
  \/ \E r \in Runs : TaskStep(r)
  \/ \E p \in Puts, f \in Files : PutLoad(p, f)
  \/ \E p \in Puts : PutStep(p)
  \/ \E d \in Dels, f \in Files : DelLoad(d, f)
  \/ \E d \in Dels : DelStep(d)
  \/ Deadlock
  \/ Crash
  \/ Recover
  \/ Quiet

Spec == Init /\ [][Next]_vars

\* What the platform guarantees: the event loop runs every task and request it
\* holds, PostgreSQL breaks a deadlock, systemd restarts the service.
Fairness ==
  /\ \A r \in Runs : WF_vars(TaskStep(r))
  /\ \A p \in Puts : WF_vars(PutStep(p))
  /\ \A d \in Dels : WF_vars(DelStep(d))
  /\ WF_vars(Deadlock)
  /\ WF_vars(Recover)

FairSpec == Spec /\ Fairness

----------------------------------------------------------------------------
(* Safety                                                                   *)

\* What retrieval joins on is_active is a complete index of a file that
\* exists, and never two generations of one file (routers/files.py:300).
ServedRunsAreWhole ==
  \A r \in active :
    /\ runStatus[r] = "ready" /\ chunks[r] # NoContent
    /\ RowOf(runFile[r])
    /\ ActiveOf(runFile[r]) = {r}

\* A run is READY exactly when its chunks are in the table: no failure, crash
\* or delete leaves half of the transaction (services/processing.py:113).
ChunksComeWithReady ==
  \A r \in Runs : chunks[r] # NoContent <=> runStatus[r] = "ready"

\* While a row names an object the object is there: the bytes are written
\* before the row and removed after it (routers/files.py:555).
RowHasObject ==
  \A f \in Files : RowOf(f) => object[f] # NoContent

\* A run that reads queued or processing has a task that will still move it:
\* no exception strands it (routers/files.py:230), no crash survives startup
\* recovery (services/processing.py:143).
UnfinishedRunHasTask ==
  \A r \in Runs :
    up /\ runStatus[r] \in {"queued", "processing"} => pc[r] \in LivePc

\* A replacement has renamed its bytes over f's object and its row is still, or
\* for ever, the old one.
Unfinished(f) == \E p \in Puts : putFile[p] = f /\ putPc[p] \in {"renamed", "locked", "torn"}

\* Retrieval serves text the stored object no longer holds only after a
\* replacement committed behind the back of a task that had parsed the old
\* bytes, or while one is unfinished (routers/files.py:631).
ServedTextIsStored ==
  \A r \in active :
    \/ chunks[r] = object[runFile[r]]
    \/ r \in overtaken
    \/ Unfinished(runFile[r])

\* sha256 and size_bytes describe the stored bytes, unless a replacement is
\* unfinished or two overlapped: the one renamed last need not be the one that
\* commits last.  They never describe what no request left (routers/files.py:612).
DigestIsAccountedFor ==
  \A f \in Files : RowOf(f) =>
    \/ fileDigest[f] = object[f]
    \/ Unfinished(f)
    \/ \E p, q \in Puts :
         /\ object[f] = p /\ fileDigest[f] = q
         /\ \A w \in {p, q} : putFile[w] = f /\ putPc[w] = "done"

\* A replacement that loaded an uploaded file assigns a status its session
\* takes for unchanged, and so commits over a task's progress.
BlindPut(f) ==
  \E p \in Puts : putFile[p] = f /\ putPc[p] = "done" /\ putSaw[p].status = "uploaded"

\* A task that ended in failure and had loaded the message of an earlier failure:
\* what it assigns may be what it loaded, and then another commit may have
\* cleared the message behind its back.
BlindReport(f) ==
  \E r \in RunsOf(f) : pc[r] = "returned" /\ taskSaw[r].error \in TaskReason

\* Without such a replacement the summary the file list renders is the truth: a
\* READY file has an index, and a FAILED one a reason unless such a report lost
\* it (routers/files.py:236).
StatusIsHonest ==
  \A f \in Files : ~BlindPut(f) =>
    /\ fileStatus[f] = "ready" => ActiveOf(f) # {}
    /\ fileStatus[f] = "failed" => fileError[f] # "none" \/ BlindReport(f)

----------------------------------------------------------------------------
(* The run lifecycle this module implements.                                *)

Phase(r) ==
  CASE pc[r] = "unused" -> "none"
    [] pc[r] # "unused" /\ ~RunRow(r) -> "gone"
    [] r \in active -> "serving"
    [] runStatus[r] = "ready" /\ r \notin active ->
         IF pc[r] = "published" THEN "retired" ELSE "built"
    [] OTHER -> runStatus[r]

Lifecycle == INSTANCE RunLifecycle WITH phase <- [r \in Runs |-> Phase(r)],
                                        file <- runFile

\* Every step of the handlers, the task, a crash and the recovery is a step of
\* the lifecycle: a run is served once, in exchange for the one before it, and
\* is never served again (README.md:36, routers/files.py:300).
ImplementsLifecycle == Lifecycle!Spec

----------------------------------------------------------------------------
(* Liveness                                                                 *)

\* The client that polls GET /ingestion-runs/{id} is answered: no run stays
\* queued or processing for ever (routers/files.py:231).
RunsSettle ==
  \A r \in Runs :
    runStatus[r] \in {"queued", "processing"} ~> runStatus[r] \notin {"queued", "processing"}

\* A request waiting for a row lock gets it or is aborted: no replacement, delete
\* or task waits for ever on another.
LocksAreReleased ==
  \A f \in Files : FileLocked(f) ~> ~FileLocked(f)

----------------------------------------------------------------------------
(* What comments promise and the code does not keep: each is checked by a   *)
(* run that finds it violated.                                              *)

\* "Replacement bytes no longer match chunks from the previously active run ...
\* remove it from retrieval until the replacement is ingested": once no
\* replacement is unfinished, retrieval serves the stored bytes
\* (routers/files.py:631).
RetrievalFollowsReplacement ==
  \A r \in active : chunks[r] = object[runFile[r]] \/ Unfinished(runFile[r])

\* A failed file's row is marked so that the UI can say why: FAILED comes with a
\* message (routers/files.py:267).
FailedSaysWhy ==
  \A f \in Files : fileStatus[f] = "failed" => fileError[f] # "none"

\* FILE.status and indexed_at distinguish "a stored file from an indexed one
\* without joining INGESTION_RUN" (schemas/file.py:113).
ReadyIsSearchable ==
  \A f \in Files : fileStatus[f] = "ready" => ActiveOf(f) # {}

\* "Nothing raises out of it ... Every failure path therefore ends in a
\* committed row": a file that reads processing has a task that will move it,
\* unless the row is locked this very moment (routers/files.py:230).
ProcessingHasTask ==
  \A f \in Files :
    up /\ fileStatus[f] = "processing" /\ ~FileLocked(f) =>
      \E r \in RunsOf(f) : pc[r] \in LivePc
=============================================================================
