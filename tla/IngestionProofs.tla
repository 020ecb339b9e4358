--------------------------- MODULE IngestionProofs ---------------------------
(***************************************************************************)
(* What holds of Ingestion and Retrieval for every set of files, runs,     *)
(* users and requests: the invariant IInv of IngestionInv is inductive, and *)
(* the safety properties follow from it.  One lemma per action shows that  *)
(* the action keeps IInv, with one step per conjunct whose variables the   *)
(* action writes and one for the conjuncts it leaves alone.  Then that the *)
(* pipeline implements RunLifecycle, and at the end what holds of every    *)
(* question that is asked meanwhile.                                       *)
(***************************************************************************)
EXTENDS Retrieval, IngestionInv, TLAPS

----------------------------------------------------------------------------
(* Before the first request nothing is stored, indexed or locked.          *)

\* The empty store satisfies the invariant.
LEMMA InitIInv == Init => IInv
<1> SUFFICES ASSUME Init PROVE IInv
  OBVIOUS
<1> USE DEF Init
<1>1. TypeOK
  BY MaxCrashesAssumption
     DEF TypeOK, Content, FileStatus, RunStatus, TaskPc, PutPc, DelPc, Seen, Unseen
<1>2. RequestsNameUploads /\ RunRowsFollowFiles /\ ObjectsOutliveRows /\ LockedRowsExist
  BY DEF RequestsNameUploads, RunRowsFollowFiles, ObjectsOutliveRows, LockedRowsExist,
         RowOf, RunRow
<1>3. TasksOwnTheirRuns /\ ParsedIsStored /\ ActiveWasPublished /\ TextIsAccountedFor
  BY DEF TasksOwnTheirRuns, ParsedIsStored, ActiveWasPublished, TextIsAccountedFor,
         RunRow, LivePc, HasParsed, HasStored
<1>4. ChunksComeWithReady /\ UnfinishedRunHasTask
  BY DEF ChunksComeWithReady, UnfinishedRunHasTask
<1> QED
  BY <1>1, <1>2, <1>3, <1>4 DEF IInv

----------------------------------------------------------------------------
(* One lemma per action.                                                   *)

\* The bytes of an upload arrive before any row names them.
LEMMA UploadStoreKeepsIInv ==
  ASSUME IInv, NEW f \in Files, UploadStore(f)
  PROVE  IInv'
<1> USE DEF IInv, UploadStore, fileVars, runVars, taskVars, putVars, delVars,
            sysVars, RowOf, RunRow
<1>1. TypeOK'
  BY DEF TypeOK, Content
<1>2. RequestsNameUploads'
  BY DEF RequestsNameUploads
<1>3. ObjectsOutliveRows'
  BY ContentAssumption DEF ObjectsOutliveRows, TypeOK, Content
<1>4. LockedRowsExist'
  BY DEF LockedRowsExist, DelLocked
<1>5. TextIsAccountedFor'
  BY DEF TextIsAccountedFor, HasParsed, TypeOK, RequestsNameUploads,
         RunRowsFollowFiles, Unfinished
<1>6. /\ RunRowsFollowFiles'
     /\ TasksOwnTheirRuns'
     /\ ParsedIsStored'
     /\ ActiveWasPublished'
     /\ ChunksComeWithReady'
     /\ UnfinishedRunHasTask'
  BY DEF RunRowsFollowFiles, TasksOwnTheirRuns, ParsedIsStored,
         ActiveWasPublished, ChunksComeWithReady, UnfinishedRunHasTask,
         HasParsed, HasStored
<1> QED
  BY <1>1, <1>2, <1>3, <1>4, <1>5, <1>6

\* The row an upload commits names the object it has stored.
LEMMA UploadCommitKeepsIInv ==
  ASSUME IInv, NEW f \in Files, UploadCommit(f)
  PROVE  IInv'
<1> USE DEF IInv, UploadCommit, runVars, taskVars, putVars, delVars, sysVars,
            RowOf, RunRow
<1>1. TypeOK'
  BY DEF TypeOK, FileStatus, Content
<1>2. RequestsNameUploads'
  BY DEF RequestsNameUploads, TypeOK
<1>3. RunRowsFollowFiles'
  BY DEF RunRowsFollowFiles, TypeOK, RequestsNameUploads
<1>4. ObjectsOutliveRows'
  BY DEF ObjectsOutliveRows, TypeOK, RequestsNameUploads
<1>5. LockedRowsExist'
  BY DEF LockedRowsExist, DelLocked, fileVars
<1>6. /\ TasksOwnTheirRuns'
     /\ ParsedIsStored'
     /\ ActiveWasPublished'
     /\ TextIsAccountedFor'
     /\ ChunksComeWithReady'
     /\ UnfinishedRunHasTask'
  BY DEF TasksOwnTheirRuns, ParsedIsStored, ActiveWasPublished,
         TextIsAccountedFor, ChunksComeWithReady, UnfinishedRunHasTask,
         HasParsed, HasStored, Unfinished
<1> QED
  BY <1>1, <1>2, <1>3, <1>4, <1>5, <1>6

\* A rejected upload leaves an object without a row.
LEMMA UploadRejectedKeepsIInv ==
  ASSUME IInv, NEW f \in Files, UploadRejected(f)
  PROVE  IInv'
<1> USE DEF IInv, UploadRejected, fileVars, runVars, taskVars, putVars, delVars,
            sysVars, RowOf, RunRow
<1>1. TypeOK'
  BY DEF TypeOK
<1>2. RequestsNameUploads'
  BY DEF RequestsNameUploads
<1>3. ObjectsOutliveRows'
  BY DEF ObjectsOutliveRows
<1>4. LockedRowsExist'
  BY DEF LockedRowsExist, DelLocked
<1>5. /\ RunRowsFollowFiles'
     /\ TasksOwnTheirRuns'
     /\ ParsedIsStored'
     /\ ActiveWasPublished'
     /\ TextIsAccountedFor'
     /\ ChunksComeWithReady'
     /\ UnfinishedRunHasTask'
  BY DEF RunRowsFollowFiles, TasksOwnTheirRuns, ParsedIsStored,
         ActiveWasPublished, TextIsAccountedFor, ChunksComeWithReady,
         UnfinishedRunHasTask, HasParsed, HasStored, Unfinished
<1> QED
  BY <1>1, <1>2, <1>3, <1>4, <1>5

\* A new run starts queued, with a live task and without chunks.
LEMMA IngestFileKeepsIInv ==
  ASSUME IInv, NEW r \in Runs, NEW f \in Files, IngestFile(r, f)
  PROVE  IInv'
<1> USE DEF IInv, IngestFile, RowOf, fileVars, putVars, delVars, sysVars, RunRow
<1>1. TypeOK'
  BY DEF TypeOK, RunStatus, TaskPc, LivePc, EndPc
<1>2. RequestsNameUploads'
  BY DEF RequestsNameUploads, TypeOK
<1>3. RunRowsFollowFiles'
  BY DEF RunRowsFollowFiles, TypeOK
<1>4. ObjectsOutliveRows'
  BY DEF ObjectsOutliveRows
<1>5. LockedRowsExist'
  BY DEF LockedRowsExist, DelLocked
<1>6. TasksOwnTheirRuns'
  BY DEF TasksOwnTheirRuns, TypeOK, LivePc
<1>7. ParsedIsStored'
  BY DEF ParsedIsStored, HasParsed, HasStored
<1>8. ActiveWasPublished'
  BY DEF ActiveWasPublished
<1>9. TextIsAccountedFor'
  BY DEF TextIsAccountedFor, HasParsed, TypeOK, ActiveWasPublished, Unfinished
<1>10. ChunksComeWithReady'
  BY DEF ChunksComeWithReady, TypeOK, RunRowsFollowFiles
<1>11. UnfinishedRunHasTask'
  BY DEF UnfinishedRunHasTask, LivePc, TypeOK
<1> QED
  BY <1>1, <1>2, <1>3, <1>4, <1>5, <1>6, <1>7, <1>8, <1>9, <1>10, <1>11

\* A task that finds its rows goes on with a queued run.
LEMMA TaskLoadKeepsIInv ==
  ASSUME IInv, NEW r \in Runs, TaskLoad(r)
  PROVE  IInv'
<1> USE DEF IInv, TaskLoad, RowOf, RunRow, SeenOf, TaskGoto, TaskIsAt, OnlyTask,
            fileVars, putVars, delVars, sysVars
<1>1. TypeOK'
  <2>1. pc' \in [Runs -> TaskPc]
    BY DEF TypeOK, TaskPc, LivePc, EndPc
  <2>2. taskSaw' \in [Runs -> Seen]
    <3>1. fileStatus[runFile[r]] \in FileStatus \cup {"none"}
      BY DEF TypeOK, RequestsNameUploads
    <3>2. fileError[runFile[r]] \in Reason \cup {"none", "unread"}
      BY DEF TypeOK, RequestsNameUploads
    <3>3. SeenOf(runFile[r]) \in Seen
      BY <3>1, <3>2 DEF Seen
    <3> QED
      BY <3>3 DEF TypeOK
  <2> QED BY <2>1, <2>2 DEF TypeOK
<1>2. RequestsNameUploads'
  BY DEF RequestsNameUploads, TypeOK
<1>3. RunRowsFollowFiles'
  BY DEF RunRowsFollowFiles, TypeOK
<1>4. LockedRowsExist'
  BY DEF LockedRowsExist, DelLocked
<1>5. TasksOwnTheirRuns'
  BY DEF TasksOwnTheirRuns, TypeOK, LivePc
<1>6. ParsedIsStored'
  BY DEF ParsedIsStored, HasParsed, HasStored, TypeOK
<1>7. ActiveWasPublished'
  BY DEF ActiveWasPublished, TypeOK
<1>8. TextIsAccountedFor'
  BY DEF TextIsAccountedFor, HasParsed, TypeOK, Unfinished
<1>9. UnfinishedRunHasTask'
  BY DEF UnfinishedRunHasTask, LivePc, TypeOK, RunRowsFollowFiles
<1>10. /\ ObjectsOutliveRows'
     /\ ChunksComeWithReady'
  BY DEF ObjectsOutliveRows, ChunksComeWithReady
<1> QED
  BY <1>1, <1>2, <1>3, <1>4, <1>5, <1>6, <1>7, <1>8, <1>9, <1>10

\* A task writes PROCESSING only into a row that exists.
LEMMA TaskMarkKeepsIInv ==
  ASSUME IInv, NEW r \in Runs, TaskMark(r)
  PROVE  IInv'
<1> USE DEF IInv, TaskMark, RowOf, Flush, TaskGoto, TaskIsAt, OnlyTask, putVars,
            delVars, sysVars, RunRow
<1>1. TypeOK'
  <2>1. fileStatus' \in [Files -> FileStatus \cup {"none"}]
    BY DEF TypeOK, FileStatus
  <2>2. pc' \in [Runs -> TaskPc]
    BY DEF TypeOK, TaskPc, LivePc, EndPc
  <2>3. taskSaw' \in [Runs -> Seen]
    <3>1. [taskSaw[r] EXCEPT !.status = "processing"] \in Seen
      BY DEF TypeOK, Seen, FileStatus
    <3> QED
      BY <3>1 DEF TypeOK
  <2> QED BY <2>1, <2>2, <2>3 DEF TypeOK
<1>2. RequestsNameUploads'
  BY DEF RequestsNameUploads, TypeOK
<1>3. RunRowsFollowFiles'
  BY DEF RunRowsFollowFiles, TypeOK, RequestsNameUploads
<1>4. ObjectsOutliveRows'
  BY DEF ObjectsOutliveRows, TypeOK, RequestsNameUploads
<1>5. LockedRowsExist'
  BY DEF LockedRowsExist, DelLocked, TypeOK, RequestsNameUploads, fileVars
<1>6. TasksOwnTheirRuns'
  BY DEF TasksOwnTheirRuns, TypeOK, LivePc
<1>7. ParsedIsStored'
  BY DEF ParsedIsStored, HasParsed, HasStored, TypeOK
<1>8. ActiveWasPublished'
  BY DEF ActiveWasPublished, TypeOK
<1>9. TextIsAccountedFor'
  BY DEF TextIsAccountedFor, HasParsed, TypeOK, Unfinished
<1>10. ChunksComeWithReady'
  BY DEF ChunksComeWithReady
<1>11. UnfinishedRunHasTask'
  BY DEF UnfinishedRunHasTask, LivePc, TypeOK, RunRowsFollowFiles
<1> QED
  BY <1>1, <1>2, <1>3, <1>4, <1>5, <1>6, <1>7, <1>8, <1>9, <1>10, <1>11

\* A run turns processing under its live task.
LEMMA TaskStartKeepsIInv ==
  ASSUME IInv, NEW r \in Runs, TaskStart(r)
  PROVE  IInv'
<1> USE DEF IInv, TaskStart, RunRow, TaskGoto, TaskIsAt, OnlyTask, fileVars,
            putVars, delVars, sysVars, RowOf
<1>1. TypeOK'
  BY DEF TypeOK, RunStatus, TaskPc, LivePc, EndPc
<1>2. RequestsNameUploads'
  BY DEF RequestsNameUploads, TypeOK
<1>3. RunRowsFollowFiles'
  BY DEF RunRowsFollowFiles, TypeOK
<1>4. ObjectsOutliveRows'
  BY DEF ObjectsOutliveRows
<1>5. LockedRowsExist'
  BY DEF LockedRowsExist, DelLocked
<1>6. TasksOwnTheirRuns'
  BY DEF TasksOwnTheirRuns, TypeOK, LivePc
<1>7. ParsedIsStored'
  BY DEF ParsedIsStored, HasParsed, HasStored, TypeOK
<1>8. ActiveWasPublished'
  BY DEF ActiveWasPublished, TypeOK
<1>9. TextIsAccountedFor'
  BY DEF TextIsAccountedFor, HasParsed, TypeOK, Unfinished
<1>10. ChunksComeWithReady'
  BY DEF ChunksComeWithReady, TypeOK, TasksOwnTheirRuns
<1>11. UnfinishedRunHasTask'
  BY DEF UnfinishedRunHasTask, LivePc, TypeOK
<1> QED
  BY <1>1, <1>2, <1>3, <1>4, <1>5, <1>6, <1>7, <1>8, <1>9, <1>10, <1>11

\* The text a task parses is the stored one at that moment.
LEMMA TaskParseKeepsIInv ==
  ASSUME IInv, NEW r \in Runs, TaskParse(r)
  PROVE  IInv'
<1> USE DEF IInv, TaskParse, TaskGoto, TaskIsAt, OnlyTask, fileVars, putVars,
            delVars, sysVars, RowOf, RunRow
<1>1. TypeOK'
  BY DEF TypeOK, TaskPc, LivePc, EndPc, Content, RequestsNameUploads
<1>2. RequestsNameUploads'
  BY DEF RequestsNameUploads, TypeOK
<1>3. RunRowsFollowFiles'
  BY DEF RunRowsFollowFiles, TypeOK
<1>4. LockedRowsExist'
  BY DEF LockedRowsExist, DelLocked
<1>5. TasksOwnTheirRuns'
  BY DEF TasksOwnTheirRuns, TypeOK, LivePc
<1>6. ParsedIsStored'
  BY DEF ParsedIsStored, HasParsed, HasStored, TypeOK
<1>7. ActiveWasPublished'
  BY DEF ActiveWasPublished, TypeOK
<1>8. TextIsAccountedFor'
  BY DEF TextIsAccountedFor, HasParsed, TypeOK, Unfinished
<1>9. UnfinishedRunHasTask'
  BY DEF UnfinishedRunHasTask, LivePc, TypeOK
<1>10. /\ ObjectsOutliveRows'
     /\ ChunksComeWithReady'
  BY DEF ObjectsOutliveRows, ChunksComeWithReady
<1> QED
  BY <1>1, <1>2, <1>3, <1>4, <1>5, <1>6, <1>7, <1>8, <1>9, <1>10

\* Chunks and READY arrive in the same commit.
LEMMA TaskStoreChunksKeepsIInv ==
  ASSUME IInv, NEW r \in Runs, TaskStoreChunks(r)
  PROVE  IInv'
<1> USE DEF IInv, TaskStoreChunks, RunRow, TaskGoto, TaskIsAt, OnlyTask,
            fileVars, putVars, delVars, sysVars, RowOf
<1>1. TypeOK'
  <2>1. taskSaw' \in [Runs -> Seen]
    BY DEF TypeOK, Seen, Unseen
  <2>2. /\ pc' \in [Runs -> TaskPc] /\ runStatus' \in [Runs -> RunStatus \cup {"none"}]
        /\ chunks' \in [Runs -> Content \cup {NoContent}]
    BY DEF TypeOK, RunStatus, Content, TaskPc, LivePc, EndPc
  <2> QED BY <2>1, <2>2 DEF TypeOK
<1>2. RequestsNameUploads'
  BY DEF RequestsNameUploads, TypeOK
<1>3. RunRowsFollowFiles'
  BY DEF RunRowsFollowFiles, TypeOK
<1>4. ObjectsOutliveRows'
  BY DEF ObjectsOutliveRows
<1>5. LockedRowsExist'
  BY DEF LockedRowsExist, DelLocked
<1>6. TasksOwnTheirRuns'
  BY DEF TasksOwnTheirRuns, TypeOK, LivePc
<1>7. ParsedIsStored'
  BY DEF ParsedIsStored, HasParsed, HasStored, TypeOK
<1>8. ActiveWasPublished'
  BY DEF ActiveWasPublished, TypeOK
<1>9. TextIsAccountedFor'
  BY DEF TextIsAccountedFor, HasParsed, TypeOK, Unfinished
<1>10. ChunksComeWithReady'
  BY DEF ChunksComeWithReady, TypeOK, ParsedIsStored, HasParsed
<1>11. UnfinishedRunHasTask'
  BY DEF UnfinishedRunHasTask, LivePc, TypeOK
<1> QED
  BY <1>1, <1>2, <1>3, <1>4, <1>5, <1>6, <1>7, <1>8, <1>9, <1>10, <1>11

\* A failed run has no chunks.
LEMMA TaskFailRunKeepsIInv ==
  ASSUME IInv, NEW r \in Runs, TaskFailRun(r)
  PROVE  IInv'
<1> USE DEF IInv, TaskFailRun, RunRow, TaskGoto, TaskIsAt, OnlyTask, fileVars,
            putVars, delVars, sysVars, RowOf
<1>1. TypeOK'
  BY DEF TypeOK, RunStatus, TaskPc, LivePc, EndPc
<1>2. RequestsNameUploads'
  BY DEF RequestsNameUploads, TypeOK
<1>3. RunRowsFollowFiles'
  BY DEF RunRowsFollowFiles, TypeOK
<1>4. ObjectsOutliveRows'
  BY DEF ObjectsOutliveRows
<1>5. LockedRowsExist'
  BY DEF LockedRowsExist, DelLocked
<1>6. TasksOwnTheirRuns'
  BY DEF TasksOwnTheirRuns, TypeOK, LivePc
<1>7. ParsedIsStored'
  BY DEF ParsedIsStored, HasParsed, HasStored, TypeOK
<1>8. ActiveWasPublished'
  BY DEF ActiveWasPublished, TypeOK
<1>9. TextIsAccountedFor'
  BY DEF TextIsAccountedFor, HasParsed, TypeOK, Unfinished
<1>10. ChunksComeWithReady'
  BY DEF ChunksComeWithReady, TypeOK, TasksOwnTheirRuns
<1>11. UnfinishedRunHasTask'
  BY DEF UnfinishedRunHasTask, LivePc, TypeOK
<1> QED
  BY <1>1, <1>2, <1>3, <1>4, <1>5, <1>6, <1>7, <1>8, <1>9, <1>10, <1>11

\* Reporting a failure touches the file's row alone.
LEMMA TaskReportKeepsIInv ==
  ASSUME IInv, NEW r \in Runs, TaskReport(r)
  PROVE  IInv'
<1> USE DEF IInv, TaskReport, TaskGoto, TaskIsAt, OnlyTask, putVars,
            delVars, sysVars, RunRow
<1>0. /\ fileStatus' \in [Files -> FileStatus \cup {"none"}]
      /\ \A f \in Files : RowOf(f)' <=> RowOf(f)
  <2>1. CASE RowOf(runFile[r])
    <3>1. fileStatus' = [fileStatus EXCEPT ![runFile[r]] = Flush(taskSaw[r].status, "failed", @)]
      BY <2>1
    <3> QED
      BY <2>1, <3>1 DEF TypeOK, FileStatus, Flush, RowOf
  <2>2. CASE ~RowOf(runFile[r])
    BY <2>2 DEF TypeOK, RowOf
  <2> QED BY <2>1, <2>2
<1>1. TypeOK'
  <2>1. fileError' \in [Files -> Reason \cup {"none"}]
    <3>1. CASE RowOf(runFile[r])
      <4>1. PICK e \in TaskReason :
              fileError' = [fileError EXCEPT ![runFile[r]] = Flush(taskSaw[r].error, e, @)]
        BY <3>1
      <4> QED
        BY <4>1 DEF TypeOK, Reason, Flush
    <3>2. CASE ~RowOf(runFile[r])
      BY <3>2 DEF TypeOK
    <3> QED BY <3>1, <3>2
  <2>2. pc' \in [Runs -> TaskPc]
    BY DEF TypeOK, TaskPc, LivePc, EndPc
  <2> QED BY <1>0, <2>1, <2>2 DEF TypeOK
<1>2. RequestsNameUploads'
  BY <1>0 DEF RequestsNameUploads, TypeOK
<1>3. RunRowsFollowFiles'
  BY <1>0 DEF RunRowsFollowFiles, TypeOK, RequestsNameUploads
<1>4. ObjectsOutliveRows'
  BY <1>0 DEF ObjectsOutliveRows, TypeOK, RequestsNameUploads
<1>5. LockedRowsExist'
  BY <1>0 DEF LockedRowsExist, DelLocked, TypeOK, RequestsNameUploads
<1>6. TasksOwnTheirRuns'
  BY DEF TasksOwnTheirRuns, TypeOK, LivePc
<1>7. ParsedIsStored'
  BY DEF ParsedIsStored, HasParsed, HasStored, TypeOK
<1>8. ActiveWasPublished'
  BY DEF ActiveWasPublished, TypeOK
<1>9. TextIsAccountedFor'
  BY DEF TextIsAccountedFor, HasParsed, TypeOK, Unfinished
<1>10. ChunksComeWithReady'
  BY DEF ChunksComeWithReady
<1>11. UnfinishedRunHasTask'
  BY DEF UnfinishedRunHasTask, LivePc, TypeOK, TasksOwnTheirRuns
<1> QED
  BY <1>1, <1>2, <1>3, <1>4, <1>5, <1>6, <1>7, <1>8, <1>9, <1>10, <1>11

\* The deactivating UPDATE is not visible before its commit.
LEMMA TaskRetireKeepsIInv ==
  ASSUME IInv, NEW r \in Runs, TaskRetire(r)
  PROVE  IInv'
<1> USE DEF IInv, TaskRetire, RunsOf, ActiveOf, TaskGoto, TaskIsAt, OnlyTask,
            fileVars, putVars, delVars, sysVars, RowOf, RunRow
<1>1. TypeOK'
  BY DEF TypeOK, TaskPc, LivePc, EndPc
<1>2. RequestsNameUploads'
  BY DEF RequestsNameUploads
<1>3. RunRowsFollowFiles'
  BY DEF RunRowsFollowFiles
<1>4. LockedRowsExist'
  BY DEF LockedRowsExist, DelLocked
<1>5. TasksOwnTheirRuns'
  BY DEF TasksOwnTheirRuns, LivePc
<1>6. ParsedIsStored'
  BY DEF ParsedIsStored, HasParsed, HasStored
<1>7. ActiveWasPublished'
  BY DEF ActiveWasPublished
<1>8. TextIsAccountedFor'
  BY DEF TextIsAccountedFor, HasParsed, Unfinished
<1>9. UnfinishedRunHasTask'
  BY DEF UnfinishedRunHasTask, LivePc
<1>10. /\ ObjectsOutliveRows'
     /\ ChunksComeWithReady'
  BY DEF ObjectsOutliveRows, ChunksComeWithReady
<1> QED
  BY <1>1, <1>2, <1>3, <1>4, <1>5, <1>6, <1>7, <1>8, <1>9, <1>10

\* Waiting for the runs of another task changes no row.
LEMMA TaskLockKeepsIInv ==
  ASSUME IInv, NEW r \in Runs, TaskLock(r)
  PROVE  IInv'
<1> USE DEF IInv, TaskLock, TaskGoto, TaskIsAt, OnlyTask, fileVars, putVars,
            delVars, sysVars, RowOf, RunRow
<1>1. TypeOK'
  BY DEF TypeOK, TaskPc, LivePc, EndPc
<1>2. RequestsNameUploads'
  BY DEF RequestsNameUploads
<1>3. RunRowsFollowFiles'
  BY DEF RunRowsFollowFiles
<1>4. LockedRowsExist'
  BY DEF LockedRowsExist, DelLocked
<1>5. TasksOwnTheirRuns'
  BY DEF TasksOwnTheirRuns, LivePc
<1>6. ParsedIsStored'
  BY DEF ParsedIsStored, HasParsed, HasStored
<1>7. ActiveWasPublished'
  BY DEF ActiveWasPublished
<1>8. TextIsAccountedFor'
  BY DEF TextIsAccountedFor, HasParsed, Unfinished
<1>9. UnfinishedRunHasTask'
  BY DEF UnfinishedRunHasTask, LivePc
<1>10. /\ ObjectsOutliveRows'
     /\ ChunksComeWithReady'
  BY DEF ObjectsOutliveRows, ChunksComeWithReady
<1> QED
  BY <1>1, <1>2, <1>3, <1>4, <1>5, <1>6, <1>7, <1>8, <1>9, <1>10

\* The publishing commit leaves one served run of the file, whose text
\* is the one its task parsed.
LEMMA TaskPublishKeepsIInv ==
  ASSUME IInv, NEW r \in Runs, TaskPublish(r)
  PROVE  IInv'
<1> USE DEF IInv, TaskPublish, RowOf, RunsOf, ActiveOf, Flush, IndexAdmits,
            TaskGoto, TaskIsAt, OnlyTask, putVars, delVars, sysVars, RunRow
<1>1. TypeOK'
  <2>1. fileStatus' \in [Files -> FileStatus \cup {"none"}]
    BY DEF TypeOK, FileStatus, RequestsNameUploads
  <2>2. fileError' \in [Files -> Reason \cup {"none"}]
    BY DEF TypeOK, RequestsNameUploads, Flush
  <2>3. active' \in SUBSET Runs
    BY DEF TypeOK
  <2>4. pc' \in [Runs -> TaskPc]
    BY DEF TypeOK, TaskPc, LivePc, EndPc
  <2>5. target' \in [Runs -> SUBSET Runs]
    BY DEF TypeOK
  <2> QED BY <2>1, <2>2, <2>3, <2>4, <2>5 DEF TypeOK
<1>2. RequestsNameUploads'
  BY DEF RequestsNameUploads
<1>3. RunRowsFollowFiles'
  BY DEF RunRowsFollowFiles
<1>4. ObjectsOutliveRows'
  BY DEF ObjectsOutliveRows
<1>5. LockedRowsExist'
  BY DEF LockedRowsExist, DelLocked, fileVars
<1>6. TasksOwnTheirRuns'
  BY DEF TasksOwnTheirRuns, LivePc
<1>7. ParsedIsStored'
  BY DEF ParsedIsStored, HasParsed, HasStored
<1>8. ActiveWasPublished'
  BY DEF ActiveWasPublished, TypeOK, TasksOwnTheirRuns, RunRowsFollowFiles
<1>9. TextIsAccountedFor'
  BY DEF TextIsAccountedFor, HasParsed, Unfinished
<1>10. ChunksComeWithReady'
  BY DEF ChunksComeWithReady
<1>11. UnfinishedRunHasTask'
  BY DEF UnfinishedRunHasTask, LivePc, TypeOK, TasksOwnTheirRuns
<1> QED
  BY <1>1, <1>2, <1>3, <1>4, <1>5, <1>6, <1>7, <1>8, <1>9, <1>10, <1>11

\* A refused publication leaves the runs as they were.
LEMMA TaskPublishFailsKeepsIInv ==
  ASSUME IInv, NEW r \in Runs, TaskPublishFails(r)
  PROVE  IInv'
<1> USE DEF IInv, TaskPublishFails, RowOf, RunsOf, ActiveOf, IndexAdmits,
            TaskGoto, TaskIsAt, OnlyTask, fileVars, putVars, delVars, sysVars,
            RunRow
<1>1. TypeOK'
  BY DEF TypeOK, TaskPc, LivePc, EndPc
<1>2. RequestsNameUploads'
  BY DEF RequestsNameUploads
<1>3. RunRowsFollowFiles'
  BY DEF RunRowsFollowFiles
<1>4. LockedRowsExist'
  BY DEF LockedRowsExist, DelLocked
<1>5. TasksOwnTheirRuns'
  BY DEF TasksOwnTheirRuns, LivePc
<1>6. ParsedIsStored'
  BY DEF ParsedIsStored, HasParsed, HasStored
<1>7. ActiveWasPublished'
  BY DEF ActiveWasPublished
<1>8. TextIsAccountedFor'
  BY DEF TextIsAccountedFor, HasParsed, Unfinished
<1>9. UnfinishedRunHasTask'
  BY DEF UnfinishedRunHasTask, LivePc, TypeOK, TasksOwnTheirRuns
<1>10. /\ ObjectsOutliveRows'
     /\ ChunksComeWithReady'
  BY DEF ObjectsOutliveRows, ChunksComeWithReady
<1> QED
  BY <1>1, <1>2, <1>3, <1>4, <1>5, <1>6, <1>7, <1>8, <1>9, <1>10

\* A replacement starts on a file whose upload is over.
LEMMA PutLoadKeepsIInv ==
  ASSUME IInv, NEW p \in Puts, NEW f \in Files, PutLoad(p, f)
  PROVE  IInv'
<1> USE DEF IInv, PutLoad, RowOf, SeenOf, OnlyPut, fileVars, taskVars, delVars,
            sysVars, RunRow
<1>1. TypeOK'
  BY DEF TypeOK, PutPc, PutLive, Seen, FileStatus
<1>2. RequestsNameUploads'
  BY DEF RequestsNameUploads, TypeOK
<1>3. LockedRowsExist'
  BY DEF LockedRowsExist, DelLocked, putVars
<1>4. TextIsAccountedFor'
  BY DEF TextIsAccountedFor, HasParsed, Unfinished
<1>5. /\ RunRowsFollowFiles'
     /\ ObjectsOutliveRows'
     /\ TasksOwnTheirRuns'
     /\ ParsedIsStored'
     /\ ActiveWasPublished'
     /\ ChunksComeWithReady'
     /\ UnfinishedRunHasTask'
  BY DEF RunRowsFollowFiles, ObjectsOutliveRows, TasksOwnTheirRuns,
         ParsedIsStored, ActiveWasPublished, ChunksComeWithReady,
         UnfinishedRunHasTask, HasParsed, HasStored
<1> QED
  BY <1>1, <1>2, <1>3, <1>4, <1>5

\* A refused replacement leaves row and object alone.
LEMMA PutRefusedKeepsIInv ==
  ASSUME IInv, NEW p \in Puts, PutRefused(p)
  PROVE  IInv'
<1> USE DEF IInv, PutRefused, OnlyPut, fileVars, taskVars, delVars, sysVars,
            RowOf, RunRow
<1>1. TypeOK'
  BY DEF TypeOK, PutPc, PutLive
<1>2. RequestsNameUploads'
  BY DEF RequestsNameUploads
<1>3. LockedRowsExist'
  BY DEF LockedRowsExist, DelLocked, putVars
<1>4. TextIsAccountedFor'
  BY DEF TextIsAccountedFor, HasParsed, Unfinished
<1>5. /\ RunRowsFollowFiles'
     /\ ObjectsOutliveRows'
     /\ TasksOwnTheirRuns'
     /\ ParsedIsStored'
     /\ ActiveWasPublished'
     /\ ChunksComeWithReady'
     /\ UnfinishedRunHasTask'
  BY DEF RunRowsFollowFiles, ObjectsOutliveRows, TasksOwnTheirRuns,
         ParsedIsStored, ActiveWasPublished, ChunksComeWithReady,
         UnfinishedRunHasTask, HasParsed, HasStored
<1> QED
  BY <1>1, <1>2, <1>3, <1>4, <1>5

\* From the rename on, the replacement accounts for every text that is
\* not the stored one.
LEMMA PutRenameKeepsIInv ==
  ASSUME IInv, NEW p \in Puts, PutRename(p)
  PROVE  IInv'
<1> USE DEF IInv, PutRename, OnlyPut, fileVars, taskVars, delVars, sysVars,
            RowOf, RunRow
<1>1. TypeOK'
  BY DEF TypeOK, PutPc, PutLive, Content, RequestsNameUploads
<1>2. RequestsNameUploads'
  BY DEF RequestsNameUploads
<1>3. ObjectsOutliveRows'
  BY ContentAssumption DEF ObjectsOutliveRows, TypeOK, Content
<1>4. LockedRowsExist'
  BY DEF LockedRowsExist, DelLocked, putVars
<1>5. TextIsAccountedFor'
  BY DEF TextIsAccountedFor, HasParsed, TypeOK, Unfinished
<1>6. /\ RunRowsFollowFiles'
     /\ TasksOwnTheirRuns'
     /\ ParsedIsStored'
     /\ ActiveWasPublished'
     /\ ChunksComeWithReady'
     /\ UnfinishedRunHasTask'
  BY DEF RunRowsFollowFiles, TasksOwnTheirRuns, ParsedIsStored,
         ActiveWasPublished, ChunksComeWithReady, UnfinishedRunHasTask,
         HasParsed, HasStored
<1> QED
  BY <1>1, <1>2, <1>3, <1>4, <1>5, <1>6

\* A replacement that takes the row's lock finds the row, and nobody else
\* holding it.
LEMMA PutLockKeepsIInv ==
  ASSUME IInv, NEW p \in Puts, PutLock(p)
  PROVE  IInv'
<1> USE DEF IInv, PutLock, RowOf, OnlyPut, fileVars, taskVars, delVars, sysVars,
            RunRow
<1>1. TypeOK'
  BY DEF TypeOK, PutPc, PutLive
<1>2. RequestsNameUploads'
  BY DEF RequestsNameUploads
<1>3. LockedRowsExist'
  BY DEF LockedRowsExist, DelLocked, TypeOK, FileLocked, putVars
<1>4. TextIsAccountedFor'
  BY DEF TextIsAccountedFor, HasParsed, Unfinished
<1>5. /\ RunRowsFollowFiles'
     /\ ObjectsOutliveRows'
     /\ TasksOwnTheirRuns'
     /\ ParsedIsStored'
     /\ ActiveWasPublished'
     /\ ChunksComeWithReady'
     /\ UnfinishedRunHasTask'
  BY DEF RunRowsFollowFiles, ObjectsOutliveRows, TasksOwnTheirRuns,
         ParsedIsStored, ActiveWasPublished, ChunksComeWithReady,
         UnfinishedRunHasTask, HasParsed, HasStored
<1> QED
  BY <1>1, <1>2, <1>3, <1>4, <1>5

\* A committed replacement leaves no served run, and hands what it
\* accounted for to the tasks it overtook.
LEMMA PutCommitKeepsIInv ==
  ASSUME IInv, NEW p \in Puts, PutCommit(p)
  PROVE  IInv'
<1> USE DEF IInv, PutCommit, RunsOf, ActiveOf, Flush, InFlight, Withdraw,
            OnlyPut, taskVars, delVars, sysVars, RowOf, RunRow
<1>1. TypeOK'
  <2>1. fileStatus' \in [Files -> FileStatus \cup {"none"}]
    BY DEF TypeOK, FileStatus, RequestsNameUploads
  <2>2. fileError' \in [Files -> Reason \cup {"none"}]
    BY DEF TypeOK, RequestsNameUploads, Flush
  <2>3. fileDigest' \in [Files -> Content \cup {NoContent}]
    BY DEF TypeOK, Content, RequestsNameUploads
  <2>4. active' \in SUBSET Runs
    BY DEF TypeOK
  <2>5. putPc' \in [Puts -> PutPc]
    BY DEF TypeOK, PutPc, PutLive
  <2>6. overtaken' \in SUBSET Runs
    BY DEF TypeOK
  <2> QED BY <2>1, <2>2, <2>3, <2>4, <2>5, <2>6 DEF TypeOK
<1>2. RequestsNameUploads'
  BY DEF RequestsNameUploads
<1>3. RunRowsFollowFiles'
  BY DEF RunRowsFollowFiles, TypeOK, RequestsNameUploads, LockedRowsExist
<1>4. ObjectsOutliveRows'
  BY DEF ObjectsOutliveRows, TypeOK, RequestsNameUploads, LockedRowsExist
<1>5. LockedRowsExist'
  BY DEF LockedRowsExist, DelLocked, fileVars, putVars
<1>6. ActiveWasPublished'
  BY DEF ActiveWasPublished
<1>7. TextIsAccountedFor'
  BY DEF TextIsAccountedFor, HasParsed, Unfinished
<1>8. /\ TasksOwnTheirRuns'
     /\ ParsedIsStored'
     /\ ChunksComeWithReady'
     /\ UnfinishedRunHasTask'
  BY DEF TasksOwnTheirRuns, ParsedIsStored, ChunksComeWithReady,
         UnfinishedRunHasTask, HasParsed, HasStored
<1> QED
  BY <1>1, <1>2, <1>3, <1>4, <1>5, <1>6, <1>7, <1>8

\* A delete starts on a file whose upload is over.
LEMMA DelLoadKeepsIInv ==
  ASSUME IInv, NEW d \in Dels, NEW f \in Files, DelLoad(d, f)
  PROVE  IInv'
<1> USE DEF IInv, DelLoad, RowOf, OnlyDel, fileVars, runVars, taskVars, putVars,
            sysVars, RunRow
<1>1. TypeOK'
  BY DEF TypeOK, DelPc, DelLive
<1>2. RequestsNameUploads'
  BY DEF RequestsNameUploads, TypeOK
<1>3. ObjectsOutliveRows'
  BY DEF ObjectsOutliveRows
<1>4. LockedRowsExist'
  BY DEF LockedRowsExist, DelLocked, delVars
<1>5. /\ RunRowsFollowFiles'
     /\ TasksOwnTheirRuns'
     /\ ParsedIsStored'
     /\ ActiveWasPublished'
     /\ TextIsAccountedFor'
     /\ ChunksComeWithReady'
     /\ UnfinishedRunHasTask'
  BY DEF RunRowsFollowFiles, TasksOwnTheirRuns, ParsedIsStored,
         ActiveWasPublished, TextIsAccountedFor, ChunksComeWithReady,
         UnfinishedRunHasTask, HasParsed, HasStored, Unfinished
<1> QED
  BY <1>1, <1>2, <1>3, <1>4, <1>5

\* A delete that takes the row's lock keeps replacements from it.
LEMMA DelLockKeepsIInv ==
  ASSUME IInv, NEW d \in Dels, DelLock(d)
  PROVE  IInv'
<1> USE DEF IInv, DelLock, RowOf, OnlyDel, fileVars, runVars, taskVars, putVars,
            sysVars, RunRow
<1>1. TypeOK'
  BY DEF TypeOK, DelPc, DelLive
<1>2. RequestsNameUploads'
  BY DEF RequestsNameUploads
<1>3. ObjectsOutliveRows'
  BY DEF ObjectsOutliveRows
<1>4. LockedRowsExist'
  BY DEF LockedRowsExist, DelLocked, TypeOK, FileLocked, RequestsNameUploads,
         PutLocked, delVars
<1>5. /\ RunRowsFollowFiles'
     /\ TasksOwnTheirRuns'
     /\ ParsedIsStored'
     /\ ActiveWasPublished'
     /\ TextIsAccountedFor'
     /\ ChunksComeWithReady'
     /\ UnfinishedRunHasTask'
  BY DEF RunRowsFollowFiles, TasksOwnTheirRuns, ParsedIsStored,
         ActiveWasPublished, TextIsAccountedFor, ChunksComeWithReady,
         UnfinishedRunHasTask, HasParsed, HasStored, Unfinished
<1> QED
  BY <1>1, <1>2, <1>3, <1>4, <1>5

\* A deleted row takes its runs, their chunks and their place in the
\* index with it.
LEMMA DelCommitKeepsIInv ==
  ASSUME IInv, NEW d \in Dels, DelCommit(d)
  PROVE  IInv'
<1> USE DEF IInv, DelCommit, RunsOf, OnlyDel, taskVars, putVars, sysVars, RowOf,
            RunRow
<1>1. TypeOK'
  BY DEF TypeOK, FileStatus, Content, RunStatus, DelPc, DelLive,
         RequestsNameUploads
<1>2. RequestsNameUploads'
  BY DEF RequestsNameUploads
<1>3. RunRowsFollowFiles'
  BY DEF RunRowsFollowFiles, TypeOK, RequestsNameUploads
<1>4. ObjectsOutliveRows'
  BY DEF ObjectsOutliveRows, TypeOK, RequestsNameUploads
<1>5. LockedRowsExist'
  BY DEF LockedRowsExist, DelLocked, fileVars, delVars
<1>6. TasksOwnTheirRuns'
  BY DEF TasksOwnTheirRuns, LivePc
<1>7. ParsedIsStored'
  BY DEF ParsedIsStored, HasParsed, HasStored
<1>8. ActiveWasPublished'
  BY DEF ActiveWasPublished, TypeOK
<1>9. TextIsAccountedFor'
  BY DEF TextIsAccountedFor, HasParsed, Unfinished
<1>10. ChunksComeWithReady'
  BY DEF ChunksComeWithReady
<1>11. UnfinishedRunHasTask'
  BY DEF UnfinishedRunHasTask, LivePc
<1> QED
  BY <1>1, <1>2, <1>3, <1>4, <1>5, <1>6, <1>7, <1>8, <1>9, <1>10, <1>11

\* An object is removed only after the row that named it.
LEMMA DelUnlinkKeepsIInv ==
  ASSUME IInv, NEW d \in Dels, DelUnlink(d)
  PROVE  IInv'
<1> USE DEF IInv, DelUnlink, OnlyDel, fileVars, runVars, taskVars, putVars,
            sysVars, RowOf, RunRow
<1>1. TypeOK'
  BY DEF TypeOK, DelPc, DelLive, Content, RequestsNameUploads
<1>2. RequestsNameUploads'
  BY DEF RequestsNameUploads
<1>3. ObjectsOutliveRows'
  BY DEF ObjectsOutliveRows, TypeOK, RequestsNameUploads
<1>4. LockedRowsExist'
  BY DEF LockedRowsExist, DelLocked, delVars
<1>5. TextIsAccountedFor'
  BY DEF TextIsAccountedFor, HasParsed, TypeOK, RequestsNameUploads,
         RunRowsFollowFiles, ActiveWasPublished, ObjectsOutliveRows, Unfinished
<1>6. /\ RunRowsFollowFiles'
     /\ TasksOwnTheirRuns'
     /\ ParsedIsStored'
     /\ ActiveWasPublished'
     /\ ChunksComeWithReady'
     /\ UnfinishedRunHasTask'
  BY DEF RunRowsFollowFiles, TasksOwnTheirRuns, ParsedIsStored,
         ActiveWasPublished, ChunksComeWithReady, UnfinishedRunHasTask,
         HasParsed, HasStored
<1> QED
  BY <1>1, <1>2, <1>3, <1>4, <1>5, <1>6

\* A task aborted by the database leaves the runs as they were.
LEMMA DeadlockAbortsTaskKeepsIInv ==
  ASSUME IInv, NEW r \in Runs, DeadlockAbortsTask(r)
  PROVE  IInv'
<1> USE DEF IInv, DeadlockAbortsTask, TaskGoto, OnlyTask, fileVars, putVars,
            delVars, sysVars, RowOf, RunRow
<1>1. TypeOK'
  BY DEF TypeOK, TaskPc, LivePc, EndPc
<1>2. RequestsNameUploads'
  BY DEF RequestsNameUploads, TypeOK, Deadlocked
<1>3. RunRowsFollowFiles'
  BY DEF RunRowsFollowFiles, TypeOK, Deadlocked
<1>4. LockedRowsExist'
  BY DEF LockedRowsExist, DelLocked
<1>5. TasksOwnTheirRuns'
  BY DEF TasksOwnTheirRuns, LivePc
<1>6. ParsedIsStored'
  BY DEF ParsedIsStored, HasParsed, HasStored
<1>7. ActiveWasPublished'
  BY DEF ActiveWasPublished, TypeOK, Deadlocked
<1>8. TextIsAccountedFor'
  BY DEF TextIsAccountedFor, HasParsed, Unfinished
<1>9. UnfinishedRunHasTask'
  BY DEF UnfinishedRunHasTask, TypeOK, Deadlocked, LivePc, TasksOwnTheirRuns
<1>10. /\ ObjectsOutliveRows'
     /\ ChunksComeWithReady'
  BY DEF ObjectsOutliveRows, ChunksComeWithReady
<1> QED
  BY <1>1, <1>2, <1>3, <1>4, <1>5, <1>6, <1>7, <1>8, <1>9, <1>10

\* A replacement aborted by the database stays accountable for the bytes
\* it renamed.
LEMMA DeadlockAbortsPutKeepsIInv ==
  ASSUME IInv, NEW p \in Puts, DeadlockAbortsPut(p)
  PROVE  IInv'
<1> USE DEF IInv, DeadlockAbortsPut, OnlyPut, fileVars, taskVars, delVars,
            sysVars, RowOf, RunRow
<1>1. TypeOK'
  BY DEF TypeOK, PutPc, PutLive
<1>2. RequestsNameUploads'
  BY DEF RequestsNameUploads
<1>3. LockedRowsExist'
  BY DEF LockedRowsExist, DelLocked, putVars
<1>4. TextIsAccountedFor'
  BY DEF TextIsAccountedFor, HasParsed, Unfinished
<1>5. /\ RunRowsFollowFiles'
     /\ ObjectsOutliveRows'
     /\ TasksOwnTheirRuns'
     /\ ParsedIsStored'
     /\ ActiveWasPublished'
     /\ ChunksComeWithReady'
     /\ UnfinishedRunHasTask'
  BY DEF RunRowsFollowFiles, ObjectsOutliveRows, TasksOwnTheirRuns,
         ParsedIsStored, ActiveWasPublished, ChunksComeWithReady,
         UnfinishedRunHasTask, HasParsed, HasStored
<1> QED
  BY <1>1, <1>2, <1>3, <1>4, <1>5

\* A delete aborted by the database leaves row and object.
LEMMA DeadlockAbortsDelKeepsIInv ==
  ASSUME IInv, NEW d \in Dels, DeadlockAbortsDel(d)
  PROVE  IInv'
<1> USE DEF IInv, DeadlockAbortsDel, OnlyDel, fileVars, runVars, taskVars,
            putVars, sysVars, RowOf, RunRow
<1>1. TypeOK'
  BY DEF TypeOK, DelPc, DelLive
<1>2. RequestsNameUploads'
  BY DEF RequestsNameUploads
<1>3. ObjectsOutliveRows'
  BY DEF ObjectsOutliveRows
<1>4. LockedRowsExist'
  BY DEF LockedRowsExist, DelLocked, delVars
<1>5. /\ RunRowsFollowFiles'
     /\ TasksOwnTheirRuns'
     /\ ParsedIsStored'
     /\ ActiveWasPublished'
     /\ TextIsAccountedFor'
     /\ ChunksComeWithReady'
     /\ UnfinishedRunHasTask'
  BY DEF RunRowsFollowFiles, TasksOwnTheirRuns, ParsedIsStored,
         ActiveWasPublished, TextIsAccountedFor, ChunksComeWithReady,
         UnfinishedRunHasTask, HasParsed, HasStored, Unfinished
<1> QED
  BY <1>1, <1>2, <1>3, <1>4, <1>5

\* A crash ends every task and request and leaves what is committed.
LEMMA CrashKeepsIInv ==
  ASSUME IInv, Crash
  PROVE  IInv'
<1> USE DEF IInv, Crash, fileVars, runVars, RowOf, RunRow
<1>1. TypeOK'
  <2>1. pc' \in [Runs -> TaskPc]
    BY DEF TypeOK, TaskPc, LivePc, EndPc
  <2>2. target' \in [Runs -> SUBSET Runs]
    BY DEF TypeOK
  <2>3. putPc' \in [Puts -> PutPc]
    BY DEF TypeOK, PutPc, PutLive
  <2>4. delPc' \in [Dels -> DelPc]
    BY DEF TypeOK, DelPc, DelLive
  <2>5. up' \in BOOLEAN
    OBVIOUS
  <2>6. crashes' \in 0 .. MaxCrashes
    BY MaxCrashesAssumption DEF TypeOK
  <2>7. uploading' \in [Files -> {"new", "stored", "over"}]
    BY DEF TypeOK
  <2> QED BY <2>1, <2>2, <2>3, <2>4, <2>5, <2>6, <2>7 DEF TypeOK
<1>2. RequestsNameUploads'
  BY DEF RequestsNameUploads, TypeOK, LivePc, PutLive, DelLive
<1>3. RunRowsFollowFiles'
  BY DEF RunRowsFollowFiles, TypeOK, LivePc
<1>4. ObjectsOutliveRows'
  BY DEF ObjectsOutliveRows
<1>5. LockedRowsExist'
  BY DEF LockedRowsExist, DelLocked, putVars, delVars
<1>6. TasksOwnTheirRuns'
  BY DEF TasksOwnTheirRuns, LivePc
<1>7. ParsedIsStored'
  BY DEF ParsedIsStored, HasParsed, HasStored
<1>8. ActiveWasPublished'
  BY DEF ActiveWasPublished, TypeOK, LivePc
<1>9. TextIsAccountedFor'
  BY DEF TextIsAccountedFor, HasParsed, Unfinished
<1>10. ChunksComeWithReady'
  BY DEF ChunksComeWithReady
<1>11. UnfinishedRunHasTask'
  BY DEF UnfinishedRunHasTask, LivePc
<1> QED
  BY <1>1, <1>2, <1>3, <1>4, <1>5, <1>6, <1>7, <1>8, <1>9, <1>10, <1>11

\* Recovery fails the runs that read queued or processing, none of which
\* has chunks or is served.
LEMMA RecoverKeepsIInv ==
  ASSUME IInv, Recover
  PROVE  IInv'
<1> USE DEF IInv, Recover, taskVars, putVars, delVars, RowOf, RunRow
<1>1. TypeOK'
  BY DEF TypeOK, FileStatus, RunStatus, Reason
<1>2. RequestsNameUploads'
  BY DEF RequestsNameUploads
<1>3. RunRowsFollowFiles'
  BY DEF RunRowsFollowFiles, TypeOK, RequestsNameUploads, Interrupted
<1>4. ObjectsOutliveRows'
  BY DEF ObjectsOutliveRows, TypeOK, RequestsNameUploads
<1>5. LockedRowsExist'
  BY DEF LockedRowsExist, DelLocked, TypeOK, RequestsNameUploads, fileVars
<1>6. TasksOwnTheirRuns'
  BY DEF TasksOwnTheirRuns, LivePc
<1>7. ParsedIsStored'
  BY DEF ParsedIsStored, TypeOK, HasParsed, HasStored, Interrupted,
         TasksOwnTheirRuns, RunRowsFollowFiles
<1>8. ActiveWasPublished'
  BY DEF ActiveWasPublished, TypeOK, Interrupted
<1>9. TextIsAccountedFor'
  BY DEF TextIsAccountedFor, TypeOK, HasParsed, Interrupted, Unfinished
<1>10. ChunksComeWithReady'
  BY DEF ChunksComeWithReady, TypeOK, Interrupted
<1>11. UnfinishedRunHasTask'
  BY DEF UnfinishedRunHasTask, LivePc, TypeOK, Interrupted
<1> QED
  BY <1>1, <1>2, <1>3, <1>4, <1>5, <1>6, <1>7, <1>8, <1>9, <1>10, <1>11

\* A step that changes nothing keeps the invariant.
LEMMA StutteringKeepsIInv ==
  ASSUME IInv, UNCHANGED vars
  PROVE  IInv'
<1> USE DEF IInv, vars, fileVars, runVars, taskVars, putVars, delVars, sysVars,
            RowOf, RunRow
<1>1. TypeOK'
  BY DEF TypeOK
<1>2. /\ RequestsNameUploads'
      /\ RunRowsFollowFiles'
      /\ ObjectsOutliveRows'
      /\ LockedRowsExist'
  BY DEF RequestsNameUploads, RunRowsFollowFiles, ObjectsOutliveRows,
         LockedRowsExist, DelLocked
<1>3. /\ TasksOwnTheirRuns'
      /\ ParsedIsStored'
      /\ ActiveWasPublished'
  BY DEF TasksOwnTheirRuns, ParsedIsStored, ActiveWasPublished
<1>4. /\ TextIsAccountedFor'
      /\ ChunksComeWithReady'
      /\ UnfinishedRunHasTask'
  BY DEF TextIsAccountedFor, ChunksComeWithReady, UnfinishedRunHasTask, Unfinished
<1> QED
  BY <1>1, <1>2, <1>3, <1>4

----------------------------------------------------------------------------
(* The invariant is inductive, and what follows from it.                   *)

\* Every step of the handlers, the tasks, the database and the process keeps
\* the invariant.
LEMMA StepKeepsIInv == IInv /\ [Next]_vars => IInv'
<1> SUFFICES ASSUME IInv, [Next]_vars PROVE IInv'
  OBVIOUS
<1>1. CASE \E f \in Files : UploadStore(f) \/ UploadCommit(f) \/ UploadRejected(f)
  BY <1>1, UploadStoreKeepsIInv, UploadCommitKeepsIInv, UploadRejectedKeepsIInv
<1>2. CASE \E r \in Runs, f \in Files : IngestFile(r, f)
  BY <1>2, IngestFileKeepsIInv
<1>3. ASSUME NEW r \in Runs, TaskStep(r) PROVE IInv'
  BY <1>3, TaskLoadKeepsIInv, TaskMarkKeepsIInv, TaskStartKeepsIInv,
     TaskParseKeepsIInv, TaskStoreChunksKeepsIInv, TaskFailRunKeepsIInv,
     TaskReportKeepsIInv, TaskRetireKeepsIInv, TaskLockKeepsIInv,
     TaskPublishKeepsIInv, TaskPublishFailsKeepsIInv
     DEF TaskStep
<1>4. CASE \E p \in Puts, f \in Files : PutLoad(p, f)
  BY <1>4, PutLoadKeepsIInv
<1>5. ASSUME NEW p \in Puts, PutStep(p) PROVE IInv'
  BY <1>5, PutRefusedKeepsIInv, PutRenameKeepsIInv, PutLockKeepsIInv,
     PutCommitKeepsIInv
     DEF PutStep
<1>6. CASE \E d \in Dels, f \in Files : DelLoad(d, f)
  BY <1>6, DelLoadKeepsIInv
<1>7. ASSUME NEW d \in Dels, DelStep(d) PROVE IInv'
  BY <1>7, DelLockKeepsIInv, DelCommitKeepsIInv, DelUnlinkKeepsIInv DEF DelStep
<1>8. CASE Deadlock
  BY <1>8, DeadlockAbortsTaskKeepsIInv, DeadlockAbortsPutKeepsIInv,
     DeadlockAbortsDelKeepsIInv
     DEF Deadlock
<1>9. CASE Crash
  BY <1>9, CrashKeepsIInv
<1>10. CASE Recover
  BY <1>10, RecoverKeepsIInv
<1>11. CASE Quiet \/ UNCHANGED vars
  BY <1>11, StutteringKeepsIInv DEF Quiet
<1> QED
  BY <1>1, <1>2, <1>3, <1>4, <1>5, <1>6, <1>7, <1>8, <1>9, <1>10, <1>11 DEF Next

\* Every reachable state satisfies the inductive invariant.
THEOREM InvariantHolds == Spec => []IInv
<1>1. Init => IInv
  BY InitIInv
<1>2. IInv /\ [Next]_vars => IInv'
  BY StepKeepsIInv
<1> QED
  BY <1>1, <1>2, PTL DEF Spec

\* The rows, the object store and the program counters keep to their types.
THEOREM TypeCorrect == Spec => []TypeOK
<1>1. IInv => TypeOK
  BY DEF IInv
<1> QED
  BY <1>1, InvariantHolds, PTL

\* What retrieval joins on is_active is a complete index of a file that exists,
\* and one generation of it: the publishing commit, a replacement, a delete and
\* the partial unique index leave no other state (routers/files.py:300).
THEOREM ServedRunsAreAlwaysWhole == Spec => []ServedRunsAreWhole
<1>1. IInv => ServedRunsAreWhole
  <2> SUFFICES ASSUME IInv, NEW r \in active
               PROVE  /\ runStatus[r] = "ready" /\ chunks[r] # NoContent
                      /\ RowOf(runFile[r])
                      /\ ActiveOf(runFile[r]) = {r}
    BY DEF ServedRunsAreWhole
  <2>1. r \in Runs /\ active \subseteq Runs
    BY DEF IInv, TypeOK
  <2>2. /\ pc[r] = "published" /\ runStatus[r] = "ready"
        /\ \A q \in active : runFile[q] = runFile[r] => q = r
    BY DEF IInv, ActiveWasPublished
  <2>3. chunks[r] # NoContent
    BY <2>1, <2>2 DEF IInv, ChunksComeWithReady
  <2>4. RowOf(runFile[r])
    BY <2>1, <2>2 DEF IInv, RunRowsFollowFiles, RunRow
  <2>5. ActiveOf(runFile[r]) = {r}
    BY <2>1, <2>2 DEF ActiveOf, RunsOf
  <2> QED
    BY <2>2, <2>3, <2>4, <2>5
<1> QED
  BY <1>1, InvariantHolds, PTL

\* A run reads READY exactly when its chunks are in the table
\* (services/processing.py:113).
THEOREM ChunksAlwaysComeWithReady == Spec => []ChunksComeWithReady
<1>1. IInv => ChunksComeWithReady
  BY DEF IInv
<1> QED
  BY <1>1, InvariantHolds, PTL

\* While a row names an object the object is there, however uploads,
\* replacements, deletes and crashes interleave (routers/files.py:555).
THEOREM RowsAlwaysHaveObjects == Spec => []RowHasObject
<1>1. IInv => RowHasObject
  BY DEF IInv, ObjectsOutliveRows, RowHasObject
<1> QED
  BY <1>1, InvariantHolds, PTL

\* No exception and no crash leaves a run queued or processing without a task
\* once the process is up (routers/files.py:230, services/processing.py:143).
THEOREM UnfinishedRunsAlwaysHaveTasks == Spec => []UnfinishedRunHasTask
<1>1. IInv => UnfinishedRunHasTask
  BY DEF IInv
<1> QED
  BY <1>1, InvariantHolds, PTL

\* Retrieval serves text the stored object no longer holds only after a
\* replacement committed behind the back of the task that had parsed it, or
\* while a replacement is unfinished (routers/files.py:631).
THEOREM ServedTextIsAlwaysAccountedFor == Spec => []ServedTextIsStored
<1>1. IInv => ServedTextIsStored
  <2> SUFFICES ASSUME IInv, NEW r \in active
               PROVE  \/ chunks[r] = object[runFile[r]]
                      \/ r \in overtaken
                      \/ Unfinished(runFile[r])
    BY DEF ServedTextIsStored
  <2>1. r \in Runs
    BY DEF IInv, TypeOK
  <2>2. pc[r] = "published" /\ RunRow(r)
    BY DEF IInv, ActiveWasPublished, RunRow
  <2>3. chunks[r] = parsed[r]
    BY <2>1, <2>2 DEF IInv, ParsedIsStored, HasStored
  <2>4. parsed[r] = object[runFile[r]] \/ r \in overtaken \/ Unfinished(runFile[r])
    BY <2>1, <2>2 DEF IInv, TextIsAccountedFor
  <2> QED
    BY <2>3, <2>4
<1> QED
  BY <1>1, InvariantHolds, PTL

----------------------------------------------------------------------------
(* The status of a file.                                                   *)

\* Before the first task nothing is marked, targeted or summarised.
LEMMA InitCommitInv == Init => CommitInv
BY DEF Init, CommitInv, TargetsAreOwn, SeenAsMarked, Marked, StatusIsHonest

\* A task at r goes to label l: what it holds by then is all there is to show.
LEMMA TaskMoves ==
  ASSUME IInv, TargetsAreOwn, SeenAsMarked, NEW r \in Runs, NEW l, TaskGoto(r, l),
         pc[r] # "published", runFile' = runFile,
         \A q \in Runs : q # r => target'[q] = target[q] /\ taskSaw'[q] = taskSaw[q],
         \A q \in target'[r] : q \in Runs /\ runFile[q] = runFile[r] /\ pc[q] = "published",
         target'[r] # {} => l \in {"locking", "publishing"},
         l \in Marked => taskSaw'[r].status = "processing"
  PROVE  (TargetsAreOwn /\ SeenAsMarked)'
<1>1. \A q \in Runs : pc'[q] = IF q = r THEN l ELSE pc[q]
  BY DEF TaskGoto, IInv, TypeOK
<1>2. \A q \in Runs : target[q] \subseteq Runs
  BY DEF IInv, TypeOK
<1> QED
  BY <1>1, <1>2 DEF TargetsAreOwn, SeenAsMarked

\* No step lets a task deactivate another file's run, or forget that it marked
\* its file.
LEMMA TasksKeepTheirs ==
  ASSUME IInv, TargetsAreOwn, SeenAsMarked, [Next]_vars
  PROVE  (TargetsAreOwn /\ SeenAsMarked)'
<1> USE DEF OnlyTask, TaskIsAt, Marked
<1>a. /\ target \in [Runs -> SUBSET Runs] /\ taskSaw \in [Runs -> Seen]
      /\ \A q \in active : pc[q] = "published" /\ q \in Runs
  BY DEF IInv, TypeOK, ActiveWasPublished
<1>1. ASSUME NEW r \in Runs, TaskLoad(r)
      PROVE  (TargetsAreOwn /\ SeenAsMarked)'
  <2>1. CASE TaskGoto(r, "marking")
    BY <1>a, <1>1, <2>1, TaskMoves DEF TaskLoad, TargetsAreOwn, SeenAsMarked
  <2>2. CASE TaskGoto(r, "returned")
    BY <1>a, <1>1, <2>2, TaskMoves DEF TaskLoad, TargetsAreOwn, SeenAsMarked
  <2> QED
    BY <1>1, <2>1, <2>2 DEF TaskLoad
<1>2. ASSUME NEW r \in Runs, TaskMark(r)
      PROVE  (TargetsAreOwn /\ SeenAsMarked)'
  <2>1. CASE TaskGoto(r, "starting")
    BY <1>a, <1>2, <2>1, TaskMoves DEF TaskMark, TargetsAreOwn, SeenAsMarked, Seen
  <2>2. CASE TaskGoto(r, "raised")
    BY <1>a, <1>2, <2>2, TaskMoves DEF TaskMark, TargetsAreOwn, SeenAsMarked, Seen
  <2> QED
    BY <1>2, <2>1, <2>2 DEF TaskMark
<1>3. ASSUME NEW r \in Runs, TaskStart(r)
      PROVE  (TargetsAreOwn /\ SeenAsMarked)'
  <2>1. CASE TaskGoto(r, "parsing")
    BY <1>a, <1>3, <2>1, TaskMoves DEF TaskStart, TargetsAreOwn, SeenAsMarked
  <2>2. CASE TaskGoto(r, "raised")
    BY <1>a, <1>3, <2>2, TaskMoves DEF TaskStart, TargetsAreOwn, SeenAsMarked
  <2> QED
    BY <1>3, <2>1, <2>2 DEF TaskStart
<1>4. ASSUME NEW r \in Runs, TaskParse(r)
      PROVE  (TargetsAreOwn /\ SeenAsMarked)'
  <2>1. CASE TaskGoto(r, "embedding")
    BY <1>a, <1>4, <2>1, TaskMoves DEF TaskParse, TargetsAreOwn, SeenAsMarked
  <2>2. CASE TaskGoto(r, "failing")
    BY <1>a, <1>4, <2>2, TaskMoves DEF TaskParse, TargetsAreOwn, SeenAsMarked
  <2> QED
    BY <1>4, <2>1, <2>2 DEF TaskParse
<1>5. ASSUME NEW r \in Runs, TaskStoreChunks(r)
      PROVE  (TargetsAreOwn /\ SeenAsMarked)'
  <2>1. CASE TaskGoto(r, "retiring")
    BY <1>a, <1>5, <2>1, TaskMoves DEF TaskStoreChunks, TargetsAreOwn, SeenAsMarked
  <2>2. CASE TaskGoto(r, "failing")
    BY <1>a, <1>5, <2>2, TaskMoves DEF TaskStoreChunks, TargetsAreOwn, SeenAsMarked
  <2> QED
    BY <1>5, <2>1, <2>2 DEF TaskStoreChunks
<1>6. ASSUME NEW r \in Runs, TaskFailRun(r)
      PROVE  (TargetsAreOwn /\ SeenAsMarked)'
  <2>1. CASE TaskGoto(r, "reporting")
    BY <1>a, <1>6, <2>1, TaskMoves DEF TaskFailRun, TargetsAreOwn, SeenAsMarked
  <2>2. CASE TaskGoto(r, "raised")
    BY <1>a, <1>6, <2>2, TaskMoves DEF TaskFailRun, TargetsAreOwn, SeenAsMarked
  <2> QED
    BY <1>6, <2>1, <2>2 DEF TaskFailRun
<1>7. ASSUME NEW r \in Runs, TaskReport(r)
      PROVE  (TargetsAreOwn /\ SeenAsMarked)'
  <2>1. CASE TaskGoto(r, "returned")
    BY <1>a, <1>7, <2>1, TaskMoves DEF TaskReport, TargetsAreOwn, SeenAsMarked
  <2>2. CASE TaskGoto(r, "raised")
    BY <1>a, <1>7, <2>2, TaskMoves DEF TaskReport, TargetsAreOwn, SeenAsMarked
  <2> QED
    BY <1>7, <2>1, <2>2 DEF TaskReport
<1>8. ASSUME NEW r \in Runs, TaskRetire(r)
      PROVE  (TargetsAreOwn /\ SeenAsMarked)'
  BY <1>a, <1>8, TaskMoves DEF TaskRetire, TargetsAreOwn, SeenAsMarked, ActiveOf, RunsOf
<1>9. ASSUME NEW r \in Runs, TaskLock(r)
      PROVE  (TargetsAreOwn /\ SeenAsMarked)'
  BY <1>a, <1>9, TaskMoves DEF TaskLock, TargetsAreOwn, SeenAsMarked
<1>10. ASSUME NEW r \in Runs, TaskPublish(r)
      PROVE  (TargetsAreOwn /\ SeenAsMarked)'
  BY <1>a, <1>10, TaskMoves DEF TaskPublish, TargetsAreOwn, SeenAsMarked
<1>11. ASSUME NEW r \in Runs, TaskPublishFails(r)
      PROVE  (TargetsAreOwn /\ SeenAsMarked)'
  BY <1>a, <1>11, TaskMoves DEF TaskPublishFails, TargetsAreOwn, SeenAsMarked
<1>12. ASSUME NEW r \in Runs, DeadlockAbortsTask(r)
      PROVE  (TargetsAreOwn /\ SeenAsMarked)'
  BY <1>a, <1>12, TaskMoves DEF DeadlockAbortsTask, TargetsAreOwn, SeenAsMarked, Deadlocked
<1>13. ASSUME NEW r \in Runs, NEW f \in Files, IngestFile(r, f)
      PROVE  (TargetsAreOwn /\ SeenAsMarked)'
  <2>1. \A q \in Runs : /\ pc'[q] = IF q = r THEN "scheduled" ELSE pc[q]
                        /\ runFile'[q] = IF q = r THEN f ELSE runFile[q]
    BY <1>13 DEF IngestFile, IInv, TypeOK
  <2>2. pc[r] = "unused" /\ target[r] = {} /\ UNCHANGED <<target, taskSaw>>
    BY <1>13 DEF IngestFile, TargetsAreOwn
  <2> QED
    BY <1>a, <2>1, <2>2 DEF TargetsAreOwn, SeenAsMarked
<1>14. CASE Crash
  BY <1>a, <1>14 DEF Crash, IInv, TypeOK, runVars, TargetsAreOwn, SeenAsMarked, LivePc
<1>15. CASE UNCHANGED <<runFile, pc, taskSaw, target>>
  BY <1>15 DEF TargetsAreOwn, SeenAsMarked
<1> QED
  BY <1>1, <1>2, <1>3, <1>4, <1>5, <1>6, <1>7, <1>8, <1>9, <1>10, <1>11, <1>12, <1>13, <1>14, <1>15
     DEF Next, TaskStep, UploadStore, UploadCommit, UploadRejected, PutLoad, PutStep, PutRefused,
         PutRename, PutLock, PutCommit, OnlyPut, DelLoad, DelStep, DelLock, DelCommit, DelUnlink,
         OnlyDel, Deadlock, DeadlockAbortsPut, DeadlockAbortsDel, Recover, Quiet, vars, runVars,
         taskVars

\* A replacement that committed over an unchanged "uploaded" stays one.
LEMMA BlindPutsStay ==
  ASSUME IInv, [Next]_vars, NEW f \in Files, BlindPut(f)
  PROVE  BlindPut(f)'
<1>1. PICK p \in Puts : putFile[p] = f /\ putPc[p] = "done" /\ putSaw[p].status = "uploaded"
  BY DEF BlindPut
<1>2. putFile'[p] = f /\ putPc'[p] = "done" /\ putSaw'[p].status = "uploaded"
  BY <1>1 DEF IInv, TypeOK, Next, vars, putVars, UploadStore, UploadCommit, UploadRejected,
     IngestFile, TaskStep, TaskLoad, TaskMark, TaskStart, TaskParse, TaskStoreChunks,
     TaskFailRun, TaskReport, TaskRetire, TaskLock, TaskPublish, TaskPublishFails, OnlyTask,
     PutLoad, PutStep, PutRefused, PutRename, PutLock, PutCommit, DelLoad, DelStep, DelLock,
     DelCommit, DelUnlink, OnlyDel, Deadlock, DeadlockAbortsTask, DeadlockAbortsPut,
     DeadlockAbortsDel, Crash, Recover, Quiet
<1> QED
  BY <1>1, <1>2 DEF BlindPut

\* A report by a session that had loaded an earlier message stays one.
LEMMA BlindReportsStay ==
  ASSUME IInv, [Next]_vars, NEW f \in Files, BlindReport(f)
  PROVE  BlindReport(f)'
<1>1. PICK r \in RunsOf(f) : pc[r] = "returned" /\ taskSaw[r].error \in TaskReason
  BY DEF BlindReport
<1>2. runFile'[r] = f /\ pc'[r] = "returned" /\ taskSaw'[r] = taskSaw[r]
  BY <1>1 DEF RunsOf, IInv, TypeOK, Next, vars, runVars, taskVars, UploadStore, UploadCommit,
     UploadRejected, IngestFile, TaskStep, TaskLoad, TaskMark, TaskStart, TaskParse,
     TaskStoreChunks, TaskFailRun, TaskReport, TaskRetire, TaskLock, TaskPublish,
     TaskPublishFails, OnlyTask, TaskGoto, TaskIsAt, PutLoad, PutStep, PutRefused, PutRename,
     PutLock, PutCommit, OnlyPut, DelLoad, DelStep, DelLock, DelCommit, DelUnlink, OnlyDel,
     Deadlock, DeadlockAbortsTask, Deadlocked, DeadlockAbortsPut, DeadlockAbortsDel, Crash,
     LivePc, Recover, Quiet
<1> QED
  BY <1>1, <1>2 DEF BlindReport, RunsOf

\* A file's READY goes only with an index of its own, and its FAILED with a
\* message: one step for each commit that writes either side of that.
LEMMA StatusStaysHonest ==
  ASSUME IInv, CommitInv, [Next]_vars
  PROVE  StatusIsHonest'
<1> SUFFICES ASSUME NEW f \in Files, ~BlindPut(f)'
             PROVE  /\ fileStatus'[f] = "ready" => ActiveOf(f)' # {}
                    /\ fileStatus'[f] = "failed" => fileError'[f] # "none" \/ BlindReport(f)'
  BY DEF StatusIsHonest
<1>1. ~BlindPut(f)
  BY BlindPutsStay
<1>2. /\ fileStatus[f] = "ready" => ActiveOf(f) # {}
      /\ fileStatus[f] = "failed" => fileError[f] # "none" \/ BlindReport(f)
  BY <1>1 DEF CommitInv, StatusIsHonest
<1>r. BlindReport(f) => BlindReport(f)'
  BY BlindReportsStay
<1>3. CASE UNCHANGED <<fileStatus, fileError, runFile, active>>
  BY <1>2, <1>r, <1>3 DEF ActiveOf, RunsOf
<1>4. ASSUME NEW g \in Files, UploadCommit(g)
      PROVE  /\ fileStatus'[f] = "ready" => ActiveOf(f)' # {}
             /\ fileStatus'[f] = "failed" => fileError'[f] # "none" \/ BlindReport(f)'
  BY <1>2, <1>r, <1>4 DEF UploadCommit, ActiveOf, RunsOf, runVars, IInv, TypeOK
<1>5. ASSUME NEW r \in Runs, NEW g \in Files, IngestFile(r, g)
      PROVE  /\ fileStatus'[f] = "ready" => ActiveOf(f)' # {}
             /\ fileStatus'[f] = "failed" => fileError'[f] # "none" \/ BlindReport(f)'
  <2>1. r \notin active /\ active \subseteq Runs /\ active' = active
    BY <1>5 DEF IngestFile, IInv, ActiveWasPublished, TypeOK
  <2>2. \A q \in active : runFile'[q] = runFile[q]
    BY <1>5, <2>1 DEF IngestFile, IInv, TypeOK
  <2>3. ActiveOf(f)' = ActiveOf(f)
    BY <2>1, <2>2 DEF ActiveOf, RunsOf
  <2> QED
    BY <1>2, <1>r, <1>5, <2>3 DEF IngestFile, fileVars
<1>6. ASSUME NEW r \in Runs, TaskMark(r)
      PROVE  /\ fileStatus'[f] = "ready" => ActiveOf(f)' # {}
             /\ fileStatus'[f] = "failed" => fileError'[f] # "none" \/ BlindReport(f)'
  BY <1>2, <1>r, <1>6 DEF TaskMark, OnlyTask, Flush, ActiveOf, RunsOf, IInv, TypeOK
<1>7. ASSUME NEW r \in Runs, TaskReport(r)
      PROVE  /\ fileStatus'[f] = "ready" => ActiveOf(f)' # {}
             /\ fileStatus'[f] = "failed" => fileError'[f] # "none" \/ BlindReport(f)'
  <2>1. /\ runFile' = runFile /\ active' = active
        /\ taskSaw' = taskSaw
    BY <1>7 DEF TaskReport, OnlyTask
  <2>2. CASE runFile[r] = f /\ RowOf(f)
    <3>1. PICK e \in TaskReason :
            fileError'[f] = Flush(taskSaw[r].error, e, fileError[f])
      BY <1>7, <2>2 DEF TaskReport, IInv, TypeOK
    <3>2. taskSaw[r].error = e => BlindReport(f)'
      BY <1>7, <2>1, <2>2 DEF TaskReport, TaskGoto, BlindReport, RunsOf, IInv, TypeOK
    <3>3. taskSaw[r].error # e => fileError'[f] # "none"
      BY <3>1 DEF Flush, TaskReason
    <3>4. fileStatus'[f] = "ready" => fileStatus[f] = "ready"
      BY <1>7, <2>2 DEF TaskReport, Flush, IInv, TypeOK
    <3> QED
      BY <1>2, <2>1, <3>2, <3>3, <3>4 DEF ActiveOf, RunsOf
  <2>3. CASE ~(runFile[r] = f /\ RowOf(f))
    <3>1. fileStatus'[f] = fileStatus[f] /\ fileError'[f] = fileError[f]
      BY <1>7, <2>3 DEF TaskReport, IInv, TypeOK
    <3> QED
      BY <1>2, <1>r, <2>1, <3>1 DEF ActiveOf, RunsOf
  <2> QED
    BY <2>2, <2>3
<1>8. ASSUME NEW r \in Runs, TaskPublish(r)
      PROVE  /\ fileStatus'[f] = "ready" => ActiveOf(f)' # {}
             /\ fileStatus'[f] = "failed" => fileError'[f] # "none" \/ BlindReport(f)'
  <2>1. taskSaw[r].status = "processing" /\ runFile' = runFile
    BY <1>8 DEF TaskPublish, TaskIsAt, CommitInv, SeenAsMarked, Marked, OnlyTask
  <2>2. CASE runFile[r] = f
    <3>1. fileStatus'[f] = "ready" /\ r \in ActiveOf(f)'
      BY <1>8, <2>1, <2>2 DEF TaskPublish, Flush, ActiveOf, RunsOf, IInv, TypeOK
    <3> QED
      BY <3>1
  <2>3. CASE runFile[r] # f
    <3>1. fileStatus'[f] = fileStatus[f] /\ fileError'[f] = fileError[f]
      BY <1>8, <2>3 DEF TaskPublish, IInv, TypeOK
    <3>2. ActiveOf(f) \subseteq ActiveOf(f)'
      BY <1>8, <2>1, <2>3 DEF TaskPublish, ActiveOf, RunsOf, CommitInv, TargetsAreOwn
    <3> QED
      BY <1>2, <1>r, <3>1, <3>2
  <2> QED
    BY <2>2, <2>3
<1>9. ASSUME NEW p \in Puts, PutCommit(p)
      PROVE  /\ fileStatus'[f] = "ready" => ActiveOf(f)' # {}
             /\ fileStatus'[f] = "failed" => fileError'[f] # "none" \/ BlindReport(f)'
  <2>1. CASE putFile[p] = f
    <3>1. putPc'[p] = "done" /\ putFile' = putFile /\ putSaw' = putSaw
      BY <1>9 DEF PutCommit, IInv, TypeOK
    <3>2. putSaw[p].status # "uploaded"
      BY <2>1, <3>1 DEF BlindPut
    <3>3. fileStatus'[f] = "uploaded"
      BY <1>9, <2>1, <3>2 DEF PutCommit, Flush, IInv, TypeOK
    <3> QED
      BY <3>3
  <2>2. CASE putFile[p] # f
    <3>1. fileStatus'[f] = fileStatus[f] /\ fileError'[f] = fileError[f]
      BY <1>9, <2>2 DEF PutCommit, IInv, TypeOK
    <3>2. ActiveOf(f)' = ActiveOf(f)
      BY <1>9, <2>2 DEF PutCommit, Withdraw, OnlyPut, ActiveOf, RunsOf
    <3> QED
      BY <1>2, <1>r, <3>1, <3>2
  <2> QED
    BY <2>1, <2>2
<1>10. ASSUME NEW d \in Dels, DelCommit(d)
       PROVE  /\ fileStatus'[f] = "ready" => ActiveOf(f)' # {}
              /\ fileStatus'[f] = "failed" => fileError'[f] # "none" \/ BlindReport(f)'
  <2>1. CASE delFile[d] = f
    BY <1>10, <2>1 DEF DelCommit, IInv, TypeOK
  <2>2. CASE delFile[d] # f
    <3>1. fileStatus'[f] = fileStatus[f] /\ fileError'[f] = fileError[f]
      BY <1>10, <2>2 DEF DelCommit, IInv, TypeOK
    <3>2. ActiveOf(f)' = ActiveOf(f)
      BY <1>10, <2>2 DEF DelCommit, ActiveOf, RunsOf
    <3> QED
      BY <1>2, <1>r, <3>1, <3>2
  <2> QED
    BY <2>1, <2>2
<1>11. CASE Recover
  BY <1>2, <1>r, <1>11 DEF Recover, ActiveOf, RunsOf, IInv, TypeOK
<1> QED
  BY <1>3, <1>4, <1>5, <1>6, <1>7, <1>8, <1>9, <1>10, <1>11
     DEF Next, vars, fileVars, runVars, UploadStore, UploadRejected, TaskStep, TaskLoad,
         TaskStart, TaskParse, TaskStoreChunks, TaskFailRun, TaskRetire, TaskLock,
         TaskPublishFails, OnlyTask, PutLoad, PutStep, PutRefused, PutRename, PutLock, OnlyPut,
         DelLoad, DelStep, DelLock, DelUnlink, OnlyDel, Deadlock, DeadlockAbortsTask,
         DeadlockAbortsPut, DeadlockAbortsDel, Crash, Quiet

\* Without a replacement that commits over progress it never saw, the summary
\* the file list renders is the truth: a READY file has an index and a FAILED
\* one a reason, whatever tasks, deletes and crashes did (routers/files.py:236).
THEOREM StatusIsAlwaysHonest == Spec => []StatusIsHonest
<1>1. IInv /\ CommitInv /\ [Next]_vars => CommitInv'
  BY TasksKeepTheirs, StatusStaysHonest DEF CommitInv
<1>2. CommitInv => StatusIsHonest
  BY DEF CommitInv
<1> QED
  BY <1>1, <1>2, InitCommitInv, InvariantHolds, PTL DEF Spec

----------------------------------------------------------------------------
(* The digest of a file.                                                   *)

\* No replacement has left anything before the first request.
LEMMA InitPutsLeaveTheirs == Init => PutsLeaveTheirs
<1> SUFFICES ASSUME Init, NEW f \in Files PROVE PutsLeave(f)
  BY DEF PutsLeaveTheirs
<1>1. object[f] = NoContent /\ fileDigest[f] = NoContent /\ ~RowOf(f)
  BY DEF Init, RowOf
<1> QED
  BY <1>1, ContentAssumption DEF PutsLeave, Content

\* A step that writes neither objects nor digests, moves no replacement and
\* inserts no file keeps what the replacements left.
LEMMA OthersKeepWhatPutsLeft ==
  ASSUME UNCHANGED <<object, fileDigest, putPc, putFile>>,
         NEW f \in Files, RowOf(f)' => RowOf(f), PutsLeave(f)
  PROVE  PutsLeave(f)'
BY DEF PutsLeave

\* The bytes a replacement leaves are its own from its rename on and its digest
\* from its commit on: one step for each action that writes either, or moves a
\* replacement, or makes a row.
LEMMA StepKeepsWhatPutsLeft ==
  ASSUME IInv, PutsLeaveTheirs, [Next]_vars
  PROVE  PutsLeaveTheirs'
<1> SUFFICES ASSUME NEW f \in Files PROVE PutsLeave(f)'
  BY DEF PutsLeaveTheirs
<1>1. PutsLeave(f)
  BY DEF PutsLeaveTheirs
<1>2. /\ object \in [Files -> Content \cup {NoContent}]
      /\ fileDigest \in [Files -> Content \cup {NoContent}]
      /\ fileStatus \in [Files -> FileStatus \cup {"none"}]
      /\ putPc \in [Puts -> PutPc] /\ putFile \in [Puts -> Files \cup {NoFile}]
      /\ uploading \in [Files -> {"new", "stored", "over"}]
  BY DEF IInv, TypeOK
<1>3. \A p \in Puts : putPc[p] # "unused" =>
                        putFile[p] \in Files /\ uploading[putFile[p]] = "over"
  BY DEF IInv, RequestsNameUploads
<1>4. RowOf(f) => uploading[f] = "over" /\ object[f] # NoContent
  BY DEF IInv, RequestsNameUploads, ObjectsOutliveRows
<1>5. ASSUME NEW g \in Files, UploadStore(g) PROVE PutsLeave(f)'
  BY <1>1, <1>2, <1>4, <1>5, ContentAssumption
     DEF PutsLeave, UploadStore, fileVars, putVars, RowOf
<1>6. ASSUME NEW g \in Files, UploadCommit(g) PROVE PutsLeave(f)'
  BY <1>1, <1>2, <1>3, <1>6, ContentAssumption
     DEF PutsLeave, UploadCommit, putVars, RowOf, Content
<1>7. ASSUME NEW r \in Runs, TaskStep(r) PROVE PutsLeave(f)'
  <2>1. UNCHANGED <<object, fileDigest, putPc, putFile>>
    BY <1>7 DEF TaskStep, TaskLoad, TaskMark, TaskStart, TaskParse, TaskStoreChunks,
       TaskFailRun, TaskReport, TaskRetire, TaskLock, TaskPublish, TaskPublishFails, OnlyTask,
       putVars, fileVars
  <2>2. RowOf(f)' => RowOf(f)
    BY <1>2, <1>7 DEF TaskStep, TaskLoad, TaskMark, TaskStart, TaskParse, TaskStoreChunks,
       TaskFailRun, TaskReport, TaskRetire, TaskLock, TaskPublish, TaskPublishFails, fileVars,
       RowOf, Flush
  <2> QED
    BY <1>1, <2>1, <2>2, OthersKeepWhatPutsLeft
<1>8. ASSUME NEW p \in Puts, NEW g \in Files, PutLoad(p, g) PROVE PutsLeave(f)'
  BY <1>1, <1>2, <1>8 DEF PutsLeave, PutLoad, fileVars, RowOf
<1>9. ASSUME NEW p \in Puts, PutRefused(p) PROVE PutsLeave(f)'
  BY <1>1, <1>2, <1>9 DEF PutsLeave, PutRefused, fileVars, RowOf
<1>10. ASSUME NEW p \in Puts, PutRename(p) PROVE PutsLeave(f)'
  BY <1>1, <1>2, <1>3, <1>10 DEF PutsLeave, PutRename, fileVars, RowOf
<1>11. ASSUME NEW p \in Puts, PutLock(p) PROVE PutsLeave(f)'
  BY <1>1, <1>2, <1>11 DEF PutsLeave, PutLock, fileVars, RowOf
<1>12. ASSUME NEW p \in Puts, PutCommit(p) PROVE PutsLeave(f)'
  <2>1. RowOf(putFile[p])
    BY <1>12 DEF PutCommit, IInv, LockedRowsExist
  <2>2. RowOf(f)' => RowOf(f)
    BY <1>2, <1>12, <2>1 DEF PutCommit, RowOf
  <2>3. /\ object' = object /\ putFile' = putFile
        /\ putPc' = [putPc EXCEPT ![p] = "done"]
        /\ fileDigest' = [fileDigest EXCEPT ![putFile[p]] = p]
        /\ putPc[p] = "locked"
    BY <1>12 DEF PutCommit
  <2> QED
    BY <1>1, <1>2, <1>3, <2>1, <2>2, <2>3 DEF PutsLeave, Content
<1>13. ASSUME NEW d \in Dels, DelCommit(d) PROVE PutsLeave(f)'
  BY <1>1, <1>2, <1>13, ContentAssumption
     DEF PutsLeave, DelCommit, OnlyDel, putVars, RowOf, Content
<1>14. ASSUME NEW d \in Dels, DelUnlink(d) PROVE PutsLeave(f)'
  <2>1. ~RowOf(delFile[d])
    BY <1>14 DEF DelUnlink, IInv, ObjectsOutliveRows
  <2> QED
    BY <1>1, <1>2, <1>14, <2>1, ContentAssumption
       DEF PutsLeave, DelUnlink, OnlyDel, putVars, fileVars, RowOf, Content
<1>15. ASSUME NEW p \in Puts, DeadlockAbortsPut(p) PROVE PutsLeave(f)'
  BY <1>1, <1>2, <1>15 DEF PutsLeave, DeadlockAbortsPut, fileVars, RowOf
<1>16. CASE Crash
  BY <1>1, <1>2, <1>16 DEF PutsLeave, Crash, fileVars, RowOf
<1>17. CASE Recover
  BY <1>1, <1>2, <1>17 DEF PutsLeave, Recover, putVars, RowOf
<1>18. CASE UNCHANGED <<object, fileDigest, fileStatus, putPc, putFile>>
  BY <1>1, <1>18 DEF PutsLeave, RowOf
<1> QED
  BY <1>5, <1>6, <1>7, <1>8, <1>9, <1>10, <1>11, <1>12, <1>13, <1>14, <1>15, <1>16, <1>17,
     <1>18
     DEF Next, vars, fileVars, putVars, UploadRejected, IngestFile, PutStep, DelLoad, DelStep,
         DelLock, OnlyDel, OnlyTask, Deadlock, DeadlockAbortsTask, DeadlockAbortsDel, Quiet

\* The digest of a row describes the stored bytes, or a replacement is unfinished,
\* or two that are both done overlapped: no order of renames, locks, commits,
\* aborts and crashes leaves another mismatch (routers/files.py:612).
THEOREM DigestIsAlwaysAccountedFor == Spec => []DigestIsAccountedFor
<1>1. IInv /\ PutsLeaveTheirs => DigestIsAccountedFor
  <2> SUFFICES ASSUME IInv, PutsLeaveTheirs, NEW f \in Files, RowOf(f),
                      fileDigest[f] # object[f], ~Unfinished(f)
               PROVE  \E p, q \in Puts :
                        /\ object[f] = p /\ fileDigest[f] = q
                        /\ \A w \in {p, q} : putFile[w] = f /\ putPc[w] = "done"
    BY DEF DigestIsAccountedFor
  <2>1. PutsLeave(f) /\ object[f] \in Content
    BY DEF PutsLeaveTheirs, IInv, TypeOK, ObjectsOutliveRows
  <2>2. object[f] \in Puts
    BY <2>1 DEF PutsLeave, Content
  <2>3. putFile[object[f]] = f /\ putPc[object[f]] = "done"
    BY <2>1, <2>2 DEF PutsLeave, Unfinished
  <2>4. fileDigest[f] \in Puts
    BY <2>1, <2>2, <2>3 DEF PutsLeave
  <2> QED
    BY <2>1, <2>2, <2>3, <2>4 DEF PutsLeave
<1> QED
  BY <1>1, InitPutsLeaveTheirs, StepKeepsWhatPutsLeft, InvariantHolds, PTL DEF Spec

----------------------------------------------------------------------------
(* Ingestion implements the run lifecycle.                                 *)

\* Which phase a run is in, case by case.
PhasesAre(r) ==
  /\ pc[r] = "unused" => Phase(r) = "none"
  /\ pc[r] # "unused" /\ ~RunRow(r) => Phase(r) = "gone"
  /\ r \in active => Phase(r) = "serving"
  /\ runStatus[r] = "ready" /\ r \notin active =>
       Phase(r) = IF pc[r] = "published" THEN "retired" ELSE "built"
  /\ RunRow(r) /\ runStatus[r] # "ready" => Phase(r) = runStatus[r]

\* The cases are all there are.
LEMMA PhaseCases ==
  ASSUME IInv, NEW r \in Runs
  PROVE  PhasesAre(r)
<1>1. /\ pc[r] = "unused" => ~RunRow(r)
      /\ r \in active => pc[r] = "published" /\ runStatus[r] = "ready"
  BY DEF IInv, RunRowsFollowFiles, ActiveWasPublished
<1> QED
  BY <1>1 DEF PhasesAre, Phase, RunRow

\* The same after a step.
LEMMA NextPhaseCases ==
  ASSUME IInv', NEW r \in Runs
  PROVE  PhasesAre(r)'
<1>1. /\ pc'[r] = "unused" => ~RunRow(r)'
      /\ r \in active' => pc'[r] = "published" /\ runStatus'[r] = "ready"
  BY DEF IInv, RunRowsFollowFiles, ActiveWasPublished
<1> QED
  BY <1>1 DEF PhasesAre, Phase, RunRow

\* The lifecycle's serving runs are those with is_active.
LEMMA ServingIsActive ==
  ASSUME IInv, NEW r \in Runs
  PROVE  r \in active <=> Phase(r) = "serving"
<1>1. runStatus[r] \in {"none", "queued", "processing", "ready", "failed"}
  BY DEF IInv, TypeOK, RunStatus
<1> QED
  BY <1>1, PhaseCases DEF PhasesAre, RunRow

\* A step that leaves the rows of the runs alone, and makes no task begin or
\* publish, changes no phase.
LEMMA SamePhases ==
  ASSUME IInv, IInv', UNCHANGED <<runFile, runStatus, active>>,
         \A q \in Runs : pc[q] = "unused" <=> pc'[q] = "unused",
         \A q \in Runs : pc[q] = "published" <=> pc'[q] = "published"
  PROVE  UNCHANGED Lifecycle!vars
<1>1. ASSUME NEW q \in Runs PROVE Phase(q)' = Phase(q)
  BY PhaseCases, NextPhaseCases DEF PhasesAre, RunRow
<1> QED
  BY <1>1 DEF Lifecycle!vars

\* A committed row of the run r alone changes r's phase alone.
LEMMA OtherPhases ==
  ASSUME IInv, IInv', NEW r \in Runs, NEW q \in Runs, q # r,
         UNCHANGED <<runFile, active>>, runStatus'[q] = runStatus[q], pc'[q] = pc[q]
  PROVE  Phase(q)' = Phase(q)
BY PhaseCases, NextPhaseCases DEF PhasesAre, RunRow

\* Nothing is requested, built or served before the first request.
LEMMA InitImplementsLifecycle == Init => Lifecycle!Init
BY DEF Init, Lifecycle!Init, Phase

\* A run's INSERT is the request of its lifecycle.
LEMMA IngestIsRequest ==
  ASSUME IInv, IInv', NEW r \in Runs, NEW f \in Files, IngestFile(r, f)
  PROVE  Lifecycle!Request(r, f)
<1>1. /\ pc[r] = "unused" /\ pc'[r] = "scheduled" /\ runStatus'[r] = "queued"
      /\ active' = active /\ runFile' = [runFile EXCEPT ![r] = f]
      /\ \A q \in Runs : q # r => pc'[q] = pc[q] /\ runStatus'[q] = runStatus[q]
  BY DEF IngestFile, IInv, TypeOK
<1>2. Phase(r) = "none" /\ Phase(r)' = "queued"
  BY <1>1, PhaseCases, NextPhaseCases DEF PhasesAre, RunRow
<1>3. ASSUME NEW q \in Runs, q # r PROVE Phase(q)' = Phase(q)
  BY <1>1, <1>3, PhaseCases, NextPhaseCases DEF PhasesAre, RunRow
<1> QED
  BY <1>1, <1>2, <1>3 DEF Lifecycle!Request

\* The commit of PROCESSING begins the run, unless its row is gone.
LEMMA StartIsBegin ==
  ASSUME IInv, IInv', NEW r \in Runs, TaskStart(r)
  PROVE  Lifecycle!Begin(r) \/ UNCHANGED Lifecycle!vars
<1>1. /\ pc[r] = "starting" /\ UNCHANGED <<runFile, active>>
      /\ \A q \in Runs : q # r => pc'[q] = pc[q] /\ runStatus'[q] = runStatus[q]
  BY DEF TaskStart, TaskIsAt, TaskGoto, OnlyTask, IInv, TypeOK
<1>2. CASE RunRow(r)
  <2>1. /\ pc'[r] = "parsing" /\ runStatus[r] = "queued" /\ runStatus'[r] = "processing"
    BY <1>1, <1>2 DEF TaskStart, TaskGoto, IInv, TypeOK, TasksOwnTheirRuns
  <2>2. Phase(r) = "queued" /\ Phase(r)' = "processing"
    BY <1>1, <2>1, PhaseCases, NextPhaseCases DEF PhasesAre, RunRow
  <2> QED
    BY <1>1, <2>2, OtherPhases DEF Lifecycle!Begin
<1>3. CASE ~RunRow(r)
  BY <1>1, <1>3, SamePhases DEF TaskStart, TaskGoto, IInv, TypeOK
<1> QED
  BY <1>2, <1>3

\* The commit of the chunks builds it, unless the INSERT is refused.
LEMMA StoreChunksIsBuild ==
  ASSUME IInv, IInv', NEW r \in Runs, TaskStoreChunks(r)
  PROVE  Lifecycle!Build(r) \/ UNCHANGED Lifecycle!vars
<1>1. /\ pc[r] = "embedding" /\ UNCHANGED <<runFile, active>>
      /\ \A q \in Runs : q # r => pc'[q] = pc[q] /\ runStatus'[q] = runStatus[q]
  BY DEF TaskStoreChunks, TaskIsAt, TaskGoto, OnlyTask, IInv, TypeOK
<1>2. CASE RunRow(r) /\ pc'[r] = "retiring"
  <2>1. /\ pc'[r] = "retiring" /\ runStatus[r] = "processing" /\ runStatus'[r] = "ready"
    BY <1>1, <1>2 DEF TaskStoreChunks, TaskGoto, IInv, TypeOK, TasksOwnTheirRuns
  <2>2. r \notin active'
    BY <1>1, <2>1 DEF IInv, ActiveWasPublished
  <2>3. Phase(r) = "processing" /\ Phase(r)' = "built"
    BY <1>1, <2>1, <2>2, PhaseCases, NextPhaseCases DEF PhasesAre, RunRow
  <2> QED
    BY <1>1, <2>3, OtherPhases DEF Lifecycle!Build
<1>3. CASE pc'[r] = "failing"
  BY <1>1, <1>3, SamePhases DEF TaskStoreChunks, TaskGoto, IInv, TypeOK
<1> QED
  BY <1>2, <1>3 DEF TaskStoreChunks, TaskGoto, IInv, TypeOK

\* The commit of FAILED fails it, unless its row is gone.
LEMMA FailRunIsFail ==
  ASSUME IInv, IInv', NEW r \in Runs, TaskFailRun(r)
  PROVE  Lifecycle!Fail({r}) \/ UNCHANGED Lifecycle!vars
<1>1. /\ pc[r] = "failing" /\ UNCHANGED <<runFile, active>>
      /\ \A q \in Runs : q # r => pc'[q] = pc[q] /\ runStatus'[q] = runStatus[q]
  BY DEF TaskFailRun, TaskIsAt, TaskGoto, OnlyTask, IInv, TypeOK
<1>2. CASE RunRow(r)
  <2>1. /\ pc'[r] = "reporting" /\ runStatus[r] = "processing" /\ runStatus'[r] = "failed"
    BY <1>1, <1>2 DEF TaskFailRun, TaskGoto, IInv, TypeOK, TasksOwnTheirRuns
  <2>2. Phase(r) = "processing" /\ Phase(r)' = "failed"
    BY <1>1, <2>1, PhaseCases, NextPhaseCases DEF PhasesAre, RunRow
  <2> QED
    BY <1>1, <2>2, OtherPhases DEF Lifecycle!Fail
<1>3. CASE ~RunRow(r)
  BY <1>1, <1>3, SamePhases DEF TaskFailRun, TaskGoto, IInv, TypeOK
<1> QED
  BY <1>2, <1>3

\* The publishing commit retires exactly what was served of its file: what the
\* index admits is among the rows the UPDATE found, and those are the file's own.
LEMMA PublishIsServe ==
  ASSUME IInv, IInv', TargetsAreOwn, NEW r \in Runs, TaskPublish(r)
  PROVE  Lifecycle!Serve(r)
<1>1. /\ pc[r] = "publishing" /\ pc'[r] = "published" /\ UNCHANGED <<runFile, runStatus>>
      /\ \A q \in Runs : q # r => pc'[q] = pc[q]
      /\ active' = (active \ target[r]) \cup {r}
      /\ RowOf(runFile[r]) /\ active \cap RunsOf(runFile[r]) \subseteq target[r]
  BY DEF TaskPublish, TaskIsAt, TaskGoto, OnlyTask, IndexAdmits, ActiveOf, IInv, TypeOK
<1>2. RunRow(r) /\ runStatus[r] = "ready" /\ r \notin active
  BY <1>1 DEF IInv, RunRowsFollowFiles, TasksOwnTheirRuns, ActiveWasPublished
<1>3. Phase(r) = "built" /\ Phase(r)' = "serving"
  BY <1>1, <1>2, PhaseCases, NextPhaseCases DEF PhasesAre
<1>4. ASSUME NEW q \in Runs PROVE q \in active <=> Phase(q) = "serving"
  BY ServingIsActive
<1>5. ASSUME NEW q \in Runs, q # r
      PROVE  Phase(q)' = IF runFile[q] = runFile[r] /\ q \in active THEN "retired" ELSE Phase(q)
  <2>1. q \in active => runStatus[q] = "ready" /\ pc[q] = "published"
    BY DEF IInv, ActiveWasPublished
  <2>2. q \in target[r] => runFile[q] = runFile[r]
    BY DEF TargetsAreOwn
  <2>3. q \in active' <=> q \in active /\ runFile[q] # runFile[r]
    BY <1>1, <1>5, <2>2 DEF RunsOf
  <2> QED
    BY <1>1, <1>5, <2>1, <2>3, PhaseCases, NextPhaseCases
       DEF PhasesAre, RunRow
<1> QED
  BY <1>1, <1>3, <1>4, <1>5 DEF Lifecycle!Serve, Lifecycle!Serving

\* A replacement's commit withdraws what was served of its file.
LEMMA PutCommitIsWithdraw ==
  ASSUME IInv, IInv', NEW p \in Puts, PutCommit(p)
  PROVE  Lifecycle!Withdraw(putFile[p])
<1>1. /\ UNCHANGED <<runFile, runStatus, pc>>
      /\ active' = active \ RunsOf(putFile[p])
  BY DEF PutCommit, Withdraw, OnlyPut, taskVars
<1>2. ASSUME NEW q \in Runs PROVE q \in active <=> Phase(q) = "serving"
  BY ServingIsActive
<1>3. ASSUME NEW q \in Runs
      PROVE  Phase(q)' = IF runFile[q] = putFile[p] /\ q \in active THEN "retired" ELSE Phase(q)
  <2>1. q \in active => runStatus[q] = "ready" /\ pc[q] = "published"
    BY DEF IInv, ActiveWasPublished
  <2>2. q \in active' <=> q \in active /\ runFile[q] # putFile[p]
    BY <1>1 DEF RunsOf
  <2> QED
    BY <1>1, <2>1, <2>2, PhaseCases, NextPhaseCases
       DEF PhasesAre, RunRow
<1> QED
  BY <1>1, <1>2, <1>3 DEF Lifecycle!Withdraw, Lifecycle!Serving

\* A delete's commit drops the file's runs, whatever they had come to.
LEMMA DelCommitIsDrop ==
  ASSUME IInv, IInv', NEW d \in Dels, DelCommit(d)
  PROVE  Lifecycle!Drop(delFile[d])
<1>1. /\ UNCHANGED <<runFile, pc>>
      /\ active' = active \ RunsOf(delFile[d])
      /\ \A q \in Runs :
           runStatus'[q] = IF runFile[q] = delFile[d] THEN "none" ELSE runStatus[q]
  BY DEF DelCommit, OnlyDel, taskVars
<1>2. delFile[d] \in Files
  BY DEF DelCommit, IInv, RequestsNameUploads
<1>3. ASSUME NEW q \in Runs, runFile[q] = delFile[d]
      PROVE  Phase(q) # "none" /\ Phase(q)' = "gone"
  <2>1. pc[q] # "unused"
    BY <1>2, <1>3, NoFileAssumption DEF IInv, RequestsNameUploads
  <2> QED
    BY <1>1, <1>3, <2>1, PhaseCases, NextPhaseCases
       DEF PhasesAre, RunRow
<1>4. ASSUME NEW q \in Runs, runFile[q] # delFile[d]
      PROVE  Phase(q)' = Phase(q)
  <2>1. q \in active' <=> q \in active
    BY <1>1, <1>4 DEF RunsOf
  <2> QED
    BY <1>1, <1>4, <2>1, PhaseCases, NextPhaseCases
       DEF PhasesAre, RunRow
<1> QED
  BY <1>1, <1>3, <1>4 DEF Lifecycle!Drop

\* What the restart fails are the interrupted runs, all in one step.
LEMMA RecoverIsFail ==
  ASSUME IInv, IInv', Recover
  PROVE  (\E S \in SUBSET Runs : Lifecycle!Fail(S)) \/ UNCHANGED Lifecycle!vars
<1> DEFINE S == {q \in Runs : runStatus[q] \in Interrupted}
<1>1. /\ UNCHANGED <<runFile, active, pc>>
      /\ \A q \in Runs :
           runStatus'[q] = IF q \in S THEN "failed" ELSE runStatus[q]
  BY DEF Recover, taskVars
<1>2. ASSUME NEW q \in S PROVE Phase(q) \in {"queued", "processing"} /\ Phase(q)' = "failed"
  BY <1>1, PhaseCases, NextPhaseCases DEF PhasesAre, RunRow, Interrupted
<1>3. ASSUME NEW q \in Runs, q \notin S PROVE Phase(q)' = Phase(q)
  BY <1>1, <1>3, PhaseCases, NextPhaseCases DEF PhasesAre, RunRow
<1>4. CASE S = {}
  BY <1>1, <1>3, <1>4 DEF Lifecycle!vars
<1>5. CASE S # {}
  <2>1. Lifecycle!Fail(S)
    BY <1>1, <1>2, <1>3, <1>5 DEF Lifecycle!Fail
  <2> QED
    BY <2>1
<1> QED
  BY <1>4, <1>5

\* Every other step stutters.
LEMMA StepImplementsLifecycle ==
  ASSUME IInv, IInv', TargetsAreOwn, [Next]_vars
  PROVE  [Lifecycle!Next]_(Lifecycle!vars)
<1>1. ASSUME NEW r \in Runs, NEW f \in Files, IngestFile(r, f)
      PROVE  Lifecycle!Next
  BY <1>1, IngestIsRequest DEF Lifecycle!Next
<1>2. ASSUME NEW r \in Runs, TaskStart(r) \/ TaskStoreChunks(r) \/ TaskFailRun(r) \/ TaskPublish(r)
      PROVE  Lifecycle!Next \/ UNCHANGED Lifecycle!vars
  BY <1>2, StartIsBegin, StoreChunksIsBuild, FailRunIsFail, PublishIsServe DEF Lifecycle!Next
<1>3. ASSUME NEW p \in Puts, PutCommit(p)
      PROVE  Lifecycle!Next
  BY <1>3, PutCommitIsWithdraw DEF Lifecycle!Next, IInv, RequestsNameUploads, PutCommit
<1>4. ASSUME NEW d \in Dels, DelCommit(d)
      PROVE  Lifecycle!Next
  BY <1>4, DelCommitIsDrop DEF Lifecycle!Next, IInv, RequestsNameUploads, DelCommit
<1>5. CASE Recover
  BY <1>5, RecoverIsFail DEF Lifecycle!Next
<1>6. ASSUME NEW r \in Runs,
             \/ TaskLoad(r) \/ TaskMark(r) \/ TaskParse(r) \/ TaskReport(r) \/ TaskRetire(r)
             \/ TaskLock(r) \/ TaskPublishFails(r) \/ DeadlockAbortsTask(r)
      PROVE  UNCHANGED Lifecycle!vars
  BY <1>6, SamePhases DEF TaskLoad, TaskMark, TaskParse, TaskReport, TaskRetire, TaskLock,
     TaskPublishFails, DeadlockAbortsTask, Deadlocked, TaskIsAt, TaskGoto, OnlyTask, IInv, TypeOK
<1>7. CASE Crash
  BY <1>7, SamePhases DEF Crash, runVars, LivePc
<1>8. CASE UNCHANGED <<runVars, pc>>
  BY <1>8, SamePhases DEF runVars
<1> QED
  BY <1>1, <1>2, <1>3, <1>4, <1>5, <1>6, <1>7, <1>8
     DEF Next, vars, runVars, taskVars, UploadStore, UploadCommit, UploadRejected, TaskStep,
         PutLoad, PutStep, PutRefused, PutRename, PutLock, OnlyPut, DelLoad, DelStep, DelLock,
         DelUnlink, OnlyDel, Deadlock, DeadlockAbortsPut, DeadlockAbortsDel, Quiet

\* The handlers, the task, PostgreSQL's aborts, a crash and the recovery are
\* steps of the run lifecycle or leave it alone: a run is served once, in
\* exchange for the one before it, and never again (README.md:36,
\* routers/files.py:300).
THEOREM LifecycleIsImplemented == Spec => ImplementsLifecycle
<1>1. IInv /\ CommitInv /\ [Next]_vars => IInv' /\ CommitInv'
  BY StepKeepsIInv, TasksKeepTheirs, StatusStaysHonest DEF CommitInv
<1>2. IInv /\ IInv' /\ CommitInv /\ [Next]_vars => [Lifecycle!Next]_(Lifecycle!vars)
  BY StepImplementsLifecycle DEF CommitInv
<1> QED
  BY <1>1, <1>2, InitIInv, InitCommitInv, InitImplementsLifecycle, PTL
     DEF Spec, ImplementsLifecycle, Lifecycle!Spec

----------------------------------------------------------------------------
(* Every question: its sources are files its asker owns and mentioned, and *)
(* a document summary reads one generation.                                *)


Mentioned(a) == {f \in Files : Owner[f] = asker[a] /\ (wanted[a] # {} => f \in wanted[a])}

\* Until it starts, a question has no sources; a scope that is searched is not
\* empty and holds nothing but what the asker may see; only a document summary
\* has no rounds.
AskProgress ==
  \A a \in Asks :
    /\ askPc[a] = "unused" => sources[a] = {} /\ rounds[a] = 0
    /\ askPc[a] \in {"scoping", "vector", "keyword"} => rounds[a] # 0
    /\ askPc[a] \in {"vector", "keyword", "summary"} =>
         scope[a] # {} /\ scope[a] \subseteq Mentioned(a)

\* A source belongs to a run that has been requested, whose file is settled.
SourcesAreRuns == \A a \in Asks : \A r \in sources[a] : pc[r] # "unused"

AskInv ==
  /\ AskTypeOK
  /\ AskProgress
  /\ SourcesAreRuns
  /\ SourcesStayInScope
  /\ SummaryIsOneGeneration

----------------------------------------------------------------------------
(* The ingestion side.                                                     *)

\* A run, once requested, keeps its file and stays requested, whatever the
\* handlers, the tasks, a crash or the recovery do.
LEMMA RunsKeepTheirFiles ==
  ASSUME IInv, [Next]_vars, NEW r \in Runs, pc[r] # "unused"
  PROVE  pc'[r] # "unused" /\ runFile'[r] = runFile[r]
<1>0. pc \in [Runs -> TaskPc] /\ runFile \in [Runs -> Files \cup {NoFile}]
  BY DEF IInv, TypeOK
<1> USE <1>0 DEF fileVars, runVars, taskVars, putVars, delVars, sysVars
<1>1. CASE \E f \in Files : UploadStore(f) \/ UploadCommit(f) \/ UploadRejected(f)
  BY <1>1 DEF UploadStore, UploadCommit, UploadRejected
<1>2. CASE \E q \in Runs, f \in Files : IngestFile(q, f)
  BY <1>2 DEF IngestFile
<1>3. ASSUME NEW q \in Runs, TaskStep(q) PROVE pc'[r] # "unused" /\ runFile'[r] = runFile[r]
  <2>1. OnlyTask /\ \E label \in LivePc \cup EndPc : TaskGoto(q, label)
    BY <1>3 DEF TaskStep, TaskLoad, TaskMark, TaskStart, TaskParse, TaskStoreChunks,
                TaskFailRun, TaskReport, TaskRetire, TaskLock, TaskPublish,
                TaskPublishFails, LivePc, EndPc
  <2> QED
    BY <2>1 DEF OnlyTask, TaskGoto, LivePc, EndPc
<1>4. CASE \E p \in Puts, f \in Files : PutLoad(p, f)
  BY <1>4 DEF PutLoad, OnlyPut
<1>5. CASE \E p \in Puts : PutStep(p)
  BY <1>5 DEF PutStep, PutRefused, PutRename, PutLock, PutCommit, OnlyPut
<1>6. CASE \E d \in Dels, f \in Files : DelLoad(d, f)
  BY <1>6 DEF DelLoad, OnlyDel
<1>7. CASE \E d \in Dels : DelStep(d)
  BY <1>7 DEF DelStep, DelLock, DelCommit, DelUnlink, OnlyDel
<1>8. CASE Deadlock
  BY <1>8 DEF Deadlock, DeadlockAbortsTask, DeadlockAbortsPut, DeadlockAbortsDel,
              OnlyTask, OnlyPut, OnlyDel, TaskGoto
<1>9. CASE Crash
  BY <1>9 DEF Crash
<1>10. CASE Recover
  BY <1>10 DEF Recover
<1>11. CASE Quiet \/ UNCHANGED vars
  BY <1>11 DEF Quiet, vars
<1> QED
  BY <1>1, <1>2, <1>3, <1>4, <1>5, <1>6, <1>7, <1>8, <1>9, <1>10, <1>11 DEF Next

\* What a question can see has been published, and one generation of each file.
LEMMA ActiveRunsAreSettled ==
  ASSUME IInv
  PROVE  /\ active \subseteq Runs
         /\ \A r \in active : pc[r] # "unused"
         /\ \A r, q \in active : runFile[r] = runFile[q] => r = q
BY DEF IInv, TypeOK, ActiveWasPublished

----------------------------------------------------------------------------
(* The question's side.                                                    *)

\* No question has been asked.
LEMMA InitAskInv == Init /\ AskInit => AskInv
<1> SUFFICES ASSUME Init, AskInit PROVE AskInv
  OBVIOUS
<1>1. AskTypeOK
  BY DEF AskInit, AskTypeOK, AskPc, AskLive
<1>2. AskProgress /\ SourcesAreRuns /\ SourcesStayInScope /\ SummaryIsOneGeneration
  BY DEF AskInit, AskProgress, SourcesAreRuns, SourcesStayInScope, SummaryIsOneGeneration
<1> QED
  BY <1>1, <1>2 DEF AskInv

\* What happens elsewhere changes no question, or loses them all, and leaves the
\* files of the sources what they were.
LEMMA ElsewhereKeepsAskInv ==
  ASSUME IInv, AskInv, [Next]_vars, LoseAsks \/ UNCHANGED askVars
  PROVE  AskInv'
<1>1. AskTypeOK'
  BY DEF AskInv, AskTypeOK, LoseAsks, askVars, AskPc, AskLive
<1>2. AskProgress'
  BY DEF AskInv, AskTypeOK, AskProgress, Mentioned, LoseAsks, askVars, AskLive
<1>3. sources' = sources /\ asker' = asker /\ wanted' = wanted /\ rounds' = rounds
  BY DEF LoseAsks, askVars
<1>4. ASSUME NEW a \in Asks, NEW r \in sources[a]
      PROVE  pc'[r] # "unused" /\ runFile'[r] = runFile[r]
  BY RunsKeepTheirFiles DEF AskInv, AskTypeOK, SourcesAreRuns
<1>5. SourcesAreRuns'
  BY <1>3, <1>4 DEF SourcesAreRuns
<1>6. SourcesStayInScope'
  BY <1>3, <1>4 DEF AskInv, SourcesStayInScope
<1>7. SummaryIsOneGeneration'
  BY <1>3, <1>4 DEF AskInv, SummaryIsOneGeneration
<1> QED
  BY <1>1, <1>2, <1>5, <1>6, <1>7 DEF AskInv

\* A new question has no source, and its mention is fixed before it searches.
LEMMA AskKeepsAskInv ==
  ASSUME AskInv, NEW a \in Asks, Ask(a), UNCHANGED vars
  PROVE  AskInv'
<1> USE DEF AskInv, Ask, AskGoto, AskIsAt
<1>1. AskTypeOK'
  BY DEF AskTypeOK, AskPc, AskLive
<1>2. AskProgress'
  BY DEF AskTypeOK, AskProgress, Mentioned
<1>3. SourcesAreRuns'
  BY DEF SourcesAreRuns, vars, taskVars
<1>4. SourcesStayInScope'
  BY DEF AskTypeOK, AskProgress, SourcesStayInScope, vars, runVars
<1>5. SummaryIsOneGeneration'
  BY DEF AskTypeOK, AskProgress, SummaryIsOneGeneration, vars, runVars
<1> QED
  BY <1>1, <1>2, <1>3, <1>4, <1>5

\* The next search has a round left; the prompt needs none.
LEMMA AfterSearchAdvances ==
  ASSUME AskTypeOK, NEW a \in Asks, AfterSearch(a)
  PROVE  /\ rounds' \in [Asks -> 0 .. 2]
         /\ \A b \in Asks : rounds'[b] = 0 <=> rounds[b] = 0
         /\ \E label \in {"scoping", "generating"} :
              askPc' = [askPc EXCEPT ![a] = label] /\ rounds'[a] # 0
BY DEF AskTypeOK, AfterSearch, AskGoto

\* A scope is computed from the asker's own files, and an empty one is not
\* searched.
LEMMA ScopeKeepsAskInv ==
  ASSUME AskInv, NEW a \in Asks, Scope(a), UNCHANGED vars
  PROVE  AskInv'
<1> USE DEF AskInv, Scope, AskIsAt
<1>1. ScopeOf(a) \subseteq Mentioned(a) /\ ScopeOf(a) \in SUBSET Files
  BY DEF ScopeOf, Mentioned
<1>2. /\ rounds' \in [Asks -> 0 .. 2]
      /\ \A b \in Asks : rounds'[b] = 0 <=> rounds[b] = 0
      /\ \E label \in {"scoping", "generating", "vector"} :
           /\ askPc' = [askPc EXCEPT ![a] = label]
           /\ label = "vector" => ScopeOf(a) # {}
  BY AfterSearchAdvances DEF AskTypeOK, AskGoto, NothingToSearch
<1>3. AskTypeOK'
  BY <1>1, <1>2 DEF AskTypeOK, AskPc, AskLive
<1>4. AskProgress'
  BY <1>1, <1>2 DEF AskTypeOK, AskProgress, Mentioned
<1>5. SourcesAreRuns' /\ SourcesStayInScope'
  BY DEF SourcesAreRuns, SourcesStayInScope, vars, taskVars, runVars
<1>6. SummaryIsOneGeneration'
  BY <1>2 DEF AskTypeOK, SummaryIsOneGeneration, vars, runVars
<1> QED
  BY <1>3, <1>4, <1>5, <1>6

\* What a search can see is published and inside its scope.
LEMMA InScopeIsMentioned ==
  ASSUME IInv, AskInv, NEW a \in Asks, askPc[a] \in {"vector", "keyword", "summary"},
         NEW r \in active, runFile[r] \in scope[a]
  PROVE  /\ r \in Runs /\ pc[r] # "unused"
         /\ Owner[runFile[r]] = asker[a]
         /\ wanted[a] # {} => runFile[r] \in wanted[a]
BY ActiveRunsAreSettled DEF AskInv, AskProgress, Mentioned

\* The two halves of a search add sources from the scope.
LEMMA SearchKeepsAskInv ==
  ASSUME IInv, AskInv, NEW a \in Asks, VectorSearch(a) \/ KeywordSearch(a), UNCHANGED vars
  PROVE  AskInv'
<1>1. askPc[a] \in {"vector", "keyword"} /\ scope[a] # {} /\ rounds[a] # 0
  BY DEF VectorSearch, KeywordSearch, AskIsAt, AskInv, AskProgress
<1>2. PICK S \in SUBSET InScope(scope[a]) : sources' = [sources EXCEPT ![a] = @ \cup S]
  BY DEF VectorSearch, KeywordSearch
<1>3. \A r \in S : /\ r \in Runs /\ pc[r] # "unused"
                   /\ Owner[runFile[r]] = asker[a]
                   /\ wanted[a] # {} => runFile[r] \in wanted[a]
  BY <1>1, <1>2, InScopeIsMentioned DEF InScope
<1>4. UNCHANGED <<asker, wanted, scope>>
  BY DEF VectorSearch, KeywordSearch
<1>5. /\ rounds' \in [Asks -> 0 .. 2]
      /\ \A b \in Asks : rounds'[b] = 0 <=> rounds[b] = 0
      /\ \E label \in {"keyword", "scoping", "generating"} :
           askPc' = [askPc EXCEPT ![a] = label]
  BY AfterSearchAdvances DEF AskInv, AskTypeOK, VectorSearch, KeywordSearch, AskGoto
<1>6. AskTypeOK'
  BY <1>2, <1>3, <1>4, <1>5 DEF AskInv, AskTypeOK, AskPc, AskLive
<1>7. AskProgress'
  BY <1>1, <1>2, <1>4, <1>5 DEF AskInv, AskTypeOK, AskProgress, Mentioned
<1>8. SourcesAreRuns'
  BY <1>2, <1>3 DEF AskInv, AskTypeOK, SourcesAreRuns, vars, taskVars
<1>9. SourcesStayInScope'
  BY <1>2, <1>3, <1>4 DEF AskInv, AskTypeOK, SourcesStayInScope, vars, runVars
<1>10. SummaryIsOneGeneration'
  BY <1>1, <1>2, <1>5 DEF AskInv, AskTypeOK, SummaryIsOneGeneration, vars, runVars
<1> QED
  BY <1>6, <1>7, <1>8, <1>9, <1>10 DEF AskInv

\* The document a summary opens is the asker's.
LEMMA OpenDocumentKeepsAskInv ==
  ASSUME AskInv, NEW a \in Asks, OpenDocument(a), UNCHANGED vars
  PROVE  AskInv'
<1> USE DEF AskInv, OpenDocument, AskIsAt, AskGoto
<1>1. ScopeOf(a) \subseteq Mentioned(a) /\ ScopeOf(a) \in SUBSET Files
  BY DEF ScopeOf, Mentioned
<1>2. AskTypeOK'
  BY <1>1 DEF AskTypeOK, AskPc, AskLive
<1>3. AskProgress'
  BY <1>1 DEF AskTypeOK, AskProgress, Mentioned
<1>4. SourcesAreRuns' /\ SourcesStayInScope' /\ SummaryIsOneGeneration'
  BY DEF SourcesAreRuns, SourcesStayInScope, SummaryIsOneGeneration, vars, taskVars,
         runVars
<1> QED
  BY <1>2, <1>3, <1>4

\* A summary reads the one active run of each file in its scope.
LEMMA ReadDocumentKeepsAskInv ==
  ASSUME IInv, AskInv, NEW a \in Asks, ReadDocument(a), UNCHANGED vars
  PROVE  AskInv'
<1> DEFINE S == {r \in active : runFile[r] \in scope[a]}
<1>1. askPc[a] = "summary" /\ sources' = [sources EXCEPT ![a] = S]
  BY DEF ReadDocument, AskIsAt
<1>2. \A r \in S : /\ r \in Runs /\ pc[r] # "unused"
                   /\ Owner[runFile[r]] = asker[a]
                   /\ wanted[a] # {} => runFile[r] \in wanted[a]
  BY <1>1, InScopeIsMentioned
<1>3. \A r, q \in S : runFile[r] = runFile[q] => r = q
  BY ActiveRunsAreSettled
<1>4. /\ UNCHANGED <<asker, wanted, rounds, scope>>
      /\ askPc' = [askPc EXCEPT ![a] = "generating"]
  BY DEF ReadDocument, AskGoto
<1> HIDE DEF S
<1>5. AskTypeOK'
  BY <1>1, <1>2, <1>4 DEF AskInv, AskTypeOK, AskPc, AskLive
<1>6. AskProgress'
  BY <1>1, <1>4 DEF AskInv, AskTypeOK, AskProgress, Mentioned
<1>7. SourcesAreRuns'
  BY <1>1, <1>2 DEF AskInv, AskTypeOK, SourcesAreRuns, vars, taskVars
<1>8. SourcesStayInScope'
  BY <1>1, <1>2, <1>4 DEF AskInv, AskTypeOK, SourcesStayInScope, vars, runVars
<1>9. SummaryIsOneGeneration'
  BY <1>1, <1>3, <1>4 DEF AskInv, AskTypeOK, SummaryIsOneGeneration, vars, runVars
<1> QED
  BY <1>5, <1>6, <1>7, <1>8, <1>9 DEF AskInv

\* An answer changes neither scope nor sources.
LEMMA AnswerKeepsAskInv ==
  ASSUME AskInv, NEW a \in Asks, Answer(a), UNCHANGED vars
  PROVE  AskInv'
<1> USE DEF AskInv, Answer, AskIsAt, AskGoto
<1>1. AskTypeOK'
  BY DEF AskTypeOK, AskPc, AskLive
<1>2. AskProgress'
  BY DEF AskTypeOK, AskProgress, Mentioned
<1>3. SourcesAreRuns' /\ SourcesStayInScope' /\ SummaryIsOneGeneration'
  BY DEF SourcesAreRuns, SourcesStayInScope, SummaryIsOneGeneration, vars, taskVars,
         runVars
<1> QED
  BY <1>1, <1>2, <1>3

----------------------------------------------------------------------------
\* Every step, here or elsewhere, keeps both invariants.
LEMMA StepKeepsAskInv ==
  IInv /\ AskInv /\ [NextWithAsks]_<<vars, askVars>> => IInv' /\ AskInv'
<1> SUFFICES ASSUME IInv, AskInv, [NextWithAsks]_<<vars, askVars>> PROVE IInv' /\ AskInv'
  OBVIOUS
<1>1. CASE Elsewhere \/ UNCHANGED <<vars, askVars>>
  <2>1. [Next]_vars /\ (LoseAsks \/ UNCHANGED askVars)
    BY <1>1 DEF Elsewhere
  <2> QED
    BY <2>1, StepKeepsIInv, ElsewhereKeepsAskInv
<1>2. ASSUME NEW a \in Asks, Ask(a) \/ AskStep(a), UNCHANGED vars
      PROVE  IInv' /\ AskInv'
  <2>1. IInv'
    BY <1>2, StutteringKeepsIInv
  <2>2. AskInv'
    BY <1>2, AskKeepsAskInv, ScopeKeepsAskInv, SearchKeepsAskInv,
       OpenDocumentKeepsAskInv, ReadDocumentKeepsAskInv, AnswerKeepsAskInv
       DEF AskStep
  <2> QED
    BY <2>1, <2>2
<1> QED
  BY <1>1, <1>2 DEF NextWithAsks

\* Every reachable state satisfies both invariants.
THEOREM AskInvariantHolds == SpecWithAsks => [](IInv /\ AskInv)
<1>1. Init /\ AskInit => IInv /\ AskInv
  BY InitIInv, InitAskInv
<1>2. IInv /\ AskInv /\ [NextWithAsks]_<<vars, askVars>> => (IInv /\ AskInv)'
  BY StepKeepsAskInv
<1> QED
  BY <1>1, <1>2, PTL DEF SpecWithAsks

\* A question's variables keep to their types.
THEOREM AsksTypeCorrect == SpecWithAsks => []AskTypeOK
<1>1. AskInv => AskTypeOK
  BY DEF AskInv
<1> QED
  BY <1>1, AskInvariantHolds, PTL

\* No answer rests on a file the asker does not own or did not mention, whatever
\* is uploaded, ingested, replaced or deleted meanwhile (routers/rag.py:66).
THEOREM SourcesAlwaysStayInScope == SpecWithAsks => []SourcesStayInScope
<1>1. AskInv => SourcesStayInScope
  BY DEF AskInv
<1> QED
  BY <1>1, AskInvariantHolds, PTL

\* A document summary reads one generation of the document (routers/rag.py:167).
THEOREM SummariesAreOneGeneration == SpecWithAsks => []SummaryIsOneGeneration
<1>1. AskInv => SummaryIsOneGeneration
  BY DEF AskInv
<1> QED
  BY <1>1, AskInvariantHolds, PTL
=============================================================================
