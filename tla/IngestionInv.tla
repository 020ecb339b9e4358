----------------------------- MODULE IngestionInv -----------------------------
(***************************************************************************)
(* The inductive invariant behind the safety properties of Ingestion: what *)
(* ties a task's program counter to the rows it has committed, a file's    *)
(* row to its object and to its runs, and a parsed text to the stored one. *)
(***************************************************************************)
EXTENDS Ingestion

\* A request names a file whose upload is over, so the file's row, once gone,
\* never comes back.
RequestsNameUploads ==
  /\ \A f \in Files : RowOf(f) => uploading[f] = "over"
  /\ \A r \in Runs : IF pc[r] = "unused" THEN runFile[r] = NoFile
                     ELSE runFile[r] \in Files /\ uploading[runFile[r]] = "over"
  /\ \A p \in Puts : putPc[p] # "unused" =>
                     putFile[p] \in Files /\ uploading[putFile[p]] = "over"
  /\ \A d \in Dels : delPc[d] # "unused" =>
                     delFile[d] \in Files /\ uploading[delFile[d]] = "over"

\* CASCADE keeps a run's row exactly as long as its file's.
RunRowsFollowFiles ==
  \A r \in Runs : RunRow(r) <=> pc[r] # "unused" /\ RowOf(runFile[r])

\* An upload's object precedes its row and a delete's unlink follows it.
ObjectsOutliveRows ==
  /\ \A f \in Files : RowOf(f) \/ uploading[f] = "stored" => object[f] # NoContent
  /\ \A d \in Dels : delPc[d] = "unlinking" => ~RowOf(delFile[d])

\* A replacement's lock keeps the row from being deleted under it.
LockedRowsExist ==
  \A p \in Puts : putPc[p] = "locked" =>
                   RowOf(putFile[p]) /\ ~DelLocked(putFile[p])

\* The status a live task has committed for its run; only a live process has
\* live tasks.
TasksOwnTheirRuns ==
  \A r \in Runs :
    /\ pc[r] \in LivePc => up
    /\ RunRow(r) =>
         /\ pc[r] \in {"scheduled", "marking", "starting"} => runStatus[r] = "queued"
         /\ pc[r] \in {"parsing", "embedding", "failing"} => runStatus[r] = "processing"
         /\ pc[r] = "reporting" => runStatus[r] = "failed"
         /\ pc[r] \in {"retiring", "locking", "publishing"} => runStatus[r] = "ready"

HasParsed == {"embedding", "retiring", "locking", "publishing"}
HasStored == {"retiring", "locking", "publishing", "published"}

ParsedIsStored ==
  \A r \in Runs :
    /\ pc[r] \in HasParsed => parsed[r] # NoContent
    /\ pc[r] \in HasStored /\ RunRow(r) => chunks[r] = parsed[r]

ActiveWasPublished ==
  \A r \in active :
    /\ pc[r] = "published" /\ runStatus[r] = "ready"
    /\ \A q \in active : runFile[q] = runFile[r] => q = r

\* From the parse until it is retired, a run's text is the stored one unless a
\* replacement came in between.
TextIsAccountedFor ==
  \A r \in Runs :
    (pc[r] \in HasParsed \/ r \in active) /\ RunRow(r) =>
      parsed[r] = object[runFile[r]] \/ r \in overtaken \/ Unfinished(runFile[r])

\* Whatever requests, tasks, crashes and recoveries came before: the rows, the
\* objects and the program counters fit together (files.py and processing.py as
\* a whole).
IInv ==
  /\ TypeOK
  /\ RequestsNameUploads
  /\ RunRowsFollowFiles
  /\ ObjectsOutliveRows
  /\ LockedRowsExist
  /\ TasksOwnTheirRuns
  /\ ParsedIsStored
  /\ ActiveWasPublished
  /\ TextIsAccountedFor
  /\ ChunksComeWithReady
  /\ UnfinishedRunHasTask

\* What an activation deactivates are runs of the same file, and only the
\* statements between its UPDATE and its commit name any.
TargetsAreOwn ==
  \A r \in Runs :
    /\ \A q \in target[r] : runFile[q] = runFile[r] /\ pc[q] = "published"
    /\ target[r] # {} => pc[r] \in {"locking", "publishing"}

Marked == {"starting", "parsing", "embedding", "retiring", "locking", "publishing"}

\* From its first commit on the task's session holds the file as processing.
SeenAsMarked ==
  \A r \in Runs : pc[r] \in Marked => taskSaw[r].status = "processing"

\* What a replacement left in a row or an object, and what else may be there: the
\* upload's bytes and digest go together, and go with the first that is renamed.
PutsLeave(f) ==
  /\ object[f] \in Puts =>
       putFile[object[f]] = f /\ putPc[object[f]] \in {"renamed", "locked", "torn", "done"}
  /\ fileDigest[f] \in Puts =>
       putFile[fileDigest[f]] = f /\ putPc[fileDigest[f]] = "done"
  /\ RowOf(f) =>
       /\ fileDigest[f] \in Content /\ (fileDigest[f] \in Puts => object[f] \in Puts)
       /\ \A p \in Puts : putFile[p] = f =>
            /\ putPc[p] \in {"renamed", "locked"} => object[f] \in Puts
            /\ putPc[p] = "done" => fileDigest[f] \in Puts

PutsLeaveTheirs == \A f \in Files : PutsLeave(f)

\* What IInv does not need and the file's status and the lifecycle do.
CommitInv == TargetsAreOwn /\ SeenAsMarked /\ StatusIsHonest
=============================================================================
