# NotToBeCooked in TLA+

NotToBeCooked is a study assistant: students upload course documents, a FastAPI
process parses, chunks and embeds them into PostgreSQL (pgvector), and a chat
answers questions from the indexed text with citations that are checked before
they are shown. A React client (web, and Tauri for desktop and mobile) talks to
the API.

This directory holds a model of the system's concurrent core, the TLC
configurations that check it on small instances, and proofs that hold for every
size. All source references are relative to the repository root.

## 1. The system

| Part | State it keeps | Operations | Talks to |
|---|---|---|---|
| File store (`apps/api/app/routers/files.py`, `services/storage.py`) | FILE rows, one stored object per row | upload, replace content, rename/move, delete, read | PostgreSQL, the object directory |
| Ingestion pipeline (`routers/files.py:211`, `services/processing.py`, `main.py:27`) | INGESTION_RUN rows (status, `is_active`), CHUNK rows | request a run (202), the background task, startup recovery | worker threads (parse, embed), PostgreSQL |
| Retrieval (`db/vector_ops.py`, `routers/rag.py:60-395`) | none | scope, vector and keyword search, rank fusion, follow-up search, document summary | reads FILE, INGESTION_RUN, CHUNK |
| Chat turn (`routers/rag.py:398`, `services/chat.py`, `routers/chat.py`) | CONVERSATION and MESSAGE rows | one question and answer, list, read, delete sessions | retrieval, the model |
| Grounding check (`services/grounding.py`, `llm.py`, `prompt.py`) | none | build the prompt, resolve and verify citations, decide `grounded` | the language model |
| Chunker (`services/ingestion.py`), embedding model (`services/embeddings.py`) | the lazily loaded model | parse, chunk, count tokens, embed | Docling, torch |
| Courses, folders, milestones (`routers/courses.py`, `folder.py`, `milestone.py`) | COURSE, FOLDER, MILESTONE rows | create, update, delete | foreign keys with CASCADE down to CHUNK |
| Sessions (`routers/auth.py`; `packages/contracts/src/api_client.ts`, `AuthContext.tsx`) | refresh cookie; access token in memory, parked requests | register, login, refresh, logout, retry after 401 | each other |
| Workspace (`packages/ui/src/store/workspace.ts`, `lib/workspace-storage.ts`, `pages/dashboard.tsx`) | tabs, active file and conversation per course, mounted viewers, the dismissed scope | open, close, switch, cite, persist (debounced), restore; the effects that close tabs of missing files | localStorage, the lists |
| Document content (`hooks/useFileContent.tsx`, `lib/fileContent.ts`) | one document's bytes | load, retry, reset | the API client |
| Query cache (TanStack Query, set up in `app.tsx`) | one entry per list: its rows, whether they are old, the fetch that runs | fetch, invalidate, cancel, overwrite, go stale | every pane |
| Chat pane (`hooks/useChatSession.tsx`, `components/chat/`) | optimistic turns, the snapshot a failure restores, the history | send, delete, select, ask again | cache, API client, workspace |
| Explorer (`hooks/useExplorerData.ts`, `useExplorerMutations.ts`, `components/explorer/`) | the lists of files and folders, an open dialog, a search | create, rename, move, delete, start indexing, poll | cache, API client |
| Upload modal (`components/upload/UploadModal.tsx`) | chosen files, target folder, stage | choose, send all, retry | explorer's mutations |
| Course view (`components/topbar/`, `hooks/useRoadmap.ts`, `components/roadmap/`) | the list of courses, the roadmap's rows | add a course, switch, add, tick and delete milestones | cache, API client |

How the parts interact where it is hard:

- One asyncio process serves all requests and all background tasks. A handler
  runs undisturbed between two awaits; between them anything else may happen.
- Handlers keep ORM rows across awaits (`expire_on_commit=False`,
  `db/database.py:74`). A flush writes only attributes whose assigned value
  differs from the loaded one, and the database runs at READ COMMITTED.
- The object store and the database are written one after the other, never
  atomically.
- The background task outlives its request, opens its own session and commits
  four times; the process may die, or the file be replaced or deleted, between
  any two of its statements.
- A search is several statements, each with its own snapshot.
- The client parks requests during a token refresh, and its closures outlive the
  screen they were made on: answers arrive after the user has gone elsewhere.
- `useMutation` gives a running mutation the options of every later render, so
  `onSuccess` sees the course and conversation open when the answer arrives,
  `onMutate` and the request those of the click.
- Each pane acts on lists the cache holds, which are as old as their last fetch;
  an invalidation refetches only what is in view, and joins a first fetch.
- Effects of the dashboard (close tabs of missing files, go back to a listed
  course) run after each render, on those same lists.

What makes each part correct, modelled or not:

- *Ingestion*: one complete generation of a file is served at a time; a run is
  READY exactly when its chunks are stored; no run is stranded by a failure, a
  delete or a restart; the file list tells the truth.
- *File store*: a row never names missing bytes; replaced bytes leave retrieval.
- *Retrieval*: sources stay inside what the asker owns and mentioned, and come
  from one generation of a file.
- *Chat turn*: question and answer are stored together, in an order from which
  history pairs them correctly; a deleted session stays deleted.
- *Grounding*: an answer shown as grounded has a verified citation for every
  marker, and every marker a line behind it; anything else is replaced.
- *Chunker*: chunks respect the budget and the page, lose no text and keep order.
- *Courses and folders*: no file is removed by a delete that saw an empty folder.
- *Sessions*: every parked request is resumed or rejected once, retries end, and
  logout is final.
- *Workspace*: tabs, the active document and the lists never contradict each
  other, whatever is restored; the active document stays mounted and never shows
  bytes older than its request; a plain question is asked of what the screen says.
- *Chat pane*: answers and failures reach the conversation they belong to; once
  all is answered the screen shows what the server has, and the history its last
  conversations.
- *Explorer, upload, course view*: once all is answered and told, the lists are the
  server's; a badge follows its task; "complete" means stored; an added course
  stays open; nothing that fits a search is missing from the tree, but for what is
  collapsed.

`PROJECT.json` lists every component with its status, and every hazard at the
line where it bites. Some hazards have no property, each with its reason: the
chunker's budget (`ingestion.py:151`) rests on an external tokenizer; retries without
bound (`api_client.ts:258`) end only by an assumption about tokens; and four are
races this code does lose (`AuthContext.tsx:63`, `vector_ops.py:216`, `rag.py:590`,
`dashboard.tsx:308`), shown by a configuration of §3 or described below it. Where a
property excuses the race a hazard names and bounds what it can do, the hazard's
note says so.

## 2. Modules

| Module | What it is |
|---|---|
| `Ingestion` | uploads, ingestion tasks, replacements, deletes, crash and recovery; its safety, liveness and refinement properties |
| `RunLifecycle` | the abstract promise: the phases of a run, and that serving moves from one generation to the next in one step |
| `IngestionInv` | the inductive invariants `IInv`, `CommitInv` and `PutsLeaveTheirs` |
| `IngestionProofs` | the theorems about `Ingestion` and `Retrieval` |
| `Retrieval` | EXTENDS `Ingestion` with questions that read while everything else moves |
| `Grounding` | the gate between the model's draft and the reader: filters, check, verdict, what is stored and answered |
| `CourseTree` | courses, folders, the place of files in them, milestones: every handler that writes, statement by statement |
| `CourseTreeProofs` | the theorems about `CourseTree` |
| `ChatTurn` | turns of a conversation: lookup, history, the open transaction, deletion |
| `ChatTurnProofs` | the theorems about `ChatTurn` and about `Grounding` |
| `TokenRefresh` | the client's session: tokens, the shared refresh, parked requests, sign-in, registration, sign-out, reload |
| `TokenRefreshProofs` | the theorems about `TokenRefresh` and about `Upload`, whose files it sends |
| `QueryCache` | operators: an entry of the query cache, what may happen to it, and when an invalidation is lost on it |
| `ChatClient` | the chat pane: conversations, optimistic turns, answers, failures, deletions |
| `ChatClientProofs` | the theorems about `ChatClient` |
| `Workspace` | the desk: tabs, viewers, documents on the wire, the copy in localStorage |
| `ChatScope` | EXTENDS `Workspace` with the files a question is asked of |
| `WorkspaceProofs` | the theorems about `Workspace` and `ChatScope` |
| `Explorer` | the lists of a course, every dialog that changes them, indexing and polling, the tree |
| `ExplorerProofs` | the theorems about `Explorer` |
| `Upload` | the upload modal |
| `CourseView` | the course in view, Add course, the roadmap |
| `CourseViewProofs` | the theorems about `CourseView` |
| `MCIngestion`, `MCRetrieval`, `MCGrounding`, `MCCourseTree`, `MCChatTurn`, `MCTokenRefresh`, `MCChatClient`, `MCWorkspace`, `MCExplorer`, `MCUpload`, `MCCourseView` | symmetry and constant definitions for TLC |

How they fit. The server's modules follow a request statement by statement;
the client's take a request as one step of the server (`ServerStores`,
`ServerDoes`, `CourseStored`, `MilestoneStored`) between a click and an answer,
and follow what the cache and the screen make of it. `Retrieval` extends
`Ingestion`, `ChatScope` extends `Workspace`; what one module leaves to a free
choice (a turn's text in `ChatTurn`, whether a commit succeeds in `Grounding`) is
decided in another.

### Ingestion

State and code. `fileStatus`, `fileError`, `fileDigest` are the columns of the
FILE row (`"none"` without a row); `object` is what the storage key holds;
`runFile`, `runStatus`, `active`, `chunks` are the INGESTION_RUN and CHUNK rows.
A content is named by the request that wrote it, so "the chunks of run r were
cut from the bytes now stored" is an equality. `pc[r]` is where the task of run
`r` stands, `taskSaw[r]` the FILE columns its session believes in, `target[r]`
the rows its uncommitted UPDATE holds. `putPc`, `putFile`, `putSaw`, `delPc`,
`delFile` are the same for the other two handlers.

| Action | Code |
|---|---|
| `UploadStore`, `UploadCommit`, `UploadRejected` | `upload_file`, `files.py:62-132` |
| `IngestFile` | `ingest_file`, `files.py:140-208` |
| `TaskLoad`, `TaskMark` | `_ingest_in_background`, `files.py:240-253` |
| `TaskStart`, `TaskParse`, `TaskStoreChunks`, `TaskFailRun` | `run_ingestion`, `process_file`, `processing.py:26-140` |
| `TaskReport` | the two handlers, `files.py:266-298` |
| `TaskRetire`, `TaskLock`, `TaskPublish`, `TaskPublishFails` | activation, `files.py:300-317`: the UPDATE's snapshot, its locks, the commit, and the commit that fails |
| `PutLoad`, `PutRefused`, `PutRename`, `PutLock`, `PutCommit` | `replace_file`, `files.py:573-643`, and `replace_upload`, `storage.py:76-90` |
| `DelLoad`, `DelLock`, `DelCommit`, `DelUnlink` | `delete_file`, `files.py:527-565` |
| `DeadlockAborts...` | PostgreSQL picks a victim (external) |
| `Crash`, `Recover` | the process dies; `recover_interrupted_ingestion`, `processing.py:143-184`, run by `lifespan` |

Granularity. A statement and the commit that follows it are one action where
nothing another actor can see happens in between: the status commits of the
task, and `add_chunks` with the READY commit (rows of an uncommitted transaction
are invisible, and a failure in between is the failure path). They are apart
where a row lock is held across an await: `replace_file` (the UPDATE of runs
autoflushes and so locks the FILE row first), `delete_file`, and the activation.
That is what makes the lock cycle between a replacement and an activation
reachable.

Two library rules are part of the model and marked external: `Flush`, the ORM's
net-change rule, and the row locks of PostgreSQL (`FileLocked`, `Holders`,
`Deadlocked`, `TaskLock`'s recheck of rows it waited for). A rollback expires what a
session holds only if it ends a transaction. After a failed parse none is open (the
run's PROCESSING was just committed, and commits expire nothing), so `TaskReport` goes
through `Flush` like every other write: a message equal to the one the task loaded, of
an earlier failure, is not written again. After a failed INSERT of chunks the rollback
does expire, and both columns are written whatever they hold (`Unseen`). `fileError`
therefore tells the messages apart.

Left out: rename and move (they touch no column the index depends on; a move to
another course is refused with 409), deletion of whole courses (DELETE of the
file with the same CASCADE, without the unlink), page counts and timestamps
(`indexed_at` is assigned wherever the status becomes READY and reset with it),
leftover `.tmp` objects, failures of the database connection, and a parser that
never returns.

### RunLifecycle

The abstract specification knows a phase per run and the file it was requested
for. `Serve` retires the previous generation and serves the new one in one step;
nothing leads from `retired` back to `serving`. `Ingestion` implements it under
the refinement mapping `Phase`: "built" and "retired" are both a READY run that
is not active, told apart by whether its task has published.

### Retrieval

A question names its asker (the access token) and the files it mentions. `Scope`
is `_scope_file_ids` with the early return of `_retrieve`; `VectorSearch` and
`KeywordSearch` are the two statements of `hybrid_search`; a question with
history goes through them twice (`_retrieve_follow_up`); `OpenDocument` and
`ReadDocument` are the document summary. Which of the visible chunks a search
returns is a free choice: ranking and limits only pick among them. Every step of
`Ingestion` may come between two statements, and a crash loses the open requests.
`_best_similarity` only orders the two result lists and is left out.

### Grounding

One question from the moment its sources are chosen. `sources` are the numbered
sources of the prompt, `draft` is what the model returned, `storedMessage`
the assistant's row, `reply` the response. Quotes are compared after `_normalise`,
so a quote stands for the strings that compare equal and a source for the quotes
its text contains; `Blank` is the quote that normalises to "" and `Empty` the
string `Citation` refuses. Of the answer's text only the numbers in brackets
matter, and whether it is empty. A list of citations is a function from places,
so that a citation can occur twice; what a filter keeps is a set of places.

| Definition | Code |
|---|---|
| `GenerateAnswer`, `GenerationFails` | `generate_answer`, `llm.py:163-238`, and the handler around it, `rag.py:490-505` |
| `Resolved` | `_resolve_citations`, `rag.py:243-274` |
| `DropUnreferenced`, `DropUnverified`, `CheckGrounding` | `grounding.py:69-235` |
| `Decide` | the verdict, `rag.py:528-555` |
| `Store`, `RaiseUnstored` | `rag.py:507-590`; a quote that is the empty string raises before anything is committed |
| `Reply`, `RaiseStored` | `RagAnswer`, `rag.py:592-601`; an empty answer does not validate |

The model is a free choice of draft. `GateIsExact` is a declarative reading of
the four steps: it says of a draft, without the filters or their order, whether
it is shown and with which citations. What `ChatTurn` leaves open (which text a
turn stores) is decided here, and what is left open here (whether the commit
succeeds) is there.

### CourseTree

`course`, `folder`, `file`, `milestone` are the tables (a row, `None` before it
was inserted, `Gone` after it was deleted); `req[r]` is a handler with what it
has read so far. A handler's SELECTs are separate actions, its last write and the
commit are one, as nothing of an open transaction is visible. The model follows
one user's courses: the first statement of each handler looks its row up through
the owner and answers 404 to anybody else. `late` is history: what entered a
folder after a delete of it had looked.

| Action | Code |
|---|---|
| `CreateCourse`, `LoadCourse`, `CommitCourse` | `create_course`, `update_course`, `delete_course`, `courses.py:40-169` |
| `CheckParent`, `InsertFolder`, `InsertFolderFails` | `create_folder`, `folder.py:21-62` |
| `FindFolder`, `LookForFolders`, `LookForFiles`, `DeleteFolder` | `delete_folder`, `folder.py:170-224` |
| `FindUploadFolder`, `InsertFile`, `InsertFileFails` | `upload_file`, `files.py:88-125` |
| `FindFileToMove`, `FindDestination`, `UpdateFile`, `UpdateFileFails` | `update_file`, `files.py:382-437` |
| `FindFileToDelete`, `DeleteFile` | `delete_file`, `files.py:527-562` |
| `CheckNewMilestone` to `DeleteMilestone` | `milestone.py:68-244` |

Foreign keys and their cascades act where PostgreSQL enforces them (`Agree`,
`Subtree`, the actions that fail). Left out: names, sort order, titles and dates,
PATCHes that change only those, the stored objects and runs of a file
(`Ingestion`), and a crash, which only loses handlers that have written nothing.

### ChatTurn

A turn is one request of `query`. `home[k]` is a conversation's course (with
`"unborn"` and `"deleted"` for ids without a row), `message` the committed rows,
`stamp[t]` the two `created_at` a turn reads from the clock.

| Action | Code |
|---|---|
| `Lookup`, `PickCourse`, `OpenConversation`, `MakeCourse`, `RefreshConversation` | `get_or_create_conversation`, `services/chat.py:10-95` |
| `ReadHistory` | `_recent_turns`, `_pair_turns`, `rag.py:277-306`; `Pair` is one step of the loop |
| `StampQuestion`, `InsertQuestion` | the user turn, `rag.py:445-458`, and its flush by the first statement of the retrieval |
| `Generate`, `Commit` | `rag.py:490-601` |
| `RetrievalFails`, `Raise` | exceptions outside the `try`: 500 and a rollback |
| `AskDelete`, `Delete` | `delete_session`, `routers/chat.py:114-155` |

From its INSERT to its commit a turn holds a key lock on the conversation's row
(the foreign key), so a deletion waits for it, and an INSERT after the deletion
fails. What retrieval and the grounding check do in between is a free choice of
verdict. The course a request names is chosen where it is first used. The clock
only advances when it is read, so no two rows share a timestamp; ties are
measured and accepted in `docs/erd/KNOWN_ISSUES.md`, R10. Everybody owns a
course (registration opens one and none is ever deleted), so the fallback that
creates UNSORTED is not reachable. Left out: titles, `updated_at`,
`scope_course_id`, and the handlers that only read.

### TokenRefresh

One browser tab and the server's session endpoints. `token` is
`accessTokenRef`, `cookie` what the browser keeps, `pc[r]` where a call of
`request` or `postFormWithProgress` stands; `call`, `carries`, `reply`, `grant`
are the exchange it has open and what travels with it. Time is a generation
number: a token is accepted in the generation it was issued in.

| Action | Code |
|---|---|
| `Send`, `Done`, `Failed` | `request`, `api_client.ts:212-304`; `postFormWithProgress`, `159-210` |
| `Refresh`, `Park`, `Refreshed`, `RefreshFailed` | the 401 path, `api_client.ts:245-279`, and `refreshTokenOnce`, `133-151` |
| `Serve` (`ServeCall`, `ServeSession`) | `get_current_user`, `logout`, `refresh_session`, `login` |
| `BootEnds`, `SignIn`, `Register`, `SignedIn`, `NotSignedIn`, `Forget` | `AuthContext.tsx:19-68`, the login and registration pages |
| `Reload`, `Tick` | the page is loaded again; tokens expire |

The two copies of the refresh code in the client behave alike except that an
upload tries only once more (`retried`). The browser stores the cookie of a
response before JavaScript sees it, hence `Serve` sets it and the callback runs
later. A response may be lost (`"error"`), and a refresh or a sign-in refused
for any reason. `Register` is the registration page, whose exchange is answered
like a sign-in. Left out: the expiry of the refresh cookie apart from a refusal,
the rows registration writes, and a second tab.

### QueryCache

What the panes rely on of TanStack Query as `app.tsx:24-35` sets it up. An entry
has `loaded` and `data`, `old` (invalidated, or past `staleTime`), and `wire`: no
fetch, a fetch that has not reached the server, or an answer (`reply`) on its way
back. `InView` starts a fetch of a key that has no answer or an old one.
`Invalidate` marks an entry and, in view, starts a new fetch over one that runs,
but joins a first fetch. `Cancel` drops the answer on the wire, `Put` writes an entry
without stopping a fetch, `Read` and `Deliver` are the two ends of one, `Lapsed`
is a fetch that fails with its retry or a `staleTime` that passes. The library is
external; the operators follow from the calls the code makes.

### ChatClient

`stored` and `home` are the server's conversations, `chat` the active one of each
course, `messages` and `sessions` the cache, `asked` what a question saw when it
was sent, `before` the snapshot `onMutate` took. A row of a conversation is one
question or answer, sent or optimistic. `touched` orders conversations as
`updated_at` does; the history asks for one page of them, 10 in the code (`Page`,
`PageSize`). `calm` is history: the user waited for what was under way before acting,
and nothing failed.

| Action | Code |
|---|---|
| `SelectSession`, `StartNewChat`, `SwitchCourse` | `History.tsx:143-166`, `Chat.tsx:279-285`, `workspace.ts:162-168` |
| `Send` (with `Optimistic`) | `handleSend` and `onMutate`, `useChatSession.tsx:156-207` |
| `ServerStores`, `Answered`, `Failed` | the request and the two handlers, `140-155`, `208-240` |
| `DeleteListed`, `DeleteShown`, `ServerDeletes`, `Deleted` | `History.tsx:43-204`, `Chat.tsx:265-272`, `useChatSession.tsx:242-254` |
| `Fetch`, `Lapse` | the two queries, `119-131` |

### Workspace and ChatScope

`tabs` and `active` are the store's desk of each course, `cached` the LRU of
mounted viewers, `listed` and `ready` the list of files a course has been shown,
`content` the reducer of the viewer in front, `requests` the documents on the
wire, and a copy of the desk stands in localStorage. `wanted` is history: the
version the server had when the document came to the front. React renders after
every change: each action ends in `Render`, and the user acts once the dashboard's
effects have nothing left to do (`Tidy`).

| Action | Code |
|---|---|
| `OpenFile`, `OpenRecent`, `SelectTab`, `CloseTabClicked`, `SwitchCourse` | `workspace.ts:107-236`, the explorer's row, the tab bar, the recent files |
| `CitationClick`, `OpenFromDrawer`, `CloseDrawer` | `dashboard.tsx:293-301`, `353-360`, `Chat.tsx:470-475` |
| `InitializeCourse`, `CloseMissingTabs`, `ListArrives`, `ListFails`, `DeleteFile` | `dashboard.tsx:106-116`, `166-189`, `269-281` |
| `ServerReads`, `ContentArrives`, `ContentFails`, `RetryContent`, `Replace` | `useFileContent.tsx`, `fileContent.ts:42-66`, the viewer's retry |
| `Save`, `Reload` | the debounced save and the load, `workspace-storage.ts:46-108` |
| `AskPlain`, `AskThisDocument`, `AskMentioning`, `AskAgain`, `DismissScope` | `dashboard.tsx:303-351`, `chatRequest.ts:37-48`, `mentions.ts`, `answerMeta.ts:35-56` |

A question is stored stripped of its mentions, once. What is left may read as a
mention again ("@@[Lecture 1.pdf]" leaves "@Lecture 1"), so `Cleaned` is a choice: no
mention, or one of `Leftovers`, the labels that may be left. Page and zoom of a tab, `mentionFile` (which nothing calls) and full
screen are left out.

### Explorer

`file` and `folder` are the server's rows; `queued` and `running` count the indexing
tasks of each file, as nothing keeps a file from being ingested again while it is
being indexed. `filesQ` and `foldersQ` are the cached lists of each course, `broken`
those whose last fetch failed, `dialog` the one dialog that may be open and how far it
got. A dialog is drawn by the row it is about (but for that of a new top folder), so a
list that fails, or brings the row elsewhere, takes it away (`Unmount`); its request
goes on in `loose`, beside the requests to start indexing, which nobody awaits.
`untold` is history: lists the server changed without an answer that says so, or whose
answer was given up on its way, came when another course was in view, or was lost on an
older fetch (`IsLostOn`). A folder gets its id from the server, so a creation that is
submitted again after its answer was lost makes a second folder. A dialog names a
folder by NAME, as `dashboard.tsx` does (`Named`, `FirstNamed`), and the tree is
computed from names and from what is collapsed, which a search does not expand
(`ParentOf`, `Roots`, `Children`, `Drawn`).

| Action | Code |
|---|---|
| `RenameFile`, `MoveFile`, `DeleteFile`, `RetryIndexing`, `CreateFolder`, `RenameFolder`, `DeleteFolder` | the dialogs of `components/explorer/`, each with the handler of `dashboard.tsx:242-433` |
| `ServerAnswers`, `Succeeds`, `FailsInDialog`, `CloseAfterwards`, `SubmitAgain`, `CloseDialog` | the mutations, `useExplorerMutations.ts:31-96`, and each dialog's `handleSubmit` |
| `StartIndexing`, `LooseStored`, `LooseAnswered`, `LooseFails` | the menu of a row; the same mutations when nobody waits for them |
| `Unmount`, a part of `ListArrives` and `FetchFails` | `dashboard.tsx:111-116`, `FileExplorer.tsx:247-291`, `FileItem.tsx:327-363`, `FolderItem.tsx:148-175` |
| `TaskBegins`, `TaskEnds`, `TaskIsLost`, `Restart` | what `Ingestion` does to the status: `files.py:250-317`, `processing.py:143-184` |
| `Poll`, `ServerLists`, `ListArrives`, `FetchFails`, `Stale`, `RetryLoad`, `SwitchCourse` | the two queries and their polling, `useExplorerData.ts:10-40`; "Try again", `dashboard.tsx:467-470` |

### Upload

`stage` and `chosen` are what the modal shows, `into` the folder it sent to; a copy
is one file sent in one try, in `sent` until the server has it, in `done` until its
answer is in, in `starts` until its indexing ends. `HandleUpload` sends all at once;
the first failure ends the wait (`Promise.all`), the others go on. The modal may be
opened at any time, also while the list is fetched for the first time.

| Action | Code |
|---|---|
| `OpenModal`, `AddFiles`, `RemoveFile`, `ResetAndClose`, `HandleUpload` | `UploadModal.tsx:75-154` |
| `ServerStores`, `UploadSucceeds`, `UploadFails`, `IndexingEnds` | the request, `onUploadSuccess` (`dashboard.tsx:664-690`), the catch |
| `Poll`, `ServerLists`, `ListArrives`, `SwitchCourse` | as in `Explorer` |

### CourseView

`course` is the course in view, `coursesQ` and `rowsQ` the cached lists, `adding`
the dialog of Add course, `saving` the change of a roadmap that is on its way.
`opened`, `untold` and the two `sure` fields are history: the course that was
added and not yet left, courses with changes nobody was told, and whether the
lists an action rested on were complete.

| Action | Code |
|---|---|
| `InitializeCourse`, `SwitchCourse` | `dashboard.tsx:166-175`, `TopBar.tsx:71-223` |
| `AddCourse`, `CourseStored`, `CourseAnswered`, `CourseOpened`, `AddFails`, `CloseDialog` | `CreateCourseDialog.tsx:61-202`, `handleCreateCourse` (`dashboard.tsx:92-98`) |
| `Add`, `Toggle`, `Delete`, `MilestoneStored`, `MilestoneAnswered`, `SaveEnds`, `SaveFails` | `RoadmapModal.tsx:136-249`, `useRoadmap.ts:21-74`, `roadmap.ts:37-40` |
| `CoursesArrive`, `RowsArrive`, `Lapse` | the two queries |

## 3. What the runs check

| Run | Instance | Properties | Distinct states |
|---|---|---|---|
| `ingestion` | 1 file, 2 runs, 2 replacements, 1 delete, 1 crash | `ServedRunsAreWhole`, `RowHasObject`, `UnfinishedRunHasTask`, `ServedTextIsStored`, `DigestIsAccountedFor`, `StatusIsHonest`, and the inductive `IInv`, which includes `TypeOK` and `ChunksComeWithReady` | 2,939,000 |
| `ingestion_live` | 1 file, 2 runs, 1 replacement, 1 delete, 1 crash | `RunsSettle`, `LocksAreReleased`, `ImplementsLifecycle` | 117,000 |
| `retrieval` | 2 users with a file each, 2 runs, 1 delete, 1 crash, 1 question | `SourcesStayInScope`, `SummaryIsOneGeneration` | 3,091,000 |
| `grounding` | up to 2 sources and 3 citations, markers 0 to 2, 2 quotes besides the blank and the empty one | `GateIsExact`, `NoiseIsHarmless`, `MarkersLeadSomewhere` | 262,000 |
| `course_tree` | 2 handlers at a time, 2 courses, 3 folders, 1 file, 1 milestone, 2 keys | `TreeIsConsistent`, `AttachmentsStayInCourse`, `NothingElseIsLost`, `ArchivedStaysArchived` | 1,756,000 |
| `chat_turn` | 2 users, 3 past turns and 2 live ones, 3 conversations, 3 courses, 1 delete, 1 crash | `TurnsAreWhole`, `TurnsStayPrivate`, `HistoryIsTheConversation` | 1,483,000 |
| `token_refresh` | a request, a sign-out, an upload; 2 users; tokens expire once | `OneDriver`, `SessionFollowsUser`, `RequestsSettle` | 314,000 |
| `chat_client` | 2 courses, 2 conversations, 2 questions, 1 deletion, 1 lapse of the cache, pages of 1 | `RowsAreReal`, `CalmScreenIsTheServer`, `CalmHistoryIsTheServer` | 4,870,000 |
| `desk` | 2 courses, 2 files in one folder, one of them a PDF, 1 viewer, 1 reload, 1 replacement | `DeskIsInOrder`, `ActiveIsMounted`, `ShownBytesAreFresh`, `BannerTellsTheScope` | 1,382,000 |
| `explorer` | 2 courses, 1 file, 3 folders, 2 names, 2 writes, 1 switch, 1 fault | `CalmListsAreTheServer`, `WhatFitsIsShown`, `BadgeFollowsTheTask` | 688,000 |
| `upload` | 2 files, 2 folders, 2 tries, 2 switches, 2 faults | `CompleteMeansStored`, `UploadsReachTheList` | 5,046,000 |
| `course_view` | 3 courses, 4 milestones, 3 writes, 2 switches, 1 fault | `AddedCourseStaysOpen`, `NewMilestonesGoLast` | 1,889,000 |

All of them hold. Each property is broken by at least one mutation of a definition
it is about, listed in `PROJECT.json`. The type invariants (`TypeOK`, and `AskTypeOK`
in `Retrieval`) document the shapes of the variables and carry the proofs.

Bounds. Every conflict in the code is about one file and at most two runs (the
one served and the one that replaces it), so one file and two runs reach each of
them; two replacements let one overlap the other and let a run go stale between
them; one delete suffices, as a second finds no row; one crash interrupts every
pair of steps, and after it runs and requests that have not started yet work on
the recovered state. `Retrieval` needs a second file and user for the scope and
no replacement (`PutCommit` only removes runs from what is visible). `MaxCrashes`
and `MaxNow` are the only bounds on counters; everything else is bounded by its
set. Symmetry is over runs, replacements, turns and conversations, in runs
without liveness only.

`grounding` needs two citations under one marker (one that holds, one that
fails, or the same twice) and a third under another; two sources, so that a
quote can be right for the wrong one; and the markers 0 and 2, which lead nowhere
when there are no or one sources. The theorems about `Grounding` do without
these bounds.

`course_tree` lets any two handlers overlap, over and over, as long as ids last:
two courses, so that a row can end up in the wrong one; three folders, one for
each course and one to nest, be created late or be moved into; one file and one
milestone, since nothing ties two of either together. `DefaultFolders = 1` stands
for the five of `create_course`.

`chat_turn` keeps the code's `HISTORY_TURNS` of 2: three past turns are the six
rows `_recent_turns` reads at most, and a live turn pushes the first of them out.
Two live turns are enough to overlap; three conversations let each open one;
`c3` is a course id without a row. `token_refresh` needs two requests that may
meet a refresh of a third, one of them an upload and one a sign-out, and two
users so that a session of one can be told from that of the other. With
`MaxNow = 1` every token a request carries expires at most once: a request may
meet 401, refresh and be answered. That retries end follows from it: were tokens
to expire before every answer, `request` would refresh for ever.

`chat_client` needs two courses and two conversations, so that an answer can find
another course or conversation open; two questions, as the second cancels what
the first's answer refetches; one deletion, which may hit the conversation being
asked; and pages of one, so that the second conversation is already beyond the page
and a deletion or a new turn brings another one into it. In `desk` one viewer is the
smallest LRU that evicts, two files take turns in it, and both are in one course so
that the other course's desk differs; one is a PDF, whose bytes are fetched, and
requests of its earlier visits answer later ones; one replacement tells old bytes from
new, one reload meets every state of the debounced save, and the folder is what a
stripped text may still mention. `explorer` has two names for three folders, so that
folders clash and nest; two writes let one act on what a list says before the other's
answer, or start a second task of a file; one fault takes a dialog away, restarts the
API or loses an answer.
`upload` needs two files for a partial failure and two tries for a second copy;
`course_view` a third course to add, two milestones to delete or tick and two to
add. `MaxLapses`, `MaxFaults`, `MaxSwitches`, `MaxWrites`, `MaxTries`, `MaxReloads`,
`MaxReplacements` and `MaxBurst` (changes within one debounce window) bound what
would otherwise repeat for ever. These modules have `CHECK_DEADLOCK FALSE` where the
bounds let the user stop.

Fairness. `ingestion_live` assumes weak fairness of every task, replacement and
delete step (the event loop runs what is ready, PostgreSQL answers, the parser
returns), of deadlock detection (`deadlock_timeout`) and of the restart
(`Restart=` in `deploy/nttbc-api.service`). Starting a request, or uploading, is
never assumed. `token_refresh` assumes that an exchange is answered or fails
(`Serve`) and that its callback runs (`Receive`); nothing about the user, the
clock or a reload. `explorer` assumes that fetches are answered (`ServerLists`,
`ListArrives`), that the polling interval fires (`Poll`), and that each indexing task
goes on to some end (`TaskStep`): it reports a status, or it is lost without a word
(`TaskIsLost`), which is all that `RunsSettle` and a commit outside the `try` leave to
be said. `BadgeFollowsTheTask` therefore excuses a file that is `processing` with no
task left: until a restart nothing can tell. The user, the mutations and the faults are
free. The other modules state safety only.

### What the violations show

Nine configurations beside the runs state what a comment, a document or a test
says of the program and the code does not keep; TLC finds each of them violated.
They are not part of the runs:

| Configuration (module) | Property | Where it is said | Where it breaks |
|---|---|---|---|
| `IngestionStale` (`MCIngestion`) | `RetrievalFollowsReplacement` | `files.py:631` "remove it from retrieval until the replacement is ingested" | `files.py:300` |
| `IngestionReady` (`MCIngestion`) | `ReadyIsSearchable` | `schemas/file.py:113` "Set when an ingestion run for this file reaches `ready`" | `files.py:626` |
| `IngestionStuck` (`MCIngestion`) | `ProcessingHasTask` | `files.py:230` "Nothing raises out of it" | `files.py:304` |
| `IngestionReason` (`MCIngestion`) | `FailedSaysWhy` | `files.py:267` "marks the FILE row, which nothing else touches", or "the UI cannot say why" | `files.py:296` |
| `RetrievalMixed` (`MCRetrieval`) | `RetrievalSeesOneGeneration` | `README.md:36` "retrieval never sees two generations of the same file at once" | `vector_ops.py:216` |
| `ChatTurnOrder` (`MCChatTurn`) | `HistoryPairsAnswers` | `tests/test_follow_up_context.py:4` "that the history is read from the right conversation in order" | `rag.py:290` |
| `ChatClientCrossed` (`MCChatClient`) | `ChatsStayInTheirCourse` | `workspace.ts:40` "Everything scoped to a single course." | `useChatSession.tsx:222` |
| `WorkspaceCitation` (`MCWorkspace`) | `TabsStayInTheirCourse` | `workspace.ts:92-97` on `openCitation`: switch course, open, focus at once, as "Doing it as three separate calls is how tabs end up in the wrong course." | `dashboard.tsx:353-360`, `Chat.tsx:470-475` |
| `ChatScopeRetry` (`MCWorkspace`) | `RetryKeepsItsFiles` | `dashboard.tsx:303-304`: "Ask again" resends the question "with the files it named then" | `useChatSession.tsx:143-145` |

1. **A stale generation is served after a replacement.** A task parses the old
   bytes; `replace_file` renames, deactivates what is active and commits
   UPLOADED; the task then activates its run and sets READY. Retrieval serves
   text the stored object no longer holds until someone ingests again.
   `ServedTextIsStored` says this is the only way: a served run differs from the
   stored bytes only if a replacement overtook it or is unfinished.
2. **READY without an index.** A replacement that loaded the row while it read
   `uploaded` assigns `uploaded`: no change, so not written. If a task published
   in between, the row stays READY while its run is withdrawn. `StatusIsHonest`
   says that without such a replacement the status can be trusted.
3. **Processing for ever.** Activation and replacement take the run and the FILE
   row in opposite orders; the activation stands outside the `try`, so when
   PostgreSQL aborts it the file stays `processing` until the next restart.
4. **Failed without a reason.** A retry loads the row of a file that had failed with
   message M; a replacement commits `uploaded` and NULL; the retry fails with M again.
   The session believes the row still holds M, so only the status is written.
   `StatusIsHonest` says that a task which had loaded a message is the only way to this.
5. **Two generations in one prompt.** A publish between the vector and the
   keyword statement, or between the two searches of a follow-up, mixes them.
6. **An answer beside another question.** Two overlapping turns of one
   conversation are stored as q1, q2, a1, a2; `_pair_turns` pairs a1 with q2 and
   drops a2, and a later prompt says so. `HistoryIsTheConversation` says that
   without overlap the history is right.
7. **A chat in another course.** The first answer of a new chat becomes the active
   conversation of the course in view when it arrives: after a switch, course d
   shows a conversation of course c. What `RowsAreReal` says still holds: no rows
   are mixed.
8. **A tab in another course.** The citation drawer stays open across a switch of
   course, and "Open document" opens its file without switching back, as a tab of the course in view; the
   effect that closes tabs of missing files closes it once that course's list is
   there, and until then it is the active document.
9. **"Ask again" asks something else.** The mentions are stripped from a text once, and
   what is left may read as a mention again. It then overrules the ids the turn was
   stored with, and is resolved against the list of today.

Seen while modelling and not stated as a property:

- A quote of white space normalises to "" and is found in every source, so it
  counts as verified (`Blank` in `Leads`).
- A citation whose quote is the empty string makes `Citation` raise outside any
  `try` (`RaiseUnstored`), and an empty answer is committed before `RagAnswer`
  refuses it (`RaiseStored`): both requests end in a 500.
- "An ungrounded answer names no sources" (`rag.py:533`) is not always so: a draft
  that says of itself it is not grounded, but whose citations hold, is stored and
  shown with them, and the gap it named is dropped.
- `delete_folder` removes a folder that is not empty: what was uploaded, created
  or moved into it between its check and its DELETE goes with it, a moved file
  with its index, and the stored object stays behind without a row. R28 of
  `docs/erd/KNOWN_ISSUES.md` takes the check for a guard against this cascade;
  `NothingElseIsLost` says that the race is the only way past it.
- A milestone keeps naming a file that was deleted; `AttachmentsStayInCourse` is what
  remains true of the ids.
- Two overlapping moves of one file: a move back to the folder the row was loaded
  with is no change for the session, is not written, and is still answered with
  200 and the other folder.
- Two overlapping replacements can leave `sha256` and `size_bytes` describing
  other bytes than the stored ones (no document promises otherwise): the renames
  are not ordered, the commits wait for the row. `DigestIsAccountedFor` says that
  this and a replacement cut off after its rename are the only ways to a mismatch.
- Course auto-correction (`services/chat.py:54-66`) inserts every course with the
  same code, year and semester, which `uq_course_user_code_year_sem` admits once
  per user: the second unknown course id a user sends, or the id of somebody
  else's course, ends in a 500 (`MakeCourse`).
- `Message.scope_course_id` is documented as the scope of the turn, "not the
  conversation's home course" (`schemas/chat.py:50`); `query` stores the home
  course (`rag.py:450`).
- A refresh that `AuthProvider` started on mount and that answers after the user
  signed in on the login page applies its own token: `SessionFollowsUser` holds
  for sign-ins and sign-outs that no such exchange overlaps (`Undoing`).
- Folder names are not unique, and the explorer addresses folders by name: a
  subfolder created with its parent's name is its own parent in `folderParents`
  (`dashboard.tsx:210-223`), so both and their files vanish from the tree, and a
  dialog may act on the other folder of the name. `WhatFitsIsShown` therefore asks
  for distinct names. `childFolderCount` counts the folders a search left over.
- A retry of a failed file whose refetch reads "failed" before the task wrote
  PROCESSING (`files.py:252`) leaves a list without a pending row: polling does not
  start, and the badge stays "failed" until the next fetch (`untold`).
- An answer that arrives after a switch of course invalidates the list of the
  course in view; the list of the course that changed stays as it was for up to
  `staleTime` (uploads, indexing, milestones). The same of a dialog whose row was
  taken away, after which nothing keeps the user in the course (`loose`).
- The upload dock does not wait for the explorer's lists (`FileExplorer.tsx:293-302`):
  an upload whose answer comes while the list of files is fetched for the first time
  joins that fetch, and if the server had already answered it, the file is not listed
  until the next one (`IsLostOn`, `untold` of `Upload`).
- Nothing keeps a file from being ingested again while it is being indexed
  (`files.py:140-208`). The first task to end settles the badge and stops the polling,
  and what the other then makes of the file is not shown until the next fetch
  (`untold` of `Explorer`).
- The history pane asks for no more than the 10 conversations of the default limit
  (`chat.py:32`): older ones cannot be reached from it.
- An invalidation joins a first fetch that is running, and its answer counts as
  new though it was read before the change: an added course is then not listed
  and the page goes back to `courses[0]`, or the roadmap misses a milestone. A
  refetch that fails after Add course has the same effect
  (`dashboard.tsx:94-98`). `AddedCourseStaysOpen` holds where the list was fetched.
- While the roadmap loads its rows are empty, and a milestone added then gets
  position 0 (`roadmap.ts:37`).
- A first fetch of the courses that fails is never repeated by the page: "Try
  again" fetches folders and files only (`dashboard.tsx:467-470`).
- `list_courses` has no ORDER BY, so `courses[0]` may be any course
  (`CurrentCourse`).
- Uploading again after a partial failure stores the files that had succeeded a
  second time; `requestError` of the modal outlives its closing.
- A dialog whose answer is lost leaves the list as it was (`untold`); submitted
  again, it creates the folder a second time.
- If the answers of two moves are lost, and the folder a file is listed in is deleted,
  the file's category is "Unknown folder" (`explorerData.ts:41`), which is no branch of
  the tree: the file is not drawn until its list is fetched again.
- While a course's list loads no banner is shown though the question is narrowed to
  the open document; a mention of an empty folder resolves to nothing.
- If a question fails before its conversation's messages were loaded, its
  optimistic turn stays; a second question cancels the refetch the first answer
  started, and if it fails, the snapshot it restores lacks that answer. `calm`
  excludes failures for this reason.
- A deletion that is answered after a switch of course leaves the deleted
  conversation active in the course it was deleted in.

## 4. What is proved

`IngestionProofs` proves, for all sets of files, runs, replacements and deletes
and any number of crashes, from `ContentAssumption`, `NoFileAssumption` and
`MaxCrashesAssumption` (names are distinct, the bound is a number):

- `InvariantHolds`: `Spec => []IInv`, the property `IInv` of the run `ingestion`;
- `TypeCorrect` and `ChunksAlwaysComeWithReady` (conjuncts of `IInv`, and no
  properties of a run by themselves), `ServedRunsAreAlwaysWhole`,
  `RowsAlwaysHaveObjects`, `UnfinishedRunsAlwaysHaveTasks`,
  `ServedTextIsAlwaysAccountedFor`, `StatusIsAlwaysHonest`,
  `DigestIsAlwaysAccountedFor`;
- `LifecycleIsImplemented`: `Spec => Lifecycle!Spec`, the refinement of `RunLifecycle`.

The argument. None of the properties is inductive. That a served run is whole
needs that it was published by a task whose run is READY (`ActiveWasPublished`),
that a live task's counter determines the status it committed
(`TasksOwnTheirRuns`), and that a run's row lives exactly as long as its file's
(`RunRowsFollowFiles`). That needs that no request names a file whose upload is
not over, or a file's row could come back under an old run
(`RequestsNameUploads`), nor may a replacement's commit write into a row deleted
under its lock (`LockedRowsExist`). `RowHasObject` needs the order of upload and unlink
(`ObjectsOutliveRows`). `ServedTextIsStored` is proved by following the text from
the parse (`TextIsAccountedFor`) to the chunks (`ParsedIsStored`). `IInv` is the
conjunction; TLC confirms it on the instance of `ingestion`. The proof has one
lemma per action and, under it, one step per conjunct the action can disturb.

`StatusIsHonest` needs a second invariant beside it, `CommitInv`: the runs an
activation is about to retire are published runs of its own file
(`TargetsAreOwn`), and from its first commit on a task's session holds the file as
processing (`SeenAsMarked`), so that READY and FAILED are always a change and the
ORM's net-change rule writes them. What the rule may keep back is the reason: a task
that loaded a failed file with the very message it then reports does not write it
again (`BlindReport`), and a replacement may have cleared it meanwhile. The property
excuses a missing reason by nothing else, and the proof needs that the excuse, once it
holds of a file, stays (`BlindReportsStay`).

`DigestIsAccountedFor` needs a third, `PutsLeaveTheirs`: bytes and digest found under
a file were left there by replacements of that file which got as far as their rename
and their commit. It ties the two by their order: whoever has renamed has replaced
the upload's bytes for good, and a digest from a replacement never stands beside them;
so if nothing is unfinished and the two differ, both were left by replacements that
are done.

The refinement is proved action by action under the mapping `Phase`: `IngestFile`
is a `Request`, `TaskStart` a `Begin`, `TaskStoreChunks` a `Build`, `TaskFailRun`
and `Recover` a `Fail`, `TaskPublish` a `Serve`, `PutCommit` a `Withdraw`,
`DelCommit` a `Drop`, and every other step stutters. The step that carries it is
`TaskPublish`: the activation retires the rows of its UPDATE's snapshot, and
`IInv` says those are all that were served.

The second part of `IngestionProofs` builds on it: a step of `SpecWithAsks` is a step of `Ingestion`
beside questions that stand still, or a step of a question while the index
stands still, so `IInv` carries over and `AskInv` is added. `AskInv` says what a
question at each point has computed: its scope holds only files of the asker
that were mentioned, it searches with a scope that is not empty, and what it has
collected was cut from files in it. It gives `SourcesAlwaysStayInScope` and, with
`IInv`'s one active run per file, `SummariesAreOneGeneration`, for any users,
files, questions and mentions.

`CourseTreeProofs`, for any ids, keys and number of handlers at a time, from
`DefaultFoldersAssumption`, `IdsAssumption` and `RowsAssumption` (a row is none of
the marks and a file id no folder id): `TreeIsAlwaysConsistent`,
`AttachmentsAlwaysStayInCourse`, and the action properties `NothingElseIsEverLost`
and `ArchivedStaysArchivedAlways`. What a handler has read goes stale, so
`HandlersHold` says what survives of it: the row it read was there once, and if it
still is, the columns nobody changes are as they were read. Two handlers never
draw one id (`IdsAreDrawnOnce`), or one insert would overwrite the other's row.
`NothingElseIsLost` needs `LateIsNoted`: once `delete_folder` has found no folders,
then no files, all that is in the folder is noted as having come late. What a
cascade takes is the least closed set of folders (`Subtree`): that it is closed and
holds no folder that is gone is all the proof needs of it.

`ChatTurnProofs`, for any users, courses, conversations, turns and crashes:
`TurnsAreAlwaysWhole`, `TurnsAlwaysStayPrivate` and `HistoryIsAlwaysTheConversation`.
`TurnsHold` says what a turn at each statement may rely on: its conversation exists
while it holds the key lock on it (`HoldsPc`) and may be gone before; as long as it
exists its course belongs to the asker; the turns of its history were answered, to
the same user. From `PastAssumption`, `RegisteredAssumption`, `HomesAssumption`
("unborn" and "deleted" are no courses), `NoneAssumption` and `BoundsAssumption`.

The history, for conversations and limits of any length, is a counting argument.
Readings of the clock are distinct, each turn was asked before it was answered, and
stored turns are whole (`StampsHold`, `TurnsAreWhole`); so turns that did not overlap
can be numbered in the order they were asked (`NumbersExist`), and as each has two
rows, the sort puts the i-th question at place 2i - 1 and its answer at 2i
(`RowsAreInOrder`). Pairing such rows gives their turns (`PairsAreTurns`, by
`SetInduction`), and a limit on rows that is even cuts no turn in half and leaves more
turns than are kept (`RecentIsLast`). That a history stays what it was read as is
`HistoriesHold`: it names a numbering of the turns that were read, and those keep
their stamps and verdicts.

The second part of `ChatTurnProofs` is about `Grounding` (`GateSpec`, with variables of
its own) and proves for any quotes, markers, sources and lists of citations:
`GateIsExactAlways`, `NoiseIsAlwaysHarmless`, `MarkersAlways`.
The work is the lemma
`DecideIsExact`, that the chain of filters and the check agree with the
declarative gate on every draft: with markers in the text, what survives both
filters is the good citations exactly when every marker has one; without, the
check passes only if no citation resolves. The invariant (`GateInvariantHolds`) adds
that what is stored is `Decide` of the draft and sources at hand. `NoiseIsAlwaysHarmless`
follows from the lemma: a draft and the draft without one bad citation have the
same good citations and, if every marker has another, the same verdict.
`MarkersAlways`, that every number a reader finds in a shown answer leads to a line of
the source sent under it, is what exactness comes to on the reader's side: the filters
number citations in one place and sources are looked up in another.

`TokenRefreshProofs`, for any requests, uploads, sign-outs and users, and however
often tokens expire: `OneDriverAlways` and `SessionAlwaysFollowsUser`. `LinesAreUsed` ties
each caller's counter to the exchange it has open. `SessionIsFollowed` is what
makes the second inductive: while the last sign-in counts, each refresh under way
speaks for its user and no sign-out has been served (`SignedInAs`); while the last
sign-out counts, no refresh carries a cookie and no sign-in has been served
(`SignedOut`). From `KindsAssumption`, `CallersAssumption`, `NobodyAssumption`,
`UsersAssumption` and `MaxNowAssumption`, which only keep names apart and say
that the bound is a number.

The second part of `TokenRefreshProofs` is about `Upload`, whose specification
(`UploadSpec`) shares no variable with the session's; it proves for any files,
folders, clicks, switches and faults: `CompleteAlwaysMeansStored` and `UploadsAlwaysReachTheList`, from `UploadInv`. While
the modal waits, each chosen file has a copy of the last click, to its folder, that
is on its way or stored (`ClickIsCovered`): a copy is lost only in a step that ends
the wait, and the last answer comes in when none is on its way. The list says of no copy that
it is indexed unless it is (`IndexedIsTrue`), and a list that counts as new, or is on
its way, names exactly what is stored, unless an answer is due or it was not told
(`ListsAll`). An answer that tells asks for a new list, or finds the list marked old, or
is lost on an older fetch that goes on (`IsLostOn`), and then counts as untold.

`ChatClientProofs`, for any courses, conversations, questions and lapses of the
cache: `RowsAreAlwaysReal`, `CalmScreenIsAlwaysTheServer` and
`CalmHistoryIsAlwaysTheServer`. That rows are real needs that every copy of a
conversation's rows is, those on the wire and in the snapshot `onMutate` took
included, and that a conversation not born yet was never in view
(`BornBeforeSeen`), or the first answer's rows could meet others. The other two
rest on what a calm user has under way: one question or one deletion at most,
about the course and the conversation in view (`CalmIsAlone`). Then every entry of
the cache is the server's, or marked old, or about to be invalidated by the answer
that is due (`CalmMessages`, `CalmLists`); a list is the page that the client asked for
(`Page`), of any size and by any order of `touched`. An invalidation that joins a first fetch,
the way a list gets stale in this client, would break this; hence `CalmIsAlone`
also says that the list in view was loaded before a calm user acted. From
`ClientAssumption`.

`WorkspaceProofs`, about `ScopeSpec`, for any courses, files, folders and number of
viewers: `DeskIsAlwaysInOrder`, `ActiveIsAlwaysMounted`,
`ShownBytesAreAlwaysFresh`, `BannerAlwaysTellsTheScope`, whatever labels a stripped
question may leave (`Leftovers`). `IInv` says of the copy in localStorage what it says of
the desk (`DesksAreInOrder`), as a reload makes one the other; that the LRU holds
the active document (`ActiveIsCached`); and that whatever is shown, awaited or on
the wire is about the document in front and not older than when it got there
(`ContentIsOfFront`). Tabs are filtered by `Only`, a recursive function, and what it
returns for every sequence takes an induction: `SetInduction` states it of a set
of naturals, which the provers can use where the library's theorem, stated of an
operator, they cannot. From `WorkspaceAssumption` and `ScopeAssumption`.

`ExplorerProofs`, for any courses, files, folders and names, and any number of
changes, switches and faults: `CalmListsAreAlwaysTheServer` and
`WhatFitsIsAlwaysShown`, from `IInv`. For the first, every entry of the cache claims
something: an answer on its way, and data that count as new, are what the server has, or
have an excuse (`ListsAreTrue`). Excuses are what the property names, a change whose
answer is not in, an indexing the list waits for, a list nobody was told of, and each
step that changes the server leaves one behind. A request may outlive its dialog, so it
is tied to the course it was submitted in, whoever waits for it (`RequestsAreOwn`), and a
task to a file that exists (`TasksAreOfFiles`), or its report would bring a file back.
The claim is easily lost where a fetch is given up after it was answered, which takes
with it what the server had told (`GivenUpIsGood`), and where an invalidation joins an
older fetch; what it does not join claims nothing any more (`InvalidatedClaimsNothing`).

For the second, the folders of the server and of each list can be ranked, every one
above those inside of it (`TreeIsRooted`, `ListsAreOwn`): a creation ranks the new folder
below its parent, nothing else changes a parent, and what is deleted has nothing
inside. `BelowIsFull` then counts: as long as a level of the tree lacks something
visible that is not inside of a collapsed folder, the lowest of what it lacks comes with
the next, so after as many levels as there are names nothing is missing (`LevelsExist`
says what the levels are). `VisibleIsThere` uses it twice, from the roots and from the
collapsed folders on the screen: what is visible and not drawn is inside one of these. From
`ExplorerAssumption`, `FirstRowsAssumption` (the first folders are at the top),
`NoneAssumption` and `NamesAssumption` (names are finitely many).

`CourseViewProofs`, for any courses, milestones, positions and number of
writes: `AddedCourseAlwaysStaysOpen` and the action property
`NewMilestonesAlwaysGoLast`, from `ViewInv`. A course that was added is in the list of
courses that is shown and in every answer on its way to it (`OpenedHolds`): it is
opened only after a list that was asked for once the server had it (`AddingHolds`).
For the roadmap, rows that count as new, and an answer on its way, are what the server
has, unless a change of that course is being answered or it was not told of one
(`RoadmapHolds`); a new position that was computed from such rows is above every
milestone of the course, and stays so until it is stored, since no other change of the
roadmap is made meanwhile and a tick or a deletion raises no position
(`SavingHolds`). Nothing bounds a position in the schema (`schemas/milestone.py`), so
rows have any integer; that `nextPosition` is above them all, and an integer, needs
that finitely many have a last one (`LastExists`, by `Induction`). From
`CourseViewAssumption` (the first rows are finitely many, of the shape of rows) and
`NoneAssumption`.

Every invariant above was an invariant of a TLC run on its module's instance
before it was proved; those of `ChatClient` and `Explorer` went through several
readings there.

Every safety and action property that a run checks is stated by a theorem. Only
model-checked are `RunsSettle`, `LocksAreReleased`, `RequestsSettle` and
`BadgeFollowsTheTask`: liveness under fairness, which needs ENABLED and is out of the
prover's reach.

## 5. Plan

Done: the server's concurrent core (`Ingestion`, `RunLifecycle`, `Retrieval`,
`Grounding`, `CourseTree`, `ChatTurn`), the session (`TokenRefresh`), the client's
panes (`QueryCache`, `ChatClient`, `Workspace`, `ChatScope`, `Explorer`, `Upload`,
`CourseView`), and the proofs of §4.

What would come next: rank fusion and the diversified limits of `hybrid_search` as pure
operators.

Not modelled, and why:

- `packages/contracts/src/schema.ts` and `zod.ts`: generated types and validators,
  without behaviour of their own (a fifth of the TypeScript).
- Rendering: markup, styles, theme, Markdown and PDF, the search for a quote in a
  page and its highlight, toasts, form validation, the profile page. No other part
  depends on it.
- The chunker: a sequential algorithm over the text of one document whose budget is
  counted by an external tokenizer; `Ingestion` models that it yields chunks or raises.
- The embedding model: double-checked loading under one lock around an external
  library. Docling and the language model are free choices of result.
- Full screen, which unmounts chat and explorer and so drops their local state.
- The desktop, mobile and web shells, migrations, deployment, scripts and
  evaluation: entry points and one-off programs.
