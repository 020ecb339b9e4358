------------------------------ MODULE ChatScope ------------------------------
(***************************************************************************)
(* Which files a question is asked of: the document in front and the banner *)
(* that names it, "this document", @-mentions of files and folders, and     *)
(* "Ask again" -- while tabs, courses and lists change as in Workspace.     *)
(***************************************************************************)
EXTENDS Workspace

CONSTANTS
  Folders, FolderOf,  \* the folders, by which a mention names all their files
  WholeCourse,        \* file_ids null
  Leftovers           \* the labels that a text stripped of its mentions may read as

ASSUME ScopeAssumption ==
  /\ FolderOf \in [Files -> Folders] /\ \A fs \in SUBSET Files : WholeCourse # fs
  /\ Leftovers \subseteq Files \cup Folders

VARIABLES
  dismissed,  \* dismissedChatScopeFileId
  turn        \* the last turn, if its answer was not grounded

scopeVars == <<dismissed, turn>>
allVars == <<vars, scopeVars>>

NoTurn == [course |-> None, label |-> None, files |-> WholeCourse]

\* ragScope without mentions: nothing calls mentionFile, so mentionedFileIds
\* stays empty and the scope is the whole course.
RagScope == WholeCourse

\* chatScopeFileId, and the file the banner above the chat names.
ChatScopeFile == IF ActiveFile = dismissed THEN None ELSE ActiveFile
Banner == IF course # None /\ ChatScopeFile \in listed[course] THEN ChatScopeFile ELSE None

\* extractMentionsAndResolve: a label is the name of a listed file or folder;
\* a folder stands for the files listed in it, and a label that fits nothing
\* leaves the question without mentions.
Resolve(label) ==
  LET files == {f \in listed[course] : label = f \/ label = FolderOf[f]}
  IN  IF files = {} THEN WholeCourse ELSE files

\* Labels the picker offers.
Labels == listed[course] \cup Folders

\* sendMessage: mentions of the text, else the files the caller names, else
\* everything (no mention is ever kept in the store).
Effective(label, fileIds) ==
  IF label # None /\ Resolve(label) # WholeCourse THEN Resolve(label) ELSE fileIds

\* handleSendMessage: the files it names for a plain question, and for one
\* classified as a summary or about "this document" (and the bug of asking the
\* open document although it was dismissed).
OpenScope == IF ActiveFile = None THEN RagScope ELSE {ActiveFile}
PlainScope == IF ChatScopeFile = None THEN RagScope ELSE {ChatScopeFile}
DocumentScope == {ActiveFile}

\* parseMentions: what is sent and stored is the question without the mark-up
\* of its mentions; it is stripped once, and what is left may read as a mention
\* again ("@@[Lecture 1.pdf]" leaves "@Lecture 1").
Cleaned(label) == {None} \cup IF label = None THEN {} ELSE Leftovers

\* A question and its answer, which is grounded, or offers "Ask again"; the
\* question is stored with the ids its request named.
Turn(label, files) ==
  turn' \in {NoTurn} \cup {[course |-> course, label |-> left, files |-> files] :
                             left \in Cleaned(label)}

CanAsk == Tidy /\ UNCHANGED <<vars, dismissed>>

AskPlain == CanAsk /\ Turn(None, Effective(None, PlainScope))

\* "Open a document before referring to this file" without one.
AskThisDocument ==
  /\ CanAsk /\ ActiveFile # None
  /\ Turn(None, Effective(None, DocumentScope))

AskMentioning(label) ==
  /\ CanAsk /\ label \in Labels
  /\ Turn(label, Effective(label, PlainScope))

\* retryTarget and handleRetryMessage: the stored question, with the ids of its
\* turn.
RetryOffered == turn.course # None /\ turn.course = course
AskAgain ==
  /\ CanAsk /\ RetryOffered
  /\ Turn(turn.label, Effective(turn.label, turn.files))

\* "Ask the whole course".
DismissScope ==
  /\ Tidy /\ Banner # None
  /\ dismissed' = ActiveFile
  /\ UNCHANGED <<vars, turn>>

\* A reload forgets the dismissal.
Forget == IF reloads' # reloads THEN None ELSE dismissed

ScopeInit == Init /\ dismissed = None /\ turn = NoTurn

ScopeNext ==
  \/ Next /\ dismissed' = Forget /\ UNCHANGED turn
  \/ AskPlain \/ AskThisDocument \/ AskAgain \/ DismissScope
  \/ \E label \in Files \cup Folders : AskMentioning(label)

ScopeSpec == ScopeInit /\ [][ScopeNext]_allVars

----------------------------------------------------------------------------
(* Properties                                                              *)

\* What the banner above the chat says is what a plain question is asked of:
\* the file it names, or, without a banner, the whole course -- once the list
\* of the course is there (chatScopeFileId, dashboard.tsx:150-154, the banner,
\* Chat.tsx:362-378, and the ids of the request, dashboard.tsx:327-335).
BannerTellsTheScope ==
  Tidy /\ ready[course] => PlainScope = IF Banner = None THEN WholeCourse ELSE {Banner}

\* dashboard.tsx:303-304 says that "Ask again" resends a question "with the
\* files it named then -- not whatever document happens to be open now."  The
\* code keeps it of questions without mentions: of a stored question that still
\* reads as one, sendMessage resolves the mention again, against the list of
\* today (useChatSession.tsx:143-145).
RetryKeepsItsFiles ==
  [][AskAgain => turn' = NoTurn \/ turn'.files = turn.files]_allVars
=============================================================================
