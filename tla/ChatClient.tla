------------------------------ MODULE ChatClient ------------------------------
(***************************************************************************)
(* The chat pane: which conversation is open in which course, the rows the *)
(* query cache shows of it, the optimistic turn of a question under way,   *)
(* and what its answer, its failure or a deletion does to them when it     *)
(* arrives, however the user moved meanwhile.                              *)
(*                                                                         *)
(* useMutation gives a running mutation the options of every later render: *)
(* onSuccess runs with the course and the conversation that are open when  *)
(* the answer arrives; onMutate and the request saw those of the click.    *)
(***************************************************************************)
EXTENDS Naturals, FiniteSets, QueryCache, SequencesExt

CONSTANTS
  Courses, Convs,
  Sends,      \* questions the user sends
  Deletes,    \* deletions the user confirms
  FirstCourse,
  None,       \* activeConversationId null
  PageSize,   \* limit of GET /chat/sessions: 10
  MaxLapses   \* bound on fetches that fail and entries that pass staleTime

ASSUME ClientAssumption ==
  /\ FirstCourse \in Courses /\ {"unborn", "deleted"} \cap Courses = {}
  /\ None \notin Convs /\ MaxLapses \in Nat /\ PageSize \in Nat \ {0}

VARIABLES
  \* The server.
  home,       \* course of each conversation, "unborn" or "deleted"
  stored,     \* its committed turns
  touched,    \* its updated_at: how many turns were stored anywhere by then
  \* The client.
  course,     \* activeCourseId
  chat,       \* activeConversationId of each course
  messages,   \* ["chat", "session", k]
  sessions,   \* ["chat", "sessions", c]
  pc,         \* where a question stands
  asked,      \* its request, and the conversation it was stored in
  before,     \* context of onMutate: previousDetail
  delPc, delAsk,
  calm,       \* the user waited for what was under way, and nothing failed
  lapses

server == <<home, stored, touched>>
caches == <<messages, sessions>>
sendVars == <<pc, asked, before>>
delVars == <<delPc, delAsk>>
vars == <<server, course, chat, caches, sendVars, delVars, calm, lapses>>

Row == [turn : Sends, sent : BOOLEAN]
AsSent(turns) == [i \in 1 .. Len(turns) |-> [turn |-> turns[i], sent |-> TRUE]]
NoAsk == [course |-> FirstCourse, conv |-> None, into |-> None]
NoDetail == [loaded |-> FALSE, rows |-> <<>>]
\* Sequences that are no longer than there are questions.
Turnings(S) == SeqOf(S, Cardinality(Sends))

\* What GET /chat/sessions answers: the conversations of the course that were
\* touched last.
Later(k) == {j \in Convs : home[j] = home[k] /\ touched[j] > touched[k]}
Page(c) == {k \in Convs : home[k] = c /\ Cardinality(Later(k)) < PageSize}

\* What is on screen: the conversation the active course has open.
Shown == chat[course]
\* The rows of the stream and of the history drawer.
Rows(k) == messages[k].data
Listed == sessions[course].data

\* isSending, isTyping: one question at a time.
Running(s) == pc[s] \in {"asked", "stored"}
IsTyping == \E s \in Sends : Running(s)
Deleting(d) == delPc[d] \in {"asked", "deleted"}
UnderWay == IsTyping \/ \E d \in Deletes : Deleting(d)

\* The user acts when all is at rest and the list of the course is there.
Patient == calm /\ ~UnderWay /\ sessions[course].loaded

Init ==
  /\ home = [k \in Convs |-> "unborn"]
  /\ stored = [k \in Convs |-> <<>>]
  /\ touched = [k \in Convs |-> 0]
  /\ course = FirstCourse
  /\ chat = [c \in Courses |-> None]
  /\ messages = [k \in Convs |-> NoEntry(<<>>)]
  /\ sessions = [c \in Courses |->
                   IF c = FirstCourse THEN InView(NoEntry({})) ELSE NoEntry({})]
  /\ pc = [s \in Sends |-> "idle"]
  /\ asked = [s \in Sends |-> NoAsk]
  /\ before = [s \in Sends |-> NoDetail]
  /\ delPc = [d \in Deletes |-> "idle"]
  /\ delAsk = [d \in Deletes |-> None]
  /\ calm = TRUE
  /\ lapses = 0

----------------------------------------------------------------------------
(* Moving about                                                            *)

\* Conversation k comes into view in course c, when c is the active course.
Showing(k) == IF k = None THEN messages
              ELSE [messages EXCEPT ![k] = InView(@)]

\* selectSession, startNewChat: of the course in view.
SetActiveConversation(k) ==
  /\ chat' = [chat EXCEPT ![course] = k]
  /\ messages' = Showing(k)

SelectSession(k) ==
  /\ k \in Listed /\ k # Shown
  /\ SetActiveConversation(k)
  /\ calm' = Patient
  /\ UNCHANGED <<server, course, sessions, sendVars, delVars, lapses>>

StartNewChat ==
  /\ Shown # None
  /\ SetActiveConversation(None)
  /\ calm' = Patient
  /\ UNCHANGED <<server, course, sessions, sendVars, delVars, lapses>>

SwitchCourse(c) ==
  /\ c # course
  /\ course' = c
  /\ messages' = Showing(chat[c])
  /\ sessions' = [sessions EXCEPT ![c] = InView(@)]
  /\ calm' = Patient
  /\ UNCHANGED <<server, chat, sendVars, delVars, lapses>>

----------------------------------------------------------------------------
(* A question                                                              *)

\* onMutate: the fetch of the conversation is cancelled, what the cache holds
\* is kept for onError, and the question is appended; with nothing cached, a
\* detail of its own is made.
Optimistic(k, s) ==
  LET e == Cancel(messages[k], <<>>)
  IN  /\ messages' = [messages EXCEPT ![k] = Put(e, Append(e.data, [turn |-> s, sent |-> FALSE]))]
      /\ before' = [before EXCEPT ![s] = [loaded |-> e.loaded, rows |-> e.data]]

Send(s) ==
  /\ pc[s] = "idle" /\ ~IsTyping
  /\ pc' = [pc EXCEPT ![s] = "asked"]
  /\ asked' = [asked EXCEPT ![s] = [course |-> course, conv |-> Shown, into |-> None]]
  /\ IF Shown = None THEN UNCHANGED <<messages, before>> ELSE Optimistic(Shown, s)
  /\ calm' = Patient
  /\ UNCHANGED <<server, course, chat, sessions, delVars, lapses>>

\* The clock of updated_at: how many turns are stored.
Now == Cardinality({s \in Sends : asked[s].into # None})

\* POST /rag/query commits the turn and touches its conversation, a new one of
\* the course the request names when it names none that exists.
ServerStores(s) ==
  /\ pc[s] = "asked"
  /\ \E k \in Convs :
       /\ IF asked[s].conv # None /\ home[asked[s].conv] \in Courses
          THEN k = asked[s].conv /\ UNCHANGED home
          ELSE home[k] = "unborn" /\ home' = [home EXCEPT ![k] = asked[s].course]
       /\ stored' = [stored EXCEPT ![k] = Append(@, s)]
       /\ touched' = [touched EXCEPT ![k] = Now + 1]
       /\ asked' = [asked EXCEPT ![s].into = k]
  /\ pc' = [pc EXCEPT ![s] = "stored"]
  /\ UNCHANGED <<course, chat, caches, before, delVars, calm, lapses>>

\* conversation_id of the answer.
NewConversation(s) == asked[s].into

\* The conversation whose messages are refreshed: the one in view when the
\* answer arrives, or the new one (and the bug of refreshing none).
RefreshNothing(s) == None
RefreshTarget(s) == IF Shown # None THEN Shown ELSE NewConversation(s)

\* onSuccess.
Answered(s) ==
  LET opened == Shown = None
      target == RefreshTarget(s)
  IN  /\ pc[s] = "stored"
      /\ pc' = [pc EXCEPT ![s] = "answered"]
      /\ chat' = IF opened THEN [chat EXCEPT ![course] = NewConversation(s)] ELSE chat
      /\ sessions' = [sessions EXCEPT ![course] = Invalidate(@, TRUE, {})]
      /\ messages' =
           IF target = None THEN messages
           ELSE IF opened THEN [messages EXCEPT ![target] = InView([@ EXCEPT !.old = TRUE])]
           ELSE [messages EXCEPT ![target] = Invalidate(@, TRUE, <<>>)]
      /\ UNCHANGED <<server, course, asked, before, delVars, calm, lapses>>

\* Where onError puts the snapshot back (and the bug of taking what is in view).
RestoreWhatIsShown(s) == Shown
RestoreTarget(s) == asked[s].conv

\* onError: refused by the server, or the answer is lost after the commit.  A
\* snapshot exists only when messages were cached.
Failed(s) ==
  LET k == RestoreTarget(s)
  IN  /\ Running(s)
      /\ pc' = [pc EXCEPT ![s] = "failed"]
      /\ messages' = IF k # None /\ before[s].loaded
                     THEN [messages EXCEPT ![k] = Put(@, before[s].rows)]
                     ELSE messages
      /\ calm' = FALSE
      /\ UNCHANGED <<server, course, chat, sessions, asked, before, delVars, lapses>>

----------------------------------------------------------------------------
(* A deletion                                                              *)

DeleteSession(d, k) ==
  /\ delPc[d] = "idle"
  /\ delPc' = [delPc EXCEPT ![d] = "asked"]
  /\ delAsk' = [delAsk EXCEPT ![d] = k]
  /\ calm' = Patient
  /\ UNCHANGED <<server, course, chat, caches, sendVars, lapses>>

\* A confirmed row of the history; the bin above the chat, which does nothing
\* to a chat that has no conversation yet.
DeleteListed(d) == \E k \in Listed : DeleteSession(d, k)
DeleteShown(d) == Shown # None /\ DeleteSession(d, Shown)

\* DELETE /chat/sessions/{id}; 404 when it is gone already.
ServerDeletes(d) ==
  /\ delPc[d] = "asked"
  /\ IF home[delAsk[d]] \in Courses
     THEN /\ home' = [home EXCEPT ![delAsk[d]] = "deleted"]
          /\ delPc' = [delPc EXCEPT ![d] = "deleted"]
          /\ UNCHANGED calm
     ELSE /\ delPc' = [delPc EXCEPT ![d] = "failed"]
          /\ calm' = FALSE
          /\ UNCHANGED home
  /\ UNCHANGED <<stored, touched, course, chat, caches, sendVars, delAsk, lapses>>

\* What the deletion marks (and the bug of marking the conversation alone).
RefreshRows(list) == list
RefreshList(list) == [list EXCEPT ![course] = Invalidate(@, TRUE, {})]

\* onSuccess.
Deleted(d) ==
  /\ delPc[d] = "deleted"
  /\ delPc' = [delPc EXCEPT ![d] = "done"]
  /\ sessions' = RefreshList(sessions)
  /\ chat' = IF Shown = delAsk[d] THEN [chat EXCEPT ![course] = None] ELSE chat
  /\ UNCHANGED <<server, course, messages, sendVars, delAsk, calm, lapses>>

----------------------------------------------------------------------------
(* Fetches, and the passing of staleTime                                   *)

\* GET /chat/sessions/{id} answers 404 once the conversation is deleted.
FetchMessages(k) ==
  \/ /\ messages[k].wire = "asked"
     /\ messages' = [messages EXCEPT ![k] =
                       IF home[k] \in Courses THEN Read(@, AsSent(stored[k])) ELSE Cancel(@, <<>>)]
  \/ messages[k].wire = "read" /\ messages' = [messages EXCEPT ![k] = Deliver(@, <<>>)]

\* The first page of the course's conversations, the only one the client asks for.
FetchSessions(c) ==
  \/ /\ sessions[c].wire = "asked"
     /\ sessions' = [sessions EXCEPT ![c] = Read(@, Page(c))]
  \/ sessions[c].wire = "read" /\ sessions' = [sessions EXCEPT ![c] = Deliver(@, {})]

Fetch ==
  /\ \/ (\E k \in Convs : FetchMessages(k)) /\ UNCHANGED sessions
     \/ (\E c \in Courses : FetchSessions(c)) /\ UNCHANGED messages
  /\ UNCHANGED <<server, course, chat, sendVars, delVars, calm, lapses>>

Lapse ==
  /\ lapses < MaxLapses
  /\ lapses' = lapses + 1
  /\ \/ \E k \in Convs :
          /\ \E e \in Lapsed(messages[k], <<>>) : messages' = [messages EXCEPT ![k] = e]
          /\ UNCHANGED sessions
     \/ \E c \in Courses :
          /\ \E e \in Lapsed(sessions[c], {}) : sessions' = [sessions EXCEPT ![c] = e]
          /\ UNCHANGED messages
  /\ UNCHANGED <<server, course, chat, sendVars, delVars, calm>>

Next ==
  \/ \E k \in Convs : SelectSession(k)
  \/ StartNewChat
  \/ \E c \in Courses : SwitchCourse(c)
  \/ \E s \in Sends : Send(s) \/ ServerStores(s) \/ Answered(s) \/ Failed(s)
  \/ \E d \in Deletes :
       DeleteListed(d) \/ DeleteShown(d) \/ ServerDeletes(d) \/ Deleted(d)
  \/ Fetch
  \/ Lapse

Spec == Init /\ [][Next]_vars

----------------------------------------------------------------------------
(* Properties                                                              *)

TypeOK ==
  /\ home \in [Convs -> Courses \cup {"unborn", "deleted"}]
  /\ \A k \in Convs : stored[k] \in Turnings(Sends)
  /\ touched \in [Convs -> 0 .. Cardinality(Sends)]
  /\ course \in Courses
  /\ chat \in [Courses -> Convs \cup {None}]
  /\ \A k \in Convs : messages[k] \in Entry(Turnings(Row))
  /\ sessions \in [Courses -> Entry(SUBSET Convs)]
  /\ pc \in [Sends -> {"idle", "asked", "stored", "answered", "failed"}]
  /\ asked \in [Sends -> [course : Courses, conv : Convs \cup {None}, into : Convs \cup {None}]]
  /\ \A s \in Sends : before[s] \in [loaded : BOOLEAN, rows : Turnings(Row)]
  /\ delPc \in [Deletes -> {"idle", "asked", "deleted", "done", "failed"}]
  /\ delAsk \in [Deletes -> Convs \cup {None}]
  /\ calm \in BOOLEAN
  /\ lapses \in 0 .. MaxLapses

\* rows are the first of turns as they were sent, then questions of own.
Real(rows, turns, own) ==
  \E n \in 0 .. Len(rows) :
    /\ n <= Len(turns)
    /\ \A i \in 1 .. n : rows[i] = [turn |-> turns[i], sent |-> TRUE]
    /\ \A i \in n + 1 .. Len(rows) : ~rows[i].sent /\ rows[i].turn \in own

(* No conversation ever shows a row of another one, a row twice or a row   *)
(* out of order: what the cache holds of k, what is on the wire and what a *)
(* failure would put back are the first turns the server stored in k,      *)
(* followed by questions that were asked in k (useChatSession.tsx:156-240).*)
RowsAreReal ==
  \A k \in Convs :
    LET own == {s \in Sends : asked[s].conv = k}
        IsReal(rows) == Real(rows, stored[k], own)
    IN  IsReal(Rows(k)) /\ IsReal(messages[k].reply) /\ \A s \in own : IsReal(before[s].rows)

(* A user who waits for what is under way, and meets no failure, sees the  *)
(* conversation as it is stored whenever the cache takes its messages for  *)
(* fresh: no optimistic turn is left and no answer is missing, though      *)
(* refetches are cancelled by the next question and overtaken by it        *)
(* (useChatSession.tsx:163-201, 231-238).                                  *)
CalmScreenIsTheServer ==
  calm /\ ~UnderWay =>
    \A k \in Convs : Settled(messages[k]) /\ home[k] \in Courses
                       => Rows(k) = AsSent(stored[k])

(* Likewise the history: a course's list that counts as fresh is the page  *)
(* the server would answer now, though every answer and every deletion     *)
(* changes which conversations are the last touched                        *)
(* (useChatSession.tsx:120-124, 226-229, 248-250, chat.py:29-58).          *)
CalmHistoryIsTheServer ==
  calm /\ ~UnderWay =>
    \A c \in Courses : Settled(sessions[c]) => sessions[c].data = Page(c)

(* workspace.ts:40 says of CourseWorkspace, which holds                    *)
(* activeConversationId, "Everything scoped to a single course."  The code *)
(* does not keep it: the first answer of a new chat is opened in whatever  *)
(* course is in view when it arrives (useChatSession.tsx:222).             *)
ChatsStayInTheirCourse ==
  \A c \in Courses : chat[c] # None => home[chat[c]] \in {c, "deleted"}
=============================================================================
