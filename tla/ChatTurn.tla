------------------------------- MODULE ChatTurn -------------------------------
(***************************************************************************)
(* POST /rag/query as a chat turn: the conversation it finds or opens, the *)
(* history it reads, the question and the answer it stores, while other    *)
(* turns run, sessions are deleted and the process dies.                   *)
(*                                                                         *)
(* A turn holds one transaction from its first INSERT, before retrieval,   *)
(* to the commit after generation; until then its rows are invisible and   *)
(* their foreign key holds the conversation's row.                         *)
(***************************************************************************)
EXTENDS Naturals, FiniteSets, SequencesExt

CONSTANTS
  Turns, Deletes, \* requests: POST /rag/query, DELETE /chat/sessions/{id}
  Users, Courses, Convs,
  None,           \* an id a request leaves out, an owner nobody is
  HistoryTurns,   \* HISTORY_TURNS
  Registered,     \* owner of each course that exists when we begin to watch
  Past,           \* the turns of PastUser that are over by then
  PastUser, PastCourse, PastConv,
  MaxCrashes

ASSUME PastAssumption ==
  /\ Past \in Seq(Turns) /\ IsInjective(Past)
  /\ PastUser \in Users /\ PastCourse \in Courses /\ PastConv \in Convs
\* Registration opens a course.
ASSUME RegisteredAssumption ==
  /\ Registered \in [Courses -> Users \cup {None}]
  /\ Registered[PastCourse] = PastUser
  /\ \A u \in Users : \E c \in Courses : Registered[c] = u
\* What is not under a course any more, or not yet, is under none.
ASSUME HomesAssumption == {"unborn", "deleted"} \cap Courses = {}
ASSUME NoneAssumption == None \notin Turns \cup Users \cup Courses \cup Convs
ASSUME BoundsAssumption == HistoryTurns \in Nat \ {0} /\ MaxCrashes \in Nat

VARIABLES
  owner,     \* COURSE: user_id of each course, None without a row
  corrected, \* the users who own the course that auto-correction inserts
  home,      \* CONVERSATION: course_id, "unborn" or "deleted"
  message,   \* MESSAGE: the committed rows
  clock,     \* datetime.now(UTC), advanced by whoever reads it
  pc,        \* where a turn stands
  asked,     \* its request: who asks in which conversation
  into,      \* the conversation it settled on
  under,     \* the course a new conversation is opened under
  seen,      \* the turns whose rows it saw when it read the history
  history,   \* what _recent_turns made of them
  stamp,     \* created_at of its question and of its answer
  grounded,  \* the verdict on its answer
  delPc, delAsk,
  crashes

turnVars == <<pc, asked, into, under, seen, history, stamp, grounded>>
delVars == <<delPc, delAsk>>
rowVars == <<owner, corrected, home, message>>
vars == <<rowVars, clock, turnVars, delVars, crashes>>

Request == [user : Users, conv : Convs \cup {None}]
NoRequest == [user |-> None, conv |-> None]
NoStamp == [asked |-> 0, answered |-> 0]

\* The turns that hold the conversation's row by an INSERT of their own.
HoldsPc == {"generate", "commit"}
LivePc == {"lookup", "course", "make", "open", "refresh", "history", "stamp", "insert"}
          \cup HoldsPc

Row(t, role, at, verdict) == [turn |-> t, role |-> role, at |-> at, grounded |-> verdict]
RowsOf(t) == {Row(t, "user", stamp[t].asked, FALSE),
              Row(t, "assistant", stamp[t].answered, grounded[t])}

TypeOK ==
  /\ owner \in [Courses -> Users \cup {None}]
  /\ corrected \in SUBSET Users
  /\ home \in [Convs -> Courses \cup {"unborn", "deleted"}]
  /\ \A m \in message : m.turn \in Turns /\ m.role \in {"user", "assistant"}
                        /\ m.at \in 1 .. clock /\ m.grounded \in BOOLEAN
  /\ clock \in 0 .. 2 * Cardinality(Turns)
  /\ pc \in [Turns -> {"idle", "answered", "failed"} \cup LivePc]
  /\ asked \in [Turns -> Request \cup {NoRequest}]
  /\ into \in [Turns -> Convs \cup {None}]
  /\ under \in [Turns -> Courses \cup {None}]
  /\ seen \in [Turns -> SUBSET Turns]
  /\ \A t \in Turns : history[t] \in Seq(Turns \X (Turns \cup {None}))
  /\ stamp \in [Turns -> [asked : 0 .. clock, answered : 0 .. clock]]
  /\ grounded \in [Turns -> BOOLEAN]
  /\ delPc \in [Deletes -> {"idle", "delete", "done"}]
  /\ delAsk \in [Deletes -> Request \cup {NoRequest}]
  /\ crashes \in 0 .. MaxCrashes

\* The past turns were asked one by one in one conversation.
Init ==
  /\ owner = Registered
  /\ corrected = {}
  /\ home = [k \in Convs |-> IF k = PastConv THEN PastCourse ELSE "unborn"]
  /\ clock = 2 * Len(Past)
  /\ pc = [t \in Turns |-> IF Contains(Past, t) THEN "answered" ELSE "idle"]
  /\ asked = [t \in Turns |->
       IF Contains(Past, t) THEN [user |-> PastUser, conv |-> PastConv] ELSE NoRequest]
  /\ into = [t \in Turns |-> IF Contains(Past, t) THEN PastConv ELSE None]
  /\ under = [t \in Turns |-> None]
  /\ seen = [t \in Turns |-> {}]
  /\ history = [t \in Turns |-> <<>>]
  /\ stamp = [t \in Turns |->
       LET At(n) == [asked |-> 2 * n - 1, answered |-> 2 * n]
       IN  IF Contains(Past, t) THEN At(CHOOSE n \in DOMAIN Past : Past[n] = t)
           ELSE NoStamp]
  /\ grounded \in {g \in [Turns -> BOOLEAN] : \A t \in Turns : g[t] => Contains(Past, t)}
  /\ message = UNION {RowsOf(Past[n]) : n \in DOMAIN Past}
  /\ delPc = [d \in Deletes |-> "idle"]
  /\ delAsk = [d \in Deletes |-> NoRequest]
  /\ crashes = 0

----------------------------------------------------------------------------
(* The conversation                                                        *)

Goto(t, l) == pc' = [pc EXCEPT ![t] = l]

\* What the handlers of T keep is gone with them.
Forget(T) ==
  /\ asked' = [t \in Turns |-> IF t \in T THEN NoRequest ELSE asked[t]]
  /\ into' = [t \in Turns |-> IF t \in T THEN None ELSE into[t]]
  /\ under' = [t \in Turns |-> IF t \in T THEN None ELSE under[t]]
  /\ seen' = [t \in Turns |-> IF t \in T THEN {} ELSE seen[t]]
  /\ history' = [t \in Turns |-> IF t \in T THEN <<>> ELSE history[t]]
  /\ stamp' = [t \in Turns |-> IF t \in T THEN NoStamp ELSE stamp[t]]
  /\ grounded' = [t \in Turns |-> grounded[t] /\ t \notin T]

\* An exception that leaves the handler: 500, and the session rolls back.
Raise(t) == Goto(t, "failed") /\ Forget({t}) /\ UNCHANGED rowVars

Exists(k) == home[k] \in Courses
\* (The bug: any conversation that exists is found, whoever asks.)
Found(u, k) == Exists(k)
Owns(u, k) == Exists(k) /\ owner[home[k]] = u

\* The ids a client can hold: of any conversation that was ever opened.
Ask(t) ==
  /\ pc[t] = "idle"
  /\ \E r \in Request :
       /\ r.conv # None => home[r.conv] # "unborn"
       /\ asked' = [asked EXCEPT ![t] = r]
  /\ Goto(t, "lookup")
  /\ UNCHANGED <<rowVars, clock, into, under, seen, history, stamp, grounded, delVars, crashes>>

Lookup(t) ==
  /\ pc[t] = "lookup"
  /\ IF asked[t].conv # None /\ Owns(asked[t].user, asked[t].conv)
     THEN into' = [into EXCEPT ![t] = asked[t].conv] /\ Goto(t, "history")
     ELSE Goto(t, "course") /\ UNCHANGED into
  /\ UNCHANGED <<rowVars, clock, asked, under, seen, history, stamp, grounded, delVars, crashes>>

\* Without a usable conversation: the course the request names, or any of the
\* asker's when it names none.
PickCourse(t) ==
  /\ pc[t] = "course"
  /\ \E c \in Courses :
       /\ under' = [under EXCEPT ![t] = c]
       /\ Goto(t, IF owner[c] = asked[t].user THEN "open" ELSE "make")
  /\ UNCHANGED <<rowVars, clock, asked, into, seen, history, stamp, grounded, delVars, crashes>>

OpenUnder(t, c) ==
  /\ \E k \in Convs :
       /\ home[k] = "unborn"
       /\ home' = [home EXCEPT ![k] = c]
       /\ into' = [into EXCEPT ![t] = k]
  /\ under' = [under EXCEPT ![t] = None]
  /\ Goto(t, "refresh")

OpenConversation(t) ==
  /\ pc[t] = "open"
  /\ OpenUnder(t, under[t])
  /\ UNCHANGED <<owner, corrected, message, clock, asked, seen, history, stamp, grounded,
                 delVars, crashes>>

\* Auto-correction inserts the course under the id that was sent, always with
\* the same code, year and semester: the primary key and
\* uq_course_user_code_year_sem admit it once per id and once per user.
MakeCourse(t) ==
  LET u == asked[t].user
  IN  /\ pc[t] = "make"
      /\ IF owner[under[t]] = None /\ u \notin corrected
         THEN /\ owner' = [owner EXCEPT ![under[t]] = u]
              /\ corrected' = corrected \cup {u}
              /\ OpenUnder(t, under[t])
              /\ UNCHANGED <<message, asked, seen, history, stamp, grounded>>
         ELSE Raise(t)
      /\ UNCHANGED <<clock, delVars, crashes>>

\* session.refresh finds no row when the conversation is already deleted.
RefreshConversation(t) ==
  /\ pc[t] = "refresh"
  /\ IF Exists(into[t])
     THEN /\ Goto(t, IF asked[t].conv # None THEN "history" ELSE "stamp")
          /\ UNCHANGED <<rowVars, asked, into, under, seen, history, stamp, grounded>>
     ELSE Raise(t)
  /\ UNCHANGED <<clock, delVars, crashes>>

----------------------------------------------------------------------------
(* The history                                                             *)

\* The rows of S in the order of created_at.
InOrder(S) ==
  [i \in 1 .. Cardinality(S) |->
     CHOOSE m \in S : Cardinality({n \in S : n.at <= m.at}) = i]

LastOf(s, n) == SubSeq(s, IF Len(s) > n THEN Len(s) - n + 1 ELSE 1, Len(s))

\* _pair_turns, one message; a pair is a question and an answer, or None.
Pair(pairs, m) ==
  IF m.role = "user" THEN Append(pairs, <<m.turn, None>>)
  ELSE IF pairs # <<>> /\ Last(pairs)[2] = None /\ m.grounded
       THEN Append(Front(pairs), <<Last(pairs)[1], m.turn>>)
       ELSE pairs

\* How many rows are read (and the bug of counting turns).
TooFewRows == HistoryTurns
RowsToRead == HistoryTurns * 2 + 2

Pairs(s) ==
  LET pairs[i \in 0 .. Len(s)] == IF i = 0 THEN <<>> ELSE Pair(pairs[i - 1], s[i])
  IN  pairs[Len(s)]

RecentTurns(S) == LastOf(Pairs(LastOf(InOrder(S), RowsToRead)), HistoryTurns)

RowsIn(k) == {m \in message : into[m.turn] = k}

ReadHistory(t) ==
  LET S == RowsIn(into[t])
  IN  /\ pc[t] = "history"
      /\ seen' = [seen EXCEPT ![t] = {m.turn : m \in S}]
      /\ history' = [history EXCEPT ![t] = RecentTurns(S)]
      /\ Goto(t, "stamp")
      /\ UNCHANGED <<rowVars, clock, asked, into, under, stamp, grounded, delVars, crashes>>

----------------------------------------------------------------------------
(* Question, answer, commit                                                *)

\* The question is stamped, and kept in the session until the next statement.
StampQuestion(t) ==
  /\ pc[t] = "stamp"
  /\ clock' = clock + 1
  /\ stamp' = [stamp EXCEPT ![t].asked = clock + 1]
  /\ Goto(t, "insert")
  /\ UNCHANGED <<rowVars, asked, into, under, seen, history, grounded, delVars, crashes>>

\* The first statement of the retrieval flushes it.
InsertQuestion(t) ==
  /\ pc[t] = "insert"
  /\ IF Exists(into[t])
     THEN /\ Goto(t, "generate")
          /\ UNCHANGED <<rowVars, asked, into, under, seen, history, stamp, grounded>>
     ELSE Raise(t)
  /\ UNCHANGED <<clock, delVars, crashes>>

\* Retrieval stands outside the try.
RetrievalFails(t) ==
  /\ pc[t] \in {"insert", "generate"}
  /\ Raise(t)
  /\ UNCHANGED <<clock, delVars, crashes>>

\* "There is no retry" (and the bug of asking until an answer is grounded).
AskAgain(g) == IF g THEN "commit" ELSE "generate"
AfterGeneration(g) == "commit"

\* Generation that raises is an answer too, an ungrounded one.
Generate(t) ==
  /\ pc[t] = "generate"
  /\ \E g \in BOOLEAN :
       grounded' = [grounded EXCEPT ![t] = g] /\ Goto(t, AfterGeneration(g))
  /\ clock' = clock + 1
  /\ stamp' = [stamp EXCEPT ![t].answered = clock + 1]
  /\ UNCHANGED <<rowVars, asked, into, under, seen, history, delVars, crashes>>

Commit(t) ==
  /\ pc[t] = "commit"
  /\ message' = message \cup RowsOf(t)
  /\ Goto(t, "answered")
  /\ seen' = [seen EXCEPT ![t] = {}]
  /\ history' = [history EXCEPT ![t] = <<>>]
  /\ UNCHANGED <<owner, corrected, home, clock, asked, into, under, stamp, grounded,
                 delVars, crashes>>

----------------------------------------------------------------------------
(* Deleting a session                                                      *)

AskDelete(d) ==
  /\ delPc[d] = "idle"
  /\ \E u \in Users, k \in Convs :
       /\ home[k] # "unborn"
       /\ delAsk' = [delAsk EXCEPT ![d] = [user |-> u, conv |-> k]]
       /\ delPc' = [delPc EXCEPT ![d] = IF Owns(u, k) THEN "delete" ELSE "done"]
  /\ UNCHANGED <<rowVars, clock, turnVars, crashes>>

\* The foreign keys of uncommitted messages hold the conversation's row.
\* (The bug: no foreign key.)
NoHolders(k) == {}
HoldersOf(k) == {t \in Turns : into[t] = k /\ pc[t] \in HoldsPc}

\* CASCADE takes the messages.
Delete(d) ==
  LET k == delAsk[d].conv
  IN  /\ delPc[d] = "delete"
      /\ HoldersOf(k) = {}
      /\ home' = [home EXCEPT ![k] = "deleted"]
      /\ message' = message \ RowsIn(k)
      /\ delPc' = [delPc EXCEPT ![d] = "done"]
      /\ UNCHANGED <<owner, corrected, clock, turnVars, delAsk, crashes>>

----------------------------------------------------------------------------
\* The process dies with its requests; what was not committed is gone.
Crash ==
  /\ crashes < MaxCrashes
  /\ crashes' = crashes + 1
  /\ pc' = [t \in Turns |-> IF pc[t] \in LivePc THEN "failed" ELSE pc[t]]
  /\ Forget({t \in Turns : pc[t] \in LivePc})
  /\ delPc' = [d \in Deletes |-> IF delPc[d] = "delete" THEN "done" ELSE delPc[d]]
  /\ UNCHANGED <<rowVars, clock, delAsk>>

TurnStep(t) ==
  \/ Lookup(t) \/ PickCourse(t) \/ OpenConversation(t) \/ MakeCourse(t)
  \/ RefreshConversation(t) \/ ReadHistory(t) \/ StampQuestion(t) \/ InsertQuestion(t)
  \/ RetrievalFails(t) \/ Generate(t) \/ Commit(t)

\* Every request has been answered.
Quiet ==
  /\ \A t \in Turns : pc[t] \notin LivePc
  /\ \A d \in Deletes : delPc[d] # "delete"
  /\ UNCHANGED vars

Next ==
  \/ \E t \in Turns : Ask(t) \/ TurnStep(t)
  \/ \E d \in Deletes : AskDelete(d) \/ Delete(d)
  \/ Crash
  \/ Quiet

Spec == Init /\ [][Next]_vars

----------------------------------------------------------------------------
\* A turn leaves its question and its answer, or nothing: a failure, a crash or
\* a deletion between the two leaves no half of it, and what was answered is
\* still there unless its session was deleted (rag.py:446, rag.py:590).
TurnsAreWhole ==
  \A t \in Turns :
    {m \in message : m.turn = t} =
      IF pc[t] = "answered" /\ Exists(into[t]) THEN RowsOf(t) ELSE {}

\* Whatever ids a client sends, a turn is stored in, and reads the history of,
\* a conversation its asker owns (services/chat.py:27).
TurnsStayPrivate ==
  \A t \in Turns :
    /\ \A m \in message : m.turn = t => Owns(asked[t].user, into[t])
    /\ \A q \in seen[t] : asked[q].user = asked[t].user

\* Two turns were under way at the same time.
Overlap(q, a) ==
  q # a /\ stamp[q].asked < stamp[a].answered /\ stamp[a].asked < stamp[q].answered

\* The last turns of a conversation in the order they were asked.
LastTurns(S) ==
  LastOf([i \in 1 .. Cardinality(S) |->
            LET q == CHOOSE q \in S : Cardinality({p \in S : stamp[p].asked <= stamp[q].asked}) = i
            IN  <<q, IF grounded[q] THEN q ELSE None>>],
         HistoryTurns)

\* As long as no two of the turns it reads overlapped, the history is the last
\* turns, each question with its own answer if that was grounded: the limit on
\* rows loses none (rag.py:277-306).
HistoryIsTheConversation ==
  \A t \in Turns :
    (\A q, a \in seen[t] : ~Overlap(q, a)) => history[t] = LastTurns(seen[t])

\* "the history is read from the right conversation in order"
\* (tests/test_follow_up_context.py:5): an answer stands beside its own question.
HistoryPairsAnswers ==
  \A t \in Turns : \A i \in DOMAIN history[t] : history[t][i][2] \in {history[t][i][1], None}
=============================================================================
