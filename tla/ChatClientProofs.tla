--------------------------- MODULE ChatClientProofs ---------------------------
(***************************************************************************)
(* Proofs about ChatClient: for any courses, conversations, questions and  *)
(* deletions, the rows of a conversation are real, and a user who waits    *)
(* sees the messages and the history the server has.                       *)
(***************************************************************************)
EXTENDS ChatClient, TLAPS

Detail == [loaded : BOOLEAN, rows : Seq(Row)]
Ask == [course : Courses, conv : Convs \cup {None}, into : Convs \cup {None}]
Asked == {"asked", "stored", "answered", "failed"}

\* TypeOK without the bound on the length of what is cached.
Types ==
  /\ home \in [Convs -> Courses \cup {"unborn", "deleted"}]
  /\ stored \in [Convs -> Seq(Sends)] /\ DOMAIN touched = Convs
  /\ course \in Courses
  /\ chat \in [Courses -> Convs \cup {None}]
  /\ messages \in [Convs -> Entry(Seq(Row))]
  /\ sessions \in [Courses -> Entry(SUBSET Convs)]
  /\ pc \in [Sends -> {"idle"} \cup Asked]
  /\ asked \in [Sends -> Ask]
  /\ before \in [Sends -> Detail]
  /\ delPc \in [Deletes -> {"idle", "asked", "deleted", "done", "failed"}]
  /\ delAsk \in [Deletes -> Convs \cup {None}]
  /\ calm \in BOOLEAN

----------------------------------------------------------------------------
(* The inductive invariant                                                 *)

\* One question at a time; what is not asked yet names no conversation, and
\* what is deleted is one.
OneQuestion == \A s, t \in Sends : Running(s) /\ Running(t) => s = t
IdleNamesNone == \A s \in Sends : pc[s] = "idle" => asked[s].conv = None
DeletesName == \A d \in Deletes : delPc[d] # "idle" => delAsk[d] \in Convs

\* A conversation is known to the client only once it is born: an entry of one
\* that is not was never in view.
Born(k) == home[k] # "unborn"
BornBeforeSeen ==
  /\ \A k \in Convs : ~Born(k) => messages[k] = NoEntry(<<>>)
  /\ \A c \in Courses : chat[c] # None => Born(chat[c])
  /\ \A s \in Sends : asked[s].conv # None => Born(asked[s].conv)
  /\ \A s \in Sends : pc[s] = "stored" => asked[s].into \in Convs /\ Born(asked[s].into)

\* A list never named a conversation of another course.
BelongsTo(k, c) == home[k] \in {c, "deleted"}
ListsAreOwn ==
  \A c \in Courses : \A k \in sessions[c].data \cup sessions[c].reply : BelongsTo(k, c)

\* While the user is calm, a question or a deletion that is under way is the
\* only one, and is about the course and the conversation in view.
CalmIsAlone ==
  calm =>
    /\ \A c \in Courses : chat[c] # None => BelongsTo(chat[c], c)
    /\ \A s \in Sends : Running(s) =>
         /\ asked[s].course = course /\ asked[s].conv = Shown
         /\ pc[s] = "stored" => BelongsTo(asked[s].into, course)
         /\ \A d \in Deletes : ~Deleting(d)
    /\ \A d \in Deletes : Deleting(d) =>
         /\ BelongsTo(delAsk[d], course)
         /\ \A e \in Deletes : Deleting(e) => e = d
    /\ UnderWay => sessions[course].loaded

\* What a calm user's cache holds of k that is not old is what is stored, and
\* so is what is on the wire, unless a question in k is under way: then there
\* is something to refresh.
Due(k) == \E s \in Sends : Running(s) /\ asked[s].conv = k
Faithful(e, truth) ==
  /\ e.wire = "read" => e.reply = truth
  /\ e.loaded /\ ~e.old => e.wire = "idle" /\ e.data = truth
CalmMessages ==
  calm => \A k \in Convs :
    /\ Due(k) => messages[k].loaded
    /\ home[k] \in Courses /\ ~Due(k) => Faithful(messages[k], AsSent(stored[k]))

\* Likewise for the lists, unless the answer that refreshes the list in view
\* is still to come.
Owed(c) ==
  /\ c = course
  /\ (\E s \in Sends : pc[s] = "stored") \/ (\E d \in Deletes : delPc[d] = "deleted")
CalmLists ==
  calm => \A c \in Courses :
    /\ sessions[c].loaded /\ ~sessions[c].old => sessions[c].wire = "idle"
    /\ ~Owed(c) => Faithful(sessions[c], Page(c))

IInv ==
  /\ Types /\ OneQuestion /\ IdleNamesNone /\ DeletesName /\ BornBeforeSeen /\ ListsAreOwn
  /\ RowsAreReal /\ CalmIsAlone /\ CalmMessages /\ CalmLists

----------------------------------------------------------------------------
(* Entries of the cache, and rows                                          *)

\* What befalls an entry leaves it one (QueryCache.tla).
LEMMA EntriesStay ==
  ASSUME NEW D, NEW e \in Entry(D), NEW blank \in D, NEW d \in D, NEW v \in BOOLEAN
  PROVE  /\ e.data \in D /\ e.reply \in D
         /\ InView(e) \in Entry(D) /\ Invalidate(e, v, blank) \in Entry(D)
         /\ Cancel(e, blank) \in Entry(D) /\ Put(e, d) \in Entry(D)
         /\ Read(e, d) \in Entry(D) /\ Deliver(e, blank) \in Entry(D)
         /\ Lapsed(e, blank) \subseteq Entry(D) /\ [e EXCEPT !.old = TRUE] \in Entry(D)
<1>1. e.data \in D /\ e.reply \in D
  BY DEF Entry
<1>2. InView(e) \in Entry(D) /\ Invalidate(e, v, blank) \in Entry(D)
  BY DEF Entry, InView, Invalidate
<1>3. Cancel(e, blank) \in Entry(D) /\ Put(e, d) \in Entry(D)
  BY DEF Entry, Cancel, Put
<1>4. Read(e, d) \in Entry(D) /\ Deliver(e, blank) \in Entry(D)
  BY DEF Entry, Read, Deliver
<1>5. [e EXCEPT !.old = TRUE] \in Entry(D)
  BY DEF Entry
<1>6. Lapsed(e, blank) \subseteq Entry(D)
  BY <1>3, <1>5 DEF Lapsed
<1> QED
  BY <1>1, <1>2, <1>3, <1>4, <1>5, <1>6

\* A first entry is one.
LEMMA NewEntries ==
  ASSUME NEW D, NEW blank \in D
  PROVE  NoEntry(blank) \in Entry(D)
BY DEF NoEntry, Entry

\* An entry that was never in view has nothing to lose.
LEMMA NothingLapses ==
  ASSUME NEW blank
  PROVE  NoEntry(blank).wire = "idle" /\ Lapsed(NoEntry(blank), blank) = {}
<1> DEFINE e == NoEntry(blank)
<1>1. e \in Entry({blank})
  BY NewEntries
<1>2. ~e.loaded /\ e.old /\ e.wire = "idle" /\ e.reply = blank
  BY DEF NoEntry
<1> HIDE DEF e
<1>3. Cancel(e, blank) = e
  BY <1>1, <1>2 DEF Cancel, Entry
<1>4. [e EXCEPT !.old = TRUE] = e
  BY <1>1, <1>2 DEF Entry
<1>5. e.wire = "idle" /\ Lapsed(e, blank) = {}
  BY <1>2, <1>3, <1>4 DEF Lapsed
<1> QED
  BY <1>5 DEF e

\* The turns the server sends are rows.
LEMMA SentAreRows ==
  ASSUME NEW turns \in Seq(Sends)
  PROVE  /\ AsSent(turns) \in Seq(Row) /\ <<>> \in Seq(Row) /\ Len(AsSent(turns)) = Len(turns)
         /\ \A i \in 1 .. Len(turns) : AsSent(turns)[i] = [turn |-> turns[i], sent |-> TRUE]
BY DEF AsSent, Row

\* Nothing is real of any conversation, and so is all that is stored.
LEMMA StoredIsReal ==
  ASSUME NEW turns \in Seq(Sends), NEW own
  PROVE  Real(<<>>, turns, own) /\ Real(AsSent(turns), turns, own)
<1>1. Real(<<>>, turns, own)
  BY DEF Real
<1>2. Real(AsSent(turns), turns, own)
  BY SentAreRows DEF Real
<1> QED
  BY <1>1, <1>2

\* Rows stay real when a turn is stored and when another question is asked.
LEMMA RealStays ==
  ASSUME NEW rows \in Seq(Row), NEW turns \in Seq(Sends), NEW more \in Seq(Sends),
         NEW own, NEW owns, own \subseteq owns, Real(rows, turns, own),
         Len(turns) <= Len(more), \A i \in 1 .. Len(turns) : more[i] = turns[i]
  PROVE  Real(rows, more, owns)
<1>1. PICK n \in 0 .. Len(rows) :
        /\ n <= Len(turns)
        /\ \A i \in 1 .. n : rows[i] = [turn |-> turns[i], sent |-> TRUE]
        /\ \A i \in n + 1 .. Len(rows) : ~rows[i].sent /\ rows[i].turn \in own
  BY DEF Real
<1>2. n <= Len(more) /\ \A i \in 1 .. n : rows[i] = [turn |-> more[i], sent |-> TRUE]
  BY <1>1
<1> QED
  BY <1>1, <1>2 DEF Real

\* A question of one's own may follow.
LEMMA RealGrows ==
  ASSUME NEW rows \in Seq(Row), NEW turns \in Seq(Sends), NEW own, NEW s \in Sends \cap own,
         Real(rows, turns, own)
  PROVE  LET more == Append(rows, [turn |-> s, sent |-> FALSE])
         IN  more \in Seq(Row) /\ Real(more, turns, own)
<1> DEFINE row == [turn |-> s, sent |-> FALSE]
           more == Append(rows, row)
<1>1. row \in Row /\ ~row.sent /\ row.turn = s
  BY DEF Row
<1> HIDE DEF row
<1>2. /\ more \in Seq(Row) /\ Len(more) = Len(rows) + 1
      /\ \A i \in 1 .. Len(rows) : more[i] = rows[i]
      /\ more[Len(rows) + 1] = row
  BY <1>1
<1> HIDE DEF more
<1>3. PICK n \in 0 .. Len(rows) :
        /\ n <= Len(turns)
        /\ \A i \in 1 .. n : rows[i] = [turn |-> turns[i], sent |-> TRUE]
        /\ \A i \in n + 1 .. Len(rows) : ~rows[i].sent /\ rows[i].turn \in own
  BY DEF Real
<1>4. \A i \in n + 1 .. Len(more) : ~more[i].sent /\ more[i].turn \in own
  BY <1>1, <1>2, <1>3
<1>5. n \in 0 .. Len(more) /\ \A i \in 1 .. n : more[i] = [turn |-> turns[i], sent |-> TRUE]
  BY <1>2, <1>3
<1>6. Real(more, turns, own)
  BY <1>3, <1>4, <1>5 DEF Real
<1> QED
  BY <1>2, <1>6 DEF more, row

----------------------------------------------------------------------------
(* The page of a course                                                    *)

\* A page holds conversations of its course.
LEMMA PageIsOwn ==
  ASSUME NEW c
  PROVE  Page(c) \in SUBSET Convs /\ \A k \in Page(c) : home[k] = c
BY DEF Page

\* What befalls the conversations of other courses leaves the page as it is.
LEMMA PageStays ==
  ASSUME NEW c,
         \A k \in Convs : home'[k] = c <=> home[k] = c,
         \A k \in Convs : home[k] = c => touched'[k] = touched[k]
  PROVE  Page(c)' = Page(c)
<1>1. ASSUME NEW k \in Convs, home[k] = c
      PROVE  Later(k)' = Later(k)
  BY <1>1 DEF Later
<1> QED
  BY <1>1 DEF Page

----------------------------------------------------------------------------
(* Every step keeps the types                                              *)

\* What Types says of one conversation, one course, one question.
LEMMA Typed ==
  ASSUME Types
  PROVE  /\ \A k \in Convs : /\ messages[k] \in Entry(Seq(Row)) /\ stored[k] \in Seq(Sends)
                             /\ messages[k].data \in Seq(Row) /\ messages[k].reply \in Seq(Row)
                             /\ AsSent(stored[k]) \in Seq(Row)
         /\ \A c \in Courses : sessions[c] \in Entry(SUBSET Convs)
         /\ Shown \in Convs \cup {None} /\ Listed \subseteq Convs
         /\ <<>> \in Seq(Row) /\ {} \in SUBSET Convs
         /\ DOMAIN messages = Convs /\ DOMAIN sessions = Courses
<1>1. \A k \in Convs : messages[k] \in Entry(Seq(Row)) /\ stored[k] \in Seq(Sends)
  BY DEF Types
<1>2. \A c \in Courses : sessions[c] \in Entry(SUBSET Convs)
  BY DEF Types
<1>3. \A k \in Convs : messages[k].data \in Seq(Row) /\ messages[k].reply \in Seq(Row)
  BY <1>1 DEF Entry
<1>4. Shown \in Convs \cup {None} /\ Listed \subseteq Convs
  BY <1>2 DEF Types, Shown, Listed, Entry
<1>5. <<>> \in Seq(Row) /\ DOMAIN messages = Convs /\ DOMAIN sessions = Courses
  BY DEF Types
<1> QED
  BY <1>1, <1>2, <1>3, <1>4, <1>5, SentAreRows

\* Bringing a conversation into view changes its entry alone.
LEMMA ShowingTyped ==
  ASSUME Types, NEW k \in Convs \cup {None}
  PROVE  /\ Showing(k) \in [Convs -> Entry(Seq(Row))]
         /\ \A j \in Convs : Showing(k)[j] \in {messages[j], InView(messages[j])}
<1>1. \A j \in Convs : InView(messages[j]) \in Entry(Seq(Row))
  BY Typed, EntriesStay
<1>2. messages \in [Convs -> Entry(Seq(Row))]
  BY DEF Types
<1> QED
  BY <1>1, <1>2 DEF Showing

LEMMA MovingKeepsTypes ==
  ASSUME Types,
         \/ \E k \in Convs : SelectSession(k)
         \/ StartNewChat
         \/ \E c \in Courses : SwitchCourse(c)
  PROVE  Types'
<1>1. CASE \E k \in Convs \cup {None} : SetActiveConversation(k)
                /\ calm' = Patient
                /\ UNCHANGED <<server, course, sessions, sendVars, delVars, lapses>>
  <2>1. PICK k \in Convs \cup {None} : /\ SetActiveConversation(k) /\ calm' = Patient
                                       /\ UNCHANGED <<server, course, sessions, sendVars, delVars>>
    BY <1>1
  <2>2. messages' \in [Convs -> Entry(Seq(Row))]
    BY <2>1, ShowingTyped DEF SetActiveConversation
  <2>3. chat' \in [Courses -> Convs \cup {None}] /\ calm' \in BOOLEAN
    BY <2>1 DEF Types, SetActiveConversation, Patient
  <2> QED
    BY <2>1, <2>2, <2>3 DEF Types, server, sendVars, delVars
<1>2. CASE \E c \in Courses : SwitchCourse(c)
  <2>1. PICK c \in Courses : SwitchCourse(c)
    BY <1>2
  <2>2. messages' \in [Convs -> Entry(Seq(Row))]
    BY <2>1, ShowingTyped DEF SwitchCourse, Types
  <2>3. sessions' \in [Courses -> Entry(SUBSET Convs)]
    <3>1. InView(sessions[c]) \in Entry(SUBSET Convs)
      BY Typed, EntriesStay
    <3> QED
      BY <2>1, <3>1 DEF SwitchCourse, Types
  <2> QED
    BY <2>1, <2>2, <2>3 DEF Types, SwitchCourse, Patient, server, sendVars, delVars
<1> QED
  BY <1>1, <1>2, ClientAssumption DEF SelectSession, StartNewChat

LEMMA SendKeepsTypes ==
  ASSUME Types, NEW s \in Sends, Send(s)
  PROVE  Types'
<1> DEFINE e == Cancel(messages[Shown], <<>>)
           more == Append(e.data, [turn |-> s, sent |-> FALSE])
<1>1. pc' \in [Sends -> {"idle"} \cup Asked] /\ asked' \in [Sends -> Ask] /\ calm' \in BOOLEAN
  BY Typed, ClientAssumption DEF Types, Send, Asked, Ask, Patient
<1>2. messages' \in [Convs -> Entry(Seq(Row))] /\ before' \in [Sends -> Detail]
  <2>1. CASE Shown = None
    BY <2>1 DEF Types, Send
  <2>2. CASE Shown # None
    <3>1. Shown \in Convs /\ e \in Entry(Seq(Row)) /\ e.data \in Seq(Row)
      BY <2>2, Typed, EntriesStay
    <3>2. [turn |-> s, sent |-> FALSE] \in Row
      BY DEF Row
    <3>3. more \in Seq(Row)
      BY <3>1, <3>2
    <3>4. Put(e, more) \in Entry(Seq(Row))
      BY <3>1, <3>3, EntriesStay
    <3>5. [loaded |-> e.loaded, rows |-> e.data] \in Detail
      BY <3>1 DEF Entry, Detail
    <3>6. /\ messages' = [messages EXCEPT ![Shown] = Put(e, more)]
          /\ before' = [before EXCEPT ![s] = [loaded |-> e.loaded, rows |-> e.data]]
      BY <2>2 DEF Send, Optimistic
    <3> QED
      BY <3>1, <3>4, <3>5, <3>6 DEF Types
  <2> QED
    BY <2>1, <2>2
<1> QED
  BY <1>1, <1>2 DEF Types, Send, server, delVars

LEMMA ServerStoresKeepsTypes ==
  ASSUME Types, NEW s \in Sends, ServerStores(s)
  PROVE  Types'
<1>1. PICK k \in Convs :
        /\ home' \in {home, [home EXCEPT ![k] = asked[s].course]}
        /\ stored' = [stored EXCEPT ![k] = Append(@, s)]
        /\ asked' = [asked EXCEPT ![s].into = k]
  BY DEF ServerStores
<1>2. home' \in [Convs -> Courses \cup {"unborn", "deleted"}]
  BY <1>1 DEF Types, Ask
<1>3. stored' \in [Convs -> Seq(Sends)]
  BY <1>1 DEF Types
<1>4. asked' \in [Sends -> Ask]
  <2>1. asked[s] \in Ask /\ asked \in [Sends -> Ask]
    BY DEF Types
  <2>2. [asked[s] EXCEPT !.into = k] \in Ask
    BY <2>1 DEF Ask
  <2>3. asked' = [asked EXCEPT ![s] = [asked[s] EXCEPT !.into = k]]
    BY <1>1, <2>1
  <2> QED
    BY <2>1, <2>2, <2>3
<1>5. pc' \in [Sends -> {"idle"} \cup Asked]
  BY DEF Types, ServerStores, Asked
<1> QED
  BY <1>2, <1>3, <1>4, <1>5 DEF Types, ServerStores, caches, delVars

\* What the answer of s does to the entry of its target.
LEMMA AnsweredEntries ==
  ASSUME Types, NEW s \in Sends, Answered(s)
  PROVE  \A k \in Convs :
           /\ messages[k] \in Entry(Seq(Row)) /\ messages'[k] \in Entry(Seq(Row))
           /\ k # RefreshTarget(s) => messages'[k] = messages[k]
           /\ k = RefreshTarget(s) =>
                messages'[k] = IF Shown = None THEN InView([messages[k] EXCEPT !.old = TRUE])
                               ELSE Invalidate(messages[k], TRUE, <<>>)
<1> SUFFICES ASSUME NEW k \in Convs
             PROVE  /\ messages'[k] \in Entry(Seq(Row))
                    /\ k # RefreshTarget(s) => messages'[k] = messages[k]
                    /\ k = RefreshTarget(s) =>
                         messages'[k] =
                           IF Shown = None THEN InView([messages[k] EXCEPT !.old = TRUE])
                           ELSE Invalidate(messages[k], TRUE, <<>>)
  BY Typed
<1>1. /\ InView([messages[k] EXCEPT !.old = TRUE]) \in Entry(Seq(Row))
      /\ Invalidate(messages[k], TRUE, <<>>) \in Entry(Seq(Row))
  BY Typed, EntriesStay
<1>2. k # None /\ messages[k] \in Entry(Seq(Row)) /\ messages \in [Convs -> Entry(Seq(Row))]
  BY ClientAssumption DEF Types
<1> QED
  BY <1>1, <1>2 DEF Answered

LEMMA AnsweredKeepsTypes ==
  ASSUME Types, NEW s \in Sends, Answered(s)
  PROVE  Types'
<1>1. messages' \in [Convs -> Entry(Seq(Row))]
  <2>1. DOMAIN messages' = Convs /\ messages' = [k \in DOMAIN messages' |-> messages'[k]]
    BY DEF Types, Answered
  <2> QED
    BY <2>1, AnsweredEntries
<1>2. sessions' \in [Courses -> Entry(SUBSET Convs)]
  <2>1. Invalidate(sessions[course], TRUE, {}) \in Entry(SUBSET Convs)
    BY Typed, EntriesStay DEF Types
  <2> QED
    BY <2>1 DEF Answered, Types
<1>3. chat' \in [Courses -> Convs \cup {None}] /\ pc' \in [Sends -> {"idle"} \cup Asked]
  BY DEF Types, Answered, Asked, Ask, NewConversation
<1> QED
  BY <1>1, <1>2, <1>3 DEF Types, Answered, server, delVars

LEMMA FailedKeepsTypes ==
  ASSUME Types, NEW s \in Sends, Failed(s)
  PROVE  Types'
<1>1. messages' \in [Convs -> Entry(Seq(Row))]
  <2>1. CASE RestoreTarget(s) # None /\ before[s].loaded
    <3> DEFINE k == RestoreTarget(s)
    <3>1. k \in Convs /\ messages[k] \in Entry(Seq(Row)) /\ before[s].rows \in Seq(Row)
      BY <2>1 DEF Types, Ask, Detail, RestoreTarget
    <3>2. Put(messages[k], before[s].rows) \in Entry(Seq(Row))
      BY <3>1, Typed, EntriesStay
    <3>3. messages' = [messages EXCEPT ![k] = Put(@, before[s].rows)]
      BY <2>1 DEF Failed
    <3> QED
      BY <3>1, <3>2, <3>3 DEF Types
  <2> QED
    BY <2>1 DEF Failed, Types
<1>2. pc' \in [Sends -> {"idle"} \cup Asked]
  BY DEF Types, Failed, Asked
<1> QED
  BY <1>1, <1>2 DEF Types, Failed, server, delVars

LEMMA DeletionKeepsTypes ==
  ASSUME Types, NEW d \in Deletes,
         DeleteListed(d) \/ DeleteShown(d) \/ ServerDeletes(d) \/ Deleted(d)
  PROVE  Types'
<1>1. ASSUME NEW k \in Convs, DeleteSession(d, k)
      PROVE  Types'
  BY <1>1 DEF Types, DeleteSession, Patient, server, caches, sendVars
<1>2. CASE ServerDeletes(d)
  BY <1>2 DEF Types, ServerDeletes, caches, sendVars
<1>3. CASE Deleted(d)
  <2>1. Invalidate(sessions[course], TRUE, {}) \in Entry(SUBSET Convs)
    BY Typed, EntriesStay DEF Types
  <2>2. sessions' \in [Courses -> Entry(SUBSET Convs)]
    BY <1>3, <2>1 DEF Deleted, RefreshList, Types
  <2> QED
    BY <1>3, <2>2 DEF Types, Deleted, server, sendVars
<1> QED
  BY <1>1, <1>2, <1>3, Typed DEF DeleteListed, DeleteShown

\* What a fetch, its failure or the passing of staleTime does to the caches:
\* every entry but one stays.
FetchesRows(k, e) ==
  \/ /\ messages[k].wire = "asked"
     /\ e = IF home[k] \in Courses THEN Read(messages[k], AsSent(stored[k]))
            ELSE Cancel(messages[k], <<>>)
  \/ messages[k].wire = "read" /\ e = Deliver(messages[k], <<>>)
  \/ e \in Lapsed(messages[k], <<>>)
FetchesList(c, e) ==
  \/ sessions[c].wire = "asked" /\ e = Read(sessions[c], Page(c))
  \/ sessions[c].wire = "read" /\ e = Deliver(sessions[c], {})
  \/ e \in Lapsed(sessions[c], {})

LEMMA Fetches ==
  ASSUME Types, Fetch \/ Lapse
  PROVE  /\ UNCHANGED <<server, course, chat, sendVars, delVars, calm>>
         /\ \/ /\ sessions' = sessions
               /\ \E k \in Convs : \E e \in Entry(Seq(Row)) :
                    FetchesRows(k, e) /\ messages' = [messages EXCEPT ![k] = e]
            \/ /\ messages' = messages
               /\ \E c \in Courses : \E e \in Entry(SUBSET Convs) :
                    FetchesList(c, e) /\ sessions' = [sessions EXCEPT ![c] = e]
<1>1. UNCHANGED <<server, course, chat, sendVars, delVars, calm>>
  BY DEF Fetch, Lapse
<1>2. ASSUME NEW k \in Convs, NEW e, FetchesRows(k, e)
      PROVE  e \in Entry(Seq(Row))
  BY <1>2, Typed, EntriesStay DEF FetchesRows
<1>3. ASSUME NEW c \in Courses, NEW e, FetchesList(c, e)
      PROVE  e \in Entry(SUBSET Convs)
  <2>1. Page(c) \in SUBSET Convs
    BY PageIsOwn
  <2> QED
    BY <1>3, <2>1, Typed, EntriesStay DEF FetchesList
<1>4. ASSUME NEW k \in Convs, FetchMessages(k)
      PROVE  \E e : FetchesRows(k, e) /\ messages' = [messages EXCEPT ![k] = e]
  BY <1>4 DEF FetchMessages, FetchesRows
<1>5. ASSUME NEW c \in Courses, FetchSessions(c)
      PROVE  \E e : FetchesList(c, e) /\ sessions' = [sessions EXCEPT ![c] = e]
  BY <1>5 DEF FetchSessions, FetchesList
<1>6. CASE Fetch
  BY <1>1, <1>2, <1>3, <1>4, <1>5, <1>6 DEF Fetch
<1>7. CASE Lapse
  BY <1>1, <1>2, <1>3, <1>7 DEF Lapse, FetchesRows, FetchesList
<1> QED
  BY <1>6, <1>7

LEMMA FetchingKeepsTypes ==
  ASSUME Types, Fetch \/ Lapse
  PROVE  Types'
BY Fetches DEF Types, server, sendVars, delVars

----------------------------------------------------------------------------
(* Rows stay real                                                          *)

Own(k) == {s \in Sends : asked[s].conv = k}

\* RowsAreReal holds again when the questions keep their conversations and what
\* they would put back, turns are only appended, and what the cache holds of a
\* conversation it held before, or is nothing, or was read from the server.
LEMMA CachesStayReal ==
  ASSUME Types, Types', RowsAreReal, UNCHANGED before,
         \A s \in Sends : asked'[s].conv = asked[s].conv,
         \A k \in Convs :
           /\ Len(stored[k]) <= Len(stored'[k])
           /\ \A i \in 1 .. Len(stored[k]) : stored'[k][i] = stored[k][i]
           /\ {messages'[k].data, messages'[k].reply} \subseteq
                {messages[k].data, messages[k].reply, <<>>, AsSent(stored'[k])}
  PROVE  RowsAreReal'
<1> SUFFICES ASSUME NEW k \in Convs
             PROVE  /\ Real(messages'[k].data, stored'[k], Own(k)')
                    /\ Real(messages'[k].reply, stored'[k], Own(k)')
                    /\ \A s \in Own(k)' : Real(before'[s].rows, stored'[k], Own(k)')
  BY DEF RowsAreReal, Rows, Own
<1>1. Own(k)' = Own(k) /\ stored[k] \in Seq(Sends) /\ stored'[k] \in Seq(Sends)
  BY DEF Own, Types
<1>2. ASSUME NEW rows \in Seq(Row), Real(rows, stored[k], Own(k))
      PROVE  Real(rows, stored'[k], Own(k)')
  BY <1>1, <1>2, RealStays
<1>3. messages[k].data \in Seq(Row) /\ messages[k].reply \in Seq(Row)
  BY Typed
<1>4. Real(messages[k].data, stored[k], Own(k)) /\ Real(messages[k].reply, stored[k], Own(k))
  BY DEF RowsAreReal, Rows, Own
<1>5. \A s \in Own(k) : before[s].rows \in Seq(Row) /\ Real(before[s].rows, stored[k], Own(k))
  BY DEF RowsAreReal, Own, Types, Detail
<1>6. Real(<<>>, stored'[k], Own(k)') /\ Real(AsSent(stored'[k]), stored'[k], Own(k)')
  BY <1>1, StoredIsReal
<1>7. Real(messages'[k].data, stored'[k], Own(k)') /\ Real(messages'[k].reply, stored'[k], Own(k)')
  BY <1>2, <1>3, <1>4, <1>6
<1>8. \A s \in Own(k)' : Real(before'[s].rows, stored'[k], Own(k)')
  BY <1>1, <1>2, <1>5
<1> QED
  BY <1>7, <1>8

\* What is in an entry after each thing that may befall it, a Put aside.
LEMMA EntriesKeepRows ==
  ASSUME NEW e \in Entry(Seq(Row)), NEW f,
         \/ f \in {e, InView(e), InView([e EXCEPT !.old = TRUE]), Invalidate(e, TRUE, <<>>)}
         \/ f \in Lapsed(e, <<>>) \cup {Deliver(e, <<>>), Cancel(e, <<>>)}
  PROVE  {f.data, f.reply} \subseteq {e.data, e.reply, <<>>}
BY DEF Entry, InView, Invalidate, Lapsed, Deliver, Cancel

LEMMA MovingKeepsRows ==
  ASSUME Types, RowsAreReal,
         \/ \E k \in Convs : SelectSession(k)
         \/ StartNewChat
         \/ \E c \in Courses : SwitchCourse(c)
  PROVE  RowsAreReal'
<1>1. \E k \in Convs \cup {None} : messages' = Showing(k)
  BY DEF SelectSession, StartNewChat, SetActiveConversation, SwitchCourse, Types
<1>2. \A k \in Convs : {messages'[k].data, messages'[k].reply} \subseteq
                         {messages[k].data, messages[k].reply, <<>>}
  BY <1>1, Typed, ShowingTyped, EntriesKeepRows
<1>3. UNCHANGED <<stored, asked, before>>
  BY DEF SelectSession, StartNewChat, SwitchCourse, server, sendVars
<1>4. \A k \in Convs : Len(stored[k]) \in Nat
  BY DEF Types
<1> QED
  BY <1>2, <1>3, <1>4, MovingKeepsTypes, CachesStayReal

LEMMA SendKeepsRows ==
  ASSUME Types, RowsAreReal, IdleNamesNone, NEW s \in Sends, Send(s)
  PROVE  RowsAreReal'
<1> DEFINE e == Cancel(messages[Shown], <<>>)
           more == Append(e.data, [turn |-> s, sent |-> FALSE])
<1>1. /\ asked[s].conv = None /\ asked'[s].conv = Shown
      /\ \A t \in Sends \ {s} : asked'[t] = asked[t] /\ before'[t] = before[t]
      /\ stored' = stored
  BY DEF Send, IdleNamesNone, Types, Optimistic, server
<1>2. Types'
  BY SendKeepsTypes
<1> SUFFICES ASSUME NEW k \in Convs
             PROVE  /\ Real(messages'[k].data, stored[k], Own(k)')
                    /\ Real(messages'[k].reply, stored[k], Own(k)')
                    /\ \A t \in Own(k)' : Real(before'[t].rows, stored[k], Own(k)')
  BY <1>1 DEF RowsAreReal, Rows, Own
<1>3. /\ Own(k) \subseteq Own(k)' /\ s \notin Own(k) /\ Own(k)' \subseteq Own(k) \cup {s}
      /\ Own(k) \subseteq Sends \ {s}
  BY <1>1, ClientAssumption DEF Own
<1>4. ASSUME NEW rows \in Seq(Row), Real(rows, stored[k], Own(k))
      PROVE  Real(rows, stored[k], Own(k)')
  <2>1. stored[k] \in Seq(Sends) /\ Len(stored[k]) \in Nat
    BY DEF Types
  <2> QED
    BY <1>3, <1>4, <2>1, RealStays
<1>5. /\ messages[k].data \in Seq(Row) /\ Real(messages[k].data, stored[k], Own(k)')
      /\ messages[k].reply \in Seq(Row) /\ Real(messages[k].reply, stored[k], Own(k)')
      /\ \A t \in Own(k) : Real(before[t].rows, stored[k], Own(k)')
  <2>1. /\ Real(messages[k].data, stored[k], Own(k)) /\ Real(messages[k].reply, stored[k], Own(k))
        /\ \A t \in Own(k) : before[t].rows \in Seq(Row) /\ Real(before[t].rows, stored[k], Own(k))
    BY DEF RowsAreReal, Rows, Own, Types, Detail
  <2> QED
    BY <1>4, <2>1, Typed
<1>6. CASE k # Shown
  <2>1. messages'[k] = messages[k]
    BY <1>6 DEF Send, Optimistic, Types
  <2>2. Own(k)' = Own(k)
    BY <1>1, <1>3, <1>6 DEF Own
  <2> QED
    BY <1>1, <1>3, <1>5, <2>1, <2>2
<1>7. CASE k = Shown
  <2>1. /\ messages'[k] = Put(e, more) /\ before'[s] = [loaded |-> e.loaded, rows |-> e.data]
        /\ s \in Own(k)'
    BY <1>1, <1>7, ClientAssumption DEF Send, Optimistic, Types, Own
  <2>2. e.data = messages[k].data /\ e.reply = <<>>
    BY <1>7, Typed DEF Cancel, Entry
  <2>3. Put(e, more).data = more /\ Put(e, more).reply = <<>>
    <3>1. e \in Entry(Seq(Row))
      BY <1>7, Typed, EntriesStay
    <3> HIDE DEF e, more
    <3> QED
      BY <2>2, <3>1 DEF Put, Entry
  <2>4. stored[k] \in Seq(Sends)
    BY DEF Types
  <2>5. Real(more, stored[k], Own(k)')
    BY <1>5, <2>1, <2>2, <2>4, RealGrows
  <2>6. Real(<<>>, stored[k], Own(k)')
    BY <2>4, StoredIsReal
  <2>7. \A t \in Own(k)' : Real(before'[t].rows, stored[k], Own(k)')
    BY <1>1, <1>3, <1>5, <2>1, <2>2
  <2> QED
    BY <2>1, <2>3, <2>5, <2>6, <2>7
<1> QED
  BY <1>6, <1>7

LEMMA ServerStoresKeepsRows ==
  ASSUME Types, RowsAreReal, NEW s \in Sends, ServerStores(s)
  PROVE  RowsAreReal'
<1>1. PICK k \in Convs : stored' = [stored EXCEPT ![k] = Append(@, s)]
                         /\ asked' = [asked EXCEPT ![s].into = k]
  BY DEF ServerStores
<1>2. \A j \in Convs : /\ Len(stored[j]) <= Len(stored'[j])
                       /\ \A i \in 1 .. Len(stored[j]) : stored'[j][i] = stored[j][i]
  BY <1>1 DEF Types
<1>3. \A t \in Sends : asked'[t].conv = asked[t].conv
  <2>1. asked[s] \in Ask /\ asked' = [asked EXCEPT ![s] = [asked[s] EXCEPT !.into = k]]
    BY <1>1 DEF Types
  <2> QED
    BY <2>1 DEF Types, Ask
<1>4. UNCHANGED <<messages, before>>
  BY DEF ServerStores, caches
<1> QED
  BY <1>2, <1>3, <1>4, ServerStoresKeepsTypes, CachesStayReal

LEMMA AnsweredKeepsRows ==
  ASSUME Types, RowsAreReal, NEW s \in Sends, Answered(s)
  PROVE  RowsAreReal'
<1>1. \A k \in Convs : {messages'[k].data, messages'[k].reply} \subseteq
                         {messages[k].data, messages[k].reply, <<>>}
  BY AnsweredEntries, EntriesKeepRows
<1>2. UNCHANGED <<stored, asked, before>>
  BY DEF Answered, server
<1>3. \A k \in Convs : Len(stored[k]) \in Nat
  BY DEF Types
<1> QED
  BY <1>1, <1>2, <1>3, AnsweredKeepsTypes, CachesStayReal

\* A failure puts back rows of the conversation its question was asked in.
LEMMA FailedKeepsRows ==
  ASSUME Types, RowsAreReal, NEW s \in Sends, Failed(s)
  PROVE  RowsAreReal'
<1> DEFINE k == asked[s].conv
<1>1. UNCHANGED <<stored, asked, before>>
  BY DEF Failed, server
<1> SUFFICES ASSUME NEW j \in Convs
             PROVE  /\ Real(messages'[j].data, stored[j], Own(j))
                    /\ Real(messages'[j].reply, stored[j], Own(j))
  BY <1>1 DEF RowsAreReal, Rows, Own
<1>2. Real(messages[j].data, stored[j], Own(j)) /\ Real(messages[j].reply, stored[j], Own(j))
  BY DEF RowsAreReal, Rows, Own
<1>3. CASE messages'[j] = messages[j]
  BY <1>2, <1>3
<1>4. CASE messages'[j] # messages[j]
  <2>1. j = k /\ messages'[j] = Put(messages[j], before[s].rows)
    BY <1>4 DEF Failed, RestoreTarget, Types
  <2>2. messages'[j].data = before[s].rows /\ messages'[j].reply = messages[j].reply
    BY <2>1, Typed DEF Put, Entry
  <2>3. Real(before[s].rows, stored[j], Own(j))
    BY <2>1 DEF RowsAreReal, Own
  <2> QED
    BY <1>2, <2>2, <2>3
<1> QED
  BY <1>3, <1>4

LEMMA DeletionKeepsRows ==
  ASSUME RowsAreReal, NEW d \in Deletes,
         DeleteListed(d) \/ DeleteShown(d) \/ ServerDeletes(d) \/ Deleted(d)
  PROVE  RowsAreReal'
<1>1. UNCHANGED <<stored, messages, asked, before>>
  BY DEF DeleteListed, DeleteShown, DeleteSession, ServerDeletes, Deleted, server, caches, sendVars
<1> QED
  BY <1>1 DEF RowsAreReal, Rows

LEMMA FetchingKeepsRows ==
  ASSUME Types, RowsAreReal, Fetch \/ Lapse
  PROVE  RowsAreReal'
<1>1. UNCHANGED <<stored, asked, before>>
  BY Fetches DEF server, sendVars
<1>2. \A k \in Convs : Len(stored[k]) \in Nat
  BY DEF Types
<1>3. \A k \in Convs : {messages'[k].data, messages'[k].reply} \subseteq
                         {messages[k].data, messages[k].reply, <<>>, AsSent(stored[k])}
  <2>1. CASE messages' = messages
    BY <2>1
  <2>2. CASE messages' # messages
    <3>1. PICK k \in Convs, e \in Entry(Seq(Row)) :
            FetchesRows(k, e) /\ messages' = [messages EXCEPT ![k] = e]
      BY <2>2, Fetches
    <3>2. {e.data, e.reply} \subseteq {messages[k].data, messages[k].reply, <<>>, AsSent(stored[k])}
      <4>1. Read(messages[k], AsSent(stored[k])).data = messages[k].data
            /\ Read(messages[k], AsSent(stored[k])).reply = AsSent(stored[k])
        BY Typed DEF Read, Entry
      <4> QED
        BY <3>1, <4>1, Typed, EntriesKeepRows DEF FetchesRows
    <3> QED
      BY <3>1, <3>2 DEF Types
  <2> QED
    BY <2>1, <2>2
<1> QED
  BY <1>1, <1>2, <1>3, FetchingKeepsTypes, CachesStayReal

----------------------------------------------------------------------------
(* Questions, deletions and lives of conversations                         *)

\* The actions that leave home, and those that leave a question or a deletion.
Moves ==
  \/ \E k \in Convs : SelectSession(k)
  \/ StartNewChat
  \/ \E c \in Courses : SwitchCourse(c)
Deletion(d) == DeleteListed(d) \/ DeleteShown(d) \/ ServerDeletes(d) \/ Deleted(d)

\* The steps, one case for each lemma about them.
LEMMA Steps ==
  ASSUME Next
  PROVE  \/ Moves \/ Fetch \/ Lapse
         \/ \E s \in Sends : Send(s) \/ ServerStores(s) \/ Answered(s) \/ Failed(s)
         \/ \E d \in Deletes : Deletion(d)
BY DEF Next, Moves, Deletion

LEMMA MovesLeave ==
  ASSUME Moves
  PROVE  UNCHANGED <<server, sendVars, delVars>> /\ calm' = Patient
BY DEF Moves, SelectSession, StartNewChat, SwitchCourse

\* What one step of a deletion is: its stage goes on.
LEMMA DeletionSteps ==
  ASSUME Types, NEW d \in Deletes, Deletion(d)
  PROVE  /\ UNCHANGED <<stored, course, messages, sendVars>>
         /\ \/ /\ \E k \in Convs : DeleteSession(d, k) /\ (k \in Listed \/ k = Shown)
               /\ UNCHANGED <<home, chat, sessions>>
            \/ ServerDeletes(d) /\ UNCHANGED <<chat, sessions, delAsk>>
            \/ Deleted(d) /\ UNCHANGED <<home, delAsk, calm>>
BY Typed DEF Deletion, DeleteListed, DeleteShown, DeleteSession, ServerDeletes, Deleted,
             server, caches, sendVars

LEMMA QuestionsStayInOrder ==
  ASSUME Types, OneQuestion, IdleNamesNone, DeletesName, Next
  PROVE  OneQuestion' /\ IdleNamesNone' /\ DeletesName'
<1>1. CASE Moves \/ Fetch \/ Lapse
  <2>1. UNCHANGED <<sendVars, delVars>>
    BY <1>1, MovesLeave, Fetches
  <2> QED
    BY <2>1 DEF OneQuestion, IdleNamesNone, DeletesName, Running, sendVars, delVars
<1>2. ASSUME NEW s \in Sends, Send(s)
      PROVE  OneQuestion' /\ IdleNamesNone' /\ DeletesName'
  <2>1. OneQuestion'
    BY <1>2 DEF Types, OneQuestion, Send, IsTyping, Running
  <2>2. IdleNamesNone' /\ DeletesName'
    BY <1>2 DEF Types, Send, IdleNamesNone, DeletesName, delVars
  <2> QED
    BY <2>1, <2>2
<1>3. ASSUME NEW s \in Sends, ServerStores(s)
      PROVE  OneQuestion' /\ IdleNamesNone' /\ DeletesName'
  <2>1. OneQuestion'
    BY <1>3 DEF Types, OneQuestion, ServerStores, Running
  <2>2. DeletesName' /\ \A t \in Sends \ {s} : asked'[t] = asked[t] /\ pc'[t] = pc[t]
    BY <1>3 DEF Types, ServerStores, DeletesName, delVars
  <2>3. pc'[s] # "idle"
    BY <1>3 DEF Types, ServerStores
  <2> QED
    BY <2>1, <2>2, <2>3 DEF IdleNamesNone
<1>4. ASSUME NEW s \in Sends, Answered(s) \/ Failed(s)
      PROVE  OneQuestion' /\ IdleNamesNone' /\ DeletesName'
  <2>1. OneQuestion'
    BY <1>4 DEF Types, OneQuestion, Answered, Failed, Running
  <2>2. IdleNamesNone' /\ DeletesName'
    BY <1>4 DEF Types, Answered, Failed, IdleNamesNone, DeletesName, delVars
  <2> QED
    BY <2>1, <2>2
<1>5. ASSUME NEW d \in Deletes, Deletion(d)
      PROVE  OneQuestion' /\ IdleNamesNone' /\ DeletesName'
  <2>1. UNCHANGED sendVars
    BY <1>5, DeletionSteps
  <2>2. DeletesName'
    BY <1>5, DeletionSteps DEF Types, DeletesName, DeleteSession, ServerDeletes, Deleted
  <2> QED
    BY <2>1, <2>2 DEF OneQuestion, IdleNamesNone, Running, sendVars
<1> QED
  BY <1>1, <1>2, <1>3, <1>4, <1>5, Steps

\* What ServerStores makes of a question: a turn of a conversation that lives
\* on, or of a new one of the course it was asked in.
LEMMA Storing ==
  ASSUME Types, IdleNamesNone, NEW s \in Sends, ServerStores(s)
  PROVE  /\ pc[s] = "asked" /\ pc' = [pc EXCEPT ![s] = "stored"]
         /\ \A t \in Sends : asked'[t].conv = asked[t].conv /\ asked'[t].course = asked[t].course
         /\ \A t \in Sends \ {s} : asked'[t] = asked[t]
         /\ \E k \in Convs :
              /\ asked'[s].into = k
              /\ \A j \in Convs \ {k} : home'[j] = home[j] /\ stored'[j] = stored[j]
              /\ \A j \in Convs \ {k} : touched'[j] = touched[j]
              /\ \/ k = asked[s].conv /\ home[k] \in Courses /\ home' = home
                 \/ home[k] = "unborn" /\ home'[k] = asked[s].course /\ asked[s].course \in Courses
         /\ UNCHANGED <<course, chat, caches, before, delVars, calm>>
<1>1. PICK k \in Convs :
       /\ IF asked[s].conv # None /\ home[asked[s].conv] \in Courses
          THEN k = asked[s].conv /\ UNCHANGED home
          ELSE home[k] = "unborn" /\ home' = [home EXCEPT ![k] = asked[s].course]
       /\ stored' = [stored EXCEPT ![k] = Append(@, s)]
       /\ touched' = [touched EXCEPT ![k] = Now + 1]
       /\ asked' = [asked EXCEPT ![s].into = k]
  BY DEF ServerStores
<1>2. asked[s] \in Ask /\ asked' = [asked EXCEPT ![s] = [asked[s] EXCEPT !.into = k]]
  BY <1>1 DEF Types
<1>3. /\ asked'[s].into = k
      /\ \A t \in Sends : asked'[t].conv = asked[t].conv /\ asked'[t].course = asked[t].course
      /\ \A t \in Sends \ {s} : asked'[t] = asked[t]
  BY <1>2 DEF Types, Ask
<1>4. \A j \in Convs \ {k} :
        home'[j] = home[j] /\ stored'[j] = stored[j] /\ touched'[j] = touched[j]
  BY <1>1 DEF Types
<1>5. \/ k = asked[s].conv /\ home[k] \in Courses /\ home' = home
      \/ home[k] = "unborn" /\ home'[k] = asked[s].course /\ asked[s].course \in Courses
  BY <1>1, <1>2 DEF Types, Ask
<1> QED
  BY <1>3, <1>4, <1>5 DEF ServerStores

\* A conversation is born once, in one course, and then only deleted.
LEMMA HomesGoOn ==
  ASSUME Types, IdleNamesNone, Next, NEW k \in Convs
  PROVE  /\ Born(k) => Born(k)'
         /\ \A c \in Courses : BelongsTo(k, c) => BelongsTo(k, c)'
         /\ home[k] # "unborn" /\ home'[k] \in Courses => home'[k] = home[k]
<1>1. CASE Moves \/ Fetch \/ Lapse
  BY <1>1, MovesLeave, Fetches DEF server, Born, BelongsTo
<1>2. ASSUME NEW s \in Sends, Send(s) \/ Answered(s) \/ Failed(s)
      PROVE  home' = home
  BY <1>2 DEF Send, Answered, Failed, server
<1>3. ASSUME NEW s \in Sends, ServerStores(s)
      PROVE  home'[k] = home[k] \/ (home[k] = "unborn" /\ home'[k] \in Courses)
  <2>1. PICK j \in Convs : /\ \A i \in Convs \ {j} : home'[i] = home[i]
                           /\ \/ home' = home
                              \/ home[j] = "unborn" /\ home'[j] \in Courses
    BY <1>3, Storing
  <2> QED
    BY <2>1
<1>4. ASSUME NEW d \in Deletes, Deletion(d)
      PROVE  home'[k] = home[k] \/ (home[k] \in Courses /\ home'[k] = "deleted")
  <2>1. CASE home' = home
    BY <2>1
  <2>2. CASE home' # home
    <3>1. home[delAsk[d]] \in Courses /\ home' = [home EXCEPT ![delAsk[d]] = "deleted"]
      BY <1>4, <2>2, DeletionSteps DEF ServerDeletes
    <3> QED
      BY <3>1 DEF Types
  <2> QED
    BY <2>1, <2>2
<1>5. \/ home'[k] = home[k]
      \/ home[k] = "unborn" /\ home'[k] \in Courses
      \/ home[k] \in Courses /\ home'[k] = "deleted"
  BY <1>1, <1>2, <1>3, <1>4, Steps, MovesLeave, Fetches DEF server
<1>6. "unborn" \notin Courses /\ "deleted" \notin Courses
  BY ClientAssumption
<1>7. (Born(k) => Born(k)') /\ (home[k] # "unborn" /\ home'[k] \in Courses => home'[k] = home[k])
  BY <1>5, <1>6 DEF Born
<1>8. ASSUME NEW c \in Courses, BelongsTo(k, c)
      PROVE  BelongsTo(k, c)'
  BY <1>5, <1>6, <1>8 DEF BelongsTo
<1> QED
  BY <1>7, <1>8

\* Which entries a move brings into view, and which conversation it opens.
LEMMA Moving ==
  ASSUME Types, Moves
  PROVE  /\ \E x \in Convs \cup {None} :
              /\ messages' = Showing(x)
              /\ \/ /\ x \in Listed \cup {None} /\ chat' = [chat EXCEPT ![course] = x]
                    /\ UNCHANGED <<course, sessions>>
                 \/ /\ chat' = chat /\ course' \in Courses /\ x = chat[course']
                    /\ sessions' = [sessions EXCEPT ![course'] = InView(@)]
         /\ calm' = Patient
<1>1. CASE \E k \in Convs : SelectSession(k)
  BY <1>1 DEF SelectSession, SetActiveConversation
<1>2. CASE StartNewChat
  BY <1>2 DEF StartNewChat, SetActiveConversation
<1>3. CASE \E c \in Courses : SwitchCourse(c)
  BY <1>3 DEF SwitchCourse, Types
<1> QED
  BY <1>1, <1>2, <1>3 DEF Moves

LEMMA BornBeforeSeenStays ==
  ASSUME Types, IdleNamesNone, BornBeforeSeen, ListsAreOwn, Next
  PROVE  BornBeforeSeen'
<1> USE DEF Born
<1>1. \A k \in Convs : Born(k) => Born(k)'
  BY HomesGoOn
<1>2. \A k \in Listed : Born(k)
  BY ClientAssumption DEF ListsAreOwn, BelongsTo, Listed, Types
<1>3. CASE Moves
  <2>1. UNCHANGED <<home, asked, pc>>
    BY <1>3, MovesLeave DEF server, sendVars
  <2>2. PICK x \in Convs \cup {None} :
          /\ messages' = Showing(x)
          /\ x # None => Born(x)
          /\ \A c \in Courses : chat'[c] \in {chat[c], x}
    BY <1>2, <1>3, Moving DEF Types, BornBeforeSeen
  <2>3. \A k \in Convs : ~Born(k) => messages'[k] = messages[k]
    BY <2>2 DEF Showing, Types
  <2> QED
    BY <2>1, <2>2, <2>3 DEF BornBeforeSeen
<1>4. ASSUME NEW s \in Sends, Send(s)
      PROVE  BornBeforeSeen'
  <2>1. UNCHANGED <<home, chat>> /\ pc'[s] = "asked"
    BY <1>4 DEF Send, Types, server
  <2>2. /\ asked'[s].conv = Shown
        /\ \A t \in Sends \ {s} : asked'[t] = asked[t] /\ pc'[t] = pc[t]
    BY <1>4 DEF Send, Types
  <2>3. \A k \in Convs : k # Shown => messages'[k] = messages[k]
    BY <1>4 DEF Send, Optimistic, Types
  <2>4. Shown # None => Born(Shown)
    BY DEF BornBeforeSeen, Shown, Types
  <2> QED
    BY <2>1, <2>2, <2>3, <2>4, ClientAssumption DEF BornBeforeSeen
<1>5. ASSUME NEW s \in Sends, ServerStores(s)
      PROVE  BornBeforeSeen'
  <2>1. asked'[s].into \in Convs /\ Born(asked[s].into)'
    BY <1>5, Storing, ClientAssumption
  <2>2. /\ UNCHANGED <<messages, chat>> /\ \A t \in Sends \ {s} : pc'[t] = pc[t]
        /\ \A t \in Sends : asked'[t].conv = asked[t].conv
        /\ \A t \in Sends \ {s} : asked'[t] = asked[t]
    <3>1. UNCHANGED <<messages, chat>> /\ pc' = [pc EXCEPT ![s] = "stored"]
      BY <1>5 DEF ServerStores, caches
    <3>2. \A t \in Sends \ {s} : pc'[t] = pc[t]
      BY <3>1 DEF Types
    <3> QED
      BY <1>5, <3>1, <3>2, Storing
  <2>3. /\ \A k \in Convs : ~Born(k)' => messages'[k] = NoEntry(<<>>)
        /\ \A c \in Courses : chat'[c] # None => Born(chat[c])'
    BY <1>1, <2>2 DEF BornBeforeSeen, Types
  <2>4. \A t \in Sends : asked'[t].conv # None => Born(asked[t].conv)'
    <3>1. \A t \in Sends : asked[t].conv \in Convs \cup {None}
      BY DEF Types, Ask
    <3> QED
      BY <1>1, <2>2, <3>1 DEF BornBeforeSeen
  <2>5. \A t \in Sends : pc'[t] = "stored" => asked'[t].into \in Convs /\ Born(asked[t].into)'
    BY <1>1, <2>1, <2>2 DEF BornBeforeSeen
  <2> QED
    BY <2>3, <2>4, <2>5 DEF BornBeforeSeen
<1>6. ASSUME NEW s \in Sends, Answered(s)
      PROVE  BornBeforeSeen'
  <2>1. UNCHANGED <<home, asked>> /\ \A t \in Sends : pc'[t] = "stored" => pc[t] = "stored"
    BY <1>6 DEF Answered, Types, server
  <2>2. asked[s].into \in Convs /\ Born(asked[s].into)
    BY <1>6 DEF Answered, BornBeforeSeen
  <2>3. Shown # None => Born(Shown)
    BY DEF BornBeforeSeen, Shown, Types
  <2>4. Born(RefreshTarget(s))
    BY <2>2, <2>3 DEF RefreshTarget, NewConversation
  <2>5. \A k \in Convs : ~Born(k) => messages'[k] = messages[k]
    BY <1>6, <2>4, AnsweredEntries
  <2>6. \A c \in Courses : chat'[c] \in {chat[c], asked[s].into}
    BY <1>6 DEF Answered, NewConversation, Types
  <2> QED
    BY <2>1, <2>2, <2>5, <2>6 DEF BornBeforeSeen
<1>7. ASSUME NEW s \in Sends, Failed(s)
      PROVE  BornBeforeSeen'
  <2>1. UNCHANGED <<home, asked, chat>> /\ \A t \in Sends : pc'[t] = "stored" => pc[t] = "stored"
    BY <1>7 DEF Failed, Types, server
  <2>2. \A k \in Convs : k # asked[s].conv => messages'[k] = messages[k]
    BY <1>7 DEF Failed, RestoreTarget, Types
  <2>3. asked[s].conv \in Convs => Born(asked[s].conv)
    BY ClientAssumption DEF BornBeforeSeen
  <2> QED
    BY <2>1, <2>2, <2>3 DEF BornBeforeSeen
<1>8. ASSUME NEW d \in Deletes, Deletion(d)
      PROVE  BornBeforeSeen'
  <2>1. UNCHANGED <<messages, asked, pc>>
    BY <1>8, DeletionSteps DEF sendVars
  <2>2. \A c \in Courses : chat'[c] \in {chat[c], None}
    BY <1>8, DeletionSteps DEF Deleted, Types
  <2>3. /\ \A s \in Sends : asked[s].conv \in Convs \cup {None}
        /\ \A c \in Courses : chat[c] \in Convs \cup {None}
    BY DEF Types, Ask
  <2> QED
    BY <1>1, <2>1, <2>2, <2>3 DEF BornBeforeSeen
<1>9. CASE Fetch \/ Lapse
  <2>1. UNCHANGED <<home, chat, asked, pc>>
    BY <1>9, Fetches DEF server, sendVars
  <2>2. ASSUME NEW k \in Convs, messages[k] = NoEntry(<<>>)
        PROVE  messages'[k] = NoEntry(<<>>)
    <3>1. ASSUME NEW e, FetchesRows(k, e)
          PROVE  FALSE
      <4>1. messages[k].wire = "idle" /\ Lapsed(messages[k], <<>>) = {}
        BY <2>2, NothingLapses
      <4> QED
        BY <3>1, <4>1 DEF FetchesRows
    <3>2. CASE messages' = messages
      BY <2>2, <3>2
    <3>3. CASE messages' # messages
      <4>1. PICK j \in Convs, e \in Entry(Seq(Row)) :
              FetchesRows(j, e) /\ messages' = [messages EXCEPT ![j] = e]
        BY <1>9, <3>3, Fetches
      <4> QED
        BY <2>2, <3>1, <4>1 DEF Types
    <3> QED
      BY <3>2, <3>3
  <2> QED
    BY <2>1, <2>2 DEF BornBeforeSeen
<1> QED
  BY <1>3, <1>4, <1>5, <1>6, <1>7, <1>8, <1>9, Steps

\* A list grows out of what the server has and of itself.
LEMMA ListsStayOwn ==
  ASSUME Types, IdleNamesNone, ListsAreOwn, Next
  PROVE  ListsAreOwn'
<1>1. \A k \in Convs : \A c \in Courses : BelongsTo(k, c) => BelongsTo(k, c)'
  BY HomesGoOn
<1>2. \A c \in Courses : sessions[c].data \subseteq Convs /\ sessions[c].reply \subseteq Convs
  BY DEF Types, Entry
<1>3. ASSUME NEW c \in Courses, NEW f,
             \/ f \in {sessions[c], InView(sessions[c]), Invalidate(sessions[c], TRUE, {})}
             \/ FetchesList(c, f)
      PROVE  \A k \in f.data \cup f.reply : BelongsTo(k, c)'
  <2>1. f.data \cup f.reply \subseteq sessions[c].data \cup sessions[c].reply \cup Page(c)
    BY <1>3, Typed DEF Entry, InView, Invalidate, FetchesList, Lapsed, Cancel, Deliver, Read
  <2>2. \A k \in Page(c) : k \in Convs /\ BelongsTo(k, c)
    BY PageIsOwn DEF BelongsTo
  <2> QED
    BY <1>1, <1>2, <2>1, <2>2 DEF ListsAreOwn
<1>4. \A c \in Courses :
        \/ sessions'[c] \in {sessions[c], InView(sessions[c]), Invalidate(sessions[c], TRUE, {})}
        \/ FetchesList(c, sessions'[c])
  <2>1. CASE Moves
    BY <2>1, Moving DEF Types
  <2>2. ASSUME NEW s \in Sends, Send(s) \/ ServerStores(s) \/ Failed(s)
        PROVE  sessions' = sessions
    BY <2>2 DEF Send, ServerStores, Failed, caches
  <2>3. ASSUME NEW s \in Sends, Answered(s)
        PROVE  sessions' = [sessions EXCEPT ![course] = Invalidate(@, TRUE, {})]
    BY <2>3 DEF Answered
  <2>4. ASSUME NEW d \in Deletes, Deletion(d)
        PROVE  sessions' \in {sessions, [sessions EXCEPT ![course] = Invalidate(@, TRUE, {})]}
    BY <2>4, DeletionSteps DEF Deleted, RefreshList
  <2>5. CASE Fetch \/ Lapse
    BY <2>5, Fetches DEF Types
  <2> QED
    BY <2>1, <2>2, <2>3, <2>4, <2>5, Steps DEF Types
<1> QED
  BY <1>3, <1>4 DEF ListsAreOwn

----------------------------------------------------------------------------
(* The calm user is alone with what is under way                           *)

\* Who acts while something is under way is calm no longer, nor who meets a
\* failure; a deletion that is refused is one.
LEMMA CalmOnlyEnds ==
  ASSUME Types, Next, calm'
  PROVE  /\ calm
         /\ Moves => ~UnderWay
         /\ \A s \in Sends : Send(s) => ~UnderWay /\ sessions[course].loaded
         /\ \A s \in Sends : ~Failed(s)
         /\ \A d \in Deletes, k \in Convs :
              DeleteSession(d, k) => ~UnderWay /\ sessions[course].loaded
         /\ \A d \in Deletes : ServerDeletes(d) =>
              /\ home[delAsk[d]] \in Courses
              /\ home' = [home EXCEPT ![delAsk[d]] = "deleted"]
              /\ delPc' = [delPc EXCEPT ![d] = "deleted"]
<1>1. Moves => calm /\ ~UnderWay
  BY MovesLeave DEF Patient
<1>2. \A s \in Sends : Send(s) => calm /\ ~UnderWay /\ sessions[course].loaded
  BY DEF Send, Patient
<1>3. \A s \in Sends : ~Failed(s)
  BY DEF Failed
<1>4. \A d \in Deletes, k \in Convs :
        DeleteSession(d, k) => calm /\ ~UnderWay /\ sessions[course].loaded
  BY DEF DeleteSession, Patient
<1>5. \A d \in Deletes : ServerDeletes(d) =>
        /\ calm /\ home[delAsk[d]] \in Courses
        /\ home' = [home EXCEPT ![delAsk[d]] = "deleted"]
        /\ delPc' = [delPc EXCEPT ![d] = "deleted"]
  BY DEF ServerDeletes
<1>6. \A s \in Sends : ServerStores(s) \/ Answered(s) => calm
  BY DEF ServerStores, Answered
<1>7. Fetch \/ Lapse => calm
  BY Fetches
<1>8. \A d \in Deletes : Deletion(d) => calm
  BY <1>4, <1>5, DeletionSteps
<1> QED
  BY <1>1, <1>2, <1>3, <1>4, <1>5, <1>6, <1>7, <1>8, Steps

\* CalmIsAlone, one part at a time.
ChatsBelong == \A c \in Courses : chat[c] # None => BelongsTo(chat[c], c)
QuestionIsHere(s) ==
  /\ asked[s].course = course /\ asked[s].conv = Shown
  /\ pc[s] = "stored" => BelongsTo(asked[s].into, course)
  /\ \A d \in Deletes : ~Deleting(d)
DeletionIsHere(d) ==
  BelongsTo(delAsk[d], course) /\ \A e \in Deletes : Deleting(e) => e = d

LEMMA CalmIsAloneParts ==
  CalmIsAlone <=>
    (calm => /\ ChatsBelong
             /\ \A s \in Sends : Running(s) => QuestionIsHere(s)
             /\ \A d \in Deletes : Deleting(d) => DeletionIsHere(d)
             /\ UnderWay => sessions[course].loaded)
BY DEF CalmIsAlone, ChatsBelong, QuestionIsHere, DeletionIsHere

\* With nothing under way after a step, its chats are all there is to show.
LEMMA CalmAtRest ==
  ASSUME calm' => ChatsBelong' /\ ~UnderWay'
  PROVE  CalmIsAlone'
<1>1. ASSUME ~UnderWay'
      PROVE  (\A s \in Sends : ~Running(s)') /\ (\A d \in Deletes : ~Deleting(d)')
  BY <1>1 DEF UnderWay, IsTyping
<1> QED
  BY <1>1 DEF CalmIsAlone, ChatsBelong

\* Chats that are left alone belong where they are after any step.
LEMMA ChatsStay ==
  ASSUME Types, IdleNamesNone, Next, ChatsBelong,
         \A c \in Courses : \/ chat'[c] = chat[c]
                            \/ chat'[c] = None
                            \/ chat'[c] \in Convs /\ BelongsTo(chat'[c], c)
  PROVE  ChatsBelong'
<1>1. \A k \in Convs : \A c \in Courses : BelongsTo(k, c) => BelongsTo(k, c)'
  BY HomesGoOn
<1>2. \A c \in Courses : chat[c] \in Convs \cup {None}
  BY DEF Types
<1> SUFFICES ASSUME NEW c \in Courses, chat'[c] # None
             PROVE  home'[chat'[c]] \in {c, "deleted"}
  BY DEF ChatsBelong, BelongsTo
<1>3. chat'[c] \in Convs /\ BelongsTo(chat'[c], c)
  BY <1>2 DEF ChatsBelong
<1> DEFINE k == chat'[c]
<1>4. k \in Convs /\ BelongsTo(k, c)
  BY <1>3
<1> HIDE DEF k
<1>5. home'[k] \in {c, "deleted"}
  BY <1>1, <1>4 DEF BelongsTo
<1> QED
  BY <1>5 DEF k

\* Under way is what some question or some deletion is.
LEMMA UnderWayIs ==
  /\ \A s \in Sends : Running(s) => UnderWay
  /\ \A d \in Deletes : Deleting(d) => UnderWay
  /\ ~UnderWay => (\A s \in Sends : ~Running(s)) /\ (\A d \in Deletes : ~Deleting(d))
BY DEF UnderWay, IsTyping

LEMMA MovingLeavesAlone ==
  ASSUME Types, IdleNamesNone, ListsAreOwn, CalmIsAlone, Next, Moves
  PROVE  CalmIsAlone'
<1> SUFFICES ASSUME calm'
             PROVE  ChatsBelong' /\ ~UnderWay'
  BY CalmAtRest
<1>1. calm /\ ~UnderWay
  BY CalmOnlyEnds
<1>2. UNCHANGED <<pc, delPc>>
  BY MovesLeave DEF sendVars, delVars
<1>3. ~UnderWay'
  BY <1>1, <1>2 DEF UnderWay, IsTyping, Running, Deleting
<1>4. \A k \in Listed : k \in Convs /\ BelongsTo(k, course)
  BY Typed DEF ListsAreOwn, Listed, Types
<1>5. \A c \in Courses : \/ chat'[c] = chat[c]
                         \/ chat'[c] = None
                         \/ chat'[c] \in Convs /\ BelongsTo(chat'[c], c)
  BY <1>4, Moving DEF Types
<1>6. ChatsBelong
  BY <1>1, CalmIsAloneParts
<1> QED
  BY <1>3, <1>5, <1>6, ChatsStay

LEMMA SendLeavesAlone ==
  ASSUME Types, IdleNamesNone, CalmIsAlone, Next, NEW s \in Sends, Send(s)
  PROVE  CalmIsAlone'
<1> SUFFICES ASSUME calm'
             PROVE  /\ ChatsBelong'
                    /\ \A t \in Sends : Running(t)' => QuestionIsHere(t)'
                    /\ \A d \in Deletes : ~Deleting(d)'
                    /\ sessions'[course'].loaded
  BY DEF CalmIsAlone, ChatsBelong, QuestionIsHere
<1>1. calm /\ ~UnderWay /\ sessions[course].loaded
  BY CalmOnlyEnds
<1>2. UNCHANGED <<home, course, chat, sessions, delPc>>
  BY DEF Send, server, delVars
<1>3. ChatsBelong'
  BY <1>1, <1>2, CalmIsAloneParts DEF ChatsBelong, BelongsTo
<1>4. \A d \in Deletes : ~Deleting(d)'
  BY <1>1, <1>2, UnderWayIs DEF Deleting
<1>5. ASSUME NEW t \in Sends, Running(t)'
      PROVE  t = s
  BY <1>1, <1>5, UnderWayIs DEF Send, Running, Types
<1>6. pc'[s] = "asked" /\ asked'[s].course = course /\ asked'[s].conv = Shown /\ Shown' = Shown
  BY <1>2 DEF Send, Types, Shown
<1>7. QuestionIsHere(s)'
  BY <1>2, <1>4, <1>6 DEF QuestionIsHere
<1> QED
  BY <1>1, <1>2, <1>3, <1>4, <1>5, <1>7

LEMMA ServerStoresLeavesAlone ==
  ASSUME Types, IdleNamesNone, OneQuestion, CalmIsAlone, Next, NEW s \in Sends, ServerStores(s)
  PROVE  CalmIsAlone'
<1> SUFFICES ASSUME calm'
             PROVE  /\ ChatsBelong'
                    /\ \A t \in Sends : Running(t)' => QuestionIsHere(t)'
                    /\ \A d \in Deletes : ~Deleting(d)'
                    /\ sessions'[course'].loaded
  BY DEF CalmIsAlone, ChatsBelong, QuestionIsHere
<1>1. /\ UNCHANGED <<course, chat, sessions, delPc, calm>>
      /\ pc[s] = "asked" /\ pc' = [pc EXCEPT ![s] = "stored"]
  BY DEF ServerStores, caches, delVars
<1>2. Running(s) /\ QuestionIsHere(s) /\ ChatsBelong /\ sessions[course].loaded
  BY <1>1, CalmIsAloneParts, UnderWayIs DEF Running
<1>3. ChatsBelong'
  BY <1>1, <1>2, ChatsStay
<1>4. \A d \in Deletes : ~Deleting(d)'
  BY <1>1, <1>2 DEF QuestionIsHere, Deleting
<1>5. ASSUME NEW t \in Sends, Running(t)'
      PROVE  t = s
  BY <1>1, <1>2, <1>5 DEF Running, OneQuestion, Types
<1>6. BelongsTo(asked[s].into, course)'
  <2>1. PICK k \in Convs :
           /\ asked'[s].into = k
           /\ \/ k = asked[s].conv /\ home[k] \in Courses /\ home' = home
              \/ home[k] = "unborn" /\ home'[k] = asked[s].course /\ asked[s].course \in Courses
    BY Storing
  <2>2. asked[s].course = course /\ asked[s].conv = Shown /\ course \in Courses
    BY <1>2 DEF QuestionIsHere, Types
  <2>3. home'[k] \in {course, "deleted"}
    BY <1>2, <2>1, <2>2, ClientAssumption DEF ChatsBelong, BelongsTo, Shown
  <2> QED
    BY <1>1, <2>1, <2>3 DEF BelongsTo
<1>7. asked'[s].course = course' /\ asked'[s].conv = Shown'
  BY <1>1, <1>2, Storing DEF QuestionIsHere, Shown
<1>8. QuestionIsHere(s)'
  BY <1>4, <1>6, <1>7 DEF QuestionIsHere
<1> QED
  BY <1>1, <1>2, <1>3, <1>4, <1>5, <1>8

LEMMA AnsweredLeavesAlone ==
  ASSUME Types, IdleNamesNone, OneQuestion, BornBeforeSeen, CalmIsAlone, Next,
         NEW s \in Sends, Answered(s)
  PROVE  CalmIsAlone'
<1> SUFFICES ASSUME calm'
             PROVE  ChatsBelong' /\ ~UnderWay'
  BY CalmAtRest
<1>1. /\ pc[s] = "stored" /\ pc' = [pc EXCEPT ![s] = "answered"] /\ calm' = calm
      /\ chat' = IF Shown = None THEN [chat EXCEPT ![course] = asked[s].into] ELSE chat
      /\ delPc' = delPc
  BY DEF Answered, NewConversation, delVars
<1>2. Running(s) /\ QuestionIsHere(s) /\ ChatsBelong
  BY <1>1, CalmIsAloneParts DEF Running
<1>3. \A t \in Sends : ~Running(t)'
  BY <1>1, <1>2 DEF Running, OneQuestion, Types
<1>4. \A d \in Deletes : ~Deleting(d)'
  BY <1>1, <1>2 DEF QuestionIsHere, Deleting
<1>5. asked[s].into \in Convs /\ BelongsTo(asked[s].into, course)
  BY <1>1, <1>2 DEF BornBeforeSeen, QuestionIsHere
<1>6. \A c \in Courses : chat'[c] = chat[c] \/ (c = course /\ chat'[c] = asked[s].into)
  BY <1>1 DEF Types
<1>7. ChatsBelong'
  BY <1>2, <1>5, <1>6, ChatsStay
<1>8. ~UnderWay'
  BY <1>3, <1>4 DEF UnderWay, IsTyping
<1> QED
  BY <1>7, <1>8

LEMMA DeletionLeavesAlone ==
  ASSUME Types, IdleNamesNone, DeletesName, ListsAreOwn, CalmIsAlone, Next,
         NEW d \in Deletes, Deletion(d)
  PROVE  CalmIsAlone'
<1> SUFFICES ASSUME calm'
             PROVE  CalmIsAlone'
  BY DEF CalmIsAlone
<1>1. calm /\ UNCHANGED <<course, pc, asked>>
  BY CalmOnlyEnds, DeletionSteps DEF sendVars
<1>2. ChatsBelong
  BY <1>1, CalmIsAloneParts
<1>3. ASSUME NEW k \in Convs, DeleteSession(d, k), k \in Listed \/ k = Shown,
             UNCHANGED <<home, chat, sessions>>
      PROVE  CalmIsAlone'
  <2>1. ~UnderWay /\ sessions[course].loaded
    BY <1>3, CalmOnlyEnds
  <2>2. \A s \in Sends : ~Running(s)'
    BY <1>1, <2>1, UnderWayIs DEF Running
  <2>3. \A e \in Deletes : Deleting(e)' => e = d
    BY <1>3, <2>1, UnderWayIs DEF DeleteSession, Deleting, Types
  <2>4. BelongsTo(k, course)
    BY <1>2, <1>3, ClientAssumption DEF ListsAreOwn, Listed, ChatsBelong, Shown, Types
  <2>5. delAsk'[d] = k
    BY <1>3 DEF DeleteSession, Types
  <2>6. DeletionIsHere(d)'
    BY <1>1, <1>3, <2>3, <2>4, <2>5 DEF DeletionIsHere, BelongsTo
  <2>7. ChatsBelong'
    BY <1>2, <1>3 DEF ChatsBelong, BelongsTo
  <2>8. sessions'[course'].loaded
    BY <1>1, <1>3, <2>1
  <2> QED
    BY <2>2, <2>3, <2>6, <2>7, <2>8 DEF CalmIsAlone, ChatsBelong, DeletionIsHere
<1>4. CASE ServerDeletes(d)
  <2>1. /\ home[delAsk[d]] \in Courses /\ home' = [home EXCEPT ![delAsk[d]] = "deleted"]
        /\ delPc' = [delPc EXCEPT ![d] = "deleted"] /\ delPc[d] = "asked"
        /\ UNCHANGED <<chat, sessions, delAsk>>
    BY <1>4, CalmOnlyEnds DEF ServerDeletes, caches
  <2>2. Deleting(d) /\ DeletionIsHere(d) /\ sessions[course].loaded
    BY <1>1, <2>1, CalmIsAloneParts, UnderWayIs DEF Deleting
  <2>3. \A s \in Sends : ~Running(s)'
    BY <1>1, <2>2, CalmIsAloneParts DEF Running, QuestionIsHere
  <2>4. \A e \in Deletes : Deleting(e)' => e = d
    BY <2>1, <2>2 DEF Deleting, DeletionIsHere, Types
  <2>5. home'[delAsk[d]] = "deleted"
    BY <2>1 DEF DeletesName, Types
  <2>6. DeletionIsHere(d)'
    BY <2>1, <2>4, <2>5 DEF DeletionIsHere, BelongsTo
  <2>7. ChatsBelong'
    BY <1>2, <2>1, ChatsStay
  <2>8. sessions'[course'].loaded
    BY <1>1, <2>1, <2>2
  <2> QED
    BY <2>3, <2>4, <2>6, <2>7, <2>8 DEF CalmIsAlone, ChatsBelong, DeletionIsHere
<1>5. CASE Deleted(d)
  <2>1. /\ delPc[d] = "deleted" /\ delPc' = [delPc EXCEPT ![d] = "done"]
        /\ \A c \in Courses : chat'[c] \in {chat[c], None}
    BY <1>5 DEF Deleted, Types
  <2>2. Deleting(d) /\ DeletionIsHere(d)
    BY <1>1, <2>1, CalmIsAloneParts DEF Deleting
  <2>3. \A s \in Sends : ~Running(s)'
    BY <1>1, <2>2, CalmIsAloneParts DEF Running, QuestionIsHere
  <2>4. \A e \in Deletes : ~Deleting(e)'
    BY <2>1, <2>2 DEF Deleting, DeletionIsHere, Types
  <2>5. ChatsBelong'
    BY <1>2, <2>1, ChatsStay
  <2>6. ~UnderWay'
    BY <2>3, <2>4 DEF UnderWay, IsTyping
  <2> QED
    BY <2>5, <2>6, CalmAtRest
<1> QED
  BY <1>3, <1>4, <1>5, DeletionSteps

\* What was loaded stays so.
LEMMA LoadedStays ==
  ASSUME NEW c, NEW e, FetchesList(c, e), sessions[c] \in Entry(SUBSET Convs), sessions[c].loaded
  PROVE  e.loaded
BY DEF FetchesList, Lapsed, Cancel, Deliver, Read, Entry

LEMMA FetchingLeavesAlone ==
  ASSUME Types, CalmIsAlone, Fetch \/ Lapse
  PROVE  CalmIsAlone'
<1>1. UNCHANGED <<home, course, chat, pc, asked, delPc, delAsk, calm>>
  BY Fetches DEF server, sendVars, delVars
<1>2. sessions[course].loaded => sessions'[course].loaded
  BY Fetches, LoadedStays, Typed DEF Types
<1> QED
  BY <1>1, <1>2 DEF CalmIsAlone, Running, Deleting, UnderWay, IsTyping, Shown, BelongsTo

LEMMA CalmStaysAlone ==
  ASSUME Types, OneQuestion, IdleNamesNone, DeletesName, BornBeforeSeen, ListsAreOwn,
         CalmIsAlone, Next
  PROVE  CalmIsAlone'
<1>1. ASSUME NEW s \in Sends, Failed(s)
      PROVE  CalmIsAlone'
  BY <1>1 DEF Failed, CalmIsAlone
<1> QED
  BY <1>1, Steps, MovingLeavesAlone, SendLeavesAlone, ServerStoresLeavesAlone,
     AnsweredLeavesAlone, DeletionLeavesAlone, FetchingLeavesAlone

----------------------------------------------------------------------------
(* What the calm user's cache takes for fresh is true                      *)

\* Everything that may befall an entry keeps it faithful to what the server
\* has; an entry with data becomes so when it is invalidated in view.
LEMMA FaithfulStays ==
  ASSUME NEW D, NEW e \in Entry(D), NEW blank \in D, NEW truth \in D, Faithful(e, truth)
  PROVE  /\ Faithful(InView(e), truth) /\ Faithful(InView([e EXCEPT !.old = TRUE]), truth)
         /\ Faithful(Cancel(e, blank), truth)
         /\ \A f \in Lapsed(e, blank) : Faithful(f, truth)
         /\ e.wire = "asked" => Faithful(Read(e, truth), truth)
         /\ e.wire = "read" => Faithful(Deliver(e, blank), truth)
<1>1. Faithful(InView(e), truth) /\ Faithful(InView([e EXCEPT !.old = TRUE]), truth)
  BY DEF Faithful, InView, Entry
<1>2. Faithful(Cancel(e, blank), truth) /\ Faithful([e EXCEPT !.old = TRUE], truth)
  BY DEF Faithful, Cancel, Entry
<1>3. e.wire = "asked" => Faithful(Read(e, truth), truth)
  BY DEF Faithful, Read, Entry
<1>4. e.wire = "read" => Faithful(Deliver(e, blank), truth)
  BY DEF Faithful, Deliver, Entry
<1> QED
  BY <1>1, <1>2, <1>3, <1>4 DEF Lapsed

LEMMA FaithfulAgain ==
  ASSUME NEW D, NEW e \in Entry(D), NEW blank \in D, NEW truth, e.loaded
  PROVE  /\ Faithful(Invalidate(e, TRUE, blank), truth)
         /\ Invalidate(e, TRUE, blank).loaded
BY DEF Faithful, Invalidate, Entry

LEMMA FirstIsFaithful ==
  ASSUME NEW blank, NEW truth
  PROVE  /\ Faithful(NoEntry(blank), truth) /\ Faithful(InView(NoEntry(blank)), truth)
BY DEF Faithful, NoEntry, InView

MessageIsCalm(k) ==
  /\ Due(k) => messages[k].loaded
  /\ home[k] \in Courses /\ ~Due(k) => Faithful(messages[k], AsSent(stored[k]))

LEMMA MovingKeepsMessages ==
  ASSUME Types, CalmMessages, Next, Moves, calm', NEW k \in Convs
  PROVE  MessageIsCalm(k)'
<1>1. calm /\ ~UnderWay /\ UNCHANGED <<home, stored, pc, asked>>
  BY CalmOnlyEnds, MovesLeave DEF server, sendVars
<1>2. ~Due(k) /\ ~Due(k)'
  BY <1>1, UnderWayIs DEF Due, Running
<1>3. messages'[k] \in {messages[k], InView(messages[k])}
  BY Moving, ShowingTyped
<1>4. home[k] \in Courses => Faithful(messages[k], AsSent(stored[k]))
  BY <1>1, <1>2 DEF CalmMessages
<1>5. home[k] \in Courses => Faithful(messages'[k], AsSent(stored[k]))
  BY <1>3, <1>4, Typed, FaithfulStays
<1> QED
  BY <1>1, <1>2, <1>5 DEF MessageIsCalm

LEMMA SendKeepsMessages ==
  ASSUME Types, CalmMessages, Next, NEW s \in Sends, Send(s), calm', NEW k \in Convs
  PROVE  MessageIsCalm(k)'
<1>1. calm /\ ~UnderWay /\ UNCHANGED <<home, stored>>
  BY CalmOnlyEnds DEF Send, server
<1>2. ~Due(k)
  BY <1>1, UnderWayIs DEF Due
<1>3. CASE k = Shown
  <2>1. messages'[k] = Put(Cancel(messages[k], <<>>),
                           Append(Cancel(messages[k], <<>>).data, [turn |-> s, sent |-> FALSE]))
    BY <1>3, ClientAssumption DEF Send, Optimistic, Types
  <2>2. messages'[k].loaded
    <3>1. Cancel(messages[k], <<>>) \in Entry(Seq(Row))
      BY Typed, EntriesStay
    <3> QED
      BY <2>1, <3>1 DEF Put, Entry
  <2>3. Due(k)'
    <3>1. Running(s)' /\ asked'[s].conv = k
      BY <1>3 DEF Send, Running, Types
    <3> QED
      BY <3>1 DEF Due
  <2> QED
    BY <2>2, <2>3 DEF MessageIsCalm
<1>4. CASE k # Shown
  <2>1. messages'[k] = messages[k]
    BY <1>4 DEF Send, Optimistic, Types
  <2>2. \A t \in Sends : Running(t)' => asked'[t].conv = Shown
    BY <1>1, UnderWayIs DEF Send, Running, Types
  <2>3. ~Due(k)'
    BY <1>4, <2>2 DEF Due
  <2> QED
    BY <1>1, <1>2, <2>1, <2>3 DEF CalmMessages, MessageIsCalm
<1> QED
  BY <1>3, <1>4

LEMMA ServerStoresKeepsMessages ==
  ASSUME Types, IdleNamesNone, BornBeforeSeen, CalmMessages, Next,
         NEW s \in Sends, ServerStores(s), calm', NEW k \in Convs
  PROVE  MessageIsCalm(k)'
<1>1. calm /\ messages' = messages /\ pc[s] = "asked" /\ pc' = [pc EXCEPT ![s] = "stored"]
  BY DEF ServerStores, caches
<1>2. PICK j \in Convs :
        /\ \A i \in Convs \ {j} : home'[i] = home[i] /\ stored'[i] = stored[i]
        /\ (j = asked[s].conv /\ home' = home) \/ home[j] = "unborn"
  BY Storing
<1>3. /\ \A t \in Sends : asked'[t].conv = asked[t].conv
      /\ \A t \in Sends : Running(t)' <=> Running(t)
  <2>1. \A t \in Sends : asked'[t].conv = asked[t].conv
    BY Storing
  <2>2. \A t \in Sends : Running(t)' <=> Running(t)
    BY <1>1 DEF Running, Types
  <2> QED
    BY <2>1, <2>2
<1>4. Due(k)' <=> Due(k)
  BY <1>3 DEF Due
<1>5. CASE k # j
  BY <1>1, <1>2, <1>4, <1>5 DEF CalmMessages, MessageIsCalm
<1>6. CASE k = j /\ k = asked[s].conv
  <2>1. Due(k)
    BY <1>1, <1>6 DEF Due, Running
  <2> QED
    BY <1>1, <1>4, <2>1 DEF CalmMessages, MessageIsCalm
<1>7. CASE k = j /\ home[k] = "unborn"
  <2>1. messages[k] = NoEntry(<<>>)
    BY <1>7 DEF BornBeforeSeen, Born
  <2>2. Faithful(messages'[k], AsSent(stored'[k]))
    BY <1>1, <2>1, FirstIsFaithful
  <2>3. Due(k) => messages[k].loaded
    BY <1>1 DEF CalmMessages
  <2> QED
    BY <1>1, <1>4, <2>2, <2>3 DEF MessageIsCalm
<1> QED
  BY <1>2, <1>5, <1>6, <1>7

\* The conversation the question was asked in is in view, and refreshed.
LEMMA AnsweredKeepsMessages ==
  ASSUME Types, OneQuestion, CalmIsAlone, CalmMessages, NEW s \in Sends, Answered(s), calm',
         NEW k \in Convs
  PROVE  MessageIsCalm(k)'
<1>1. /\ calm /\ pc[s] = "stored" /\ pc' = [pc EXCEPT ![s] = "answered"]
      /\ UNCHANGED <<home, stored, asked>>
  BY DEF Answered, server
<1>2. Running(s) /\ asked[s].conv = Shown
  BY <1>1, CalmIsAloneParts DEF Running, QuestionIsHere
<1>3. \A t \in Sends : ~Running(t)'
  BY <1>1, <1>2 DEF Running, OneQuestion, Types
<1>4. ~Due(k)'
  BY <1>3 DEF Due
<1>5. Due(k) <=> k = Shown
  BY <1>2 DEF Due, OneQuestion
<1>6. home[k] \in Courses => Faithful(messages'[k], AsSent(stored[k]))
  <2>1. CASE k = Shown
    <3>1. messages[k].loaded
      BY <1>1, <1>5, <2>1 DEF CalmMessages
    <3>2. messages'[k] = Invalidate(messages[k], TRUE, <<>>)
      BY <2>1, AnsweredEntries, ClientAssumption DEF RefreshTarget
    <3> QED
      BY <3>1, <3>2, Typed, FaithfulAgain
  <2>2. CASE k # Shown
    <3>1. messages'[k] \in {messages[k], InView([messages[k] EXCEPT !.old = TRUE])}
      BY <2>2, AnsweredEntries, ClientAssumption DEF RefreshTarget
    <3>2. home[k] \in Courses => Faithful(messages[k], AsSent(stored[k]))
      BY <1>1, <1>5, <2>2 DEF CalmMessages
    <3> QED
      BY <3>1, <3>2, Typed, FaithfulStays
  <2> QED
    BY <2>1, <2>2
<1> QED
  BY <1>1, <1>4, <1>6 DEF MessageIsCalm

LEMMA DeletionKeepsMessages ==
  ASSUME Types, IdleNamesNone, BornBeforeSeen, CalmMessages, Next,
         NEW d \in Deletes, Deletion(d), calm', NEW k \in Convs
  PROVE  MessageIsCalm(k)'
<1>1. calm /\ UNCHANGED <<stored, messages, pc, asked>>
  BY CalmOnlyEnds, DeletionSteps DEF sendVars
<1>2. home'[k] \in Courses => home[k] = home'[k] \/ home[k] = "unborn"
  BY HomesGoOn
<1>3. home[k] = "unborn" => Faithful(messages[k], AsSent(stored[k]))
  BY FirstIsFaithful DEF BornBeforeSeen, Born
<1>4. Due(k)' = Due(k)
  BY <1>1 DEF Due, Running
<1> QED
  BY <1>1, <1>2, <1>3, <1>4 DEF CalmMessages, MessageIsCalm

LEMMA FetchingKeepsMessages ==
  ASSUME Types, CalmMessages, Fetch \/ Lapse, calm', NEW k \in Convs
  PROVE  MessageIsCalm(k)'
<1>1. calm /\ UNCHANGED <<home, stored, pc, asked>>
  BY Fetches DEF server, sendVars
<1>2. Due(k)' = Due(k)
  BY <1>1 DEF Due, Running
<1>3. CASE messages'[k] = messages[k]
  BY <1>1, <1>2, <1>3 DEF CalmMessages, MessageIsCalm
<1>4. CASE messages'[k] # messages[k]
  <2>1. PICK e \in Entry(Seq(Row)) : FetchesRows(k, e) /\ messages'[k] = e
    BY <1>4, Fetches DEF Types
  <2>2. messages[k].loaded => e.loaded
    BY <2>1, Typed DEF FetchesRows, Lapsed, Cancel, Deliver, Read, Entry
  <2>3. home[k] \in Courses /\ ~Due(k) => Faithful(e, AsSent(stored[k]))
    BY <1>1, <2>1, Typed, FaithfulStays DEF FetchesRows, CalmMessages
  <2> QED
    BY <1>1, <1>2, <2>1, <2>2, <2>3 DEF CalmMessages, MessageIsCalm
<1> QED
  BY <1>3, <1>4

LEMMA MessagesStayCalm ==
  ASSUME Types, OneQuestion, IdleNamesNone, BornBeforeSeen, CalmIsAlone, CalmMessages, Next
  PROVE  CalmMessages'
<1> SUFFICES ASSUME calm', NEW k \in Convs
             PROVE  MessageIsCalm(k)'
  BY DEF CalmMessages, MessageIsCalm
<1>1. \A s \in Sends : ~Failed(s)
  BY CalmOnlyEnds
<1> QED
  BY <1>1, Steps, MovingKeepsMessages, SendKeepsMessages, ServerStoresKeepsMessages,
     AnsweredKeepsMessages, DeletionKeepsMessages, FetchingKeepsMessages

ListIsCalm(c) ==
  /\ sessions[c].loaded /\ ~sessions[c].old => sessions[c].wire = "idle"
  /\ ~Owed(c) => Faithful(sessions[c], Page(c))

\* An entry that counts as fresh while an answer is on the wire does not come
\* about by a fetch or a lapse.
LEMMA FreshIsIdle ==
  ASSUME NEW D, NEW e \in Entry(D), NEW blank \in D, NEW d,
         e.loaded /\ ~e.old => e.wire = "idle"
  PROVE  /\ \A f \in {Deliver(e, blank)} \cup Lapsed(e, blank) :
              f.loaded /\ ~f.old => f.wire = "idle"
         /\ e.wire = "asked" =>
              LET f == Read(e, d) IN f.loaded /\ ~f.old => f.wire = "idle"
BY DEF Deliver, Lapsed, Cancel, Read, Entry

\* Nothing is owed at rest.
LEMMA NothingOwed ==
  ASSUME ~UnderWay, NEW c
  PROVE  ~Owed(c)
BY UnderWayIs DEF Owed, Running, Deleting

LEMMA MovingKeepsLists ==
  ASSUME Types, CalmLists, Next, Moves, calm', NEW c \in Courses
  PROVE  ListIsCalm(c)'
<1>1. calm /\ ~UnderWay /\ home' = home /\ touched' = touched
  BY CalmOnlyEnds, MovesLeave DEF server
<1>2. sessions'[c] \in {sessions[c], InView(sessions[c])}
  BY Moving DEF Types
<1>3. Faithful(sessions[c], Page(c))
  BY <1>1, NothingOwed DEF CalmLists
<1>4. Faithful(sessions'[c], Page(c))
  <2>1. Page(c) \in SUBSET Convs /\ {} \in SUBSET Convs
    BY PageIsOwn
  <2> QED
    BY <1>2, <1>3, <2>1, Typed, FaithfulStays
<1>5. Page(c)' = Page(c)
  BY <1>1, PageStays
<1> QED
  BY <1>4, <1>5 DEF ListIsCalm, Faithful

\* A step that leaves the lists and the page of c alone, and after which
\* the list of c is owed an answer or was not before.
LEMMA ListIsLeft ==
  ASSUME CalmLists, calm, NEW c \in Courses, sessions'[c] = sessions[c],
         ~Owed(c)' => ~Owed(c) /\ Page(c)' = Page(c)
  PROVE  ListIsCalm(c)'
BY DEF CalmLists, ListIsCalm

\* A step after which the list in view has been invalidated, and the others
\* and the pages are as before.
LEMMA ListIsRefreshed ==
  ASSUME Types, CalmLists, calm, NEW c \in Courses, sessions[course].loaded,
         home' = home, touched' = touched,
         sessions' = [sessions EXCEPT ![course] = Invalidate(@, TRUE, {})]
  PROVE  ListIsCalm(c)'
<1>1. Page(c)' = Page(c)
  BY PageStays
<1>2. CASE c = course
  <2>1. sessions'[c] = Invalidate(sessions[c], TRUE, {}) /\ sessions[c] \in Entry(SUBSET Convs)
    BY <1>2 DEF Types
  <2>2. Faithful(sessions'[c], Page(c))
    <3>1. sessions[c].loaded /\ {} \in SUBSET Convs
      BY <1>2
    <3> QED
      BY <2>1, <3>1, FaithfulAgain
  <2> QED
    BY <1>1, <2>2 DEF ListIsCalm, Faithful
<1>3. CASE c # course
  <2>1. sessions'[c] = sessions[c] /\ ~Owed(c)
    BY <1>3 DEF Types, Owed
  <2>2. Faithful(sessions[c], Page(c))
    BY <2>1 DEF CalmLists
  <2> QED
    BY <1>1, <2>1, <2>2 DEF ListIsCalm, Faithful
<1> QED
  BY <1>2, <1>3

LEMMA QuestionKeepsLists ==
  ASSUME Types, IdleNamesNone, CalmIsAlone, CalmLists, Next, calm', NEW c \in Courses,
         NEW s \in Sends, Send(s) \/ ServerStores(s) \/ Answered(s)
  PROVE  ListIsCalm(c)'
<1>1. CASE Send(s)
  <2>1. calm /\ ~UnderWay /\ UNCHANGED <<home, touched, sessions, course, delPc>>
    BY <1>1, CalmOnlyEnds DEF Send, server, delVars
  <2>2. ~Owed(c) /\ Page(c)' = Page(c)
    BY <2>1, NothingOwed, PageStays
  <2> QED
    BY <2>1, <2>2, ListIsLeft
<1>2. CASE ServerStores(s)
  <2>1. /\ calm /\ UNCHANGED <<sessions, course, delPc>>
        /\ pc[s] = "asked" /\ pc' = [pc EXCEPT ![s] = "stored"]
    BY <1>2 DEF ServerStores, caches, delVars
  <2>2. Owed(course)'
    BY <2>1 DEF Owed, Types
  <2>3. asked[s].course = course
    BY <2>1, CalmIsAloneParts DEF Running, QuestionIsHere
  <2>4. ASSUME c # course
        PROVE  ~Owed(c) /\ Page(c)' = Page(c)
    <3>1. PICK k \in Convs :
            /\ asked'[s].into = k
            /\ \A j \in Convs \ {k} : home'[j] = home[j] /\ stored'[j] = stored[j]
            /\ \A j \in Convs \ {k} : touched'[j] = touched[j]
            /\ \/ k = asked[s].conv /\ home[k] \in Courses /\ home' = home
               \/ home[k] = "unborn" /\ home'[k] = asked[s].course /\ asked[s].course \in Courses
      BY <1>2, Storing
    <3>2. home[k] # c
      <4>1. k = asked[s].conv => k = Shown /\ BelongsTo(k, course)
        BY <2>1, <3>1, ClientAssumption, CalmIsAloneParts
           DEF Running, QuestionIsHere, ChatsBelong, Shown, Types
      <4> QED
        BY <2>4, <3>1, <4>1, ClientAssumption DEF BelongsTo
    <3>3. /\ \A j \in Convs : home'[j] = c <=> home[j] = c
          /\ \A j \in Convs : home[j] = c => touched'[j] = touched[j]
      BY <2>3, <2>4, <3>1, <3>2, ClientAssumption
    <3> QED
      BY <2>4, <3>3, PageStays DEF Owed
  <2> QED
    BY <2>1, <2>2, <2>4, ListIsLeft
<1>3. CASE Answered(s)
  <2>1. calm /\ pc[s] = "stored" /\ home' = home /\ touched' = touched
    BY <1>3 DEF Answered, server
  <2>2. sessions[course].loaded
    BY <2>1, CalmIsAloneParts, UnderWayIs DEF Running
  <2>3. sessions' = [sessions EXCEPT ![course] = Invalidate(@, TRUE, {})]
    BY <1>3 DEF Answered
  <2> QED
    BY <2>1, <2>2, <2>3, ListIsRefreshed
<1> QED
  BY <1>1, <1>2, <1>3

LEMMA DeletionKeepsLists ==
  ASSUME Types, DeletesName, CalmIsAlone, CalmLists, Next, calm', NEW c \in Courses,
         NEW d \in Deletes, Deletion(d)
  PROVE  ListIsCalm(c)'
<1>1. calm /\ UNCHANGED <<course, pc>>
  BY CalmOnlyEnds, DeletionSteps DEF sendVars
<1>2. ASSUME NEW k \in Convs, DeleteSession(d, k), UNCHANGED <<home, sessions>>
      PROVE  ListIsCalm(c)'
  <2>1. ~Owed(c) /\ Page(c)' = Page(c)
    BY <1>2, CalmOnlyEnds, NothingOwed, PageStays DEF DeleteSession, server
  <2> QED
    BY <1>1, <1>2, <2>1, ListIsLeft
<1>3. CASE ServerDeletes(d)
  <2>1. /\ home[delAsk[d]] \in Courses /\ home' = [home EXCEPT ![delAsk[d]] = "deleted"]
        /\ delPc' = [delPc EXCEPT ![d] = "deleted"] /\ delPc[d] = "asked"
        /\ sessions' = sessions /\ touched' = touched
    BY <1>3, CalmOnlyEnds DEF ServerDeletes, caches
  <2>2. BelongsTo(delAsk[d], course) /\ delAsk[d] \in Convs
    BY <1>1, <2>1, CalmIsAloneParts DEF Deleting, DeletionIsHere, DeletesName
  <2>3. Owed(course)'
    BY <1>1, <2>1 DEF Owed, Types
  <2>4. ASSUME c # course
        PROVE  ~Owed(c) /\ Page(c)' = Page(c)
    <3>1. \A j \in Convs : home'[j] = c <=> home[j] = c
      BY <2>1, <2>2, <2>4, ClientAssumption DEF BelongsTo, Types
    <3> QED
      BY <2>1, <2>4, <3>1, PageStays DEF Owed
  <2> QED
    BY <1>1, <2>1, <2>3, <2>4, ListIsLeft
<1>4. CASE Deleted(d)
  <2>1. /\ delPc[d] = "deleted" /\ home' = home /\ touched' = touched
        /\ sessions' = [sessions EXCEPT ![course] = Invalidate(@, TRUE, {})]
    BY <1>4 DEF Deleted, RefreshList, server
  <2>2. sessions[course].loaded
    BY <1>1, <2>1, CalmIsAloneParts, UnderWayIs DEF Deleting
  <2> QED
    BY <1>1, <2>1, <2>2, ListIsRefreshed
<1> QED
  BY <1>2, <1>3, <1>4, DeletionSteps

LEMMA FetchingKeepsLists ==
  ASSUME Types, CalmLists, Fetch \/ Lapse, calm', NEW c \in Courses
  PROVE  ListIsCalm(c)'
<1>1. calm /\ UNCHANGED <<home, touched, course, pc, delPc>>
  BY Fetches DEF server, sendVars, delVars
<1>2. (Owed(c)' <=> Owed(c)) /\ Page(c)' = Page(c) /\ Page(c) \in SUBSET Convs
  BY <1>1, PageStays, PageIsOwn DEF Owed
<1>3. CASE sessions'[c] = sessions[c]
  BY <1>1, <1>2, <1>3, ListIsLeft
<1>4. CASE sessions'[c] # sessions[c]
  <2>1. PICK e \in Entry(SUBSET Convs) : FetchesList(c, e) /\ sessions'[c] = e
    BY <1>4, Fetches DEF Types
  <2>4. sessions[c] \in Entry(SUBSET Convs) /\ {} \in SUBSET Convs
    BY Typed
  <2>2. e.loaded /\ ~e.old => e.wire = "idle"
    <3>1. sessions[c].loaded /\ ~sessions[c].old => sessions[c].wire = "idle"
      BY <1>1 DEF CalmLists
    <3> QED
      BY <2>1, <2>4, <3>1, FreshIsIdle DEF FetchesList
  <2>3. ~Owed(c) => Faithful(e, Page(c))
    <3>1. ~Owed(c) => Faithful(sessions[c], Page(c))
      BY <1>1 DEF CalmLists
    <3> SUFFICES ASSUME ~Owed(c)
                 PROVE  Faithful(e, Page(c))
      OBVIOUS
    <3>2. /\ \A f \in Lapsed(sessions[c], {}) : Faithful(f, Page(c))
          /\ sessions[c].wire = "asked" => Faithful(Read(sessions[c], Page(c)), Page(c))
          /\ sessions[c].wire = "read" => Faithful(Deliver(sessions[c], {}), Page(c))
      BY <1>2, <2>4, <3>1, FaithfulStays
    <3> QED
      BY <2>1, <3>2 DEF FetchesList
  <2> QED
    BY <1>2, <2>1, <2>2, <2>3 DEF ListIsCalm
<1> QED
  BY <1>3, <1>4

LEMMA ListsStayCalm ==
  ASSUME Types, IdleNamesNone, DeletesName, CalmIsAlone, CalmLists, Next
  PROVE  CalmLists'
<1> SUFFICES ASSUME calm', NEW c \in Courses
             PROVE  ListIsCalm(c)'
  BY DEF CalmLists, ListIsCalm
<1>1. \A s \in Sends : ~Failed(s)
  BY CalmOnlyEnds
<1> QED
  BY <1>1, Steps, MovingKeepsLists, QuestionKeepsLists, DeletionKeepsLists, FetchingKeepsLists

----------------------------------------------------------------------------
(* The invariant, and what it means                                        *)

LEMMA InitIInv == Init => IInv
<1> SUFFICES ASSUME Init
             PROVE  IInv
  OBVIOUS
<1>1. /\ \A k \in Convs : messages[k] = NoEntry(<<>>) /\ stored[k] = <<>>
      /\ \A c \in Courses : sessions[c] \in {NoEntry({}), InView(NoEntry({}))}
  BY DEF Init
<1>2. NoEntry(<<>>) \in Entry(Seq(Row)) /\ <<>> \in Seq(Row)
  <2>1. <<>> \in Seq(Row)
    OBVIOUS
  <2> QED
    BY <2>1, NewEntries
<1>3. NoEntry({}) \in Entry(SUBSET Convs) /\ InView(NoEntry({})) \in Entry(SUBSET Convs)
  <2>1. NoEntry({}) \in Entry(SUBSET Convs)
    BY NewEntries
  <2> QED
    BY <2>1, EntriesStay
<1>4. Types
  <2>1. messages \in [Convs -> Entry(Seq(Row))] /\ sessions \in [Courses -> Entry(SUBSET Convs)]
    BY <1>2, <1>3 DEF Init
  <2>2. asked \in [Sends -> Ask] /\ before \in [Sends -> Detail]
    BY <1>2, ClientAssumption DEF Init, Ask, Detail, NoAsk, NoDetail
  <2>3. stored \in [Convs -> Seq(Sends)] /\ <<>> \in Seq(Sends) /\ DOMAIN touched = Convs
    BY DEF Init
  <2>4. /\ home \in [Convs -> Courses \cup {"unborn", "deleted"}] /\ course \in Courses
        /\ chat \in [Courses -> Convs \cup {None}] /\ pc \in [Sends -> {"idle"} \cup Asked]
        /\ calm \in BOOLEAN
    BY ClientAssumption DEF Init
  <2>5. /\ delPc \in [Deletes -> {"idle", "asked", "deleted", "done", "failed"}]
        /\ delAsk \in [Deletes -> Convs \cup {None}]
    BY DEF Init
  <2> QED
    BY <2>1, <2>2, <2>3, <2>4, <2>5 DEF Types
<1>5. OneQuestion /\ IdleNamesNone /\ DeletesName /\ ~UnderWay
  BY DEF Init, OneQuestion, Running, IdleNamesNone, NoAsk, DeletesName, UnderWay, IsTyping, Deleting
<1>6. BornBeforeSeen
  BY <1>1 DEF Init, BornBeforeSeen, Born, NoAsk
<1>7. ListsAreOwn
  BY <1>1 DEF ListsAreOwn, NoEntry, InView
<1>8. RowsAreReal
  <2>1. \A k \in Convs : messages[k].data = <<>> /\ messages[k].reply = <<>>
    BY <1>1 DEF NoEntry
  <2>2. \A k \in Convs : stored[k] \in Seq(Sends)
    BY <1>4 DEF Types
  <2>3. \A s \in Sends : before[s].rows = <<>>
    BY DEF Init, NoDetail
  <2> QED
    BY <2>1, <2>2, <2>3, StoredIsReal DEF RowsAreReal, Rows
<1>9. CalmIsAlone
  BY <1>5, UnderWayIs DEF Init, CalmIsAlone
<1>10. CalmMessages
  <2>1. \A k \in Convs : ~Due(k)
    BY <1>5, UnderWayIs DEF Due
  <2> QED
    BY <1>1, <2>1, FirstIsFaithful DEF CalmMessages
<1>11. CalmLists
  <2>1. \A c \in Courses : Faithful(sessions[c], Page(c))
    BY <1>1, FirstIsFaithful
  <2> QED
    BY <2>1 DEF CalmLists, Faithful
<1> QED
  BY <1>4, <1>5, <1>6, <1>7, <1>8, <1>9, <1>10, <1>11 DEF IInv

LEMMA StepKeepsTypes ==
  ASSUME Types, Next
  PROVE  Types'
BY Steps, MovingKeepsTypes, SendKeepsTypes, ServerStoresKeepsTypes, AnsweredKeepsTypes,
   FailedKeepsTypes, DeletionKeepsTypes, FetchingKeepsTypes DEF Moves, Deletion

LEMMA StepKeepsRows ==
  ASSUME Types, RowsAreReal, IdleNamesNone, Next
  PROVE  RowsAreReal'
BY Steps, MovingKeepsRows, SendKeepsRows, ServerStoresKeepsRows, AnsweredKeepsRows,
   FailedKeepsRows, DeletionKeepsRows, FetchingKeepsRows DEF Moves, Deletion

LEMMA NextKeepsIInv == IInv /\ [Next]_vars => IInv'
<1>1. ASSUME IInv, Next
      PROVE  IInv'
  BY <1>1, StepKeepsTypes, QuestionsStayInOrder, BornBeforeSeenStays, ListsStayOwn, StepKeepsRows,
     CalmStaysAlone, MessagesStayCalm, ListsStayCalm DEF IInv
<1>2. ASSUME IInv, UNCHANGED vars
      PROVE  IInv'
  <2>1. UNCHANGED <<home, stored, touched, course, chat, messages, sessions, pc, asked, before,
                    delPc, delAsk, calm>>
    BY <1>2 DEF vars, server, caches, sendVars, delVars
  <2>2. Types' /\ OneQuestion' /\ IdleNamesNone' /\ DeletesName'
    BY <1>2, <2>1 DEF IInv, Types, OneQuestion, Running, IdleNamesNone, DeletesName
  <2>3. BornBeforeSeen' /\ ListsAreOwn' /\ RowsAreReal'
    BY <1>2, <2>1 DEF IInv, BornBeforeSeen, Born, ListsAreOwn, BelongsTo, RowsAreReal, Rows
  <2>4. CalmIsAlone'
    BY <1>2, <2>1 DEF IInv, CalmIsAlone, Running, Deleting, UnderWay, IsTyping, Shown, BelongsTo
  <2>5. CalmMessages' /\ CalmLists'
    BY <1>2, <2>1, PageStays DEF IInv, CalmMessages, Due, Running, CalmLists, Owed
  <2> QED
    BY <2>2, <2>3, <2>4, <2>5 DEF IInv
<1> QED
  BY <1>1, <1>2

(* For any courses, conversations, questions and deletions: IInv, which    *)
(* ties the rows and lists of the cache to what the server stored, to what *)
(* is under way and to where the user is, is an invariant of the chat pane *)
(* (useChatSession.tsx:60-262).                                            *)
THEOREM ClientInvariantHolds == Spec => []IInv
BY InitIInv, NextKeepsIInv, PTL DEF Spec

(* The rows of a conversation, those a failure would put back included,    *)
(* are the first turns stored in it and then questions asked in it, however *)
(* answers, failures, refetches and moves interleave                       *)
(* (useChatSession.tsx:156-240).                                           *)
THEOREM RowsAreAlwaysReal == Spec => []RowsAreReal
<1>1. IInv => RowsAreReal
  BY DEF IInv
<1> QED
  BY <1>1, ClientInvariantHolds, PTL

(* A user who waits and meets no failure sees the conversation as it is    *)
(* stored whenever its messages count as fresh (useChatSession.tsx:163-201, *)
(* 231-238).                                                               *)
THEOREM CalmScreenIsAlwaysTheServer == Spec => []CalmScreenIsTheServer
<1>1. ASSUME IInv
      PROVE  CalmScreenIsTheServer
  <2>1. ASSUME ~UnderWay, NEW k \in Convs
        PROVE  ~Due(k)
    BY <2>1, UnderWayIs DEF Due
  <2> QED
    BY <1>1, <2>1 DEF IInv, CalmMessages, Faithful, Settled, CalmScreenIsTheServer, Rows
<1> QED
  BY <1>1, ClientInvariantHolds, PTL

(* Likewise a course's history that counts as fresh is the page of the     *)
(* last touched conversations the server would answer now                  *)
(* (useChatSession.tsx:120-124, 226-229, 248-250, chat.py:29-58).          *)
THEOREM CalmHistoryIsAlwaysTheServer == Spec => []CalmHistoryIsTheServer
<1>1. ASSUME IInv
      PROVE  CalmHistoryIsTheServer
  BY <1>1, NothingOwed DEF IInv, CalmLists, Faithful, Settled, CalmHistoryIsTheServer
<1> QED
  BY <1>1, ClientInvariantHolds, PTL

=============================================================================
