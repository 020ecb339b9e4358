--------------------------- MODULE ChatTurnProofs ---------------------------
(***************************************************************************)
(* What holds of ChatTurn for any users, courses, conversations, number of *)
(* turns under way and crashes; at the end, what holds of Grounding, the   *)
(* gate an answer passes before it is stored.                              *)
(***************************************************************************)
EXTENDS ChatTurn, Grounding, FiniteSetTheorems, WellFoundedInduction, TLAPS

\* The types that need neither a count of the clock's readings nor what pairing
\* rows returns.
Typed ==
  /\ owner \in [Courses -> Users \cup {None}]
  /\ corrected \in SUBSET Users
  /\ home \in [Convs -> Courses \cup {"unborn", "deleted"}]
  /\ pc \in [Turns -> {"idle", "answered", "failed"} \cup LivePc]
  /\ asked \in [Turns -> Request \cup {NoRequest}]
  /\ into \in [Turns -> Convs \cup {None}]
  /\ under \in [Turns -> Courses \cup {None}]
  /\ seen \in [Turns -> SUBSET Turns]
  /\ \A m \in message : m.turn \in Turns
  /\ clock \in Nat
  /\ stamp \in [Turns -> [asked : Nat, answered : Nat]]
  /\ grounded \in [Turns -> BOOLEAN]
  /\ delPc \in [Deletes -> {"idle", "delete", "done"}]
  /\ delAsk \in [Deletes -> Request \cup {NoRequest}]

SettledPc == {"refresh", "history", "stamp", "insert", "answered"} \cup HoldsPc

\* A turn knows who asks; the conversation it settled on was opened, and belongs
\* to whoever asks as long as it is there, which it is while the turn holds it;
\* the course it is about to open one under belongs to them too; and the turns
\* it read are stored turns of the same user.
TurnHolds(t) ==
  /\ pc[t] = "idle" => into[t] = None /\ seen[t] = {}
  /\ pc[t] \in LivePc \cup {"answered"} => asked[t] \in Request
  /\ pc[t] \in SettledPc => into[t] \in Convs
  /\ pc[t] \in HoldsPc => Exists(into[t])
  /\ pc[t] \in {"open", "make"} => under[t] \in Courses
  /\ pc[t] = "open" => owner[under[t]] = asked[t].user
  /\ into[t] \in Convs => /\ home[into[t]] # "unborn"
                          /\ Exists(into[t]) => owner[home[into[t]]] = asked[t].user
  /\ \A q \in seen[t] : pc[q] = "answered" /\ asked[q].user = asked[t].user

TurnsHold == \A t \in Turns : TurnHolds(t)

\* A conversation is below a course that somebody owns.
ConvsAreOwned == \A k \in Convs : Exists(k) => owner[home[k]] \in Users

\* A delete has found the conversation it deletes.
DeletesHold == \A d \in Deletes : delPc[d] = "delete" => delAsk[d].conv \in Convs

IInv == Typed /\ TurnsHold /\ ConvsAreOwned /\ DeletesHold /\ TurnsAreWhole

----------------------------------------------------------------------------
(* One lemma per action.                                                   *)

\* A turn that raises leaves nothing behind.
LEMMA RaiseKeepsIInv ==
  ASSUME IInv, NEW t \in Turns, pc[t] \in LivePc, Raise(t), UNCHANGED <<clock, delVars>>
  PROVE  IInv'
<1> USE DEF IInv
<1>0. /\ \A q \in Turns : pc'[q] = IF q = t THEN "failed" ELSE pc[q]
      /\ \A q \in Turns : q # t =>
           /\ asked'[q] = asked[q] /\ into'[q] = into[q] /\ under'[q] = under[q]
           /\ seen'[q] = seen[q] /\ stamp'[q] = stamp[q] /\ grounded'[q] = grounded[q]
      /\ into'[t] = None /\ seen'[t] = {}
      /\ UNCHANGED <<owner, home, message, clock, delPc, delAsk>>
  BY DEF Raise, Goto, Forget, Typed, rowVars, delVars
<1>1. Typed'
  BY DEF Typed, NoStamp, Raise, Goto, Forget, rowVars, delVars
<1>2. TurnsHold'
  <2>1. ASSUME NEW q \in Turns, q # t PROVE TurnHolds(q)'
    BY <1>0, <2>1 DEF Typed, TurnsHold, TurnHolds, Exists, LivePc, HoldsPc
  <2>2. TurnHolds(t)'
    BY <1>0, NoneAssumption DEF TurnHolds, LivePc, HoldsPc, SettledPc
  <2> QED
    BY <2>1, <2>2 DEF TurnsHold
<1>3. ConvsAreOwned' /\ DeletesHold'
  BY <1>0 DEF ConvsAreOwned, DeletesHold, Exists
<1>4. TurnsAreWhole'
  BY <1>0 DEF TurnsAreWhole, RowsOf, Row, Exists, LivePc, HoldsPc
<1> QED
  BY <1>1, <1>2, <1>3, <1>4

\* A request arrives.
LEMMA AskKeepsIInv ==
  ASSUME IInv, NEW t \in Turns, Ask(t)
  PROVE  IInv'
<1> USE DEF IInv
<1>1. Typed'
  BY DEF Typed, LivePc, Ask, Goto, rowVars, delVars
<1>2. TurnsHold'
  BY NoneAssumption DEF Typed, TurnsHold, TurnHolds, Exists, HoldsPc, SettledPc, Ask, Goto, rowVars
<1>3. ConvsAreOwned' /\ DeletesHold'
  BY DEF ConvsAreOwned, DeletesHold, Exists, Ask, rowVars, delVars
<1>4. TurnsAreWhole'
  BY DEF TurnsAreWhole, RowsOf, Row, Exists, Ask, Goto, rowVars
<1> QED
  BY <1>1, <1>2, <1>3, <1>4

\* The conversation the request names is taken if it is the asker's.
LEMMA LookupKeepsIInv ==
  ASSUME IInv, NEW t \in Turns, Lookup(t)
  PROVE  IInv'
<1> USE DEF IInv
<1>1. Typed'
  BY DEF Typed, TurnsHold, TurnHolds, LivePc, HoldsPc, Request, NoRequest, NoStamp, Lookup, Goto,
         rowVars, delVars, Owns
<1>2. TurnsHold'
  BY HomesAssumption
     DEF Typed, TurnsHold, TurnHolds, ConvsAreOwned, Request, Exists, Owns, HoldsPc, SettledPc,
         Lookup, Goto, rowVars, Owns
<1>3. ConvsAreOwned' /\ DeletesHold'
  BY DEF ConvsAreOwned, DeletesHold, Exists, Lookup, rowVars, delVars
<1>4. TurnsAreWhole'
  BY DEF Typed, TurnsAreWhole, RowsOf, Row, Exists, Lookup, Goto, rowVars
<1> QED
  BY <1>1, <1>2, <1>3, <1>4

\* Without one, a course to open one under.
LEMMA PickCourseKeepsIInv ==
  ASSUME IInv, NEW t \in Turns, PickCourse(t)
  PROVE  IInv'
<1> USE DEF IInv
<1>1. Typed'
  BY DEF Typed, LivePc, PickCourse, Goto, rowVars, delVars
<1>2. TurnsHold'
  BY DEF Typed, TurnsHold, TurnHolds, Exists, HoldsPc, SettledPc, PickCourse, Goto, rowVars
<1>3. ConvsAreOwned' /\ DeletesHold'
  BY DEF ConvsAreOwned, DeletesHold, Exists, PickCourse, rowVars, delVars
<1>4. TurnsAreWhole'
  BY DEF TurnsAreWhole, RowsOf, Row, Exists, PickCourse, Goto, rowVars
<1> QED
  BY <1>1, <1>2, <1>3, <1>4

\* A new conversation is opened under a course of the asker's.
LEMMA OpenConversationKeepsIInv ==
  ASSUME IInv, NEW t \in Turns, OpenConversation(t)
  PROVE  IInv'
<1> USE DEF IInv
<1>1. Typed'
  BY DEF Typed, TurnsHold, TurnHolds, LivePc, OpenConversation, Goto, delVars, OpenUnder
<1>2. TurnsHold'
  BY HomesAssumption DEF Typed, TurnsHold, TurnHolds, Exists, OpenConversation, Goto, OpenUnder
<1>3. ConvsAreOwned' /\ DeletesHold'
  BY DEF TurnsHold, TurnHolds, ConvsAreOwned, DeletesHold, Request, Exists, LivePc,
         OpenConversation, delVars, OpenUnder
<1>4. TurnsAreWhole'
  BY DEF TurnsHold, TurnHolds, TurnsAreWhole, RowsOf, Row, Exists, OpenConversation, Goto, OpenUnder
<1> QED
  BY <1>1, <1>2, <1>3, <1>4

\* Auto-correction inserts the course first.
LEMMA MakeCourseKeepsIInv ==
  ASSUME IInv, NEW t \in Turns, MakeCourse(t)
  PROVE  IInv'
<1>1. CASE Raise(t)
  BY <1>1, RaiseKeepsIInv DEF MakeCourse, LivePc
<1>2. CASE ~Raise(t)
  <2> USE DEF IInv
  <2> DEFINE u == asked[t].user
             c == under[t]
  <2>1. /\ pc[t] = "make" /\ owner[c] = None /\ owner' = [owner EXCEPT ![c] = u]
        /\ corrected' = corrected \cup {u} /\ OpenUnder(t, c)
        /\ UNCHANGED <<message, asked, seen, history, stamp, grounded, clock, delVars>>
    BY <1>2 DEF MakeCourse
  <2>2. asked[t] \in Request /\ u \in Users /\ c \in Courses
    BY <2>1 DEF TurnsHold, TurnHolds, LivePc, Request
  <2>3. /\ owner'[c] = u /\ \A d \in Courses : d # c => owner'[d] = owner[d]
        /\ owner' \in [Courses -> Users \cup {None}]
    BY <2>1, <2>2 DEF Typed
  <2>4. PICK k \in Convs :
          /\ home[k] = "unborn" /\ home' = [home EXCEPT ![k] = c]
          /\ into' = [into EXCEPT ![t] = k] /\ under' = [under EXCEPT ![t] = None]
          /\ pc' = [pc EXCEPT ![t] = "refresh"]
    BY <2>1 DEF OpenUnder, Goto
  <2>5. Typed'
    BY <2>1, <2>2, <2>4 DEF Typed, LivePc, delVars
  <2>6. ConvsAreOwned' /\ DeletesHold'
    BY <2>1, <2>2, <2>3, <2>4 DEF ConvsAreOwned, DeletesHold, Exists, delVars
  <2>7. TurnsHold'
    <3>1. ASSUME NEW q \in Turns, q # t
          PROVE  TurnHolds(q)'
      <4>1. /\ pc'[q] = pc[q] /\ into'[q] = into[q] /\ under'[q] = under[q] /\ TurnHolds(q)
            /\ UNCHANGED <<asked, seen>>
        BY <2>1, <2>4, <3>1 DEF Typed, TurnsHold
      <4>2. into[q] \in Convs => into[q] # k /\ home'[into[q]] = home[into[q]]
        BY <2>4, <4>1 DEF TurnHolds, Typed
      <4>3. owner[under[q]] = asked[q].user /\ pc[q] = "open" => owner'[under[q]] = owner[under[q]]
        BY <2>1, <4>1, NoneAssumption DEF TurnHolds, LivePc, Request
      <4>4. into[q] \in Convs /\ Exists(into[q]) => owner'[home[into[q]]] = owner[home[into[q]]]
        BY <2>1, <2>3, NoneAssumption DEF ConvsAreOwned, Exists
      <4>5. \A p \in seen[q] : pc[p] = "answered" => pc'[p] = "answered"
        BY <2>1, <2>4 DEF Typed
      <4>6. Exists(into[q])' <=> home'[into[q]] \in Courses
        BY <4>1 DEF Exists
      <4> QED
        BY <4>1, <4>2, <4>3, <4>4, <4>5 DEF TurnHolds, Exists, SettledPc
    <3>2. TurnHolds(t)'
      BY <2>1, <2>4, HomesAssumption DEF Typed, TurnsHold, TurnHolds, HoldsPc
    <3> QED
      BY <3>1, <3>2 DEF TurnsHold
  <2>8. TurnsAreWhole'
    BY <2>1, <2>4 DEF TurnsHold, TurnHolds, TurnsAreWhole, RowsOf, Row, Exists
  <2> QED
    BY <2>5, <2>6, <2>7, <2>8
<1> QED
  BY <1>1, <1>2

\* The new conversation is read back.
LEMMA RefreshConversationKeepsIInv ==
  ASSUME IInv, NEW t \in Turns, RefreshConversation(t)
  PROVE  IInv'
<1>1. CASE Raise(t)
  BY <1>1, RaiseKeepsIInv DEF RefreshConversation, LivePc
<1>2. CASE ~Raise(t)
  <2> USE DEF IInv
  <2>1. /\ pc[t] = "refresh"
        /\ pc' = [pc EXCEPT ![t] = IF asked[t].conv # None THEN "history" ELSE "stamp"]
        /\ UNCHANGED <<rowVars, asked, into, under, seen, history, stamp, grounded, clock, delVars>>
    BY <1>2 DEF RefreshConversation, Goto
  <2> USE DEF rowVars, delVars
  <2>2. Typed'
    BY <2>1 DEF Typed, LivePc
  <2>3. TurnsHold'
    BY <2>1 DEF TurnsHold, TurnHolds, Exists, LivePc, HoldsPc, SettledPc
  <2>4. ConvsAreOwned' /\ DeletesHold'
    BY <2>1 DEF ConvsAreOwned, DeletesHold, Exists
  <2>5. TurnsAreWhole'
    BY <2>1 DEF Typed, TurnsAreWhole, RowsOf, Row, Exists
  <2> QED
    BY <2>2, <2>3, <2>4, <2>5
<1> QED
  BY <1>1, <1>2

\* The rows of the conversation are read.
LEMMA ReadHistoryKeepsIInv ==
  ASSUME IInv, NEW t \in Turns, ReadHistory(t)
  PROVE  IInv'
<1> USE DEF IInv
<1>1. Typed'
  BY DEF Typed, LivePc, ReadHistory, Goto, rowVars, delVars, RowsIn
<1>2. TurnsHold'
  <2>1. \A q \in Turns : /\ pc'[q] = IF q = t THEN "stamp" ELSE pc[q]
                         /\ q # t => seen'[q] = seen[q]
    BY DEF ReadHistory, Goto, Typed
  <2>2. \A q \in seen'[t] : pc[q] = "answered" /\ Exists(into[t]) /\ into[q] = into[t]
    <3>1. seen'[t] = {m.turn : m \in RowsIn(into[t])}
      BY DEF ReadHistory, Typed
    <3>2. \A m \in message : m \in {n \in message : n.turn = m.turn} /\ m.turn \in Turns
      BY DEF Typed
    <3> QED
      BY <3>1, <3>2 DEF RowsIn, TurnsAreWhole
  <2>3. \A q \in seen'[t] : asked[q].user = asked[t].user
    <3>1. into[t] \in Convs /\ pc[t] = "history"
      BY DEF ReadHistory, TurnsHold, TurnHolds, SettledPc
    <3>2. seen'[t] \subseteq Turns
      BY <1>1 DEF Typed
    <3> QED
      BY <2>2, <3>1, <3>2 DEF TurnsHold, TurnHolds
  <2>4. UNCHANGED <<owner, home, asked, into, under>>
    BY DEF ReadHistory, rowVars
  <2>5. ASSUME NEW q \in Turns PROVE TurnHolds(q)'
    <3>1. TurnHolds(q) /\ (q = t => pc[t] = "history")
      BY DEF TurnsHold, ReadHistory
    <3>2. CASE q = t
      <4>1. \A p \in seen'[t] : p \in Turns /\ pc'[p] = "answered"
        BY <1>1, <2>1, <2>2, <3>1, <3>2 DEF Typed
      <4>2. pc'[t] = "stamp" /\ Exists(into[t])' = Exists(into[t])
        BY <2>1, <2>4 DEF Exists
      <4> QED
        BY <2>3, <2>4, <3>1, <3>2, <4>1, <4>2 DEF TurnHolds, LivePc, HoldsPc, SettledPc
    <3>3. CASE q # t
      BY <2>1, <2>4, <3>1, <3>3 DEF Typed, TurnHolds, Exists, ReadHistory
    <3> QED
      BY <3>2, <3>3
  <2> QED
    BY <2>5 DEF TurnsHold
<1>3. ConvsAreOwned' /\ DeletesHold'
  BY DEF ConvsAreOwned, DeletesHold, Exists, ReadHistory, rowVars, delVars
<1>4. TurnsAreWhole'
  BY DEF TurnsAreWhole, RowsOf, Row, Exists, ReadHistory, Goto, rowVars
<1> QED
  BY <1>1, <1>2, <1>3, <1>4

\* The question is stamped.
LEMMA StampQuestionKeepsIInv ==
  ASSUME IInv, NEW t \in Turns, StampQuestion(t)
  PROVE  IInv'
<1> USE DEF IInv
<1>1. Typed'
  BY DEF Typed, LivePc, StampQuestion, Goto, rowVars, delVars
<1>2. TurnsHold'
  BY DEF TurnsHold, TurnHolds, Exists, LivePc, HoldsPc, SettledPc, StampQuestion, Goto, rowVars
<1>3. ConvsAreOwned' /\ DeletesHold'
  BY DEF ConvsAreOwned, DeletesHold, Exists, StampQuestion, rowVars, delVars
<1>4. TurnsAreWhole'
  BY DEF TurnsAreWhole, RowsOf, Row, Exists, StampQuestion, Goto, rowVars
<1> QED
  BY <1>1, <1>2, <1>3, <1>4

\* The question is inserted, if the conversation is still there.
LEMMA InsertQuestionKeepsIInv ==
  ASSUME IInv, NEW t \in Turns, InsertQuestion(t)
  PROVE  IInv'
<1>1. CASE Raise(t)
  BY <1>1, RaiseKeepsIInv DEF InsertQuestion, LivePc
<1>2. CASE ~Raise(t)
  <2> USE DEF IInv
  <2>1. /\ pc[t] = "insert" /\ Exists(into[t]) /\ pc' = [pc EXCEPT ![t] = "generate"]
        /\ UNCHANGED <<rowVars, asked, into, under, seen, history, stamp, grounded, clock, delVars>>
    BY <1>2 DEF InsertQuestion, Goto
  <2> USE DEF rowVars, delVars
  <2>2. Typed'
    BY <2>1 DEF Typed, LivePc, HoldsPc
  <2>3. TurnsHold'
    BY <2>1 DEF TurnsHold, TurnHolds, Exists, LivePc, SettledPc
  <2>4. ConvsAreOwned' /\ DeletesHold'
    BY <2>1 DEF ConvsAreOwned, DeletesHold, Exists
  <2>5. TurnsAreWhole'
    BY <2>1 DEF Typed, TurnsAreWhole, RowsOf, Row, Exists
  <2> QED
    BY <2>2, <2>3, <2>4, <2>5
<1> QED
  BY <1>1, <1>2

\* An exception leaves the handler.
LEMMA RetrievalFailsKeepsIInv ==
  ASSUME IInv, NEW t \in Turns, RetrievalFails(t)
  PROVE  IInv'
BY RaiseKeepsIInv DEF RetrievalFails, LivePc, HoldsPc

\* The answer is there.
LEMMA GenerateKeepsIInv ==
  ASSUME IInv, NEW t \in Turns, Generate(t)
  PROVE  IInv'
<1> USE DEF IInv
<1>1. Typed'
  BY DEF Typed, LivePc, HoldsPc, Generate, Goto, rowVars, delVars, AfterGeneration
<1>2. TurnsHold'
  BY DEF TurnsHold, TurnHolds, Exists, LivePc, HoldsPc, SettledPc, Generate, Goto, rowVars,
         AfterGeneration
<1>3. ConvsAreOwned' /\ DeletesHold'
  BY DEF ConvsAreOwned, DeletesHold, Exists, Generate, rowVars, delVars
<1>4. TurnsAreWhole'
  BY DEF TurnsAreWhole, RowsOf, Row, Exists, Generate, Goto, rowVars, AfterGeneration
<1> QED
  BY <1>1, <1>2, <1>3, <1>4

\* Question and answer are committed.
LEMMA CommitKeepsIInv ==
  ASSUME IInv, NEW t \in Turns, Commit(t)
  PROVE  IInv'
<1> USE DEF IInv
<1>1. Typed'
  BY DEF Typed, RowsOf, Row, Commit, Goto, delVars
<1>2. TurnsHold'
  BY DEF TurnsHold, TurnHolds, Exists, LivePc, HoldsPc, SettledPc, Commit, Goto
<1>3. ConvsAreOwned' /\ DeletesHold'
  BY DEF ConvsAreOwned, DeletesHold, Exists, Commit, delVars
<1>4. TurnsAreWhole'
  BY DEF Typed, TurnsHold, TurnHolds, TurnsAreWhole, RowsOf, Row, Exists, HoldsPc, Commit, Goto
<1> QED
  BY <1>1, <1>2, <1>3, <1>4

\* A session is to be deleted.
LEMMA AskDeleteKeepsIInv ==
  ASSUME IInv, NEW d \in Deletes, AskDelete(d)
  PROVE  IInv'
<1> USE DEF IInv
<1>1. Typed'
  BY DEF Typed, Request, AskDelete, rowVars, turnVars
<1>2. TurnsHold'
  BY DEF TurnsHold, TurnHolds, Exists, AskDelete, rowVars, turnVars
<1>3. ConvsAreOwned' /\ DeletesHold'
  BY DEF Typed, ConvsAreOwned, DeletesHold, Exists, AskDelete, rowVars
<1>4. TurnsAreWhole'
  BY DEF TurnsAreWhole, RowsOf, Exists, AskDelete, rowVars, turnVars
<1> QED
  BY <1>1, <1>2, <1>3, <1>4

\* It is, with its messages.
LEMMA DeleteKeepsIInv ==
  ASSUME IInv, NEW d \in Deletes, Delete(d)
  PROVE  IInv'
<1> USE DEF IInv
<1>1. Typed'
  BY DEF Typed, Delete, turnVars
<1>2. TurnsHold'
  BY HomesAssumption DEF TurnsHold, TurnHolds, Exists, Delete, turnVars, HoldersOf
<1>3. ConvsAreOwned' /\ DeletesHold'
  BY HomesAssumption DEF ConvsAreOwned, DeletesHold, Exists, Delete
<1>4. TurnsAreWhole'
  BY HomesAssumption
     DEF Typed, TurnsHold, TurnHolds, TurnsAreWhole, RowsOf, Row, Exists, SettledPc, Delete,
         turnVars, RowsIn
<1> QED
  BY <1>1, <1>2, <1>3, <1>4

\* The process dies.
LEMMA CrashKeepsIInv ==
  ASSUME IInv, Crash
  PROVE  IInv'
<1> USE DEF IInv
<1>1. Typed'
  BY DEF Typed, NoStamp, Crash, rowVars, Forget
<1>2. TurnsHold'
  BY NoneAssumption
     DEF Typed, TurnsHold, TurnHolds, Exists, LivePc, HoldsPc, SettledPc, Crash, rowVars, Forget
<1>3. ConvsAreOwned' /\ DeletesHold'
  BY DEF ConvsAreOwned, DeletesHold, Exists, Crash, rowVars
<1>4. TurnsAreWhole'
  BY DEF Typed, TurnsAreWhole, RowsOf, Exists, LivePc, HoldsPc, Crash, rowVars, Forget
<1> QED
  BY <1>1, <1>2, <1>3, <1>4

----------------------------------------------------------------------------
(* The inductive invariant.                                                *)

LEMMA InitIInv == Init => IInv
<1> SUFFICES ASSUME Init PROVE IInv
  OBVIOUS
<1> USE PastAssumption, RegisteredAssumption, NoneAssumption, HomesAssumption DEF Init
<1>1. \A t \in Turns : Contains(Past, t) => \E n \in DOMAIN Past : Past[n] = t
  BY DEF Contains
<1>2. \A n \in DOMAIN Past : Past[n] \in Turns /\ Contains(Past, Past[n])
  BY DEF Contains
<1> DEFINE At(n) == [asked |-> 2 * n - 1, answered |-> 2 * n]
           Place(t) == CHOOSE n \in DOMAIN Past : Past[n] = t
<1>a. \A t \in Turns : Contains(Past, t) => Place(t) \in 1 .. Len(Past)
  BY <1>1
<1>b. stamp = [t \in Turns |-> IF Contains(Past, t) THEN At(Place(t)) ELSE NoStamp]
  OBVIOUS
<1>c. \A n \in 1 .. Len(Past) : At(n) \in [asked : Nat, answered : Nat]
  OBVIOUS
<1>d. message = UNION {RowsOf(Past[n]) : n \in DOMAIN Past}
  OBVIOUS
<1>e. \A t : \A m \in RowsOf(t) : m.turn = t
  BY DEF RowsOf, Row
<1>3. Typed
  <2>1. stamp \in [Turns -> [asked : Nat, answered : Nat]]
    <3>1. NoStamp \in [asked : Nat, answered : Nat]
      BY DEF NoStamp
    <3> HIDE DEF Init, At, Place
    <3> QED
      BY <3>1, <1>a, <1>b, <1>c
  <2>2. \A m \in message : m.turn \in Turns
    <3> HIDE DEF Init
    <3> QED
      BY <1>2, <1>d, <1>e
  <2>3. /\ owner \in [Courses -> Users \cup {None}] /\ corrected \in SUBSET Users
        /\ home \in [Convs -> Courses \cup {"unborn", "deleted"}]
        /\ clock \in Nat /\ grounded \in [Turns -> BOOLEAN]
    OBVIOUS
  <2>4. /\ pc \in [Turns -> {"idle", "answered", "failed"} \cup LivePc]
        /\ asked \in [Turns -> Request \cup {NoRequest}]
        /\ into \in [Turns -> Convs \cup {None}] /\ under \in [Turns -> Courses \cup {None}]
        /\ seen \in [Turns -> SUBSET Turns]
    BY DEF Request
  <2>5. /\ delPc \in [Deletes -> {"idle", "delete", "done"}]
        /\ delAsk \in [Deletes -> Request \cup {NoRequest}]
    OBVIOUS
  <2> HIDE DEF Init
  <2> QED
    BY <2>1, <2>2, <2>3, <2>4, <2>5 DEF Typed
<1>4. TurnsHold
  BY DEF TurnsHold, TurnHolds, LivePc, HoldsPc, SettledPc, Request, Exists
<1>5. ConvsAreOwned /\ DeletesHold
  BY DEF ConvsAreOwned, DeletesHold, Exists
<1>6. TurnsAreWhole
  <2>1. ASSUME NEW t \in Turns, Contains(Past, t)
        PROVE  {m \in message : m.turn = t} = RowsOf(t)
    <3> HIDE DEF Init
    <3> QED
      BY <1>1, <1>d, <1>e, <2>1
  <2>2. ASSUME NEW t \in Turns, ~Contains(Past, t)
        PROVE  {m \in message : m.turn = t} = {}
    <3> HIDE DEF Init
    <3> QED
      BY <1>2, <1>d, <1>e, <2>2
  <2>3. \A t \in Turns : pc[t] = "answered" /\ Exists(into[t]) <=> Contains(Past, t)
    BY DEF Exists
  <2> QED
    BY <2>1, <2>2, <2>3 DEF TurnsAreWhole
<1> QED
  BY <1>3, <1>4, <1>5, <1>6 DEF IInv

LEMMA NextKeepsIInv == IInv /\ [Next]_vars => IInv'
<1> SUFFICES ASSUME IInv, [Next]_vars PROVE IInv'
  OBVIOUS
<1>1. ASSUME NEW t \in Turns, Ask(t) \/ TurnStep(t)
      PROVE  IInv'
  BY <1>1, AskKeepsIInv, LookupKeepsIInv, PickCourseKeepsIInv, OpenConversationKeepsIInv,
     MakeCourseKeepsIInv, RefreshConversationKeepsIInv, ReadHistoryKeepsIInv,
     StampQuestionKeepsIInv, InsertQuestionKeepsIInv, RetrievalFailsKeepsIInv, GenerateKeepsIInv,
     CommitKeepsIInv DEF TurnStep
<1>2. ASSUME NEW d \in Deletes, AskDelete(d) \/ Delete(d)
      PROVE  IInv'
  BY <1>2, AskDeleteKeepsIInv, DeleteKeepsIInv
<1>3. CASE Crash
  BY <1>3, CrashKeepsIInv
<1>4. CASE UNCHANGED vars
  BY <1>4 DEF vars, rowVars, turnVars, delVars, IInv, Typed, TurnsHold, TurnHolds, ConvsAreOwned,
              DeletesHold, TurnsAreWhole, RowsOf, Row, Exists
<1> QED
  BY <1>1, <1>2, <1>3, <1>4 DEF Next, Quiet

\* Every turn knows its asker, settles on a conversation of theirs, and keeps
\* the conversation there while it holds it (rag.py:446, services/chat.py:27); it
\* is what the two properties below rest on.
THEOREM ChatInvariantHolds == Spec => []IInv
  BY InitIInv, NextKeepsIInv, PTL DEF Spec

\* However turns, deletions and crashes interleave, what is stored of a turn is
\* its question and its answer, or nothing (rag.py:446, rag.py:590).
THEOREM TurnsAreAlwaysWhole == Spec => []TurnsAreWhole
<1>1. IInv => TurnsAreWhole
  BY DEF IInv
<1> QED
  BY <1>1, ChatInvariantHolds, PTL

\* A turn is never stored in another user's conversation and never reads one's,
\* for any ids the clients send (services/chat.py:27-48).
THEOREM TurnsAlwaysStayPrivate == Spec => []TurnsStayPrivate
<1>1. IInv => TurnsStayPrivate
  <2> SUFFICES ASSUME IInv, NEW t \in Turns
               PROVE  /\ \A m \in message : m.turn = t => Owns(asked[t].user, into[t])
                      /\ \A q \in seen[t] : asked[q].user = asked[t].user
    BY DEF TurnsStayPrivate
  <2>1. ASSUME NEW m \in message, m.turn = t
        PROVE  Owns(asked[t].user, into[t])
    <3>1. m \in {n \in message : n.turn = t}
      BY <2>1
    <3>2. pc[t] = "answered" /\ Exists(into[t])
      BY <3>1 DEF IInv, TurnsAreWhole
    <3> QED
      BY <3>2 DEF IInv, TurnsHold, TurnHolds, SettledPc, Owns
  <2> QED
    BY <2>1 DEF IInv, TurnsHold, TurnHolds
<1> QED
  BY <1>1, ChatInvariantHolds, PTL

----------------------------------------------------------------------------
(* The history: counting places                                            *)

Less == {ss \in Nat \X Nat : ss[1] < ss[2]}

\* A set that has 0, and the successor of each of its members, has every natural.
LEMMA SetInduction ==
  ASSUME NEW S, 0 \in S, \A n \in Nat : n \in S => n + 1 \in S
  PROVE  Nat \subseteq S
<1> DEFINE T == Nat \ S
<1> SUFFICES ASSUME T # {} PROVE FALSE
  OBVIOUS
<1>1. IsWellFoundedOn(Less, Nat)
  BY NatLessThanWellFounded DEF OpToRel, Less
<1>2. PICK m \in T : \A n \in T : ~(<<n, m>> \in Less)
  BY <1>1, WFMin
<1>3. m - 1 \in Nat /\ m - 1 < m
  BY <1>2
<1>4. <<m - 1, m>> \in Less
  BY <1>2, <1>3 DEF Less
<1> QED
  BY <1>2, <1>3, <1>4

\* Turns that did not overlap, each asked before it was answered.
OneByOne(Q) ==
  /\ \A q \in Q : stamp[q].asked \in Nat /\ stamp[q].answered \in Nat
                  /\ stamp[q].asked < stamp[q].answered
  /\ \A q, a \in Q : q # a =>
       stamp[q].answered < stamp[a].asked \/ stamp[a].answered < stamp[q].asked

\* They can be numbered in the order they were asked.
Numbers(e, Q, n) ==
  /\ e \in [1 .. n -> Q]
  /\ \A q \in Q : \E i \in 1 .. n : e[i] = q
  /\ \A i, j \in 1 .. n : i < j => stamp[e[i]].asked < stamp[e[j]].asked

AskedBy(Q, q) == {p \in Q : stamp[p].asked <= stamp[q].asked}

LEMMA NumbersExist ==
  ASSUME NEW Q, IsFiniteSet(Q), OneByOne(Q)
  PROVE  \E e : Numbers(e, Q, Cardinality(Q))
<1> DEFINE n == Cardinality(Q)
           rank == [q \in Q |-> Cardinality(AskedBy(Q, q))]
           e == [i \in 1 .. n |-> CHOOSE q \in Q : rank[q] = i]
<1>1. n \in Nat
  BY FS_CardinalityType
<1>2. ASSUME NEW q \in Q
      PROVE  /\ IsFiniteSet(AskedBy(Q, q)) /\ rank[q] \in 1 .. n
  <2>1. AskedBy(Q, q) \in SUBSET Q /\ q \in AskedBy(Q, q)
    BY DEF AskedBy, OneByOne
  <2>2. IsFiniteSet(AskedBy(Q, q)) /\ Cardinality(AskedBy(Q, q)) <= n
    BY <2>1, FS_Subset
  <2>3. Cardinality(AskedBy(Q, q)) \in Nat /\ Cardinality(AskedBy(Q, q)) # 0
    BY <2>1, <2>2, FS_CardinalityType, FS_EmptySet
  <2> QED
    BY <1>1, <2>2, <2>3
<1>3. ASSUME NEW p \in Q, NEW q \in Q, stamp[p].asked < stamp[q].asked
      PROVE  rank[p] < rank[q]
  <2>1. AskedBy(Q, p) \in SUBSET AskedBy(Q, q) /\ q \in AskedBy(Q, q) /\ q \notin AskedBy(Q, p)
    BY <1>3 DEF AskedBy, OneByOne
  <2>2. rank[p] <= rank[q] /\ rank[p] # rank[q]
    BY <1>2, <2>1, FS_Subset
  <2> QED
    BY <1>1, <1>2, <2>2
<1>4. \A p, q \in Q : rank[p] = rank[q] => p = q
  <2> SUFFICES ASSUME NEW p \in Q, NEW q \in Q, p # q
               PROVE  rank[p] # rank[q]
    OBVIOUS
  <2>1. stamp[p].asked < stamp[q].asked \/ stamp[q].asked < stamp[p].asked
    BY DEF OneByOne
  <2>2. rank[p] < rank[q] \/ rank[q] < rank[p]
    <3> HIDE DEF rank
    <3> QED
      BY <1>3, <2>1
  <2>3. rank[p] \in Nat /\ rank[q] \in Nat
    BY <1>1, <1>2
  <2> HIDE DEF rank
  <2> QED
    BY <2>2, <2>3
<1> HIDE DEF rank
<1>5. \A i \in 1 .. n : \E q \in Q : rank[q] = i
  <2>1. rank \in [Q -> 1 .. n]
    BY <1>2 DEF rank
  <2>2. rank \in Injection(Q, 1 .. n)
    BY <1>4, <2>1 DEF Injection, IsInjective
  <2>3. IsFiniteSet(1 .. n) /\ Cardinality(1 .. n) = n
    BY <1>1, FS_Interval
  <2>4. rank \in Surjection(Q, 1 .. n)
    BY <2>2, <2>3, FS_Injection
  <2> QED
    BY <2>4 DEF Surjection
<1>6. \A i \in 1 .. n : e[i] \in Q /\ rank[e[i]] = i
  BY <1>5
<1> HIDE DEF e
<1>7. e \in [1 .. n -> Q]
  BY <1>6 DEF e
<1>8. \A q \in Q : \E i \in 1 .. n : e[i] = q
  BY <1>2, <1>4, <1>6
<1>9. ASSUME NEW i \in 1 .. n, NEW j \in 1 .. n, i < j
      PROVE  stamp[e[i]].asked < stamp[e[j]].asked
  <2>1. e[i] \in Q /\ e[j] \in Q /\ rank[e[i]] = i /\ rank[e[j]] = j
    BY <1>6
  <2>2. stamp[e[i]].asked < stamp[e[j]].asked \/ stamp[e[j]].asked < stamp[e[i]].asked
    BY <1>9, <2>1 DEF OneByOne
  <2>3. stamp[e[j]].asked < stamp[e[i]].asked => j < i
    BY <1>3, <2>1
  <2> QED
    BY <1>9, <2>2, <2>3
<1>10. Numbers(e, Q, n)
  BY <1>7, <1>8, <1>9 DEF Numbers
<1> HIDE DEF n
<1> QED
  BY <1>10 DEF n

\* As many were asked up to the i-th.
LEMMA PlacesCount ==
  ASSUME NEW Q, IsFiniteSet(Q), OneByOne(Q), NEW n \in Nat, NEW e, Numbers(e, Q, n),
         NEW i \in 1 .. n
  PROVE  /\ AskedBy(Q, e[i]) = {e[j] : j \in 1 .. i}
         /\ IsFiniteSet(AskedBy(Q, e[i])) /\ Cardinality(AskedBy(Q, e[i])) = i
<1> DEFINE P == {e[j] : j \in 1 .. i}
<1>1. /\ \A j \in 1 .. n : e[j] \in Q
      /\ \A j, k \in 1 .. n : j < k => stamp[e[j]].asked < stamp[e[k]].asked
      /\ \A j \in 1 .. n : stamp[e[j]].asked \in Nat
  BY DEF Numbers, OneByOne
<1>2. AskedBy(Q, e[i]) = P
  <2>1. ASSUME NEW p \in AskedBy(Q, e[i]) PROVE p \in P
    <3>1. PICK j \in 1 .. n : e[j] = p
      BY DEF AskedBy, Numbers
    <3>2. ~(i < j)
      BY <1>1, <3>1 DEF AskedBy
    <3> QED
      BY <3>1, <3>2
  <2>2. ASSUME NEW j \in 1 .. i PROVE e[j] \in AskedBy(Q, e[i])
    BY <1>1 DEF AskedBy
  <2> QED
    BY <2>1, <2>2
<1>3. IsFiniteSet(P) /\ Cardinality(P) = i
  <2> DEFINE f == [j \in 1 .. i |-> e[j]]
  <2>1. \A j, k \in 1 .. i : e[j] = e[k] => j = k
    BY <1>1
  <2>2. f \in Injection(1 .. i, P) /\ f \in Surjection(1 .. i, P)
    BY <2>1 DEF Injection, Surjection, IsInjective
  <2>3. ExistsBijection(1 .. i, P)
    BY <2>2 DEF ExistsBijection, Bijection
  <2>4. IsFiniteSet(1 .. i) /\ Cardinality(1 .. i) = i
    BY FS_Interval
  <2> QED
    BY <2>3, <2>4, FS_Bijection
<1> QED
  BY <1>2, <1>3

Question(q) == Row(q, "user", stamp[q].asked, FALSE)
Answer(q) == Row(q, "assistant", stamp[q].answered, grounded[q])
AllRows(P) == UNION {RowsOf(p) : p \in P}

\* Each turn has two rows.
LEMMA TwoRowsEach ==
  ASSUME NEW P, IsFiniteSet(P)
  PROVE  IsFiniteSet(AllRows(P)) /\ Cardinality(AllRows(P)) = 2 * Cardinality(P)
<1> DEFINE U == {Question(p) : p \in P}
           A == {Answer(p) : p \in P}
           f == [p \in P |-> Question(p)]
           g == [p \in P |-> Answer(p)]
<1>1. f \in Injection(P, U) /\ f \in Surjection(P, U)
  BY DEF Injection, Surjection, IsInjective, Question, Row
<1>2. g \in Injection(P, A) /\ g \in Surjection(P, A)
  BY DEF Injection, Surjection, IsInjective, Answer, Row
<1>3. ExistsBijection(P, U) /\ ExistsBijection(P, A)
  BY <1>1, <1>2 DEF ExistsBijection, Bijection
<1>4. U \cap A = {}
  BY DEF Question, Answer, Row
<1>5. AllRows(P) = U \cup A
  <2>1. \A p : RowsOf(p) = {Question(p), Answer(p)}
    BY DEF RowsOf, Question, Answer
  <2> QED
    BY <2>1 DEF AllRows
<1> HIDE DEF U, A
<1>6. /\ IsFiniteSet(U) /\ IsFiniteSet(A)
      /\ Cardinality(U) = Cardinality(P) /\ Cardinality(A) = Cardinality(P)
  BY <1>3, FS_Bijection
<1>7. /\ IsFiniteSet(U \cup A)
      /\ Cardinality(U \cup A) = Cardinality(U) + Cardinality(A) - Cardinality(U \cap A)
  BY <1>6, FS_Union
<1>8. Cardinality(U \cap A) = 0 /\ Cardinality(P) \in Nat
  BY <1>4, FS_EmptySet, FS_CardinalityType
<1> QED
  BY <1>5, <1>6, <1>7, <1>8

UpTo(S, m) == {n \in S : n.at <= m.at}

\* The question asked as the i-th comes after two rows for each turn before it, and
\* its answer after one more.
LEMMA RowsCount ==
  ASSUME NEW Q, IsFiniteSet(Q), OneByOne(Q), NEW n \in Nat, NEW e, Numbers(e, Q, n),
         NEW i \in 1 .. n
  PROVE  LET S == AllRows(Q)
         IN  /\ Question(e[i]) \in S /\ Answer(e[i]) \in S
             /\ Cardinality(UpTo(S, Answer(e[i]))) = 2 * i
             /\ Cardinality(UpTo(S, Question(e[i]))) = 2 * i - 1
<1> DEFINE S == AllRows(Q)
           P == AskedBy(Q, e[i])
           a == Answer(e[i])
<1>1. /\ e[i] \in Q /\ IsFiniteSet(P) /\ Cardinality(P) = i
  BY PlacesCount DEF Numbers
<1>2. /\ \A q \in Q : Question(q).at = stamp[q].asked /\ Answer(q).at = stamp[q].answered
      /\ \A q : RowsOf(q) = {Question(q), Answer(q)}
  BY DEF Question, Answer, Row, RowsOf
<1>3. Question(e[i]) \in S /\ a \in S
  BY <1>1, <1>2 DEF AllRows
<1>4. ASSUME NEW q \in Q
      PROVE  /\ Answer(q).at <= a.at <=> q \in P
             /\ Question(q).at <= a.at <=> q \in P
             /\ Question(q).at <= Question(e[i]).at <=> q \in P
             /\ Answer(q).at <= Question(e[i]).at <=> q \in P /\ q # e[i]
  BY <1>1, <1>2 DEF AskedBy, OneByOne
<1>5. UpTo(S, a) = AllRows(P)
  <2>1. P \subseteq Q
    BY DEF AskedBy
  <2> HIDE DEF P, a
  <2> QED
    BY <1>2, <1>4, <2>1 DEF UpTo, AllRows
<1>6. UpTo(S, Question(e[i])) = AllRows(P) \ {a}
  <2>1. P \subseteq Q /\ e[i] \in P
    BY <1>1 DEF AskedBy, OneByOne
  <2>2. \A p, q : Answer(p) = Answer(q) => p = q
    BY DEF Answer, Row
  <2>3. \A p, q : Answer(p) # Question(q)
    BY DEF Answer, Question, Row
  <2> HIDE DEF P
  <2>4. ASSUME NEW m \in UpTo(S, Question(e[i])) PROVE m \in AllRows(P) \ {a}
    <3>1. PICK q \in Q : m \in {Question(q), Answer(q)}
      BY <1>2 DEF UpTo, AllRows
    <3>2. m.at <= Question(e[i]).at
      BY DEF UpTo
    <3> QED
      BY <1>2, <1>4, <2>2, <2>3, <3>1, <3>2 DEF AllRows
  <2>5. ASSUME NEW m \in AllRows(P) \ {a} PROVE m \in UpTo(S, Question(e[i]))
    <3>1. PICK q \in P : m \in {Question(q), Answer(q)}
      BY <1>2 DEF AllRows
    <3>2. m \in S
      BY <1>2, <2>1, <3>1 DEF AllRows
    <3>3. m.at <= Question(e[i]).at
      BY <1>4, <2>1, <3>1
    <3> QED
      BY <3>2, <3>3 DEF UpTo
  <2> QED
    BY <2>4, <2>5
<1>7. IsFiniteSet(AllRows(P)) /\ Cardinality(AllRows(P)) = 2 * i
  BY <1>1, TwoRowsEach
<1>8. a \in AllRows(P)
  <2>1. e[i] \in P
    BY <1>1 DEF AskedBy, OneByOne
  <2> HIDE DEF P
  <2> QED
    BY <1>2, <2>1 DEF AllRows
<1>9. Cardinality(AllRows(P) \ {a}) = 2 * i - 1
  BY <1>7, <1>8, FS_RemoveElement
<1> QED
  BY <1>3, <1>5, <1>6, <1>7, <1>9

\* So the rows in the order of created_at are each question with its answer.
LEMMA RowsAreInOrder ==
  ASSUME NEW Q, IsFiniteSet(Q), OneByOne(Q), NEW n \in Nat, NEW e, Numbers(e, Q, n),
         n = Cardinality(Q)
  PROVE  LET s == InOrder(AllRows(Q))
         IN  /\ s \in Seq(AllRows(Q)) /\ Len(s) = 2 * n
             /\ \A i \in 1 .. n : s[2 * i - 1] = Question(e[i]) /\ s[2 * i] = Answer(e[i])
<1> DEFINE S == AllRows(Q)
           place(m) == Cardinality(UpTo(S, m))
           s == InOrder(S)
<1>1. Cardinality(S) = 2 * n
  BY TwoRowsEach
<1>2. \A i \in 1 .. n : /\ Question(e[i]) \in S /\ Answer(e[i]) \in S
                        /\ place(Answer(e[i])) = 2 * i /\ place(Question(e[i])) = 2 * i - 1
  BY RowsCount
<1>3. ASSUME NEW m \in S
      PROVE  \E i \in 1 .. n : m = Question(e[i]) \/ m = Answer(e[i])
  <2>1. PICK q \in Q : m \in RowsOf(q)
    BY DEF AllRows
  <2>2. m = Question(q) \/ m = Answer(q)
    BY <2>1 DEF RowsOf, Question, Answer
  <2> QED
    BY <2>2 DEF Numbers
<1>4. s = [i \in 1 .. 2 * n |-> CHOOSE m \in S : place(m) = i]
  BY <1>1 DEF InOrder, UpTo
<1>5. ASSUME NEW i \in 1 .. n
      PROVE  s[2 * i - 1] = Question(e[i]) /\ s[2 * i] = Answer(e[i])
  <2> HIDE DEF place, S
  <2>1. 2 * i - 1 \in 1 .. 2 * n /\ 2 * i \in 1 .. 2 * n
    OBVIOUS
  <2>2. s[2 * i] = CHOOSE m \in S : place(m) = 2 * i
    BY <1>4, <2>1
  <2>3. s[2 * i - 1] = CHOOSE m \in S : place(m) = 2 * i - 1
    BY <1>4, <2>1
  <2>4. \A m \in S : place(m) = 2 * i => m = Answer(e[i])
    BY <1>2, <1>3
  <2>5. \A m \in S : place(m) = 2 * i - 1 => m = Question(e[i])
    BY <1>2, <1>3
  <2> QED
    BY <1>2, <2>2, <2>3, <2>4, <2>5
<1>6. ASSUME NEW k \in 1 .. 2 * n PROVE s[k] \in S
  <2>1. \E i \in 1 .. n : k = 2 * i \/ k = 2 * i - 1
    <3> DEFINE i == (k + 1) \div 2
    <3>1. i \in 1 .. n /\ (k = 2 * i \/ k = 2 * i - 1)
      OBVIOUS
    <3> QED
      BY <3>1
  <2> QED
    BY <1>2, <1>5, <2>1
<1>7. s \in Seq(S) /\ Len(s) = 2 * n
  <2> HIDE DEF place, S
  <2>1. s \in [1 .. 2 * n -> S]
    BY <1>4, <1>6
  <2> QED
    BY <2>1
<1> QED
  BY <1>5, <1>7

----------------------------------------------------------------------------
(* The history: pairing                                                    *)

\* The pairs after each row exist, and follow from those before it.
LEMMA PairsExist ==
  ASSUME NEW s, Len(s) \in Nat
  PROVE  \E b : /\ b[0] = <<>>
                /\ \A i \in 1 .. Len(s) : b[i] = Pair(b[i - 1], s[i])
                /\ Pairs(s) = b[Len(s)]
<1> DEFINE Step(b, i) == IF i = 0 THEN <<>> ELSE Pair(b[i - 1], s[i])
           Upto(b, n) == b = [i \in 0 .. n |-> Step(b, i)]
           N == {n \in Nat : \E b : Upto(b, n)}
<1>1. 0 \in N
  <2>1. Upto([i \in 0 .. 0 |-> <<>>], 0)
    OBVIOUS
  <2> QED
    BY <2>1
<1>2. ASSUME NEW n \in Nat, n \in N PROVE n + 1 \in N
  <2>1. PICK b : Upto(b, n)
    BY <1>2
  <2> DEFINE l == [i \in 0 .. n + 1 |-> IF i = n + 1 THEN Step(b, i) ELSE b[i]]
  <2>2. ASSUME NEW i \in 0 .. n + 1 PROVE l[i] = Step(l, i)
    <3>1. CASE i = 0
      BY <2>1, <3>1
    <3>2. CASE i # 0
      <4>1. i - 1 \in 0 .. n /\ l[i - 1] = b[i - 1]
        BY <3>2
      <4>2. CASE i = n + 1
        BY <3>2, <4>1, <4>2
      <4>3. CASE i \in 0 .. n
        <5>1. b[i] = Step(b, i) /\ l[i] = b[i]
          <6> HIDE DEF Step
          <6> QED
            BY <2>1, <4>3
        <5> QED
          BY <3>2, <4>1, <5>1
      <4> QED
        BY <4>2, <4>3
    <3> QED
      BY <3>1, <3>2
  <2>3. l = [i \in 0 .. n + 1 |-> l[i]]
    OBVIOUS
  <2>4. Upto(l, n + 1)
    <3> HIDE DEF l, Step
    <3> QED
      BY <2>2, <2>3
  <2>5. \E j : Upto(j, n + 1)
    <3> HIDE DEF l, Upto
    <3> QED
      BY <2>4
  <2> QED
    BY <2>5
<1>3. Nat \subseteq N
  <2> HIDE DEF N
  <2> QED
    BY <1>1, <1>2, SetInduction
<1>4. \E b : Upto(b, Len(s))
  BY <1>3
<1>5. PICK b : b = (CHOOSE pairs : Upto(pairs, Len(s)))
  OBVIOUS
<1>6. Upto(b, Len(s))
  BY <1>4, <1>5
<1>7. Pairs(s) = b[Len(s)]
  BY <1>5 DEF Pairs
<1>8. \A i \in 0 .. Len(s) : b[i] = Step(b, i)
  <2> HIDE DEF Step
  <2> QED
    BY <1>6
<1>9. b[0] = <<>>
  BY <1>8
<1>10. \A i \in 1 .. Len(s) : b[i] = Pair(b[i - 1], s[i])
  BY <1>8
<1> QED
  BY <1>7, <1>9, <1>10

\* A turn as the history has it.
KeptTurn(q) == <<q, IF grounded[q] THEN q ELSE None>>

\* A question and its answer add their turn.
LEMMA TurnIsAdded ==
  ASSUME NEW X, NEW s \in Seq(X), NEW q, q # None, grounded[q] \in BOOLEAN
  PROVE  Pair(Pair(s, Question(q)), Answer(q)) = Append(s, KeptTurn(q))
<1> DEFINE Y == X \cup {<<q, None>>}
           t == Append(s, <<q, None>>)
<1>1. Pair(s, Question(q)) = t
  BY DEF Pair, Question, Row
<1>2. /\ s \in Seq(Y) /\ t \in Seq(Y) /\ Len(t) = Len(s) + 1 /\ t[Len(t)] = <<q, None>>
      /\ Len(s) \in Nat /\ \A i \in 1 .. Len(s) : t[i] = s[i]
  OBVIOUS
<1> HIDE DEF t
<1>3. t # <<>> /\ Last(t) = <<q, None>>
  BY <1>2 DEF Last
<1>4. Front(t) = s
  <2>1. Front(t) \in Seq(Y) /\ Len(Front(t)) = Len(s)
        /\ \A i \in 1 .. Len(s) : Front(t)[i] = s[i]
    BY <1>2 DEF Front
  <2> HIDE DEF Y
  <2> QED
    BY <1>2, <2>1
<1>5. /\ Answer(q).role = "assistant" /\ Answer(q).grounded = grounded[q]
      /\ Answer(q).turn = q
  BY DEF Answer, Row
<1>6. CASE grounded[q]
  <2>1. Last(t)[1] = q /\ Last(t)[2] = None
    BY <1>3
  <2>2. Pair(t, Answer(q)) = Append(Front(t), <<Last(t)[1], Answer(q).turn>>)
    BY <1>3, <1>5, <1>6, <2>1 DEF Pair
  <2>3. KeptTurn(q) = <<q, q>>
    BY <1>6 DEF KeptTurn
  <2> QED
    BY <1>1, <1>4, <1>5, <2>1, <2>2, <2>3
<1>7. CASE ~grounded[q]
  <2>1. Pair(t, Answer(q)) = t
    BY <1>5, <1>7 DEF Pair
  <2>2. KeptTurn(q) = <<q, None>>
    BY <1>7 DEF KeptTurn
  <2> QED
    BY <1>1, <2>1, <2>2 DEF t
<1> QED
  BY <1>6, <1>7

\* Rows in order are paired to their turns.
LEMMA PairsAreTurns ==
  ASSUME NEW m \in Nat, NEW d, NEW s, Len(s) = 2 * m,
         \A i \in 1 .. m : d[i] # None /\ grounded[d[i]] \in BOOLEAN,
         \A i \in 1 .. m : s[2 * i - 1] = Question(d[i]) /\ s[2 * i] = Answer(d[i])
  PROVE  Pairs(s) = [i \in 1 .. m |-> KeptTurn(d[i])]
<1>1. PICK b : /\ b[0] = <<>>
               /\ \A i \in 1 .. 2 * m : b[i] = Pair(b[i - 1], s[i])
               /\ Pairs(s) = b[2 * m]
  <2>1. Len(s) \in Nat
    OBVIOUS
  <2>2. \E b : /\ b[0] = <<>>
               /\ \A i \in 1 .. Len(s) : b[i] = Pair(b[i - 1], s[i])
               /\ Pairs(s) = b[Len(s)]
    BY <2>1, PairsExist
  <2> QED
    BY <2>2
<1> DEFINE X == {KeptTurn(d[j]) : j \in 1 .. m}
           T(n) == [i \in 1 .. n |-> KeptTurn(d[i])]
           N == {n \in Nat : n <= m => b[2 * n] = T(n)}
<1>2. 0 \in N
  <2>1. T(0) = <<>>
    OBVIOUS
  <2> QED
    BY <1>1, <2>1
<1>3. ASSUME NEW n \in Nat, n \in N PROVE n + 1 \in N
  <2> SUFFICES ASSUME n + 1 <= m PROVE b[2 * (n + 1)] = T(n + 1)
    OBVIOUS
  <2> DEFINE q == d[n + 1]
  <2>1. b[2 * n] = T(n)
    BY <1>3
  <2>2. b[2 * n + 1] = Pair(b[2 * n], Question(q))
    <3>1. 2 * n + 1 \in 1 .. 2 * m /\ (2 * n + 1) - 1 = 2 * n /\ n + 1 \in 1 .. m
          /\ 2 * (n + 1) - 1 = 2 * n + 1
      OBVIOUS
    <3> QED
      BY <1>1, <3>1
  <2>3. b[2 * (n + 1)] = Pair(b[2 * n + 1], Answer(q))
    <3>1. 2 * (n + 1) \in 1 .. 2 * m /\ 2 * (n + 1) - 1 = 2 * n + 1 /\ n + 1 \in 1 .. m
      OBVIOUS
    <3> QED
      BY <1>1, <3>1
  <2>4. q # None /\ grounded[q] \in BOOLEAN
    OBVIOUS
  <2>5. T(n) \in Seq(X)
    OBVIOUS
  <2> HIDE DEF q
  <2>6. b[2 * (n + 1)] = Append(T(n), KeptTurn(q))
    <3> HIDE DEF T, X
    <3> QED
      BY <2>1, <2>2, <2>3, <2>4, <2>5, TurnIsAdded
  <2>7. Append(T(n), KeptTurn(q)) = T(n + 1)
    BY <2>5 DEF q
  <2> QED
    BY <2>6, <2>7
<1>4. Nat \subseteq N
  <2> HIDE DEF N
  <2> QED
    BY <1>2, <1>3, SetInduction
<1>5. b[2 * m] = T(m)
  BY <1>4
<1> QED
  BY <1>1, <1>5

\* Sequences with the same elements are the same.
LEMMA SequencesAreEqual ==
  ASSUME NEW X, NEW s \in Seq(X), NEW t \in Seq(X), Len(s) = Len(t),
         \A k \in 1 .. Len(s) : s[k] = t[k]
  PROVE  s = t
OBVIOUS

\* The last turns are the last as they are numbered.
LEMMA NumbersAreLast ==
  ASSUME NEW Q, IsFiniteSet(Q), OneByOne(Q), NEW e, Numbers(e, Q, Cardinality(Q))
  PROVE  LastTurns(Q) = LastOf([i \in 1 .. Cardinality(Q) |-> KeptTurn(e[i])], HistoryTurns)
<1> DEFINE n == Cardinality(Q)
           T == [i \in 1 .. n |-> KeptTurn(e[i])]
           At(i) == CHOOSE q \in Q : Cardinality(AskedBy(Q, q)) = i
<1>1. n \in Nat
  BY FS_CardinalityType
<1>2. ASSUME NEW i \in 1 .. n PROVE At(i) = e[i]
  <2>1. \A j \in 1 .. n : Cardinality(AskedBy(Q, e[j])) = j
    BY <1>1, PlacesCount
  <2>2. e[i] \in Q /\ \A q \in Q : \E j \in 1 .. n : e[j] = q
    BY DEF Numbers
  <2> QED
    BY <2>1, <2>2
<1>3. [i \in 1 .. n |-> KeptTurn(At(i))] = T
  <2> HIDE DEF At
  <2>1. ASSUME NEW i \in 1 .. n PROVE KeptTurn(At(i)) = KeptTurn(e[i])
    BY <1>2
  <2> HIDE DEF n
  <2> QED
    BY <2>1
<1>4. LastTurns(Q) = LastOf([i \in 1 .. n |-> KeptTurn(At(i))], HistoryTurns)
  BY DEF LastTurns, AskedBy, KeptTurn
<1> QED
  BY <1>3, <1>4

\* What is read of turns that did not overlap is the last of them.
LEMMA RecentIsLast ==
  ASSUME NEW Q \in SUBSET Turns, IsFiniteSet(Q), OneByOne(Q),
         \A q \in Q : grounded[q] \in BOOLEAN,
         NEW e, Numbers(e, Q, Cardinality(Q))
  PROVE  RecentTurns(AllRows(Q))
           = LastOf([i \in 1 .. Cardinality(Q) |-> KeptTurn(e[i])], HistoryTurns)
<1> DEFINE n == Cardinality(Q)
           H == HistoryTurns
           s == InOrder(AllRows(Q))
           T == [i \in 1 .. n |-> KeptTurn(e[i])]
<1>1. n \in Nat /\ H \in Nat \ {0}
  BY FS_CardinalityType, BoundsAssumption
<1>2. Numbers(e, Q, n)
  OBVIOUS
<1>3. /\ s \in Seq(AllRows(Q)) /\ Len(s) = 2 * n
      /\ \A i \in 1 .. n : s[2 * i - 1] = Question(e[i]) /\ s[2 * i] = Answer(e[i])
  BY <1>1, <1>2, RowsAreInOrder
<1>4. \A i \in 1 .. n : e[i] \in Q /\ e[i] # None /\ grounded[e[i]] \in BOOLEAN
  BY <1>2, NoneAssumption DEF Numbers
<1>5. RecentTurns(AllRows(Q)) = LastOf(Pairs(LastOf(s, RowsToRead)), H)
  BY DEF RecentTurns
<1> HIDE DEF n, H, s
<1> DEFINE off == IF n > H + 1 THEN n - H - 1 ELSE 0
           m == n - off
           w == LastOf(s, RowsToRead)
           d == [i \in 1 .. m |-> e[off + i]]
<1>6. /\ off \in Nat /\ m \in Nat /\ m <= n /\ off + m = n
      /\ \A i \in 1 .. m : off + i \in 1 .. n
  BY <1>1
<1>7. /\ w = SubSeq(s, 2 * off + 1, 2 * n)
  BY <1>1, <1>3 DEF LastOf, RowsToRead, H
<1>8. Len(w) = 2 * m /\ \A k \in 1 .. 2 * m : w[k] = s[2 * off + k]
  <2> HIDE DEF w
  <2> QED
    BY <1>1, <1>3, <1>6, <1>7
<1>9. \A i \in 1 .. m : d[i] # None /\ grounded[d[i]] \in BOOLEAN
  BY <1>4, <1>6
<1>10. ASSUME NEW i \in 1 .. m
       PROVE  w[2 * i - 1] = Question(d[i]) /\ w[2 * i] = Answer(d[i])
  <2>1. 2 * i - 1 \in 1 .. 2 * m /\ 2 * i \in 1 .. 2 * m /\ off + i \in 1 .. n
    BY <1>6
  <2>2. 2 * off + (2 * i - 1) = 2 * (off + i) - 1 /\ 2 * off + 2 * i = 2 * (off + i)
    BY <1>6
  <2> HIDE DEF w, off
  <2>3. d[i] = e[off + i]
    OBVIOUS
  <2> HIDE DEF d, m
  <2> QED
    BY <1>3, <1>8, <2>1, <2>2, <2>3
<1>11. Pairs(w) = [i \in 1 .. m |-> KeptTurn(d[i])]
  <2> HIDE DEF w, d, m
  <2> QED
    BY <1>6, <1>8, <1>9, <1>10, PairsAreTurns
<1>12. LastOf([i \in 1 .. m |-> KeptTurn(d[i])], H) = LastOf(T, H)
  <2> DEFINE U == [i \in 1 .. m |-> KeptTurn(d[i])]
             Y == {KeptTurn(e[i]) : i \in 1 .. n}
             from == IF m > H THEN m - H + 1 ELSE 1
             at == IF n > H THEN n - H + 1 ELSE 1
  <2>1. U \in Seq(Y) /\ Len(U) = m /\ \A i \in 1 .. m : U[i] = KeptTurn(e[off + i])
    <3>1. \A i \in 1 .. m : KeptTurn(d[i]) = KeptTurn(e[off + i]) /\ KeptTurn(e[off + i]) \in Y
      <4>1. \A i \in 1 .. m : d[i] = e[off + i]
        OBVIOUS
      <4> HIDE DEF d, m, off
      <4> QED
        BY <1>6, <4>1
    <3> HIDE DEF Y, d, m, off
    <3>2. U \in [1 .. m -> Y]
      BY <3>1
    <3> QED
      BY <1>6, <3>1, <3>2
  <2>2. T \in Seq(Y) /\ Len(T) = n /\ \A i \in 1 .. n : T[i] = KeptTurn(e[i])
    BY <1>1
  <2>3. off + from = at /\ from \in Nat \ {0} /\ at \in Nat \ {0} /\ from <= m + 1
    BY <1>1, <1>6
  <2>4. LastOf(U, H) = SubSeq(U, from, m) /\ LastOf(T, H) = SubSeq(T, at, n)
    <3> HIDE DEF U, T
    <3> QED
      BY <2>1, <2>2 DEF LastOf
  <2> HIDE DEF U, T, Y, from, at, off, m
  <2>5. SubSeq(U, from, m) \in Seq(Y) /\ Len(SubSeq(U, from, m)) = m - from + 1
        /\ \A k \in 1 .. m - from + 1 : SubSeq(U, from, m)[k] = U[from + k - 1]
    BY <1>6, <2>1, <2>3
  <2>6. SubSeq(T, at, n) \in Seq(Y) /\ Len(SubSeq(T, at, n)) = n - at + 1
        /\ \A k \in 1 .. n - at + 1 : SubSeq(T, at, n)[k] = T[at + k - 1]
    BY <1>1, <1>6, <2>2, <2>3
  <2>7. m - from + 1 = n - at + 1
    BY <1>1, <1>6, <2>3
  <2>8. ASSUME NEW k \in 1 .. m - from + 1
        PROVE  SubSeq(U, from, m)[k] = SubSeq(T, at, n)[k]
    <3>1. from + k - 1 \in 1 .. m /\ at + k - 1 \in 1 .. n /\ off + (from + k - 1) = at + k - 1
      BY <1>1, <1>6, <2>3, <2>7
    <3> QED
      BY <2>1, <2>2, <2>5, <2>6, <2>7, <3>1
  <2>9. SubSeq(U, from, m) = SubSeq(T, at, n)
    <3> DEFINE x == SubSeq(U, from, m)
               y == SubSeq(T, at, n)
    <3>1. x \in Seq(Y) /\ y \in Seq(Y) /\ Len(x) = Len(y)
          /\ \A k \in 1 .. Len(x) : x[k] = y[k]
      BY <2>5, <2>6, <2>7, <2>8
    <3>2. x = y
      <4> HIDE DEF x, y
      <4> QED
        BY <3>1, SequencesAreEqual
    <3> QED
      BY <3>2
  <2> QED
    BY <2>4, <2>9 DEF U
<1> QED
  BY <1>5, <1>11, <1>12 DEF n, H

----------------------------------------------------------------------------
(* The history: what is read, and what stays of it                         *)

\* A turn that has its stamps got them at readings of the clock that nobody else
\* got, and was asked before it was answered.
StampsHold ==
  /\ \A t \in Turns :
       /\ stamp[t].asked <= clock /\ stamp[t].answered <= clock
       /\ pc[t] \in {"insert", "generate"} => 0 < stamp[t].asked
       /\ pc[t] \in {"commit", "answered"} => 0 < stamp[t].asked
                                              /\ stamp[t].asked < stamp[t].answered
  /\ \A t, q \in Turns : t # q =>
       \A x \in {stamp[t].asked, stamp[t].answered} :
         0 < x => x # stamp[q].asked /\ x # stamp[q].answered

\* A history of turns that did not overlap is the last of them as they can be
\* numbered.
HistoryHolds(t) ==
  (\A q, a \in seen[t] : ~Overlap(q, a)) =>
    LET n == Cardinality(seen[t])
    IN  \E e : /\ Numbers(e, seen[t], n)
               /\ history[t] = LastOf([i \in 1 .. n |-> KeptTurn(e[i])], HistoryTurns)

HistoriesHold ==
  /\ history = [t \in Turns |-> history[t]]
  /\ \A t \in Turns : HistoryHolds(t)

\* Answered turns are finitely many, and those that did not overlap came one by one.
LEMMA AnsweredAreOneByOne ==
  ASSUME Typed, StampsHold, NEW Q \in SUBSET Turns, \A q \in Q : pc[q] = "answered"
  PROVE  /\ IsFiniteSet(Q)
         /\ (\A q, a \in Q : ~Overlap(q, a)) => OneByOne(Q)
<1>1. \A q \in Q : /\ stamp[q].asked \in Nat /\ stamp[q].answered \in Nat
                   /\ 0 < stamp[q].asked /\ stamp[q].asked < stamp[q].answered
                   /\ stamp[q].asked \in 1 .. clock
  BY DEF Typed, StampsHold
<1>2. \A q, a \in Q : q # a => /\ stamp[q].asked # stamp[a].asked
                               /\ stamp[q].asked # stamp[a].answered
                               /\ stamp[q].answered # stamp[a].asked
  BY <1>1 DEF StampsHold
<1>3. IsFiniteSet(Q)
  <2> DEFINE f == [q \in Q |-> stamp[q].asked]
  <2>1. f \in Injection(Q, 1 .. clock)
    BY <1>1, <1>2 DEF Injection, IsInjective
  <2>2. IsFiniteSet(1 .. clock)
    BY FS_Interval DEF Typed
  <2> QED
    BY <2>1, <2>2, FS_Injection
<1>4. (\A q, a \in Q : ~Overlap(q, a)) => OneByOne(Q)
  BY <1>1, <1>2 DEF Overlap, OneByOne
<1> QED
  BY <1>3, <1>4

\* A history outlives a step that keeps the stamps and verdicts of its turns.
LEMMA HistoryStays ==
  ASSUME NEW t \in Turns, HistoryHolds(t), history'[t] = history[t], seen'[t] = seen[t],
         \A q \in seen[t] : stamp'[q] = stamp[q] /\ grounded'[q] = grounded[q]
  PROVE  HistoryHolds(t)'
<1> DEFINE n == Cardinality(seen[t])
<1> SUFFICES ASSUME (\A q, a \in seen[t] : ~Overlap(q, a))'
             PROVE  (\E e : /\ Numbers(e, seen[t], n)
                            /\ history[t] = LastOf([i \in 1 .. n |-> KeptTurn(e[i])],
                                                   HistoryTurns))'
  BY DEF HistoryHolds
<1>1. \A q, a \in seen[t] : ~Overlap(q, a)
  BY DEF Overlap
<1>2. PICK e : /\ Numbers(e, seen[t], n)
               /\ history[t] = LastOf([i \in 1 .. n |-> KeptTurn(e[i])], HistoryTurns)
  BY <1>1 DEF HistoryHolds
<1>3. \A i \in 1 .. n : e[i] \in seen[t]
  BY <1>2 DEF Numbers
<1>4. Numbers(e, seen[t], n)'
  BY <1>2, <1>3 DEF Numbers
<1>5. [i \in 1 .. n |-> KeptTurn(e[i])'] = [i \in 1 .. n |-> KeptTurn(e[i])]
  BY <1>3 DEF KeptTurn
<1>6. (history[t] = LastOf([i \in 1 .. n |-> KeptTurn(e[i])], HistoryTurns))'
  BY <1>2, <1>5
<1> QED
  BY <1>4, <1>6

\* A history that was dropped is that of no turn.
LEMMA NoHistory == \A t \in Turns : seen[t] = {} /\ history[t] = <<>> => HistoryHolds(t)
<1> SUFFICES ASSUME NEW t \in Turns, seen[t] = {}, history[t] = <<>>
             PROVE  HistoryHolds(t)
  OBVIOUS
<1>1. Cardinality({}) = 0 /\ HistoryTurns \in Nat
  BY FS_EmptySet, BoundsAssumption
<1> DEFINE e == [i \in 1 .. 0 |-> i]
<1>2. Numbers(e, {}, 0)
  BY DEF Numbers
<1>3. LastOf([i \in 1 .. 0 |-> KeptTurn(e[i])], HistoryTurns) = <<>>
  <2>1. [i \in 1 .. 0 |-> KeptTurn(e[i])] = <<>>
    OBVIOUS
  <2>2. LastOf(<<>>, HistoryTurns) = <<>>
    BY <1>1 DEF LastOf
  <2> QED
    BY <2>1, <2>2
<1> HIDE DEF e
<1> QED
  BY <1>1, <1>2, <1>3 DEF HistoryHolds

\* And stays so after any step.
LEMMA NoHistoryNext ==
  (\A t \in Turns : seen[t] = {} /\ history[t] = <<>> => HistoryHolds(t))'
BY NoHistory, PTL

\* What the history rests on beside IInv.
HInv == StampsHold /\ HistoriesHold

\* Steps that read no clock and forget nothing.
LEMMA QuietStepKeepsHInv ==
  ASSUME IInv, HInv, UNCHANGED <<clock, seen, history, stamp, grounded>>,
         \A t \in Turns : pc'[t] # pc[t] =>
           /\ pc'[t] \notin {"insert", "commit", "answered"}
           /\ pc'[t] = "generate" => pc[t] = "insert"
  PROVE  HInv'
<1>1. StampsHold'
  BY DEF HInv, StampsHold
<1>2. HistoriesHold'
  BY HistoryStays DEF HInv, HistoriesHold
<1> QED
  BY <1>1, <1>2 DEF HInv

\* Turns that are under way are forgotten.
LEMMA ForgettingKeepsHInv ==
  ASSUME IInv, HInv, UNCHANGED clock,
         NEW T \in SUBSET Turns, Forget(T), \A t \in T : pc[t] # "answered",
         \A t \in Turns : pc'[t] = IF t \in T THEN "failed" ELSE pc[t]
  PROVE  HInv'
<1>1. \A t \in Turns : /\ stamp'[t] = IF t \in T THEN NoStamp ELSE stamp[t]
                       /\ grounded'[t] = (grounded[t] /\ t \notin T)
                       /\ seen'[t] = IF t \in T THEN {} ELSE seen[t]
                       /\ history'[t] = IF t \in T THEN <<>> ELSE history[t]
  BY DEF Forget
<1>2. StampsHold'
  <2>1. NoStamp.asked = 0 /\ NoStamp.answered = 0 /\ clock \in Nat
    BY DEF NoStamp, IInv, Typed
  <2>2. \A t \in Turns :
          /\ stamp[t].asked \in Nat /\ stamp[t].answered \in Nat
          /\ t \in T => stamp'[t].asked = 0 /\ stamp'[t].answered = 0 /\ pc'[t] = "failed"
          /\ t \notin T => stamp'[t] = stamp[t] /\ pc'[t] = pc[t]
    BY <1>1, <2>1 DEF IInv, Typed
  <2> QED
    BY <2>1, <2>2 DEF HInv, StampsHold
<1>3. ASSUME NEW t \in Turns PROVE HistoryHolds(t)'
  <2>1. CASE t \in T
    BY <1>1, <2>1, NoHistoryNext
  <2>2. CASE t \notin T
    <3>1. \A q \in seen[t] : q \in Turns /\ pc[q] = "answered"
      BY DEF IInv, Typed, TurnsHold, TurnHolds
    <3>2. \A q \in seen[t] : stamp'[q] = stamp[q] /\ grounded'[q] = grounded[q]
      BY <1>1, <3>1 DEF IInv, Typed
    <3> QED
      BY <1>1, <2>2, <3>2, HistoryStays DEF HInv, HistoriesHold
  <2> QED
    BY <2>1, <2>2
<1>4. history' = [t \in Turns |-> history'[t]]
  BY <1>1 DEF Forget
<1> QED
  BY <1>2, <1>3, <1>4 DEF HInv, HistoriesHold

\* The question gets its stamp.
LEMMA StampQuestionKeepsHInv ==
  ASSUME IInv, HInv, NEW t \in Turns, StampQuestion(t)
  PROVE  HInv'
<1>1. /\ clock' = clock + 1 /\ clock \in Nat
      /\ \A q \in Turns : q # t => stamp'[q] = stamp[q] /\ pc'[q] = pc[q]
      /\ stamp'[t].asked = clock + 1 /\ stamp'[t].answered = stamp[t].answered
      /\ pc[t] = "stamp" /\ pc'[t] = "insert"
      /\ UNCHANGED <<seen, history, grounded>>
  BY DEF StampQuestion, Goto, IInv, Typed
<1>2. \A q \in Turns : stamp[q].asked \in Nat /\ stamp[q].answered \in Nat
  BY DEF IInv, Typed
<1>3. StampsHold'
  BY <1>1, <1>2 DEF HInv, StampsHold
<1>4. ASSUME NEW q \in Turns PROVE HistoryHolds(q)'
  <2>1. \A p \in seen[q] : p \in Turns /\ pc[p] = "answered"
    BY DEF IInv, Typed, TurnsHold, TurnHolds
  <2> QED
    BY <1>1, <2>1, HistoryStays DEF HInv, HistoriesHold
<1> QED
  BY <1>1, <1>3, <1>4 DEF HInv, HistoriesHold

\* The answer gets its stamp, after its question's.
LEMMA GenerateKeepsHInv ==
  ASSUME IInv, HInv, NEW t \in Turns, Generate(t)
  PROVE  HInv'
<1>1. /\ clock' = clock + 1 /\ clock \in Nat
      /\ \A q \in Turns : q # t => /\ stamp'[q] = stamp[q] /\ pc'[q] = pc[q]
                                   /\ grounded'[q] = grounded[q]
      /\ stamp'[t].answered = clock + 1 /\ stamp'[t].asked = stamp[t].asked
      /\ pc[t] = "generate" /\ pc'[t] = "commit"
      /\ UNCHANGED <<seen, history>>
  BY DEF Generate, Goto, AfterGeneration, IInv, Typed
<1>2. \A q \in Turns : stamp[q].asked \in Nat /\ stamp[q].answered \in Nat
  BY DEF IInv, Typed
<1>3. StampsHold'
  BY <1>1, <1>2 DEF HInv, StampsHold
<1>4. ASSUME NEW q \in Turns PROVE HistoryHolds(q)'
  <2>1. \A p \in seen[q] : p \in Turns /\ pc[p] = "answered"
    BY DEF IInv, Typed, TurnsHold, TurnHolds
  <2> QED
    BY <1>1, <2>1, HistoryStays DEF HInv, HistoriesHold
<1> QED
  BY <1>1, <1>3, <1>4 DEF HInv, HistoriesHold

\* What was read is dropped with the answer.
LEMMA CommitKeepsHInv ==
  ASSUME IInv, HInv, NEW t \in Turns, Commit(t)
  PROVE  HInv'
<1>1. /\ \A q \in Turns : q # t => /\ seen'[q] = seen[q] /\ pc'[q] = pc[q]
                                   /\ history'[q] = history[q]
      /\ seen'[t] = {} /\ history'[t] = <<>>
      /\ pc[t] = "commit" /\ pc'[t] = "answered"
      /\ UNCHANGED <<clock, stamp, grounded>>
      /\ history' = [q \in Turns |-> history'[q]]
  BY DEF Commit, Goto, IInv, Typed, HInv, HistoriesHold
<1>2. StampsHold'
  BY <1>1 DEF HInv, StampsHold
<1>3. ASSUME NEW q \in Turns PROVE HistoryHolds(q)'
  <2>1. CASE q = t
    BY <1>1, <2>1, NoHistoryNext
  <2>2. CASE q # t
    BY <1>1, <2>2, HistoryStays DEF HInv, HistoriesHold
  <2> QED
    BY <2>1, <2>2
<1> QED
  BY <1>1, <1>2, <1>3 DEF HInv, HistoriesHold


\* The history is read.
LEMMA ReadHistoryKeepsHInv ==
  ASSUME IInv, HInv, NEW t \in Turns, ReadHistory(t)
  PROVE  HInv'
<1> DEFINE S == RowsIn(into[t])
           Q == {m.turn : m \in S}
           n == Cardinality(Q)
<1>1. /\ \A q \in Turns : q # t => /\ seen'[q] = seen[q] /\ pc'[q] = pc[q]
                                   /\ history'[q] = history[q]
      /\ seen'[t] = Q /\ history'[t] = RecentTurns(S)
      /\ pc[t] = "history" /\ pc'[t] = "stamp"
      /\ UNCHANGED <<clock, stamp, grounded>>
      /\ history' = [q \in Turns |-> history'[q]]
  BY DEF ReadHistory, Goto, IInv, Typed, HInv, HistoriesHold
<1>2. StampsHold'
  BY <1>1 DEF HInv, StampsHold
<1>3. Q \in SUBSET Turns /\ \A q \in Q : pc[q] = "answered" /\ grounded[q] \in BOOLEAN
  <2>1. \A m \in message : m \in {k \in message : k.turn = m.turn} /\ m.turn \in Turns
    BY DEF IInv, Typed
  <2> QED
    BY <2>1 DEF RowsIn, IInv, Typed, TurnsAreWhole
<1>4. S = AllRows(Q)
  <2>1. \A q \in Q : {m \in message : m.turn = q} = RowsOf(q) /\ into[q] = into[t]
    <3>1. \A m \in S : {k \in message : k.turn = m.turn} = RowsOf(m.turn)
      <4>1. \A m \in S : m \in {k \in message : k.turn = m.turn} /\ m.turn \in Turns
        BY DEF RowsIn, IInv, Typed
      <4> QED
        BY <4>1 DEF IInv, TurnsAreWhole
    <3> QED
      BY <3>1 DEF RowsIn
  <2> QED
    BY <2>1 DEF RowsIn, AllRows
<1> HIDE DEF S, Q
<1>5. ASSUME \A q, a \in Q : ~Overlap(q, a)
      PROVE  \E e : /\ Numbers(e, Q, n)
                    /\ history'[t] = LastOf([i \in 1 .. n |-> KeptTurn(e[i])], HistoryTurns)
  <2>1. IsFiniteSet(Q) /\ OneByOne(Q)
    BY <1>3, <1>5, AnsweredAreOneByOne DEF IInv, HInv
  <2>2. PICK e : Numbers(e, Q, n)
    BY <2>1, NumbersExist
  <2> QED
    BY <1>1, <1>3, <1>4, <2>1, <2>2, RecentIsLast
<1>6. HistoryHolds(t)'
  <2> SUFFICES ASSUME (\A q, a \in seen[t] : ~Overlap(q, a))'
               PROVE  (\E e : /\ Numbers(e, seen[t], Cardinality(seen[t]))
                              /\ history[t] = LastOf(
                                   [i \in 1 .. Cardinality(seen[t]) |-> KeptTurn(e[i])],
                                   HistoryTurns))'
    BY DEF HistoryHolds
  <2>1. \A q, a \in Q : ~Overlap(q, a)
    BY <1>1 DEF Overlap
  <2>2. PICK e : /\ Numbers(e, Q, n)
                 /\ history'[t] = LastOf([i \in 1 .. n |-> KeptTurn(e[i])], HistoryTurns)
    BY <1>5, <2>1
  <2>3. Numbers(e, seen[t], Cardinality(seen[t]))'
    BY <1>1, <2>2 DEF Numbers
  <2>4. \A i : KeptTurn(e[i])' = KeptTurn(e[i])
    BY <1>1 DEF KeptTurn
  <2>5. (history[t] = LastOf([i \in 1 .. Cardinality(seen[t]) |-> KeptTurn(e[i])], HistoryTurns))'
    BY <1>1, <2>2, <2>4
  <2> QED
    BY <2>3, <2>5
<1>7. ASSUME NEW q \in Turns, q # t PROVE HistoryHolds(q)'
  BY <1>1, <1>7, HistoryStays DEF HInv, HistoriesHold
<1> QED
  BY <1>1, <1>2, <1>6, <1>7 DEF HInv, HistoriesHold

\* Before we begin to watch, the turns of the past came one by one.
LEMMA InitHInv == Init => HInv
<1> SUFFICES ASSUME Init PROVE HInv
  OBVIOUS
<1> DEFINE At(k) == [asked |-> 2 * k - 1, answered |-> 2 * k]
           Place(t) == CHOOSE k \in DOMAIN Past : Past[k] = t
<1>1. /\ clock = 2 * Len(Past)
      /\ stamp = [t \in Turns |-> IF Contains(Past, t) THEN At(Place(t)) ELSE NoStamp]
      /\ \A t \in Turns : pc[t] = IF Contains(Past, t) THEN "answered" ELSE "idle"
      /\ \A t \in Turns : seen[t] = {} /\ history[t] = <<>>
      /\ history = [t \in Turns |-> history[t]]
  BY DEF Init
<1>2. \A t \in Turns : Contains(Past, t) => /\ Place(t) \in 1 .. Len(Past)
                                           /\ Past[Place(t)] = t
  BY PastAssumption DEF Contains
<1>3. Len(Past) \in Nat
  BY PastAssumption
<1> HIDE DEF Place
<1>4. \A t \in Turns :
        /\ Contains(Past, t) => /\ stamp[t].asked = 2 * Place(t) - 1
                                /\ stamp[t].answered = 2 * Place(t)
        /\ ~Contains(Past, t) => stamp[t].asked = 0 /\ stamp[t].answered = 0
  BY <1>1 DEF NoStamp
<1>5. \A t, q \in Turns : t # q /\ Contains(Past, t) /\ Contains(Past, q) => Place(t) # Place(q)
  BY <1>2
<1>6. StampsHold
  BY <1>1, <1>2, <1>3, <1>4, <1>5 DEF StampsHold
<1>7. ASSUME NEW t \in Turns PROVE HistoryHolds(t)
  BY <1>1, NoHistory
<1> QED
  BY <1>1, <1>6, <1>7 DEF HInv, HistoriesHold

\* Every step keeps what the history rests on.
LEMMA NextKeepsHInv == IInv /\ HInv /\ [Next]_vars => HInv'
<1> SUFFICES ASSUME IInv, HInv, [Next]_vars PROVE HInv'
  OBVIOUS
<1>1. ASSUME NEW t \in Turns, pc[t] \in LivePc, Raise(t), UNCHANGED clock PROVE HInv'
  <2>1. pc[t] # "answered" /\ \A q \in Turns : pc'[q] = IF q \in {t} THEN "failed" ELSE pc[q]
    BY <1>1 DEF Raise, Goto, LivePc, HoldsPc, IInv, Typed
  <2> QED
    BY <1>1, <2>1, ForgettingKeepsHInv DEF Raise
<1>2. ASSUME NEW t \in Turns, Ask(t) \/ Lookup(t) \/ PickCourse(t) \/ OpenConversation(t)
      PROVE  HInv'
  BY <1>2, QuietStepKeepsHInv
     DEF Ask, Lookup, PickCourse, OpenConversation, OpenUnder, Goto, IInv, Typed
<1>3. ASSUME NEW t \in Turns, MakeCourse(t) PROVE HInv'
  <2>1. CASE Raise(t)
    BY <1>1, <1>3, <2>1 DEF MakeCourse, LivePc
  <2>2. CASE ~Raise(t)
    BY <1>3, <2>2, QuietStepKeepsHInv DEF MakeCourse, OpenUnder, Goto, IInv, Typed
  <2> QED
    BY <2>1, <2>2
<1>4. ASSUME NEW t \in Turns, RefreshConversation(t) PROVE HInv'
  <2>1. CASE Raise(t)
    BY <1>1, <1>4, <2>1 DEF RefreshConversation, LivePc
  <2>2. CASE ~Raise(t)
    BY <1>4, <2>2, QuietStepKeepsHInv DEF RefreshConversation, Goto, IInv, Typed
  <2> QED
    BY <2>1, <2>2
<1>5. ASSUME NEW t \in Turns, InsertQuestion(t) PROVE HInv'
  <2>1. CASE Raise(t)
    BY <1>1, <1>5, <2>1 DEF InsertQuestion, LivePc
  <2>2. CASE ~Raise(t)
    BY <1>5, <2>2, QuietStepKeepsHInv DEF InsertQuestion, Goto, IInv, Typed
  <2> QED
    BY <2>1, <2>2
<1>6. ASSUME NEW t \in Turns, RetrievalFails(t) PROVE HInv'
  BY <1>1, <1>6 DEF RetrievalFails, LivePc, HoldsPc
<1>7. ASSUME NEW d \in Deletes, AskDelete(d) \/ Delete(d) PROVE HInv'
  BY <1>7, QuietStepKeepsHInv DEF AskDelete, Delete, turnVars
<1>8. CASE Crash
  <2> DEFINE T == {t \in Turns : pc[t] \in LivePc}
  <2>1. /\ Forget(T) /\ UNCHANGED clock
        /\ \A t \in Turns : pc'[t] = IF t \in T THEN "failed" ELSE pc[t]
    BY <1>8 DEF Crash
  <2>2. T \in SUBSET Turns /\ \A t \in T : pc[t] # "answered"
    BY DEF LivePc, HoldsPc
  <2> HIDE DEF T
  <2> QED
    BY <2>1, <2>2, ForgettingKeepsHInv
<1>9. CASE UNCHANGED vars
  BY <1>9, QuietStepKeepsHInv DEF vars, turnVars
<1> QED
  BY <1>2, <1>3, <1>4, <1>5, <1>6, <1>7, <1>8, <1>9, ReadHistoryKeepsHInv,
     StampQuestionKeepsHInv, GenerateKeepsHInv, CommitKeepsHInv DEF Next, TurnStep, Quiet

\* The history a turn reads is the last turns of its conversation, each question
\* with its own answer, whenever the turns it reads did not overlap: no limit on
\* the rows cuts a turn in half or loses one (rag.py:277-306).
THEOREM HistoryIsAlwaysTheConversation == Spec => []HistoryIsTheConversation
<1>1. IInv /\ HInv => HistoryIsTheConversation
  <2> SUFFICES ASSUME IInv, HInv, NEW t \in Turns, \A q, a \in seen[t] : ~Overlap(q, a)
               PROVE  history[t] = LastTurns(seen[t])
    BY DEF HistoryIsTheConversation
  <2>1. seen[t] \in SUBSET Turns /\ \A q \in seen[t] : pc[q] = "answered"
    BY DEF IInv, Typed, TurnsHold, TurnHolds
  <2>2. IsFiniteSet(seen[t]) /\ OneByOne(seen[t])
    BY <2>1, AnsweredAreOneByOne DEF IInv, HInv
  <2> DEFINE n == Cardinality(seen[t])
  <2>3. PICK e : /\ Numbers(e, seen[t], n)
                 /\ history[t] = LastOf([i \in 1 .. n |-> KeptTurn(e[i])], HistoryTurns)
    BY DEF HInv, HistoriesHold, HistoryHolds
  <2> QED
    BY <2>2, <2>3, NumbersAreLast
<1> QED
  BY <1>1, InitHInv, NextKeepsHInv, InitIInv, NextKeepsIInv, PTL DEF Spec

----------------------------------------------------------------------------
(***************************************************************************)
(* What holds of Grounding, the gate a turn's answer passes before it is   *)
(* stored, for any quotes, any number of sources and markers, and lists of *)
(* citations of any length.                                                *)
(***************************************************************************)
\* What the gate lets through, as GateIsExact states it.
Exact(d, s) ==
  IF Sound(d, s)
  THEN [text |-> d.text, kept |-> Good(d, s), grounded |-> d.claims,
        uncovered |-> IF d.claims THEN d.uncovered ELSE "absent"]
  ELSE IF d.markers # {} \/ Resolved(d, s) # {} THEN Withheld("unverified")
  ELSE CASE d.uncovered = "absent" -> Withheld(d.text)
         [] d.uncovered = "blank" -> Withheld("unverified")
         [] d.uncovered = "named" -> Withheld("nothing_cited")

\* The chain of filters and the check agree with the declarative reading of
\* them: every draft is decided as Exact says (rag.py:510-555).
LEMMA DecideIsExact ==
  ASSUME NEW d, NEW s, d.claims \in BOOLEAN, d.uncovered \in Gaps
  PROVE  Decide(d, s) = Exact(d, s)
<1> DEFINE R == Resolved(d, s)
           U == DropUnreferenced(d, R)
           K == Kept(d, s)
           G == Good(d, s)
           V == Verified(d, U, s)
<1>1. K = {k \in U : k \in V \/ MarkerOf(d, k) \notin MarkersIn(d, V)}
  BY DEF Kept, DropUnverified
<1>2. CASE d.markers = {}
  <2>1. U = R
    BY <1>2 DEF DropUnreferenced
  <2>2. ~Sound(d, s)
    BY <1>2 DEF Sound
  <2>3. CASE R = {}
    <3>1. K = {} /\ MarkersIn(d, K) = {}
      BY <1>1, <2>1, <2>3 DEF MarkersIn
    <3>2. CheckGrounding(d, K, s) <=> d.uncovered = "absent"
      BY <3>1, <1>2 DEF CheckGrounding, GapIsNamed, NoQuoteTwice
    <3>3. NamesAGapOnly(d, K) <=> d.uncovered = "named"
      BY <3>1, <1>2 DEF NamesAGapOnly
    <3>4. CASE d.uncovered = "absent"
      BY <3>1, <3>2, <3>4, <2>2, <2>3, <1>2 DEF Decide, Exact, Withheld
    <3>5. CASE d.uncovered = "blank"
      BY <3>1, <3>2, <3>3, <3>5, <2>2, <2>3, <1>2 DEF Decide, Exact, Withheld
    <3>6. CASE d.uncovered = "named"
      BY <3>1, <3>2, <3>3, <3>6, <2>2, <2>3, <1>2 DEF Decide, Exact, Withheld
    <3> QED
      BY <3>4, <3>5, <3>6 DEF Gaps
  <2>4. CASE R # {}
    <3>1. K # {}
      <4>1. PICK k \in R : TRUE
        BY <2>4
      <4>2. CASE k \in K
        BY <4>2
      <4>3. CASE k \notin K
        <5>1. PICK j \in V : MarkerOf(d, j) = MarkerOf(d, k)
          BY <4>1, <4>3, <2>1, <1>1 DEF MarkersIn
        <5> QED
          BY <5>1, <1>1 DEF Verified
      <4> QED
        BY <4>2, <4>3
    <3>2. ~CheckGrounding(d, K, s) /\ ~NamesAGapOnly(d, K)
      BY <3>1, <1>2 DEF CheckGrounding, NamesAGapOnly, MarkersIn
    <3> QED
      BY <3>2, <2>2, <2>4 DEF Decide, Exact
  <2> QED
    BY <2>3, <2>4
<1>3. CASE d.markers # {}
  <2>1. U = {k \in R : MarkerOf(d, k) \in d.markers}
    BY <1>3 DEF DropUnreferenced
  <2>2. G = V
    BY <2>1 DEF Good, Leads, Verified, QuoteFound, Resolved, MarkerOf
  <2>3. V \subseteq K
    BY <1>1 DEF Verified
  <2>4. ~NamesAGapOnly(d, K)
    BY <1>3 DEF NamesAGapOnly
  <2>5. CASE Sound(d, s)
    <3>1. \A m \in d.markers : m \in MarkersIn(d, V)
      BY <2>5, <2>2 DEF Sound, MarkersIn, MarkerOf
    <3>2. K = G
      BY <3>1, <1>1, <2>1, <2>2, <2>3
    <3>3. d.markers = MarkersIn(d, K)
      BY <3>1, <3>2, <2>1, <2>2 DEF MarkersIn, Verified
    <3>4. K # {}
      BY <3>3, <1>3 DEF MarkersIn
    <3>5. GapIsNamed(d, K)
      BY <3>4, <2>5 DEF GapIsNamed, Sound, Gaps
    <3>6. NoQuoteTwice(d, K)
      BY <3>2, <2>5 DEF NoQuoteTwice, Sound
    <3>7. \A k \in K : MarkerOf(d, k) \in DOMAIN s /\ QuoteFound(d.citations[k], s)
      BY <3>2 DEF Good, Leads, QuoteFound, MarkerOf
    <3>8. CheckGrounding(d, K, s)
      BY <3>3, <3>5, <3>6, <3>7 DEF CheckGrounding
    <3> QED
      BY <3>2, <3>4, <3>8, <2>5 DEF Decide, Exact
  <2>6. CASE ~Sound(d, s)
    <3>1. ~CheckGrounding(d, K, s)
      <4> SUFFICES ASSUME CheckGrounding(d, K, s) PROVE FALSE
        OBVIOUS
      <4>1. K = G
        BY <1>1, <2>1, <2>2, <2>3 DEF CheckGrounding, Verified
      <4>2. \A m \in d.markers : \E k \in G : d.citations[k].marker = m
        BY <4>1 DEF CheckGrounding, MarkersIn, MarkerOf
      <4>3. \A j, k \in G : d.citations[j] = d.citations[k] => j = k
        BY <4>1 DEF CheckGrounding, NoQuoteTwice
      <4>4. d.uncovered # "blank"
        BY DEF CheckGrounding, GapIsNamed
      <4> QED
        BY <4>2, <4>3, <4>4, <2>6, <1>3 DEF Sound
    <3> QED
      BY <3>1, <2>4, <2>6, <1>3 DEF Decide, Exact
  <2> QED
    BY <2>5, <2>6
<1> QED
  BY <1>2, <1>3

----------------------------------------------------------------------------
\* What every state satisfies: a draft is there from the first step on, nothing
\* is stored before it is decided, and what is stored is the decision.
GInv ==
  /\ stage \in {"asked", "drafted", "stored", "answered", "raised"}
  /\ stage # "asked" => draft \in Drafts \cup {FailedDraft}
  /\ stage \in {"asked", "drafted"} => storedMessage = Nothing
  /\ stage \in {"stored", "answered"} => storedMessage = Decide(draft, sources)

\* Whatever the model returns, what is stored is the decision on it.
LEMMA GateInvariantHolds == GateSpec => []GInv
<1>1. GateInit => GInv
  BY DEF GateInit, GInv
<1>2. GInv /\ [GateNext]_gateVars => GInv'
  <2> SUFFICES ASSUME GInv, [GateNext]_gateVars PROVE GInv'
    OBVIOUS
  <2> USE DEF GInv
  <2>1. CASE GenerateAnswer
    BY <2>1 DEF GenerateAnswer
  <2>2. CASE GenerationFails
    BY <2>2 DEF GenerationFails
  <2>3. CASE Store
    BY <2>3 DEF Store
  <2>4. CASE RaiseUnstored
    BY <2>4 DEF RaiseUnstored
  <2>5. CASE Reply
    BY <2>5 DEF Reply
  <2>6. CASE RaiseStored
    BY <2>6 DEF RaiseStored
  <2>7. CASE UNCHANGED gateVars
    BY <2>7 DEF gateVars
  <2> QED
    BY <2>1, <2>2, <2>3, <2>4, <2>5, <2>6, <2>7 DEF GateNext, RequestOver
<1> QED
  BY <1>1, <1>2, PTL DEF GateSpec

\* For every draft and every list of sources, what is stored and shown is what
\* GateIsExact says of them (rag.py:510-555, grounding.py:66-235).
THEOREM GateIsExactAlways == GateSpec => []GateIsExact
<1>1. GInv => GateIsExact
  <2> SUFFICES ASSUME GInv, stage \in {"stored", "answered"}
               PROVE  storedMessage = Exact(draft, sources)
    BY DEF GateIsExact, Exact
  <2>1. draft \in Drafts \cup {FailedDraft}
    BY DEF GInv
  <2>2. draft.claims \in BOOLEAN /\ draft.uncovered \in Gaps
    <3>1. CASE draft \in Drafts
      BY <3>1 DEF Drafts
    <3>2. CASE draft = FailedDraft
      BY <3>2 DEF FailedDraft, Gaps
    <3> QED
      BY <2>1, <3>1, <3>2
  <2> QED
    BY <2>2, DecideIsExact DEF GInv
<1> QED
  BY <1>1, GateInvariantHolds, PTL

\* No reader ever finds a number in brackets that leads nowhere: a corollary of
\* the exactness of the gate (grounding.py:140-144).
THEOREM MarkersAlways == GateSpec => []MarkersLeadSomewhere
<1>1. GInv /\ GateIsExact => MarkersLeadSomewhere
  <2> SUFFICES ASSUME GInv, GateIsExact, stage \in {"stored", "answered"},
                      storedMessage.text = "prose",
                      NEW m \in draft.markers
               PROVE  \E k \in storedMessage.kept :
                        draft.citations[k].marker = m /\ Leads(draft.citations[k], sources)
    BY DEF MarkersLeadSomewhere
  <2>1. storedMessage # Withheld("unverified")
    BY DEF Withheld
  <2>2. Sound(draft, sources) /\ storedMessage.kept = Good(draft, sources)
    BY <2>1 DEF GateIsExact
  <2>3. PICK k \in Good(draft, sources) : draft.citations[k].marker = m
    BY <2>2 DEF Sound
  <2> QED
    BY <2>2, <2>3 DEF Good
<1> QED
  BY <1>1, GateInvariantHolds, GateIsExactAlways, PTL

\* One more citation nobody would miss changes neither which citations are good
\* nor whether any resolves where that matters.
LEMMA NoiseChangesNothing ==
  ASSUME NEW d \in Drafts \cup {FailedDraft}, NEW s, NEW k, NEW c,
         d.uncovered \in Gaps, k \notin DOMAIN d.citations, IsNoise(d, c, s)
  PROVE  Exact(With(d, k, c), s) = Exact(d, s)
<1> DEFINE e == With(d, k, c)
<1>1. /\ e.text = d.text /\ e.markers = d.markers /\ e.claims = d.claims
      /\ e.uncovered = d.uncovered
      /\ e.citations = [j \in DOMAIN d.citations \cup {k} |-> IF j = k THEN c ELSE d.citations[j]]
  BY DEF With, Drafts, FailedDraft
<1>2. /\ DOMAIN e.citations = DOMAIN d.citations \cup {k} /\ e.citations[k] = c
      /\ \A j \in DOMAIN d.citations : e.citations[j] = d.citations[j]
  BY <1>1
<1> HIDE DEF e
<1>3. ~(c.marker \in d.markers /\ Leads(c, s)) \/ d.markers = {}
  BY DEF IsNoise, Leads
<1>4. Good(e, s) = Good(d, s)
  BY <1>1, <1>2, <1>3 DEF Good
<1>5. Sound(e, s) <=> Sound(d, s)
  <2>1. \A j \in Good(d, s) : e.citations[j] = d.citations[j]
    BY <1>2 DEF Good
  <2>2. (\A m \in e.markers : \E j \in Good(e, s) : e.citations[j].marker = m)
          <=> (\A m \in d.markers : \E j \in Good(d, s) : d.citations[j].marker = m)
    BY <1>1, <1>4, <2>1
  <2>3. (\A i, j \in Good(e, s) : e.citations[i] = e.citations[j] => i = j)
          <=> (\A i, j \in Good(d, s) : d.citations[i] = d.citations[j] => i = j)
    BY <1>4, <2>1
  <2> QED
    BY <1>1, <2>2, <2>3 DEF Sound
<1>6. d.markers # {} \/ (Resolved(e, s) = {} <=> Resolved(d, s) = {})
  BY <1>1, <1>2 DEF IsNoise, Leads, Resolved, MarkerOf
<1>7. Exact(e, s) = Exact(d, s)
  <2>1. CASE Sound(d, s)
    BY <1>1, <1>4, <1>5, <2>1 DEF Exact
  <2>2. CASE ~Sound(d, s) /\ (d.markers # {} \/ Resolved(d, s) # {})
    BY <1>1, <1>5, <1>6, <2>2 DEF Exact
  <2>3. CASE ~Sound(d, s) /\ d.markers = {} /\ Resolved(d, s) = {}
    <3>1. ~Sound(e, s) /\ e.markers = {} /\ Resolved(e, s) = {}
      BY <1>1, <1>5, <1>6, <2>3
    <3>2. CASE d.uncovered = "absent"
      BY <1>1, <2>3, <3>1, <3>2 DEF Exact
    <3>3. CASE d.uncovered = "blank"
      BY <1>1, <2>3, <3>1, <3>3 DEF Exact
    <3>4. CASE d.uncovered = "named"
      BY <1>1, <2>3, <3>1, <3>4 DEF Exact
    <3> QED
      BY <3>2, <3>3, <3>4 DEF Gaps
  <2> QED
    BY <2>1, <2>2, <2>3
<1> QED
  BY <1>7 DEF e

\* Had the model listed one more citation nobody would miss, the reader would
\* have seen the same answer: for every draft and every list of sources
\* (grounding.py:75-98, grounding.py:127-143).
THEOREM NoiseIsAlwaysHarmless == GateSpec => []NoiseIsHarmless
<1>1. GInv => NoiseIsHarmless
  <2> SUFFICES ASSUME GInv, stage = "stored",
                      NEW k \in Slots \ DOMAIN draft.citations, NEW c \in Citation,
                      IsNoise(draft, c, sources)
               PROVE  Decide(With(draft, k, c), sources) = storedMessage
    BY DEF NoiseIsHarmless
  <2>1. draft \in Drafts \cup {FailedDraft} /\ storedMessage = Decide(draft, sources)
    BY DEF GInv
  <2>2. draft.claims \in BOOLEAN /\ draft.uncovered \in Gaps
    <3>1. CASE draft \in Drafts
      BY <3>1 DEF Drafts
    <3>2. CASE draft = FailedDraft
      BY <3>2 DEF FailedDraft, Gaps
    <3> QED
      BY <2>1, <3>1, <3>2
  <2>3. /\ With(draft, k, c).claims = draft.claims
        /\ With(draft, k, c).uncovered = draft.uncovered
    BY <2>1 DEF With, Drafts, FailedDraft
  <2>4. Exact(With(draft, k, c), sources) = Exact(draft, sources)
    BY <2>1, <2>2, NoiseChangesNothing
  <2> QED
    BY <2>1, <2>2, <2>3, <2>4, DecideIsExact
<1> QED
  BY <1>1, GateInvariantHolds, PTL
=============================================================================
