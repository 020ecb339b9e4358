------------------------- MODULE TokenRefreshProofs -------------------------
(***************************************************************************)
(* What holds of TokenRefresh for any requests, sign-outs, uploads and     *)
(* users, and however often tokens expire: refreshes do not overlap, and   *)
(* the session is the one the user asked for last.  At the end, what holds *)
(* of Upload, the modal whose files the client sends.                      *)
(***************************************************************************)
EXTENDS TokenRefresh, Upload, TLAPS

\* What is on the line is what the caller waits for; nothing travels for a
\* caller that waits for nothing.
LinesAreUsed ==
  /\ \A x \in Callers :
       /\ call[x] = "none" => reply[x] = "none"
       /\ reply[x] # "ok" => grant[x] = NoToken
  /\ \A r \in Reqs :
       /\ call[r] # "login"
       /\ pc[r] = "open" <=> call[r] = "api"
       /\ pc[r] = "driving" <=> call[r] = "refresh"
  /\ call[Boot] \in {"none", "refresh"}
  /\ call[Door] \in {"none", "login"}

\* While the last sign-in counts, every refresh speaks for its user, no sign-out
\* has succeeded, and the sign-in itself has been served.
SignedInAs(u) ==
  /\ \A x \in Callers : call[x] = "refresh" =>
       /\ reply[x] = "none" => carries[x].user = u
       /\ reply[x] = "ok" => grant[x].user = u
  /\ \A r \in Logouts : call[r] = "api" => reply[r] # "ok"
  /\ call[Door] = "login" => reply[Door] = "ok" /\ grant[Door].user = u

\* While the last sign-out counts, no refresh has a cookie to speak for, and no
\* sign-in has been served.
SignedOut ==
  /\ \A x \in Callers : call[x] = "refresh" =>
       /\ reply[x] = "none" => carries[x].user = Nobody
       /\ reply[x] # "ok"
  /\ reply[Door] # "ok"

SessionIsFollowed ==
  /\ since \in Users => SignedInAs(since)
  /\ since = "logout" => SignedOut

IInv == TypeOK /\ LinesAreUsed /\ OneDriver /\ SessionIsFollowed /\ SessionFollowsUser

----------------------------------------------------------------------------
\* "No token" is a token, so it may travel and be granted.
LEMMA NoTokenIsToken == NoToken \in Token
BY MaxNowAssumption DEF Token, NoToken

\* A cookie travels in the place of a token.
LEMMA CookieIsToken ==
  ASSUME cookie \in Users \cup {Nobody}
  PROVE  Cookie \in Token
BY MaxNowAssumption DEF Token, Cookie

\* An exchange leaves the line with values of the right kinds.
LEMMA ExchangeIsTyped ==
  ASSUME TypeOK, NEW x, NEW R, NEW t \in Token,
         NEW kind \in {"none", "api", "refresh", "login"}, Exchange(x, R, kind, t)
  PROVE  /\ call' \in [Callers -> {"none", "api", "refresh", "login"}]
         /\ carries' \in [Callers -> Token]
         /\ reply' \in [Callers -> {"none", "ok", "unauthorized", "error"}]
         /\ grant' \in [Callers -> Token]
BY NoTokenIsToken DEF TypeOK, Exchange

\* The first state: a refresh of AuthProvider and nothing else.
LEMMA InitIInv == Init => IInv
<1> SUFFICES ASSUME Init PROVE IInv
  OBVIOUS
<1> USE CallersAssumption, UsersAssumption DEF Init
<1>1. TypeOK
  <2>1. 0 \in 0 .. MaxNow /\ NoToken \in Token
    BY MaxNowAssumption, NoTokenIsToken
  <2>2. carries \in [Callers -> Token]
    BY <2>1 DEF Token
  <2> QED
    BY <2>1, <2>2 DEF TypeOK, Pc
<1>2. LinesAreUsed
  BY DEF LinesAreUsed, Callers
<1>3. OneDriver /\ SessionIsFollowed /\ SessionFollowsUser
  BY DEF OneDriver, SessionIsFollowed, SessionFollowsUser
<1> QED
  BY <1>1, <1>2, <1>3 DEF IInv

----------------------------------------------------------------------------
(* One lemma per action.                                                   *)

\* An answer is prepared for an exchange that has none.
LEMMA ServeKeepsIInv ==
  ASSUME IInv, NEW x \in Callers, Serve(x)
  PROVE  IInv'
<1> USE DEF IInv, Serve
<1>1. TypeOK'
  <2> USE NoTokenIsToken DEF TypeOK
  <2>1. cookie' \in Users \cup {Nobody} /\ since' \in Users \cup {"logout", "other"}
    BY DEF ServeCall, ServeSession, SameCookie, KeepCookie, ClearCookie, Event, Token
  <2>2. \A u \in Users : [user |-> u, issued |-> now] \in Token
    BY DEF Token
  <2>3. grant' \in [Callers -> Token]
    BY <2>2 DEF ServeCall, ServeSession, Answer, Token
  <2>4. reply' \in [Callers -> {"none", "ok", "unauthorized", "error"}]
    BY DEF ServeCall, ServeSession, Answer
  <2> QED
    BY <2>1, <2>3, <2>4
<1>2. LinesAreUsed'
  BY DEF TypeOK, LinesAreUsed, ServeCall, ServeSession, Answer
<1>3. OneDriver'
  BY DEF OneDriver
<1>4. SessionIsFollowed' /\ SessionFollowsUser'
  <2> USE UsersAssumption, NobodyAssumption, KindsAssumption, CallersAssumption
      DEF Callers, SessionIsFollowed, SessionFollowsUser, SignedInAs, SignedOut
  <2>1. CASE ServeCall(x)
    <3> USE <2>1 DEF ServeCall, TypeOK, LinesAreUsed
    <3>1. CASE x \in Logouts /\ Accepts(carries[x])
      <4>1. cookie' = Nobody /\ since' \in {"logout", "other"} /\ reply'[x] = "ok"
        BY <3>1 DEF Answer, ClearCookie, Event
      <4>2. SessionIsFollowed'
        BY <3>1, <4>1 DEF Answer, Event, Undoing
      <4> QED
        BY <3>1, <4>1, <4>2
    <3>2. CASE ~(x \in Logouts /\ Accepts(carries[x]))
      <4>1. UNCHANGED <<cookie, since>>
        BY <3>2 DEF SameCookie
      <4>2. \A y \in Logouts : call[y] = "api" /\ reply'[y] = "ok" => reply[y] = "ok"
        BY <3>2 DEF Answer
      <4>3. SessionIsFollowed'
        BY <4>1, <4>2 DEF Answer
      <4> QED
        BY <4>1, <4>3 DEF Answer
    <3> QED
      BY <3>1, <3>2
  <2>2. CASE ServeSession(x)
    <3> USE <2>2 DEF ServeSession, TypeOK, LinesAreUsed, Answer
    <3>1. CASE reply'[x] = "ok" /\ x = Door
      <4>1. /\ cookie' = carries[x].user /\ carries[x].user \in Users
            /\ grant'[x].user = cookie' /\ since' \in {cookie', "other"}
        BY <3>1 DEF KeepCookie, Event, Token
      <4>2. SessionIsFollowed'
        BY <3>1, <4>1 DEF KeepCookie, Event, Undoing
      <4> QED
        BY <3>1, <4>1, <4>2
    <3>2. CASE reply'[x] = "ok" /\ x # Door
      <4>1. cookie' = carries[x].user /\ carries[x].user # Nobody /\ since' = since
        BY <3>2 DEF KeepCookie
      <4>2. since # "logout" /\ (since \in Users => carries[x].user = since)
        BY <3>2, <4>1
      <4>3. SessionIsFollowed'
        BY <3>2, <4>1, <4>2
      <4> QED
        BY <3>2, <4>1, <4>2, <4>3
    <3>3. CASE reply'[x] # "ok"
      <4>1. UNCHANGED <<cookie, since>> /\ reply'[x] = "unauthorized"
        BY <3>3 DEF SameCookie
      <4>2. SessionIsFollowed'
        BY <3>3, <4>1
      <4> QED
        BY <3>3, <4>1, <4>2
    <3> QED
      BY <3>1, <3>2, <3>3
  <2>3. CASE Answer(x, "error", NoToken) /\ SameCookie
    <3> USE <2>3 DEF TypeOK, LinesAreUsed, Answer, SameCookie
    <3>1. SessionIsFollowed'
      OBVIOUS
    <3> QED
      BY <3>1
  <2> QED
    BY <2>1, <2>2, <2>3
<1> QED
  BY <1>1, <1>2, <1>3, <1>4

\* Tokens expire; nobody is told.
LEMMA TickKeepsIInv ==
  ASSUME IInv, Tick
  PROVE  IInv'
<1> USE DEF IInv, Tick, clientVars, lineVars
<1>1. TypeOK'
  BY MaxNowAssumption DEF TypeOK, Token
<1>2. LinesAreUsed'
  BY DEF LinesAreUsed
<1>3. OneDriver'
  BY DEF OneDriver
<1>4. SessionIsFollowed' /\ SessionFollowsUser'
  BY DEF SessionIsFollowed, SessionFollowsUser, SignedInAs, SignedOut
<1> QED
  BY <1>1, <1>2, <1>3, <1>4

\* A request begins with the token in memory.
LEMMA SendKeepsIInv ==
  ASSUME IInv, NEW r \in Reqs, Send(r)
  PROVE  IInv'
<1> USE DEF IInv, Send
<1>1. TypeOK'
  BY ExchangeIsTyped, NoTokenIsToken DEF TypeOK, Pc
<1>2. LinesAreUsed'
  BY KindsAssumption, CallersAssumption DEF LinesAreUsed, TypeOK, Exchange, Callers
<1>3. OneDriver'
  BY DEF OneDriver, TypeOK, LinesAreUsed, Callers
<1>4. SessionIsFollowed' /\ SessionFollowsUser'
  BY UsersAssumption, NobodyAssumption, KindsAssumption, CallersAssumption
     DEF SessionIsFollowed, SessionFollowsUser, SignedInAs, SignedOut, TypeOK, LinesAreUsed,
         Exchange, Callers, NoToken
<1> QED
  BY <1>1, <1>2, <1>3, <1>4

\* A request is answered; a sign-out forgets the token.
LEMMA DoneKeepsIInv ==
  ASSUME IInv, NEW r \in Reqs, Done(r)
  PROVE  IInv'
<1> USE DEF IInv, Done, Forget
<1>1. TypeOK'
  BY ExchangeIsTyped, NoTokenIsToken DEF TypeOK, Pc
<1>2. LinesAreUsed'
  BY KindsAssumption, CallersAssumption DEF LinesAreUsed, TypeOK, Exchange, Callers
<1>3. OneDriver'
  BY DEF OneDriver, TypeOK, LinesAreUsed, Callers
<1>4. SessionIsFollowed' /\ SessionFollowsUser'
  BY UsersAssumption, NobodyAssumption, KindsAssumption, CallersAssumption
     DEF SessionIsFollowed, SessionFollowsUser, SignedInAs, SignedOut, TypeOK, LinesAreUsed,
         Exchange, Callers, NoToken
<1> QED
  BY <1>1, <1>2, <1>3, <1>4

\* A request is rejected; a sign-out forgets the token all the same.
LEMMA FailedKeepsIInv ==
  ASSUME IInv, NEW r \in Reqs, Failed(r)
  PROVE  IInv'
<1> USE DEF IInv, Failed, Forget, Dropped
<1>1. TypeOK'
  BY ExchangeIsTyped, NoTokenIsToken DEF TypeOK, Pc
<1>2. LinesAreUsed'
  BY KindsAssumption, CallersAssumption DEF LinesAreUsed, TypeOK, Exchange, Callers
<1>3. OneDriver'
  BY DEF OneDriver, TypeOK, LinesAreUsed, Callers
<1>4. SessionIsFollowed' /\ SessionFollowsUser'
  BY UsersAssumption, NobodyAssumption, KindsAssumption, CallersAssumption
     DEF SessionIsFollowed, SessionFollowsUser, SignedInAs, SignedOut, TypeOK, LinesAreUsed,
         Exchange, Callers, NoToken
<1> QED
  BY <1>1, <1>2, <1>3, <1>4

\* The first request that meets 401 drives the refresh.
LEMMA RefreshKeepsIInv ==
  ASSUME IInv, NEW r \in Reqs, Refresh(r)
  PROVE  IInv'
<1> USE DEF IInv, Refresh, MayRefresh
<1>1. TypeOK'
  <2>1. Cookie \in Token
    BY CookieIsToken DEF TypeOK
  <2> QED
    BY <2>1, ExchangeIsTyped DEF TypeOK, Pc
<1>2. LinesAreUsed'
  BY KindsAssumption, CallersAssumption DEF LinesAreUsed, TypeOK, Exchange, Callers
<1>3. OneDriver'
  BY DEF OneDriver, TypeOK, LinesAreUsed, Callers
<1>4. SessionIsFollowed' /\ SessionFollowsUser'
  BY UsersAssumption, NobodyAssumption, KindsAssumption, CallersAssumption
     DEF SessionIsFollowed, SessionFollowsUser, SignedInAs, SignedOut, TypeOK, LinesAreUsed,
         Exchange, Callers, NoToken, Cookie
<1> QED
  BY <1>1, <1>2, <1>3, <1>4

\* Whoever meets 401 during a refresh waits for it.
LEMMA ParkKeepsIInv ==
  ASSUME IInv, NEW r \in Reqs, Park(r)
  PROVE  IInv'
<1> USE DEF IInv, Park, MayRefresh
<1>1. TypeOK'
  BY ExchangeIsTyped, NoTokenIsToken DEF TypeOK, Pc
<1>2. LinesAreUsed'
  BY KindsAssumption, CallersAssumption DEF LinesAreUsed, TypeOK, Exchange, Callers
<1>3. OneDriver'
  BY DEF OneDriver, TypeOK, LinesAreUsed, Callers
<1>4. SessionIsFollowed' /\ SessionFollowsUser'
  BY UsersAssumption, NobodyAssumption, KindsAssumption, CallersAssumption
     DEF SessionIsFollowed, SessionFollowsUser, SignedInAs, SignedOut, TypeOK, LinesAreUsed,
         Exchange, Callers, NoToken
<1> QED
  BY <1>1, <1>2, <1>3, <1>4

\* The refresh succeeds: the driver and all who wait try again.
LEMMA RefreshedKeepsIInv ==
  ASSUME IInv, NEW r \in Reqs, Refreshed(r)
  PROVE  IInv'
<1> USE DEF IInv, Refreshed, Concerned
<1>1. TypeOK'
  <2>1. grant[r] \in Token
    BY DEF TypeOK, Callers
  <2> QED
    BY <2>1, ExchangeIsTyped, NoTokenIsToken, KindsAssumption DEF TypeOK, Pc
<1>2. LinesAreUsed'
  BY KindsAssumption, CallersAssumption DEF LinesAreUsed, TypeOK, Exchange, Callers
<1>3. OneDriver'
  BY DEF OneDriver, TypeOK, LinesAreUsed, Callers
<1>4. SessionIsFollowed' /\ SessionFollowsUser'
  BY UsersAssumption, NobodyAssumption, KindsAssumption, CallersAssumption
     DEF SessionIsFollowed, SessionFollowsUser, SignedInAs, SignedOut, TypeOK, LinesAreUsed,
         Exchange, Callers, NoToken
<1> QED
  BY <1>1, <1>2, <1>3, <1>4

\* The refresh fails: the driver and all who wait are rejected.
LEMMA RefreshFailedKeepsIInv ==
  ASSUME IInv, NEW r \in Reqs, RefreshFailed(r)
  PROVE  IInv'
<1> USE DEF IInv, RefreshFailed, Concerned, Dropped
<1>1. TypeOK'
  BY ExchangeIsTyped, NoTokenIsToken DEF TypeOK, Pc
<1>2. LinesAreUsed'
  BY KindsAssumption, CallersAssumption DEF LinesAreUsed, OneDriver, TypeOK, Exchange, Callers
<1>3. OneDriver'
  BY DEF OneDriver, TypeOK, LinesAreUsed, Callers
<1>4. SessionIsFollowed' /\ SessionFollowsUser'
  BY UsersAssumption, NobodyAssumption, KindsAssumption, CallersAssumption
     DEF SessionIsFollowed, SessionFollowsUser, SignedInAs, SignedOut, TypeOK, LinesAreUsed,
         Exchange, Callers, NoToken
<1> QED
  BY <1>1, <1>2, <1>3, <1>4

\* AuthProvider applies what its own refresh brought.
LEMMA BootEndsKeepsIInv ==
  ASSUME IInv, BootEnds
  PROVE  IInv'
<1> USE DEF IInv, BootEnds, Dropped
<1>1. TypeOK'
  <2>1. grant[Boot] \in Token
    BY DEF TypeOK, Callers
  <2> QED
    BY <2>1, ExchangeIsTyped, NoTokenIsToken, KindsAssumption DEF TypeOK, Pc
<1>2. LinesAreUsed'
  BY KindsAssumption, CallersAssumption DEF LinesAreUsed, TypeOK, Exchange, Callers
<1>3. OneDriver'
  BY DEF OneDriver, TypeOK, LinesAreUsed, Callers
<1>4. SessionIsFollowed' /\ SessionFollowsUser'
  BY UsersAssumption, NobodyAssumption, KindsAssumption, CallersAssumption
     DEF SessionIsFollowed, SessionFollowsUser, SignedInAs, SignedOut, TypeOK, LinesAreUsed,
         Exchange, Callers, NoToken
<1> QED
  BY <1>1, <1>2, <1>3, <1>4

\* A sign-in is submitted, which the page allows only to the signed out.
LEMMA SubmitKeepsIInv ==
  ASSUME IInv, NEW u \in Users, Submit(u)
  PROVE  IInv'
<1> USE DEF IInv, Submit, IsAuthenticated, clientVars
<1>1. TypeOK'
  <2>1. [user |-> u, issued |-> 0] \in Token
    BY MaxNowAssumption DEF Token
  <2> QED
    BY <2>1, ExchangeIsTyped DEF TypeOK
<1>2. LinesAreUsed'
  BY KindsAssumption, CallersAssumption DEF LinesAreUsed, TypeOK, Exchange, Callers
<1>3. OneDriver'
  BY DEF OneDriver, TypeOK, LinesAreUsed, Callers
<1>4. SessionIsFollowed' /\ SessionFollowsUser'
  BY UsersAssumption, NobodyAssumption, KindsAssumption, CallersAssumption
     DEF SessionIsFollowed, SessionFollowsUser, SignedInAs, SignedOut, TypeOK, LinesAreUsed,
         Exchange, Callers, NoToken
<1> QED
  BY <1>1, <1>2, <1>3, <1>4

\* The sign-in is answered with a token.
LEMMA SignedInKeepsIInv ==
  ASSUME IInv, SignedIn
  PROVE  IInv'
<1> USE DEF IInv, SignedIn
<1>1. TypeOK'
  <2>1. grant[Door] \in Token
    BY DEF TypeOK, Callers
  <2> QED
    BY <2>1, ExchangeIsTyped, NoTokenIsToken, KindsAssumption DEF TypeOK, Pc
<1>2. LinesAreUsed'
  BY KindsAssumption, CallersAssumption DEF LinesAreUsed, TypeOK, Exchange, Callers
<1>3. OneDriver'
  BY DEF OneDriver, TypeOK, LinesAreUsed, Callers
<1>4. SessionIsFollowed' /\ SessionFollowsUser'
  BY UsersAssumption, NobodyAssumption, KindsAssumption, CallersAssumption
     DEF SessionIsFollowed, SessionFollowsUser, SignedInAs, SignedOut, TypeOK, LinesAreUsed,
         Exchange, Callers, NoToken
<1> QED
  BY <1>1, <1>2, <1>3, <1>4

\* The sign-in is refused.
LEMMA NotSignedInKeepsIInv ==
  ASSUME IInv, NotSignedIn
  PROVE  IInv'
<1> USE DEF IInv, NotSignedIn, clientVars
<1>1. TypeOK'
  BY ExchangeIsTyped, NoTokenIsToken DEF TypeOK, Pc
<1>2. LinesAreUsed'
  BY KindsAssumption, CallersAssumption DEF LinesAreUsed, TypeOK, Exchange, Callers
<1>3. OneDriver'
  BY DEF OneDriver, TypeOK, LinesAreUsed, Callers
<1>4. SessionIsFollowed' /\ SessionFollowsUser'
  BY UsersAssumption, NobodyAssumption, KindsAssumption, CallersAssumption
     DEF SessionIsFollowed, SessionFollowsUser, SignedInAs, SignedOut, TypeOK, LinesAreUsed,
         Exchange, Callers, NoToken
<1> QED
  BY <1>1, <1>2, <1>3, <1>4

\* The page is loaded again.
LEMMA ReloadKeepsIInv ==
  ASSUME IInv, Reload
  PROVE  IInv'
<1> USE DEF IInv, Reload, Dropped
<1>1. TypeOK'
  <2>1. Cookie \in Token
    BY CookieIsToken DEF TypeOK
  <2> QED
    BY <2>1, NoTokenIsToken DEF TypeOK, Pc
<1>2. LinesAreUsed'
  BY KindsAssumption, CallersAssumption DEF LinesAreUsed, TypeOK, Exchange, Callers
<1>3. OneDriver'
  BY DEF OneDriver, TypeOK, LinesAreUsed, Callers
<1>4. SessionIsFollowed' /\ SessionFollowsUser'
  BY UsersAssumption, NobodyAssumption, KindsAssumption, CallersAssumption
     DEF SessionIsFollowed, SessionFollowsUser, SignedInAs, SignedOut, TypeOK, LinesAreUsed,
         Exchange, Callers, NoToken, Cookie
<1> QED
  BY <1>1, <1>2, <1>3, <1>4

----------------------------------------------------------------------------
(* The theorems.                                                           *)

\* IInv is inductive.
LEMMA NextKeepsIInv == IInv /\ [Next]_vars => IInv'
<1> SUFFICES ASSUME IInv, [Next]_vars PROVE IInv'
  OBVIOUS
<1>1. CASE UNCHANGED vars
  BY <1>1
     DEF vars, clientVars, lineVars, IInv, TypeOK, LinesAreUsed, OneDriver, SessionIsFollowed,
         SignedInAs, SignedOut, SessionFollowsUser
<1>2. CASE Next
  BY <1>2, ServeKeepsIInv, SendKeepsIInv, DoneKeepsIInv, FailedKeepsIInv, RefreshKeepsIInv,
     ParkKeepsIInv, RefreshedKeepsIInv, RefreshFailedKeepsIInv, BootEndsKeepsIInv,
     SubmitKeepsIInv, SignedInKeepsIInv, NotSignedInKeepsIInv, TickKeepsIInv, ReloadKeepsIInv
     DEF Next, Receive, SignIn, Register
<1> QED
  BY <1>1, <1>2

\* IInv holds throughout.
THEOREM SessionInvariantHolds == Spec => []IInv
BY InitIInv, NextKeepsIInv, PTL DEF Spec

\* Refreshes never overlap: whoever is parked waits for a refresh that runs, the
\* flag is up exactly during one, and one request drives it
\* (refreshTokenOnce and its subscribers, api_client.ts:133-151, 245-279).
THEOREM OneDriverAlways == Spec => []OneDriver
BY SessionInvariantHolds, PTL DEF IInv

\* The session is the one of the last sign-in or sign-out that nothing in flight
\* could undo, in the cookie and in memory (AuthContext.tsx:19-68).
THEOREM SessionAlwaysFollowsUser == Spec => []SessionFollowsUser
BY SessionInvariantHolds, PTL DEF IInv

----------------------------------------------------------------------------
(***************************************************************************)
(* What holds of Upload for any files, folders, clicks, switches and        *)
(* faults: what the modal says of its files, and what the list says.       *)
(***************************************************************************)

\* Copies of the files, as requests send them and rows keep them.
Copies == [local : Locals, try : Nat, folder : Folders \cup {None}]

\* The types the proofs need; an answer that is due is about a stored copy.
UploadTyped ==
  /\ stage \in {"closed", "initial", "selected", "uploading", "complete"}
  /\ chosen \subseteq Locals /\ into \in Folders \cup {None} /\ tries \in Nat
  /\ sent \subseteq Copies /\ stored \subseteq Copies /\ done \subseteq stored
  /\ filesQ \in Entry(SUBSET (Copies \X BOOLEAN))

\* While the modal waits, each file chosen has a copy of the last click that is on
\* its way or stored; when it says so, all of them are stored.
ClickIsCovered ==
  /\ stage = "uploading" =>
       \A l \in chosen : [local |-> l, try |-> tries, folder |-> into] \in sent \cup stored
  /\ CompleteMeansStored

\* A row that says it is indexed is.
IndexedIsTrue(d) == \A c : <<c, TRUE>> \in d => c \in indexed

\* d lists what is stored, unless an answer is due or was lost.
ListsAll(d) == done = {} /\ ~untold => \A c : c \in stored <=> \E r \in d : r[1] = c

\* What the list says, and what it is being told.
ListIsTrue ==
  /\ IndexedIsTrue(filesQ.data) /\ IndexedIsTrue(filesQ.reply)
  /\ Settled(filesQ) => ListsAll(filesQ.data)
  /\ filesQ.wire = "read" => ListsAll(filesQ.reply)

UploadInv == UploadTyped /\ ClickIsCovered /\ ListIsTrue

\* What the server lists: each row says whether its copy is indexed.
LEMMA RowsAre ==
  Rows = {<<c, TRUE>> : c \in stored \cap indexed} \cup {<<c, FALSE>> : c \in stored \ indexed}
<1> DEFINE row(c) == <<c, c \in indexed>>
<1>1. \A c : c \in indexed => <<c, c \in indexed>> = <<c, TRUE>>
  BY Zenon
<1>2. ASSUME NEW c, c \notin indexed PROVE <<c, c \in indexed>> = <<c, FALSE>>
  <2>1. (c \in indexed) = FALSE
    BY <1>2
  <2> QED
    BY <2>1, Zenon
<1>3. Rows = {row(c) : c \in stored}
  BY DEF Rows
<1>4. \A c : row(c) = IF c \in indexed THEN <<c, TRUE>> ELSE <<c, FALSE>>
  BY <1>1, <1>2, Zenon
<1> HIDE DEF row
<1> QED
  BY <1>3, <1>4

\* It lists all that is stored, and what it says of it is true.
LEMMA RowsAreTrue ==
  ASSUME UploadTyped
  PROVE  /\ Rows \in SUBSET (Copies \X BOOLEAN) /\ IndexedIsTrue(Rows)
         /\ \A c : c \in stored <=> \E r \in Rows : r[1] = c
<1>1. \A r \in Rows : \E c \in stored :
        (c \in indexed /\ r = <<c, TRUE>>) \/ (c \notin indexed /\ r = <<c, FALSE>>)
  BY RowsAre
<1>2. \A c \in stored : <<c, TRUE>> \in Rows \/ <<c, FALSE>> \in Rows
  BY RowsAre
<1>3. \A c \in stored : c \in Copies
  BY DEF UploadTyped
<1>4. Rows \in SUBSET (Copies \X BOOLEAN)
  <2>1. ASSUME NEW r \in Rows PROVE r \in Copies \X BOOLEAN
    <3>1. PICK c \in Copies : r = <<c, TRUE>> \/ r = <<c, FALSE>>
      BY <1>1, <1>3
    <3>2. <<c, TRUE>> \in Copies \X BOOLEAN /\ <<c, FALSE>> \in Copies \X BOOLEAN
      OBVIOUS
    <3> QED
      BY <3>1, <3>2
  <2> QED
    BY <2>1
<1>5. \A b, c : <<b, TRUE>> # <<c, FALSE>>
  OBVIOUS
<1>6. \A b, c : <<b, TRUE>> = <<c, TRUE>> => b = c
  OBVIOUS
<1>7. IndexedIsTrue(Rows)
  BY <1>1, <1>5, <1>6 DEF IndexedIsTrue
<1>8. \A c : <<c, TRUE>>[1] = c /\ <<c, FALSE>>[1] = c
  OBVIOUS
<1>9. \A c : c \in stored <=> \E r \in Rows : r[1] = c
  <2>1. \A c \in stored : \E r \in Rows : r[1] = c
    BY <1>2, <1>8, Zenon
  <2>2. \A r \in Rows : r[1] \in stored
    BY <1>1, <1>8
  <2> QED
    BY <2>1, <2>2, Zenon
<1> QED
  BY <1>4, <1>7, <1>9

\* A list in which nothing is pending has TRUE in every row.
LEMMA NothingPends ==
  ASSUME NEW d \in SUBSET (Copies \X BOOLEAN), ~IsPending(d), NEW r \in d
  PROVE  r = <<r[1], TRUE>>
<1>1. PICK x \in Copies, y \in BOOLEAN : r = <<x, y>>
  OBVIOUS
<1>2. r[2] = y /\ r[1] = x
  BY <1>1
<1>3. y
  BY <1>2, Zenon DEF IsPending
<1>4. y = TRUE
  BY <1>3
<1> QED
  BY <1>1, <1>2, <1>4

\* The list of files and its claims outlive a step that does not touch them.
LEMMA ListStays ==
  ASSUME UploadInv, UNCHANGED <<filesQ, done, stored, untold>>, indexed \subseteq indexed'
  PROVE  ListIsTrue'
BY DEF UploadInv, ListIsTrue, IndexedIsTrue, ListsAll, Settled

\* The modal is opened, filled, emptied and closed.
LEMMA ModalKeepsUploadInv ==
  ASSUME UploadInv,
         OpenModal \/ ResetAndClose \/ (\E fs \in SUBSET Locals : AddFiles(fs))
           \/ (\E l \in Locals : RemoveFile(l))
  PROVE  UploadInv'
<1>1. UNCHANGED <<filesQ, sent, done, stored, indexed, untold, tries>>
  BY DEF OpenModal, ResetAndClose, AddFiles, RemoveFile, rows, list
<1>2. UploadTyped'
  BY <1>1 DEF UploadInv, UploadTyped, OpenModal, ResetAndClose, AddFiles, RemoveFile,
              Removable
<1>3. ClickIsCovered'
  BY <1>1 DEF UploadInv, ClickIsCovered, CompleteMeansStored, OpenModal, ResetAndClose,
              AddFiles, RemoveFile, DropZone, Removable
<1> QED
  BY <1>1, <1>2, <1>3, ListStays DEF UploadInv

\* "Upload" sends a copy of every file.
LEMMA HandleUploadKeepsUploadInv ==
  ASSUME UploadInv, NEW g \in Folders, HandleUpload(g)
  PROVE  UploadInv'
<1>1. /\ stage' = "uploading" /\ into' = g /\ tries' = tries + 1
      /\ sent' = sent \cup {[local |-> l, try |-> tries + 1, folder |-> g] : l \in chosen}
      /\ UNCHANGED <<chosen, filesQ, done, stored, indexed, untold>>
  BY DEF HandleUpload, Copy, rows, list
<1>2. UploadTyped'
  BY <1>1 DEF UploadInv, UploadTyped, Copies
<1>3. ClickIsCovered'
  BY <1>1 DEF ClickIsCovered, CompleteMeansStored
<1> QED
  BY <1>1, <1>2, <1>3, ListStays DEF UploadInv

\* The server stores a copy: an answer is due.
LEMMA ServerStoresKeepsUploadInv ==
  ASSUME UploadInv, NEW c, ServerStores(c)
  PROVE  UploadInv'
<1>1. /\ c \in sent /\ sent' = sent \ {c} /\ done' = done \cup {c} /\ stored' = stored \cup {c}
      /\ UNCHANGED <<stage, chosen, into, tries, filesQ, indexed, untold>>
  BY DEF ServerStores, modal, list
<1>2. UploadTyped' /\ ClickIsCovered'
  BY <1>1 DEF UploadInv, UploadTyped, ClickIsCovered, CompleteMeansStored
<1>3. ListIsTrue'
  BY <1>1 DEF UploadInv, ListIsTrue, IndexedIsTrue, ListsAll
<1> QED
  BY <1>2, <1>3 DEF UploadInv

\* An answer comes in.
LEMMA UploadSucceedsKeepsUploadInv ==
  ASSUME UploadInv, NEW c, UploadSucceeds(c)
  PROVE  UploadInv'
<1>1. /\ c \in done /\ done' = done \ {c} /\ stage' = StageAfterRest(c)
      /\ UNCHANGED <<chosen, into, tries, sent, stored, indexed, inView>>
  BY DEF UploadSucceeds
<1>2. PICK told \in {TRUE, inView} : ListInvalidated(told)
  BY DEF UploadSucceeds
<1>3. filesQ \in Entry(SUBSET (Copies \X BOOLEAN))
  BY <1>1 DEF UploadInv, UploadTyped
<1>4. filesQ' \in Entry(SUBSET (Copies \X BOOLEAN))
  BY <1>2, <1>3 DEF ListInvalidated, Invalidate, Entry
<1>5. UploadTyped'
  BY <1>1, <1>4 DEF UploadInv, UploadTyped, StageAfterRest
<1>6. ClickIsCovered'
  <2>1. CASE stage' = stage
    BY <1>1, <2>1 DEF UploadInv, UploadTyped, ClickIsCovered, CompleteMeansStored
  <2>2. CASE stage' # stage
    <3>1. /\ stage' = "complete" /\ stage = "uploading"
          /\ {o \in sent \cup done : o.try = tries} = {c}
      BY <1>1, <2>2 DEF StageAfterRest, Awaits
    <3>2. ASSUME NEW l \in chosen
          PROVE  [local |-> l, try |-> tries, folder |-> into] \in stored
      <4>1. [local |-> l, try |-> tries, folder |-> into] \in sent \cup stored
        BY <3>1 DEF UploadInv, ClickIsCovered
      <4> QED
        BY <1>1, <3>1, <4>1 DEF UploadInv, UploadTyped
    <3> QED
      BY <1>1, <3>1, <3>2 DEF ClickIsCovered, CompleteMeansStored
  <2> QED
    BY <2>1, <2>2
<1>7. ListIsTrue'
  <2>1. CASE told
    <3>1. /\ filesQ'.old /\ filesQ'.data = filesQ.data /\ filesQ'.reply \in {{}, filesQ.reply}
          /\ filesQ'.wire = "read" => untold'
      BY <1>2, <1>3, <2>1 DEF ListInvalidated, Invalidate, IsLostOn, Entry
    <3> QED
      BY <1>1, <3>1 DEF UploadInv, ListIsTrue, IndexedIsTrue, ListsAll, Settled
  <2>2. CASE ~told
    BY <1>1, <1>2, <2>2 DEF ListInvalidated, UploadInv, ListIsTrue, IndexedIsTrue, ListsAll
  <2> QED
    BY <2>1, <2>2
<1> QED
  BY <1>5, <1>6, <1>7 DEF UploadInv

\* A request or its answer is lost.
LEMMA UploadFailsKeepsUploadInv ==
  ASSUME UploadInv, NEW c, UploadFails(c)
  PROVE  UploadInv'
<1>1. /\ c \in sent \cup done /\ stage' = StageAfterFailure(c)
      /\ sent' = sent \ {c} /\ done' = done \ {c} /\ untold' = (untold \/ c \in done)
      /\ UNCHANGED <<chosen, into, tries, stored, indexed, filesQ>>
  BY DEF UploadFails, rows
<1>2. UploadTyped'
  BY <1>1 DEF UploadInv, UploadTyped, StageAfterFailure
<1>3. ClickIsCovered'
  <2>1. ASSUME stage' = "uploading"
        PROVE  stage = "uploading" /\ c.try # tries
    BY <1>1, <2>1 DEF StageAfterFailure, Awaits
  <2>2. stage' = "complete" => stage = "complete"
    BY <1>1 DEF StageAfterFailure
  <2> QED
    BY <1>1, <2>1, <2>2 DEF UploadInv, ClickIsCovered, CompleteMeansStored
<1>4. ListIsTrue'
  BY <1>1 DEF UploadInv, ListIsTrue, IndexedIsTrue, ListsAll
<1> QED
  BY <1>2, <1>3, <1>4 DEF UploadInv

\* Indexing ends.
LEMMA IndexingEndsKeepsUploadInv ==
  ASSUME UploadInv, NEW c, IndexingEnds(c)
  PROVE  UploadInv'
<1>1. /\ indexed \subseteq indexed'
      /\ UNCHANGED <<stage, chosen, into, tries, sent, done, stored, filesQ, untold>>
  BY DEF IndexingEnds, modal, list
<1>2. UploadTyped' /\ ClickIsCovered'
  BY <1>1 DEF UploadInv, UploadTyped, ClickIsCovered, CompleteMeansStored
<1> QED
  BY <1>1, <1>2, ListStays DEF UploadInv

\* The list is asked for, answered, and shown.
LEMMA ListStepKeepsUploadInv ==
  ASSUME UploadInv, SwitchCourse \/ Poll \/ ServerLists \/ ListArrives
  PROVE  UploadInv'
<1>1. /\ UNCHANGED <<stage, chosen, into, tries, sent, done, stored, indexed>>
      /\ ServerLists \/ UNCHANGED untold
  BY DEF SwitchCourse, Poll, ServerLists, ListArrives, modal, rows
<1>2. filesQ \in Entry(SUBSET (Copies \X BOOLEAN))
  BY DEF UploadInv, UploadTyped
<1>3. ClickIsCovered'
  BY <1>1 DEF UploadInv, ClickIsCovered, CompleteMeansStored
<1>4. CASE SwitchCourse \/ Poll
  <2>1. \/ filesQ' = filesQ
        \/ filesQ' = [filesQ EXCEPT !.wire = "asked"]
    BY <1>4 DEF SwitchCourse, Poll, InView
  <2>2. UploadTyped'
    BY <1>1, <1>2, <2>1 DEF UploadInv, UploadTyped, Entry
  <2>3. ListIsTrue'
    BY <1>1, <1>2, <1>4, <2>1 DEF UploadInv, ListIsTrue, IndexedIsTrue, ListsAll, Settled,
       Entry, SwitchCourse, Poll
  <2> QED
    BY <1>3, <2>2, <2>3 DEF UploadInv
<1>5. CASE ServerLists
  <2>1. /\ filesQ' = [filesQ EXCEPT !.wire = "read", !.reply = Rows]
        /\ \A c : c \in stored <=> \E r \in Rows : r[1] = c
        /\ IndexedIsTrue(Rows)
    BY <1>5, RowsAreTrue DEF ServerLists, Read, UploadInv
  <2>2. Rows \subseteq Copies \X BOOLEAN
    BY RowsAreTrue DEF UploadInv
  <2> HIDE DEF Rows
  <2>3. /\ filesQ'.wire = "read" /\ filesQ'.reply = Rows /\ filesQ'.data = filesQ.data
        /\ filesQ'.loaded = filesQ.loaded /\ filesQ' \in Entry(SUBSET (Copies \X BOOLEAN))
    BY <1>2, <2>1, <2>2 DEF Entry
  <2>4. UploadTyped'
    BY <1>1, <2>3 DEF UploadInv, UploadTyped
  <2>5. ListIsTrue'
    BY <1>1, <2>1, <2>3 DEF UploadInv, ListIsTrue, IndexedIsTrue, ListsAll, Settled
  <2> QED
    BY <1>3, <2>4, <2>5 DEF UploadInv
<1>6. CASE ListArrives
  <2>1. /\ filesQ.wire = "read"
        /\ filesQ'.data = filesQ.reply /\ filesQ'.reply = {} /\ filesQ'.wire = "idle"
        /\ filesQ'.loaded /\ filesQ' \in Entry(SUBSET (Copies \X BOOLEAN))
    BY <1>2, <1>6 DEF ListArrives, Deliver, Entry
  <2>2. UploadTyped'
    BY <1>1, <2>1 DEF UploadInv, UploadTyped
  <2>3. ListIsTrue'
    BY <1>1, <1>6, <2>1 DEF UploadInv, ListIsTrue, IndexedIsTrue, ListsAll, ListArrives
  <2> QED
    BY <1>3, <2>2, <2>3 DEF UploadInv
<1> QED
  BY <1>4, <1>5, <1>6

\* Nothing was chosen, sent or listed.
LEMMA InitUploadInv == UploadInit => UploadInv
<1> SUFFICES ASSUME UploadInit PROVE UploadInv
  OBVIOUS
<1>1. filesQ = [loaded |-> FALSE, data |-> {}, old |-> TRUE, wire |-> "asked", reply |-> {}]
  BY DEF UploadInit, InView, NoEntry
<1>2. /\ ~filesQ.loaded /\ filesQ.data = {} /\ filesQ.wire = "asked" /\ filesQ.reply = {}
      /\ filesQ \in Entry(SUBSET (Copies \X BOOLEAN))
  BY <1>1 DEF Entry
<1>3. UploadTyped
  BY <1>2 DEF UploadInit, UploadTyped
<1>4. ClickIsCovered
  BY DEF UploadInit, ClickIsCovered, CompleteMeansStored
<1>5. ListIsTrue
  BY <1>2 DEF ListIsTrue, IndexedIsTrue, Settled
<1> QED
  BY <1>3, <1>4, <1>5 DEF UploadInv

\* Every step keeps it.
LEMMA NextKeepsUploadInv == UploadInv /\ [UploadNext]_uploadVars => UploadInv'
<1> SUFFICES ASSUME UploadInv, [UploadNext]_uploadVars PROVE UploadInv'
  OBVIOUS
<1>1. CASE UNCHANGED uploadVars
  BY <1>1 DEF uploadVars, modal, rows, list, UploadInv, UploadTyped, ClickIsCovered,
              CompleteMeansStored, ListIsTrue, IndexedIsTrue, ListsAll, Settled
<1> QED
  BY <1>1, ModalKeepsUploadInv, HandleUploadKeepsUploadInv, ServerStoresKeepsUploadInv,
     UploadSucceedsKeepsUploadInv, UploadFailsKeepsUploadInv, IndexingEndsKeepsUploadInv,
     ListStepKeepsUploadInv DEF UploadNext

\* Whatever is chosen, sent, lost and listed, the modal and the list stand to the copies
\* of the server as UploadInv says (UploadModal.tsx, useExplorerMutations.ts:22-29).
THEOREM UploadInvariantHolds == UploadSpec => []UploadInv
BY InitUploadInv, NextKeepsUploadInv, PTL DEF UploadSpec

\* The modal says that all files are uploaded only when each is stored in the folder
\* they went to last, however tries fail and overlap (UploadModal.tsx:131-154).
THEOREM CompleteAlwaysMeansStored == UploadSpec => []CompleteMeansStored
<1>1. UploadInv => CompleteMeansStored
  BY DEF UploadInv, ClickIsCovered
<1> QED
  BY <1>1, UploadInvariantHolds, PTL

\* What was uploaded is in the list once the list is at rest, in whichever order
\* uploads, answers, polls and switches of the course come (useExplorerMutations.ts:22-29).
THEOREM UploadsAlwaysReachTheList == UploadSpec => []UploadsReachTheList
<1>1. UploadInv => UploadsReachTheList
  <2> SUFFICES ASSUME UploadInv, Settled(filesQ), ~IsPending(filesQ.data),
                      done = {}, ~untold
               PROVE  filesQ.data = Rows
    BY DEF UploadsReachTheList
  <2> DEFINE d == filesQ.data
  <2>1. d \subseteq Copies \X BOOLEAN
    BY DEF UploadInv, UploadTyped, Entry
  <2>2. /\ \A c : c \in stored <=> \E r \in d : r[1] = c
        /\ \A c : <<c, TRUE>> \in d => c \in indexed
    BY DEF UploadInv, ListIsTrue, ListsAll, IndexedIsTrue
  <2>3. \A r \in d : r = <<r[1], TRUE>>
    BY <2>1, NothingPends
  <2>4. \A r : r \in d <=> \E c \in stored : r = <<c, TRUE>>
    BY <2>2, <2>3
  <2>5. stored \subseteq indexed
    BY <2>2, <2>3
  <2> QED
    BY <2>4, <2>5, RowsAre
<1> QED
  BY <1>1, UploadInvariantHolds, PTL
=============================================================================
