----------------------------- MODULE TokenRefresh -----------------------------
(***************************************************************************)
(* A signed-in browser tab against the API: the access token in memory,    *)
(* the refresh cookie, requests that find the token expired, the refresh   *)
(* they share, sign-in, sign-out and a reload of the page.                 *)
(*                                                                         *)
(* JavaScript runs one callback at a time, so the client's part is one     *)
(* action per response.  Responses may be overtaken by one another, by a   *)
(* sign-in and by the clock.                                               *)
(***************************************************************************)
EXTENDS Naturals

CONSTANTS
  Reqs,      \* calls of ApiClient.request and postFormWithProgress
  Logouts,   \* those that are POST /auth/logout
  Uploads,   \* those of postFormWithProgress, which retries once
  Users,
  Nobody,    \* no token, no cookie
  Boot,      \* AuthProvider's refresh on mount
  Door,      \* the sign-in form
  MaxNow     \* how often access tokens expire

ASSUME KindsAssumption == Logouts \subseteq Reqs /\ Uploads \subseteq Reqs \ Logouts
ASSUME CallersAssumption == Boot # Door /\ {Boot, Door} \cap Reqs = {}
ASSUME NobodyAssumption == Nobody \notin Users
ASSUME UsersAssumption == {"logout", "other"} \cap Users = {}
ASSUME MaxNowAssumption == MaxNow \in Nat

Callers == Reqs \cup {Boot, Door}

VARIABLES
  now,         \* tokens issued before this are expired
  token,       \* accessTokenRef, and with it the user AuthContext shows
  cookie,      \* the user the refresh cookie names
  isRefreshing,
  subscribers, \* refreshSubscribers
  pc,          \* where a request stands
  retried,     \* an upload has had its second attempt
  call,        \* the exchange a caller has open: "api", "refresh" or "login"
  carries,     \* the token or the cookie it was sent with, until it is served
  reply,       \* the response on its way back
  grant,       \* the token in it
  since        \* history: who signed in last, or "logout"; "other" when the
               \* session ended by itself, or something that could undo the
               \* last sign-in or sign-out was in flight with it

clientVars == <<token, cookie, isRefreshing, subscribers, pc, retried>>
lineVars == <<call, carries, reply, grant>>
vars == <<now, clientVars, lineVars, since>>

Token == [user : Users \cup {Nobody}, issued : 0 .. MaxNow]
NoToken == [user |-> Nobody, issued |-> 0]
\* "settled": resolved, rejected, or gone with the page.
Pc == {"idle", "open", "driving", "parked", "settled"}

TypeOK ==
  /\ now \in 0 .. MaxNow
  /\ token \in Token
  /\ cookie \in Users \cup {Nobody}
  /\ isRefreshing \in BOOLEAN
  /\ subscribers \in SUBSET Reqs
  /\ pc \in [Reqs -> Pc]
  /\ retried \in SUBSET Uploads
  /\ call \in [Callers -> {"none", "api", "refresh", "login"}]
  /\ carries \in [Callers -> Token]
  /\ reply \in [Callers -> {"none", "ok", "unauthorized", "error"}]
  /\ grant \in [Callers -> Token]
  /\ since \in Users \cup {"logout", "other"}

\* The page is loaded with whatever cookie the browser kept, and AuthProvider
\* mounts.
Init ==
  /\ now = 0
  /\ token = NoToken
  /\ cookie \in Users \cup {Nobody}
  /\ isRefreshing = FALSE
  /\ subscribers = {}
  /\ pc = [r \in Reqs |-> "idle"]
  /\ retried = {}
  /\ call = [x \in Callers |-> IF x = Boot THEN "refresh" ELSE "none"]
  /\ carries = [x \in Callers |->
       IF x = Boot THEN [user |-> cookie, issued |-> 0] ELSE NoToken]
  /\ reply = [x \in Callers |-> "none"]
  /\ grant = [x \in Callers |-> NoToken]
  /\ since = "other"

----------------------------------------------------------------------------
(* The server, and the browser that keeps its cookies.                     *)

\* get_current_user: the token of a signed-in user, until it expires.
Accepts(t) == t.user # Nobody /\ t.issued = now

\* Exchanges that may still end in another session than the one x brings.
Undoing(x) ==
  \E y \in Callers \ {x} :
    call[y] \in {"refresh", "login"} \/ (y \in Logouts /\ call[y] # "none")

Answer(x, answer, t) ==
  /\ reply' = [reply EXCEPT ![x] = answer]
  /\ grant' = [grant EXCEPT ![x] = t]

\* The browser keeps the cookie of a response before any callback runs.
\* (The bugs: the access token set as cookie, a sign-out that clears nothing.)
KeepAccessToken(user) == cookie' = [user |-> user, issued |-> now]
KeepCookie(user) == cookie' = user
ClearNothing == cookie' = cookie
ClearCookie == cookie' = Nobody
SameCookie == UNCHANGED <<cookie, since>>
Event(x, event) == since' = IF Undoing(x) THEN "other" ELSE event

ServeCall(x) ==
  /\ call[x] = "api"
  /\ IF Accepts(carries[x])
     THEN /\ Answer(x, "ok", NoToken)
          /\ IF x \in Logouts THEN ClearCookie /\ Event(x, "logout") ELSE SameCookie
     ELSE Answer(x, "unauthorized", NoToken) /\ SameCookie

\* Sessions are stateless: a refresh or a sign-in brings a new token and a new
\* cookie, or is refused.
ServeSession(x) ==
  /\ call[x] \in {"refresh", "login"}
  /\ \/ /\ carries[x].user # Nobody
        /\ Answer(x, "ok", [user |-> carries[x].user, issued |-> now])
        /\ KeepCookie(carries[x].user)
        /\ IF x = Door THEN Event(x, carries[x].user) ELSE UNCHANGED since
     \/ Answer(x, "unauthorized", NoToken) /\ SameCookie

Serve(x) ==
  /\ call[x] # "none" /\ reply[x] = "none"
  /\ ServeCall(x) \/ ServeSession(x) \/ (Answer(x, "error", NoToken) /\ SameCookie)
  /\ carries' = [carries EXCEPT ![x] = NoToken]
  /\ UNCHANGED <<now, token, isRefreshing, subscribers, pc, retried, call>>

Tick ==
  /\ now < MaxNow
  /\ now' = now + 1
  /\ UNCHANGED <<clientVars, lineVars, since>>

----------------------------------------------------------------------------
(* ApiClient                                                               *)

\* The exchange of x ends, and those of R begin.
Exchange(x, R, kind, t) ==
  /\ call' = [y \in Callers |-> IF y \in R THEN kind ELSE IF y = x THEN "none" ELSE call[y]]
  /\ carries' = [y \in Callers |-> IF y \in R THEN t ELSE IF y = x THEN NoToken ELSE carries[y]]
  /\ reply' = [y \in Callers |-> IF y \in R \cup {x} THEN "none" ELSE reply[y]]
  /\ grant' = [y \in Callers |-> IF y \in R \cup {x} THEN NoToken ELSE grant[y]]

Cookie == [user |-> cookie, issued |-> 0]

\* A session ended without the user asking for it.
Dropped == since' = IF since \in Users THEN "other" ELSE since

\* ProtectedLayout lets a screen call the API.
IsAuthenticated == token # NoToken

Send(r) ==
  /\ pc[r] = "idle"
  /\ IsAuthenticated
  /\ pc' = [pc EXCEPT ![r] = "open"]
  /\ Exchange(r, {r}, "api", token)
  /\ UNCHANGED <<now, token, cookie, isRefreshing, subscribers, retried, since>>

\* logout() forgets the token in its finally, however the call ended.
Forget(r) == IF r \in Logouts THEN token' = NoToken ELSE UNCHANGED token

Done(r) ==
  /\ call[r] = "api" /\ reply[r] = "ok"
  /\ pc' = [pc EXCEPT ![r] = "settled"]
  /\ Forget(r)
  /\ Exchange(r, {}, "none", NoToken)
  /\ retried' = retried \ {r}
  /\ UNCHANGED <<now, cookie, isRefreshing, subscribers, since>>

Failed(r) ==
  /\ call[r] = "api"
  /\ reply[r] = "error" \/ (reply[r] = "unauthorized" /\ r \in retried)
  /\ pc' = [pc EXCEPT ![r] = "settled"]
  /\ Forget(r)
  /\ IF r \in Logouts THEN Dropped ELSE UNCHANGED since
  /\ Exchange(r, {}, "none", NoToken)
  /\ retried' = retried \ {r}
  /\ UNCHANGED <<now, cookie, isRefreshing, subscribers>>

\* The first 401 drives a refresh, later ones wait for it (the bug: each drives
\* its own).
NobodyRefreshes == TRUE
MayRefresh == ~isRefreshing

Refresh(r) ==
  /\ call[r] = "api" /\ reply[r] = "unauthorized" /\ r \notin retried
  /\ MayRefresh
  /\ isRefreshing' = TRUE
  /\ pc' = [pc EXCEPT ![r] = "driving"]
  /\ Exchange(r, {r}, "refresh", Cookie)
  /\ UNCHANGED <<now, token, cookie, subscribers, retried, since>>

Park(r) ==
  /\ call[r] = "api" /\ reply[r] = "unauthorized" /\ r \notin retried
  /\ ~MayRefresh
  /\ subscribers' = subscribers \cup {r}
  /\ pc' = [pc EXCEPT ![r] = "parked"]
  /\ Exchange(r, {}, "none", NoToken)
  /\ UNCHANGED <<now, token, cookie, isRefreshing, retried, since>>

\* Whom the end of a refresh concerns (and the bug of forgetting the others).
DriverOnly(r) == {r}
Concerned(r) == subscribers \cup {r}

\* onTokenRefreshed, then everybody tries again with the new token.
Refreshed(r) ==
  /\ call[r] = "refresh" /\ reply[r] = "ok"
  /\ isRefreshing' = FALSE
  /\ token' = grant[r]
  /\ subscribers' = {}
  /\ pc' = [q \in Reqs |-> IF q \in Concerned(r) THEN "open" ELSE pc[q]]
  /\ retried' = retried \cup (Concerned(r) \cap Uploads)
  /\ Exchange(r, Concerned(r), "api", grant[r])
  /\ UNCHANGED <<now, cookie, since>>

\* Everybody is rejected, then onUnauthorized.
RefreshFailed(r) ==
  /\ call[r] = "refresh" /\ reply[r] \in {"unauthorized", "error"}
  /\ isRefreshing' = FALSE
  /\ token' = NoToken
  /\ subscribers' = {}
  /\ pc' = [q \in Reqs |-> IF q \in Concerned(r) THEN "settled" ELSE pc[q]]
  /\ Exchange(r, {}, "none", NoToken)
  /\ Dropped
  /\ retried' = retried \ Concerned(r)
  /\ UNCHANGED <<now, cookie>>

----------------------------------------------------------------------------
(* AuthProvider and the sign-in page                                       *)

\* initAuth applies what its own refresh brings, if it brings anything.
BootEnds ==
  /\ call[Boot] = "refresh" /\ reply[Boot] # "none"
  /\ IF reply[Boot] = "ok"
     THEN token' = grant[Boot] /\ UNCHANGED since
     ELSE token' = NoToken /\ Dropped
  /\ Exchange(Boot, {}, "none", NoToken)
  /\ UNCHANGED <<now, cookie, isRefreshing, subscribers, pc, retried>>

\* The forms do not wait for initAuth, but a second click waits for the first.
\* A new account is answered with a session, as a sign-in is.
Submit(u) ==
  /\ ~IsAuthenticated
  /\ call[Door] = "none"
  /\ Exchange(Door, {Door}, "login", [user |-> u, issued |-> 0])
  /\ UNCHANGED <<now, clientVars, since>>

SignIn(u) == Submit(u)
Register(u) == Submit(u)

SignedIn ==
  /\ call[Door] = "login" /\ reply[Door] = "ok"
  /\ token' = grant[Door]
  /\ Exchange(Door, {}, "none", NoToken)
  /\ UNCHANGED <<now, cookie, isRefreshing, subscribers, pc, retried, since>>

NotSignedIn ==
  /\ call[Door] = "login" /\ reply[Door] \in {"unauthorized", "error"}
  /\ Exchange(Door, {}, "none", NoToken)
  /\ UNCHANGED <<now, clientVars, since>>

\* The page is loaded again: memory and open exchanges are gone.
Reload ==
  /\ token' = NoToken
  /\ isRefreshing' = FALSE
  /\ subscribers' = {}
  /\ pc' = [r \in Reqs |-> IF pc[r] \in {"open", "driving", "parked"} THEN "settled"
                       ELSE pc[r]]
  /\ call' = [x \in Callers |-> IF x = Boot THEN "refresh" ELSE "none"]
  /\ carries' = [x \in Callers |-> IF x = Boot THEN Cookie ELSE NoToken]
  /\ reply' = [x \in Callers |-> "none"]
  /\ grant' = [x \in Callers |-> NoToken]
  /\ Dropped
  /\ retried' = {}
  /\ UNCHANGED <<now, cookie>>

----------------------------------------------------------------------------
Receive(r) == Done(r) \/ Failed(r) \/ Refresh(r) \/ Park(r) \/ Refreshed(r) \/ RefreshFailed(r)

Next ==
  \/ \E x \in Callers : Serve(x)
  \/ \E r \in Reqs : Send(r) \/ Receive(r)
  \/ BootEnds
  \/ \E u \in Users : SignIn(u) \/ Register(u)
  \/ SignedIn \/ NotSignedIn
  \/ Tick
  \/ Reload

\* The network answers or fails, and the event loop runs the callback.
Fairness ==
  /\ \A x \in Callers : WF_vars(Serve(x))
  /\ \A r \in Reqs : WF_vars(Receive(r))

Spec == Init /\ [][Next]_vars /\ Fairness

----------------------------------------------------------------------------
\* "One token refresh at a time": a parked request has a request that drives the
\* refresh it waits for, and the flag is up exactly while there is one
\* (api_client.ts:136).
OneDriver ==
  /\ subscribers = {r \in Reqs : pc[r] = "parked"}
  /\ isRefreshing <=> \E r \in Reqs : pc[r] = "driving"
  /\ subscribers # {} => isRefreshing
  /\ \A r, q \in Reqs : pc[r] = "driving" /\ pc[q] = "driving" => r = q

\* Who signed in last stays signed in, and who signed out stays out, also across
\* a reload, unless a refresh, a sign-in or a sign-out was in flight when the
\* response arrived (AuthContext.tsx:61, auth.py:62).
SessionFollowsUser ==
  /\ since \in Users =>
       cookie = since /\ (token.user = since \/ grant[Door].user = since)
  /\ since = "logout" =>
       cookie = Nobody /\ (token = NoToken \/ \E r \in Logouts : reply[r] = "ok")

\* Every call is answered: no request stays parked behind a refresh that ended
\* (api_client.ts:93).
RequestsSettle ==
  \A r \in Reqs : pc[r] # "idle" ~> pc[r] = "settled"
=============================================================================
