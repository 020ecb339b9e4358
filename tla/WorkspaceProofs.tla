---------------------------- MODULE WorkspaceProofs ----------------------------
(***************************************************************************)
(* What holds of Workspace and ChatScope for every set of courses, files    *)
(* and viewers: the desk is in order, the active document has a viewer, the *)
(* bytes it shows are fresh, and a question is asked of what the screen     *)
(* says.  Tabs are filtered by a recursive function, so the proof begins    *)
(* with an induction over the naturals, stated with a set: the provers      *)
(* cannot use the library's theorem, which takes an operator.               *)
(***************************************************************************)
EXTENDS ChatScope, WellFoundedInduction, TLAPS

----------------------------------------------------------------------------
(* The inductive invariant.                                                *)

ContentType ==
  [status : {"idle", "loading", "ready", "error"}, file : Files \cup {None}, bytes : Nat]
DeskType ==
  [course : Courses \cup {None}, tabs : [Courses -> Seq(Files)],
   active : [Courses -> Files \cup {None}]]

TypeOK ==
  /\ stored \subseteq Files /\ version \in [Files -> Nat]
  /\ Desk \in DeskType /\ saved \in DeskType
  /\ listed \in [Courses -> SUBSET Files] /\ ready \in [Courses -> BOOLEAN]
  /\ cached \in Seq(Files) /\ cite \in Files \cup {None}
  /\ content \in ContentType /\ wanted \in Nat
  /\ requests \subseteq [file : Files, read : BOOLEAN, bytes : Nat]

\* No document has two tabs, and the active one has a tab.
InOrder(desk) ==
  \A c \in Courses :
    IsInjective(desk.tabs[c]) /\ desk.active[c] \in ToSet(desk.tabs[c]) \cup {None}

DesksAreInOrder == InOrder(Desk) /\ InOrder(saved)

\* The list of viewers never loses the active document, listed or not.
ActiveIsCached == ActiveFile # None => ActiveFile \in ToSet(cached)

\* What the viewer in front shows, waits for and has asked for is its document,
\* and as new as when it came to the front.
FrontDocument == InFront(cached, Desk, ShownList(Desk, listed))
ContentIsOfFront ==
  IF FrontDocument = None THEN content.status = "idle" /\ requests = {}
  ELSE /\ content.file = FrontDocument /\ wanted <= version[FrontDocument]
       /\ content.status = "ready" => content.bytes >= wanted
       /\ \A r \in requests : r.file = FrontDocument /\ (r.read => r.bytes >= wanted)

\* Whatever was opened, listed, replaced, saved or reloaded before
\* (workspace.ts, dashboard.tsx and useFileContent.tsx as a whole).
IInv == TypeOK /\ DesksAreInOrder /\ ActiveIsCached /\ ContentIsOfFront

----------------------------------------------------------------------------
(* Induction, and what filtering a sequence returns.                       *)

\* Pairs of naturals in order, the library's OpToRel(<, Nat).
Less == {ss \in Nat \X Nat : ss[1] < ss[2]}

\* A set that has 0, and the successor of each of its members, has every natural.
LEMMA SetInduction ==
  ASSUME NEW S, 0 \in S, \A n \in Nat : n \in S => n + 1 \in S
  PROVE  Nat \subseteq S
<1> DEFINE T == Nat \ S
<1> SUFFICES ASSUME T # {} PROVE FALSE
  OBVIOUS
<1>1. IsWellFoundedOn(Less, Nat)
  BY NatLessThanWellFounded DEF OpToRel, Less
<1>2. PICK m \in T : \A n \in T : ~(<<n, m>> \in Less)
  BY <1>1, WFMin
<1>3. m - 1 \in Nat /\ m - 1 < m
  BY <1>2
<1>4. <<m - 1, m>> \in Less
  BY <1>2, <1>3 DEF Less
<1> QED
  BY <1>2, <1>3, <1>4

\* The filter exists, and its value at each length follows from the one before.
LEMMA FilterExists ==
  ASSUME NEW s \in Seq(Files), NEW S
  PROVE  \E k : /\ k[0] = <<>>
                /\ \A i \in 1 .. Len(s) :
                     k[i] = IF s[i] \in S THEN Append(k[i - 1], s[i]) ELSE k[i - 1]
                /\ Only(s, S) = k[Len(s)]
<1> DEFINE Step(k, i) == IF i = 0 THEN <<>>
                         ELSE IF s[i] \in S THEN Append(k[i - 1], s[i]) ELSE k[i - 1]
           Upto(k, n) == k = [i \in 0 .. n |-> Step(k, i)]
           N == {n \in Nat : \E k : Upto(k, n)}
<1>1. 0 \in N
  <2>1. Upto([i \in 0 .. 0 |-> <<>>], 0)
    OBVIOUS
  <2> QED
    BY <2>1
<1>2. ASSUME NEW n \in Nat, n \in N PROVE n + 1 \in N
  <2>1. PICK k : Upto(k, n)
    BY <1>2
  <2> DEFINE l == [i \in 0 .. n + 1 |-> IF i = n + 1 THEN Step(k, i) ELSE k[i]]
  <2>2. ASSUME NEW i \in 0 .. n + 1 PROVE l[i] = Step(l, i)
    <3>1. CASE i = 0
      BY <2>1, <3>1
    <3>2. CASE i # 0
      <4>1. i - 1 \in 0 .. n /\ l[i - 1] = k[i - 1]
        BY <3>2
      <4>2. CASE i = n + 1
        BY <3>2, <4>1, <4>2
      <4>3. CASE i \in 0 .. n
        <5>1. k[i] = Step(k, i) /\ l[i] = k[i]
          <6> HIDE DEF Step
          <6> QED
            BY <2>1, <4>3
        <5> QED
          BY <3>2, <4>1, <5>1
      <4> QED
        BY <4>2, <4>3
    <3> QED
      BY <3>1, <3>2
  <2>3. l = [i \in 0 .. n + 1 |-> l[i]]
    OBVIOUS
  <2>4. Upto(l, n + 1)
    <3> HIDE DEF l, Step
    <3> QED
      BY <2>2, <2>3
  <2>5. \E j : Upto(j, n + 1)
    <3> HIDE DEF l, Upto
    <3> QED
      BY <2>4
  <2> QED
    BY <2>5
<1>3. Nat \subseteq N
  <2> HIDE DEF N
  <2> QED
    BY <1>1, <1>2, SetInduction
<1>4. \E k : Upto(k, Len(s))
  BY <1>3
<1>5. PICK k : k = (CHOOSE kept : Upto(kept, Len(s)))
  OBVIOUS
<1>6. Upto(k, Len(s))
  BY <1>4, <1>5
<1>7. Only(s, S) = k[Len(s)]
  BY <1>5 DEF Only
<1>8. \A i \in 0 .. Len(s) : k[i] = Step(k, i)
  <2> HIDE DEF Step
  <2> QED
    BY <1>6
<1>9. k[0] = <<>>
  BY <1>8
<1> QED
  BY <1>7, <1>8, <1>9

\* Appending what is not there yet keeps places apart.
LEMMA AppendKeeps ==
  ASSUME NEW s \in Seq(Files), NEW f \in Files
  PROVE  /\ Append(s, f) \in Seq(Files)
         /\ ToSet(Append(s, f)) = ToSet(s) \cup {f}
         /\ IsInjective(s) /\ f \notin ToSet(s) => IsInjective(Append(s, f))
<1> DEFINE t == Append(s, f)
<1>1. /\ t \in Seq(Files) /\ DOMAIN t = 1 .. Len(s) + 1 /\ t[Len(s) + 1] = f
      /\ \A i \in 1 .. Len(s) : t[i] = s[i]
      /\ DOMAIN s = 1 .. Len(s) /\ Len(s) \in Nat
  OBVIOUS
<1> HIDE DEF t
<1>2. ToSet(t) = ToSet(s) \cup {f}
  BY <1>1 DEF ToSet
<1>3. IsInjective(s) /\ f \notin ToSet(s) => IsInjective(t)
  BY <1>1 DEF ToSet, IsInjective
<1> QED
  BY <1>1, <1>2, <1>3 DEF t

\* Filtering keeps the elements that are in S and no others, and no element
\* comes to have two places.
LEMMA OnlyKeeps ==
  ASSUME NEW s \in Seq(Files), NEW S
  PROVE  /\ Only(s, S) \in Seq(Files)
         /\ ToSet(Only(s, S)) = ToSet(s) \cap S
         /\ IsInjective(s) => IsInjective(Only(s, S))
<1>1. PICK k : /\ k[0] = <<>>
               /\ \A i \in 1 .. Len(s) :
                    k[i] = IF s[i] \in S THEN Append(k[i - 1], s[i]) ELSE k[i - 1]
               /\ Only(s, S) = k[Len(s)]
  BY FilterExists
<1> DEFINE Fine(n) == /\ k[n] \in Seq(Files)
                      /\ ToSet(k[n]) = {s[i] : i \in 1 .. n} \cap S
                      /\ IsInjective(s) => IsInjective(k[n])
           N == {n \in Nat : n <= Len(s) => Fine(n)}
<1>2. 0 \in N
  <2>1. <<>> \in Seq(Files) /\ ToSet(<<>>) = {} /\ IsInjective(<<>>)
    BY DEF ToSet, IsInjective
  <2>2. {s[i] : i \in 1 .. 0} = {}
    OBVIOUS
  <2>3. Fine(0)
    BY <1>1, <2>1, <2>2
  <2> QED
    BY <2>3
<1>3. ASSUME NEW n \in Nat, n \in N PROVE n + 1 \in N
  <2> SUFFICES ASSUME n + 1 <= Len(s) PROVE Fine(n + 1)
    OBVIOUS
  <2>1. Fine(n) /\ n + 1 \in 1 .. Len(s) /\ s[n + 1] \in Files
    BY <1>3
  <2>2. k[n + 1] = IF s[n + 1] \in S THEN Append(k[n], s[n + 1]) ELSE k[n]
    <3>1. (n + 1) - 1 = n
      OBVIOUS
    <3> QED
      BY <1>1, <2>1, <3>1
  <2>3. {s[i] : i \in 1 .. n + 1} = {s[i] : i \in 1 .. n} \cup {s[n + 1]}
    OBVIOUS
  <2>4. CASE s[n + 1] \notin S
    BY <2>1, <2>2, <2>3, <2>4
  <2>5. CASE s[n + 1] \in S
    <3>1. k[n + 1] = Append(k[n], s[n + 1]) /\ k[n] \in Seq(Files)
      BY <2>1, <2>2, <2>5
    <3>2. k[n + 1] \in Seq(Files)
      BY <2>1, <3>1
    <3>3. ToSet(k[n + 1]) = ToSet(k[n]) \cup {s[n + 1]}
      BY <2>1, <3>1, AppendKeeps
    <3>4. ASSUME IsInjective(s) PROVE IsInjective(k[n + 1])
      <4>1. s[n + 1] \notin ToSet(k[n])
        BY <2>1, <3>4 DEF IsInjective
      <4> QED
        BY <2>1, <3>1, <3>4, <4>1, AppendKeeps
    <3> QED
      BY <2>1, <2>3, <2>5, <3>2, <3>3, <3>4
  <2> QED
    BY <2>4, <2>5
<1>4. Nat \subseteq N
  <2> HIDE DEF N
  <2> QED
    BY <1>2, <1>3, SetInduction
<1>5. Fine(Len(s))
  <2> HIDE DEF Fine
  <2>1. Len(s) \in Nat
    OBVIOUS
  <2> QED
    BY <1>4, <2>1
<1>6. ToSet(s) = {s[i] : i \in 1 .. Len(s)}
  BY DEF ToSet
<1> QED
  BY <1>1, <1>5, <1>6

----------------------------------------------------------------------------
(* Viewers and tabs.                                                       *)

\* A viewer for f first, as many others as fit.
LEMMA ActiveFirstKeeps ==
  ASSUME NEW f \in Files, NEW rest \in Seq(Files)
  PROVE  ActiveFirst(f, rest) \in Seq(Files) /\ f \in ToSet(ActiveFirst(f, rest))
<1> DEFINE s == <<f>> \o rest
           n == IF Len(s) > MaxViewers THEN MaxViewers ELSE Len(s)
<1>1. s \in Seq(Files) /\ Len(s) >= 1 /\ s[1] = f
  OBVIOUS
<1>2. n \in 1 .. Len(s)
  BY <1>1, WorkspaceAssumption
<1>3. ActiveFirst(f, rest) = SubSeq(s, 1, n)
  BY DEF ActiveFirst, Fit
<1> HIDE DEF s, n
<1>4. SubSeq(s, 1, n) \in Seq(Files) /\ 1 \in DOMAIN SubSeq(s, 1, n) /\ SubSeq(s, 1, n)[1] = f
  BY <1>1, <1>2
<1> QED
  BY <1>3, <1>4 DEF ToSet

\* useLruList never drops what is active.
LEMMA LruKeeps ==
  ASSUME NEW old \in Seq(Files), NEW was, NEW now \in Files \cup {None}, NEW valid,
         was # None => was \in ToSet(old)
  PROVE  /\ Lru(old, was, now, valid) \in Seq(Files)
         /\ now # None => now \in ToSet(Lru(old, was, now, valid))
BY ActiveFirstKeeps, OnlyKeeps DEF Lru

\* The active document is a file and has a tab, whatever course is in view.
LEMMA ActiveHasTab ==
  ASSUME NEW desk \in DeskType, InOrder(desk)
  PROVE  /\ ActiveFileOf(desk) \in Files \cup {None}
         /\ TabsOf(desk) \in Seq(Files)
         /\ ActiveFileOf(desk) # None => ActiveFileOf(desk) \in ToSet(TabsOf(desk))
<1>1. CASE desk.course = None
  BY <1>1 DEF ActiveFileOf, TabsOf, ToSet
<1>2. CASE desk.course # None
  <2>1. /\ desk.course \in Courses /\ TabsOf(desk) = desk.tabs[desk.course]
        /\ desk.tabs[desk.course] \in Seq(Files)
        /\ desk.active[desk.course] \in Files \cup {None}
    BY <1>2 DEF DeskType, TabsOf
  <2>2. desk.active[desk.course] # None => desk.active[desk.course] \in ToSet(TabsOf(desk))
    BY <2>1 DEF InOrder
  <2>3. TabsOf(desk) # <<>> =>
          TabsOf(desk)[1] \in Files /\ TabsOf(desk)[1] \in ToSet(TabsOf(desk))
    BY <2>1 DEF ToSet
  <2> QED
    BY <1>2, <2>1, <2>2, <2>3 DEF ActiveFileOf
<1> QED
  BY <1>1, <1>2

\* The tabs and the active document of every course, as the store keeps them.
StoreOK ==
  /\ tabs \in [Courses -> Seq(Files)] /\ active \in [Courses -> Files \cup {None}]
  /\ \A c \in Courses : IsInjective(tabs[c]) /\ active[c] \in ToSet(tabs[c]) \cup {None}

LEMMA StoreIsOK ==
  ASSUME TypeOK, DesksAreInOrder
  PROVE  StoreOK /\ course \in Courses \cup {None}
BY DEF TypeOK, DesksAreInOrder, InOrder, Desk, DeskType, StoreOK

LEMMA NextDeskIsOK ==
  ASSUME StoreOK', course' \in Courses \cup {None}
  PROVE  (Desk \in DeskType /\ InOrder(Desk))'
BY DEF InOrder, Desk, DeskType, StoreOK

\* workspace.ts opens a document once and focuses it.
LEMMA OpenTabKeeps ==
  ASSUME StoreOK, NEW c \in Courses, NEW f \in Files, OpenTab(c, f)
  PROVE  StoreOK'
<1>1. tabs[c] \in Seq(Files) /\ IsInjective(tabs[c])
  BY DEF StoreOK
<1> DEFINE t == IF Contains(tabs[c], f) THEN tabs[c] ELSE Append(tabs[c], f)
<1>2. t \in Seq(Files) /\ IsInjective(t) /\ f \in ToSet(t)
  <2>1. Contains(tabs[c], f) <=> f \in ToSet(tabs[c])
    BY <1>1 DEF Contains, ToSet
  <2> QED
    BY <1>1, <2>1, AppendKeeps
<1>3. tabs' = [tabs EXCEPT ![c] = t] /\ active' = [active EXCEPT ![c] = f]
  BY DEF OpenTab
<1> HIDE DEF t
<1> QED
  BY <1>2, <1>3 DEF StoreOK

LEMMA SetActiveKeeps ==
  ASSUME StoreOK, NEW c \in Courses, NEW f \in ToSet(tabs[c]), SetActiveFile(c, f)
  PROVE  StoreOK'
<1>1. f \in Files
  BY DEF StoreOK, ToSet
<1> QED
  BY <1>1 DEF StoreOK, SetActiveFile

\* Closing the active tab hands over to one that stays.
LEMMA CloseTabKeeps ==
  ASSUME StoreOK, NEW c \in Courses, NEW f \in Files, CloseTab(c, f)
  PROVE  StoreOK'
<1> DEFINE rest == Only(tabs[c], Files \ {f})
<1>1. tabs[c] \in Seq(Files) /\ IsInjective(tabs[c]) /\ active[c] \in ToSet(tabs[c]) \cup {None}
  BY DEF StoreOK
<1>2. /\ rest \in Seq(Files) /\ IsInjective(rest)
      /\ ToSet(rest) = ToSet(tabs[c]) \cap (Files \ {f})
  BY <1>1, OnlyKeeps
<1>3. /\ tabs' = [tabs EXCEPT ![c] = rest]
      /\ active' = [active EXCEPT ![c] = ActiveAfterClose(c, f, rest)]
  BY DEF CloseTab
<1> HIDE DEF rest
<1>4. ToSet(tabs[c]) \subseteq Files
  BY <1>1 DEF ToSet
<1>5. rest # <<>> => Last(rest) \in ToSet(rest)
  BY <1>2 DEF Last, ToSet
<1>6. ActiveAfterClose(c, f, rest) \in ToSet(rest) \cup {None}
  BY <1>1, <1>2, <1>4, <1>5 DEF ActiveAfterClose
<1>7. ToSet(rest) \subseteq Files
  BY <1>2, <1>4
<1> QED
  BY <1>2, <1>3, <1>6, <1>7 DEF StoreOK

----------------------------------------------------------------------------
(* The render.                                                             *)

LEMMA FrontIsPdf == InFront(cached, Desk, ShownList(Desk, listed)) \in Files \cup {None}
BY WorkspaceAssumption DEF InFront

LEMMA NextFrontIsPdf == FrontDocument' \in Files \cup {None}
BY WorkspaceAssumption DEF InFront, FrontDocument

\* Whatever the store and the lists have become, the render gives the active
\* document a viewer and, when another document came to the front, starts its
\* content anew and cancels what was asked for before.
LEMMA RenderKeeps ==
  ASSUME IInv, StoreOK', course' \in Courses \cup {None}, version' = version, Render
  PROVE  /\ cached' \in Seq(Files) /\ content' \in ContentType /\ wanted' \in Nat
         /\ requests' \subseteq [file : Files, read : BOOLEAN, bytes : Nat]
         /\ ActiveIsCached'
         /\ ContentIsOfFront'
<1>1. Desk' = [course |-> course', tabs |-> tabs', active |-> active']
  BY DEF Desk
<1>2. /\ cached' = Lru(cached, ActiveFile, ActiveFile', ToSet(TabsOf(Desk)'))
      /\ IF FrontDocument' = FrontDocument THEN UNCHANGED <<content, wanted, requests>>
         ELSE IF FrontDocument' = None THEN Reset ELSE Load(FrontDocument')
  BY <1>1 DEF Render, ActiveFile, FrontDocument
<1>3. cached' \in Seq(Files) /\ ActiveIsCached'
  <2>1. ActiveFile' \in Files \cup {None}
    <3>1. Desk' \in DeskType /\ InOrder(Desk)'
      BY NextDeskIsOK
    <3>2. InOrder(Desk)' <=> InOrder(Desk')
      BY DEF InOrder
    <3>3. ActiveFile' = ActiveFileOf(Desk')
      BY DEF ActiveFile, ActiveFileOf, TabsOf
    <3> QED
      BY <3>1, <3>2, <3>3, ActiveHasTab
  <2>2. cached \in Seq(Files) /\ (ActiveFile # None => ActiveFile \in ToSet(cached))
    BY DEF IInv, TypeOK, ActiveIsCached
  <2> QED
    BY <1>2, <2>1, <2>2, LruKeeps DEF ActiveIsCached
<1>4. CASE FrontDocument' = FrontDocument
  <2>1. UNCHANGED <<content, wanted, requests>>
    BY <1>2, <1>4
  <2>2. ContentIsOfFront'
    BY <1>4, <2>1 DEF IInv, ContentIsOfFront
  <2> QED
    BY <1>3, <2>1, <2>2 DEF IInv, TypeOK
<1>5. CASE FrontDocument' # FrontDocument /\ FrontDocument' = None
  <2>1. content' = NoContent /\ wanted' = 0 /\ requests' = {}
    BY <1>2, <1>5 DEF Reset, CancelRequests
  <2>2. NoContent \in ContentType /\ NoContent.status = "idle"
    BY DEF NoContent, ContentType
  <2>3. ContentIsOfFront'
    BY <1>5, <2>1, <2>2 DEF ContentIsOfFront
  <2> QED
    BY <1>3, <2>1, <2>2, <2>3
<1>6. CASE FrontDocument' # FrontDocument /\ FrontDocument' # None
  <2>1. FrontDocument' \in Files /\ version[FrontDocument'] \in Nat
    BY <1>6, NextFrontIsPdf DEF IInv, TypeOK
  <2>2. /\ content' = [status |-> "loading", file |-> FrontDocument', bytes |-> 0]
        /\ wanted' = version[FrontDocument']
        /\ requests' = {[file |-> FrontDocument', read |-> FALSE, bytes |-> 0]}
    BY <1>2, <1>6 DEF Load, CancelRequests, Request
  <2>3. content' \in ContentType /\ wanted' \in Nat
    BY <2>1, <2>2 DEF ContentType
  <2>4. requests' \subseteq [file : Files, read : BOOLEAN, bytes : Nat]
    BY <2>1, <2>2
  <2>5. ContentIsOfFront'
    BY <1>6, <2>1, <2>2 DEF ContentIsOfFront
  <2> QED
    BY <1>3, <2>3, <2>4, <2>5
<1> QED
  BY <1>4, <1>5, <1>6

\* All that is left to show of a step that renders.
LEMMA RenderedKeepsIInv ==
  ASSUME IInv, StoreOK', course' \in Courses \cup {None}, UNCHANGED <<version, saved>>,
         stored' \subseteq Files, listed' \in [Courses -> SUBSET Files],
         ready' \in [Courses -> BOOLEAN], cite' \in Files \cup {None}, Render
  PROVE  IInv'
<1>1. (Desk \in DeskType /\ InOrder(Desk))'
  BY NextDeskIsOK
<1>2. /\ cached' \in Seq(Files) /\ content' \in ContentType /\ wanted' \in Nat
      /\ requests' \subseteq [file : Files, read : BOOLEAN, bytes : Nat]
      /\ ActiveIsCached'
      /\ ContentIsOfFront'
  BY RenderKeeps
<1>3. TypeOK'
  BY <1>1, <1>2 DEF IInv, TypeOK
<1>4. DesksAreInOrder'
  BY <1>1 DEF IInv, DesksAreInOrder, InOrder
<1> QED
  BY <1>2, <1>3, <1>4 DEF IInv

\* All that is left to show of a step that does not.
LEMMA UnrenderedKeepsIInv ==
  ASSUME IInv, UNCHANGED <<store, listed, cached>>, stored' \subseteq Files,
         version' \in [Files -> Nat], \A f \in Files : version[f] <= version'[f],
         saved' \in DeskType, InOrder(saved'),
         ready' \in [Courses -> BOOLEAN], cite' \in Files \cup {None},
         content' \in ContentType, wanted' \in Nat,
         requests' \subseteq [file : Files, read : BOOLEAN, bytes : Nat],
         FrontDocument = None => content'.status = "idle" /\ requests' = {},
         FrontDocument # None =>
           /\ content'.file = FrontDocument /\ wanted' <= version[FrontDocument]
           /\ content'.status = "ready" => content'.bytes >= wanted'
           /\ \A r \in requests' : r.file = FrontDocument /\ (r.read => r.bytes >= wanted')
  PROVE  IInv'
<1>1. UNCHANGED <<Desk, FrontDocument, ActiveFile>>
  BY DEF store, Desk, FrontDocument, InFront, Mounted, ShownList, ActiveFile, ActiveFileOf, TabsOf
<1>2. TypeOK'
  BY <1>1 DEF IInv, TypeOK
<1>3. DesksAreInOrder'
  BY <1>1 DEF IInv, DesksAreInOrder, InOrder
<1>4. ActiveIsCached'
  BY <1>1 DEF IInv, ActiveIsCached
<1>5. ContentIsOfFront'
  <2>1. FrontDocument \in Files \cup {None}
    BY FrontIsPdf DEF FrontDocument
  <2>2. FrontDocument # None => wanted' <= version'[FrontDocument]
    BY <2>1 DEF IInv, TypeOK
  <2> QED
    BY <1>1, <2>2 DEF ContentIsOfFront
<1> QED
  BY <1>2, <1>3, <1>4, <1>5 DEF IInv

----------------------------------------------------------------------------
(* The steps.                                                              *)

LEMMA InitIInv == Init => IInv
<1> SUFFICES ASSUME Init PROVE IInv
  OBVIOUS
<1>1. NoDesk \in DeskType /\ InOrder(NoDesk)
  BY DEF NoDesk, DeskType, InOrder, IsInjective
<1>2. Desk = NoDesk /\ saved = NoDesk
  BY DEF Init, Desk, NoDesk
<1>3. ActiveFile = None /\ FrontDocument = None
  BY WorkspaceAssumption
     DEF Init, ActiveFile, ActiveFileOf, Desk, FrontDocument, InFront, Mounted, ShownList
<1>4. TypeOK
  BY <1>1, <1>2 DEF Init, TypeOK, NoContent, ContentType
<1> QED
  BY <1>1, <1>2, <1>3, <1>4
     DEF Init, IInv, DesksAreInOrder, ActiveIsCached, ContentIsOfFront, NoContent

\* The effects of the dashboard, the user and the lists: each changes the store
\* or a list and renders.
LEMMA RenderingStepsKeepIInv ==
  ASSUME IInv,
         \/ InitializeCourse \/ CloseMissingTabs
         \/ \E c \in Courses : SwitchCourse(c) \/ ListArrives(c)
         \/ \E f \in Files : \/ OpenFile(f) \/ OpenRecent(f) \/ SelectTab(f)
                              \/ CloseTabClicked(f) \/ CitationClick(f) \/ DeleteFile(f)
         \/ OpenFromDrawer
  PROVE  IInv'
<1> USE DEF server, lists, disk, Touch
<1>1. /\ StoreOK /\ course \in Courses \cup {None}
      /\ stored \subseteq Files /\ listed \in [Courses -> SUBSET Files]
      /\ ready \in [Courses -> BOOLEAN] /\ cite \in Files \cup {None}
  BY StoreIsOK DEF IInv, TypeOK
<1>2. course # None => course \in Courses /\ ToSet(Tabs) = ToSet(tabs[course])
  BY <1>1 DEF Tabs, TabsOf, Desk
<1>3. ToSet(Tabs) \subseteq Files
  BY ActiveHasTab DEF IInv, TypeOK, DesksAreInOrder, Tabs, ToSet
<1>4. CASE InitializeCourse
  BY <1>1, <1>4, WorkspaceAssumption, RenderedKeepsIInv DEF InitializeCourse, StoreOK
<1>5. CASE CloseMissingTabs
  BY <1>1, <1>2, <1>3, <1>5, CloseTabKeeps, RenderedKeepsIInv DEF CloseMissingTabs, Missing
<1>6. ASSUME NEW c \in Courses, SwitchCourse(c) PROVE IInv'
  BY <1>1, <1>6, RenderedKeepsIInv DEF SwitchCourse, StoreOK
<1>7. ASSUME NEW c \in Courses, ListArrives(c) PROVE IInv'
  BY <1>1, <1>7, RenderedKeepsIInv DEF ListArrives, StoreOK, store
<1>8. ASSUME NEW f \in Files, HandleOpenFile(f) PROVE IInv'
  BY <1>1, <1>2, <1>8, OpenTabKeeps, RenderedKeepsIInv DEF HandleOpenFile, Tidy
<1>9. ASSUME NEW f \in Files, SelectTab(f) PROVE IInv'
  BY <1>1, <1>2, <1>9, SetActiveKeeps, RenderedKeepsIInv DEF SelectTab, Tidy
<1>10. ASSUME NEW f \in Files, CloseTabClicked(f) PROVE IInv'
  BY <1>1, <1>2, <1>10, CloseTabKeeps, RenderedKeepsIInv DEF CloseTabClicked, Tidy
<1>11. ASSUME NEW f \in Files, CitationClick(f) PROVE IInv'
  BY <1>1, <1>2, <1>11, OpenTabKeeps, RenderedKeepsIInv DEF CitationClick, OpenCitation, Tidy
<1>12. ASSUME NEW f \in Files, DeleteFile(f) PROVE IInv'
  BY <1>1, <1>2, <1>12, CloseTabKeeps, RenderedKeepsIInv DEF DeleteFile, Tidy
<1>13. CASE OpenFromDrawer
  BY <1>1, <1>2, <1>13, OpenTabKeeps, RenderedKeepsIInv DEF OpenFromDrawer, Tidy
<1> QED
  BY <1>4, <1>5, <1>6, <1>7, <1>8, <1>9, <1>10, <1>11, <1>12, <1>13 DEF OpenFile, OpenRecent

\* The server reads the bytes of a request after it was made: they are as new as
\* what the viewer wanted.
LEMMA ServerReadsKeepsIInv ==
  ASSUME IInv, NEW r \in requests, ServerReads(r)
  PROVE  IInv'
<1>1. r.file \in Files /\ version[r.file] \in Nat /\ FrontDocument # None
  BY DEF IInv, TypeOK, ContentIsOfFront
<1> DEFINE q == [r EXCEPT !.read = TRUE, !.bytes = version[r.file]]
<1>2. /\ q \in [file : Files, read : BOOLEAN, bytes : Nat]
      /\ q.file = r.file /\ q.bytes = version[r.file]
  BY <1>1 DEF IInv, TypeOK
<1>3. requests' = (requests \ {r}) \cup {q}
  BY DEF ServerReads
<1> HIDE DEF q
<1>4. requests' \subseteq [file : Files, read : BOOLEAN, bytes : Nat]
  BY <1>2, <1>3 DEF IInv, TypeOK
<1>5. q.file = FrontDocument /\ q.bytes >= wanted
  BY <1>1, <1>2 DEF IInv, ContentIsOfFront
<1>6. \A p \in requests' : p.file = FrontDocument /\ (p.read => p.bytes >= wanted)
  BY <1>1, <1>3, <1>5 DEF IInv, ContentIsOfFront
<1> QED
  BY <1>1, <1>4, <1>6, UnrenderedKeepsIInv
     DEF ServerReads, server, lists, disk, IInv, TypeOK, DesksAreInOrder, ContentIsOfFront

\* An answer is of the document in front, or is not taken.
LEMMA AnswersKeepIInv ==
  ASSUME IInv, NEW r \in requests, ContentArrives(r) \/ ContentFails(r)
  PROVE  IInv'
<1>1. /\ r \in [file : Files, read : BOOLEAN, bytes : Nat]
      /\ FrontDocument # None /\ r.file = FrontDocument /\ (r.read => r.bytes >= wanted)
  BY DEF IInv, TypeOK, ContentIsOfFront
<1>2. /\ requests' = requests \ {r}
      /\ UNCHANGED <<server, store, lists, cite, cached, wanted, disk>>
      /\ \/ content' = content
         \/ content' = [status |-> "error", file |-> r.file, bytes |-> 0]
         \/ r.read /\ content' = [status |-> "ready", file |-> r.file, bytes |-> r.bytes]
  BY DEF ContentArrives, ContentFails
<1>3. /\ content' \in ContentType /\ content'.file = FrontDocument
      /\ content'.status = "ready" => content'.bytes >= wanted
  BY <1>1, <1>2 DEF IInv, TypeOK, ContentType, ContentIsOfFront
<1>4. /\ requests' \subseteq [file : Files, read : BOOLEAN, bytes : Nat]
      /\ \A p \in requests' : p.file = FrontDocument /\ (p.read => p.bytes >= wanted)
  BY <1>1, <1>2 DEF IInv, TypeOK, ContentIsOfFront
<1> QED
  BY <1>1, <1>2, <1>3, <1>4, UnrenderedKeepsIInv
     DEF server, lists, disk, IInv, TypeOK, DesksAreInOrder, ContentIsOfFront

\* "Try again" asks for the document in front, as it is now.
LEMMA RetryContentKeepsIInv ==
  ASSUME IInv, RetryContent
  PROVE  IInv'
<1>1. FrontDocument \in Files /\ content.file = FrontDocument /\ version[FrontDocument] \in Nat
  BY FrontIsPdf DEF RetryContent, FrontDocument, IInv, TypeOK, ContentIsOfFront
<1>2. /\ content' = [status |-> "loading", file |-> FrontDocument, bytes |-> 0]
      /\ wanted' = version[FrontDocument]
      /\ requests' = {[file |-> FrontDocument, read |-> FALSE, bytes |-> 0]}
      /\ UNCHANGED <<server, store, lists, cite, cached, disk>>
  BY <1>1 DEF RetryContent, Load, CancelRequests, Request
<1>3. content' \in ContentType /\ content'.file = FrontDocument /\ content'.status = "loading"
  BY <1>1, <1>2 DEF ContentType
<1>4. /\ requests' \subseteq [file : Files, read : BOOLEAN, bytes : Nat]
      /\ \A p \in requests' : p.file = FrontDocument /\ ~p.read
  BY <1>1, <1>2
<1>5. FrontDocument # None
  BY <1>1, WorkspaceAssumption
<1> QED
  BY <1>1, <1>2, <1>3, <1>4, <1>5, UnrenderedKeepsIInv
     DEF server, lists, disk, IInv, TypeOK, DesksAreInOrder

\* Replaced bytes are newer; a failed refetch, the drawer and the debounced write
\* leave the viewer alone.
LEMMA QuietStepsKeepIInv ==
  ASSUME IInv,
         \/ \E c \in Courses : ListFails(c)
         \/ \E f \in Files : Replace(f)
         \/ CloseDrawer \/ Save \/ UNCHANGED vars
  PROVE  IInv'
<1> USE DEF server, lists, viewer, disk
<1>1. /\ stored \subseteq Files /\ version \in [Files -> Nat] /\ saved \in DeskType
      /\ Desk \in DeskType /\ InOrder(Desk) /\ InOrder(saved)
      /\ ready \in [Courses -> BOOLEAN] /\ cite \in Files \cup {None}
      /\ content \in ContentType /\ wanted \in Nat
      /\ requests \subseteq [file : Files, read : BOOLEAN, bytes : Nat]
  BY DEF IInv, TypeOK, DesksAreInOrder
<1>2. /\ FrontDocument = None => content.status = "idle" /\ requests = {}
      /\ FrontDocument # None =>
           /\ content.file = FrontDocument /\ wanted <= version[FrontDocument]
           /\ content.status = "ready" => content.bytes >= wanted
           /\ \A r \in requests : r.file = FrontDocument /\ (r.read => r.bytes >= wanted)
  BY DEF IInv, ContentIsOfFront
<1>3. ASSUME NEW c \in Courses, ListFails(c) PROVE IInv'
  BY <1>1, <1>2, <1>3, UnrenderedKeepsIInv DEF ListFails
<1>4. ASSUME NEW f \in Files, Replace(f) PROVE IInv'
  BY <1>1, <1>2, <1>4, UnrenderedKeepsIInv DEF Replace
<1>5. CASE CloseDrawer
  BY <1>1, <1>2, <1>5, UnrenderedKeepsIInv DEF CloseDrawer
<1>6. CASE Save
  BY <1>1, <1>2, <1>6, UnrenderedKeepsIInv DEF Save
<1>7. CASE UNCHANGED vars
  BY <1>1, <1>2, <1>7, UnrenderedKeepsIInv DEF vars
<1> QED
  BY <1>3, <1>4, <1>5, <1>6, <1>7

\* A reload starts from the saved desk with no list, and so with no document in
\* front.
LEMMA ReloadKeepsIInv ==
  ASSUME IInv, Reload
  PROVE  IInv'
<1>1. saved \in DeskType /\ InOrder(saved)
  BY DEF IInv, TypeOK, DesksAreInOrder
<1>2. Desk' = saved
  BY <1>1 DEF Reload, Desk, DeskType
<1>3. ActiveFile' = ActiveFileOf(saved)
  BY <1>2 DEF ActiveFile, ActiveFileOf, TabsOf
<1>4. cached' \in Seq(Files) /\ ActiveIsCached'
  <2>1. cached' = Lru(<<>>, None, ActiveFileOf(saved), ToSet(TabsOf(saved)))
    BY DEF Reload
  <2>2. ActiveFileOf(saved) \in Files \cup {None} /\ <<>> \in Seq(Files)
    BY <1>1, ActiveHasTab
  <2> QED
    BY <1>3, <2>1, <2>2, LruKeeps DEF ActiveIsCached
<1>5. FrontDocument' = None
  <2>1. ShownList(Desk, listed)' = {}
    BY <1>1, <1>2 DEF Reload, ShownList, DeskType
  <2> QED
    BY <2>1 DEF FrontDocument, InFront, Mounted
<1>6. saved' \in DeskType /\ InOrder(saved')
  BY <1>1 DEF Reload, NoDesk, DeskType, InOrder, IsInjective
<1>7. TypeOK'
  BY <1>1, <1>2, <1>4, <1>6 DEF Reload, IInv, TypeOK, server, NoContent, ContentType
<1>8. DesksAreInOrder'
  BY <1>1, <1>2, <1>6 DEF DesksAreInOrder, InOrder
<1>9. ContentIsOfFront'
  BY <1>5 DEF Reload, ContentIsOfFront, NoContent
<1> QED
  BY <1>4, <1>7, <1>8, <1>9 DEF IInv

LEMMA StepKeepsIInv == IInv /\ [Next]_vars => IInv'
BY RenderingStepsKeepIInv, ServerReadsKeepsIInv, AnswersKeepIInv, RetryContentKeepsIInv,
   QuietStepsKeepIInv, ReloadKeepsIInv
   DEF Next

\* What is asked leaves the desk alone.
LEMMA ScopeStepIsStep == [ScopeNext]_allVars => [Next]_vars
BY DEF ScopeNext, allVars, CanAsk, AskPlain, AskThisDocument, AskAgain, DismissScope,
       AskMentioning

\* The desk, the viewers and the content of the viewer in front stay as IInv says
\* (workspace.ts, dashboard.tsx, useFileContent.tsx).
THEOREM WorkspaceInvariantHolds == ScopeSpec => []IInv
<1>1. ScopeInit => IInv
  BY InitIInv DEF ScopeInit
<1>2. IInv /\ [ScopeNext]_allVars => IInv'
  BY StepKeepsIInv, ScopeStepIsStep
<1> QED
  BY <1>1, <1>2, PTL DEF ScopeSpec

\* No document has two tabs, the active one has a tab, and no tab of a missing
\* file is left when the user acts (workspace.ts:107-130, 198-210,
\* dashboard.tsx:177-189).
THEOREM DeskIsAlwaysInOrder == ScopeSpec => []DeskIsInOrder
<1>1. IInv => DeskIsInOrder
  BY DEF IInv, DesksAreInOrder, InOrder, Desk, DeskIsInOrder, Tidy, Missing
<1> QED
  BY <1>1, WorkspaceInvariantHolds, PTL

\* The active document has a viewer as soon as its list names it
\* (useLruList, dashboard.tsx:32-54, 525-552).
THEOREM ActiveIsAlwaysMounted == ScopeSpec => []ActiveIsMounted
<1>1. IInv => ActiveIsMounted
  <2> SUFFICES ASSUME IInv, course # None, ActiveFile \in listed[course]
               PROVE  ActiveFile \in Mounted(cached, Desk, listed[course])
    BY DEF ActiveIsMounted
  <2>1. ActiveFile # None
    BY WorkspaceAssumption DEF IInv, TypeOK, Desk, DeskType
  <2>2. ActiveFile \in ToSet(TabsOf(Desk))
    BY <2>1, ActiveHasTab DEF IInv, TypeOK, DesksAreInOrder, ActiveFile
  <2> QED
    BY <2>1, <2>2 DEF IInv, ActiveIsCached, Mounted
<1> QED
  BY <1>1, WorkspaceInvariantHolds, PTL

\* The bytes on the screen are those of the document in front, and not older
\* than when it came to the front (useFileContent.tsx:26-47,
\* lib/fileContent.ts:42-66).
THEOREM ShownBytesAreAlwaysFresh == ScopeSpec => []ShownBytesAreFresh
<1>1. IInv => ShownBytesAreFresh
  BY DEF IInv, ContentIsOfFront, FrontDocument, InFront, ActiveFile, ShownBytesAreFresh
<1> QED
  BY <1>1, WorkspaceInvariantHolds, PTL

----------------------------------------------------------------------------
(* What a question is asked of.                                            *)

\* What the banner above the chat says is what a plain question is asked of
\* (chatScopeFileId, dashboard.tsx:150-154, 327-335, Chat.tsx:362-378).
THEOREM BannerAlwaysTellsTheScope == ScopeSpec => []BannerTellsTheScope
<1>1. IInv => BannerTellsTheScope
  <2> SUFFICES ASSUME IInv, Tidy, ready[course]
               PROVE  PlainScope = IF Banner = None THEN WholeCourse ELSE {Banner}
    BY DEF BannerTellsTheScope
  <2>1. course # None /\ listed[course] \subseteq Files /\ None \notin Files
    BY WorkspaceAssumption DEF IInv, TypeOK, Desk, DeskType, Tidy
  <2>2. ActiveFile # None => ActiveFile \in ToSet(Tabs)
    BY ActiveHasTab DEF IInv, TypeOK, DesksAreInOrder, ActiveFile, Tabs
  <2>3. ToSet(Tabs) \subseteq listed[course]
    BY DEF Tidy, Missing
  <2>4. ActiveFile # None => ActiveFile \in listed[course]
    BY <2>2, <2>3
  <2>5. CASE ChatScopeFile = None
    BY <2>1, <2>5 DEF PlainScope, Banner, RagScope
  <2>6. CASE ChatScopeFile # None
    <3>1. ChatScopeFile = ActiveFile
      BY <2>6 DEF ChatScopeFile
    <3> QED
      BY <2>1, <2>4, <2>6, <3>1 DEF PlainScope, Banner
  <2> QED
    BY <2>5, <2>6
<1> QED
  BY <1>1, WorkspaceInvariantHolds, PTL
=============================================================================
