------------------------------ MODULE Retrieval ------------------------------
(***************************************************************************)
(* What a chat question reads while files are ingested, replaced and       *)
(* deleted under it: POST /rag/query from the request to the sources it    *)
(* hands to the model.                                                     *)
(*                                                                         *)
(* A question runs several statements in one READ COMMITTED transaction,   *)
(* each with a snapshot of its own, with embedding in a thread between     *)
(* them.  A source is named by the run its chunk belongs to.               *)
(***************************************************************************)
EXTENDS Ingestion

CONSTANTS
  Asks,    \* POST /rag/query requests
  Users,   \* who may ask
  Owner    \* the user whose course holds the file

ASSUME OwnerAssumption == Owner \in [Files -> Users]

VARIABLES
  askPc,
  asker,    \* the user the access token names
  wanted,   \* request.file_ids, {} when the request names none
  rounds,   \* searches left: the question alone, then joined to the one before;
            \* 0 for a document summary, which is read and not searched for
  scope,    \* the file ids _scope_file_ids returned for this search
  sources   \* the runs whose chunks were retrieved so far

askVars == <<askPc, asker, wanted, rounds, scope, sources>>

\* "summary" reads a whole document, "vector" and "keyword" are the two halves
\* of hybrid_search.
AskLive == {"scoping", "vector", "keyword", "opening", "summary", "generating"}
AskPc == AskLive \cup {"unused", "answered", "lost"}

AskTypeOK ==
  /\ askPc \in [Asks -> AskPc]
  /\ asker \in [Asks -> Users]
  /\ wanted \in [Asks -> SUBSET Files]
  /\ rounds \in [Asks -> 0 .. 2]
  /\ scope \in [Asks -> SUBSET Files]
  /\ sources \in [Asks -> SUBSET Runs]

AskInit ==
  /\ askPc = [a \in Asks |-> "unused"]
  /\ asker \in [Asks -> Users]
  /\ wanted = [a \in Asks |-> {}]
  /\ rounds = [a \in Asks |-> 0]
  /\ scope = [a \in Asks |-> {}]
  /\ sources = [a \in Asks |-> {}]

----------------------------------------------------------------------------
AskGoto(a, label) == askPc' = [askPc EXCEPT ![a] = label]
AskIsAt(a, label) == up /\ askPc[a] = label

\* A question with history is searched for twice.  A document summary names one
\* file.
Ask(a) ==
  /\ AskIsAt(a, "unused")
  /\ \E F \in SUBSET Files :
       /\ wanted' = [wanted EXCEPT ![a] = F]
       /\ \/ \E n \in 1 .. 2 : AskGoto(a, "scoping") /\ rounds' = [rounds EXCEPT ![a] = n]
          \/ (\E f \in Files : F = {f}) /\ AskGoto(a, "opening") /\ UNCHANGED rounds
  /\ UNCHANGED <<asker, scope, sources>>

\* Every branch starts from the caller's own files and narrows from there.
ScopeOf(a) ==
  {f \in Files : RowOf(f) /\ Owner[f] = asker[a] /\ (wanted[a] # {} => f \in wanted[a])}

\* hybrid_search reads an empty list of files as "no filter".
InScope(F) == {r \in active : F # {} => runFile[r] \in F}

\* A loop over the searches that never leaves.
SearchForEver(a) ==
  /\ rounds' = [rounds EXCEPT ![a] = @ - 1]
  /\ AskGoto(a, "scoping")

\* After the search, the next one or the prompt.
AfterSearch(a) ==
  \/ rounds[a] = 2 /\ AskGoto(a, "scoping") /\ rounds' = [rounds EXCEPT ![a] = 1]
  \/ rounds[a] = 1 /\ AskGoto(a, "generating") /\ UNCHANGED rounds

\* An empty scope never reaches the search (and the bug of handing it over).
SearchAnyway(F) == FALSE
NothingToSearch(F) == F = {}

Scope(a) ==
  /\ AskIsAt(a, "scoping")
  /\ scope' = [scope EXCEPT ![a] = ScopeOf(a)]
  /\ IF NothingToSearch(ScopeOf(a)) THEN AfterSearch(a)
     ELSE AskGoto(a, "vector") /\ UNCHANGED rounds
  /\ UNCHANGED <<asker, wanted, sources>>

\* The nearest chunks: some of what is active in the scope, if anything is.
VectorSearch(a) ==
  /\ AskIsAt(a, "vector")
  /\ \E S \in SUBSET InScope(scope[a]) :
       /\ InScope(scope[a]) # {} => S # {}
       /\ sources' = [sources EXCEPT ![a] = @ \cup S]
  /\ AskGoto(a, "keyword")
  /\ UNCHANGED <<asker, wanted, rounds, scope>>

\* The chunks that contain a word of the question.
KeywordSearch(a) ==
  /\ AskIsAt(a, "keyword")
  /\ \E S \in SUBSET InScope(scope[a]) : sources' = [sources EXCEPT ![a] = @ \cup S]
  /\ AfterSearch(a)
  /\ UNCHANGED <<asker, wanted, scope>>

\* _retrieve_document_chunks: the scope, then all chunks of the active run.
OpenDocument(a) ==
  /\ AskIsAt(a, "opening")
  /\ scope' = [scope EXCEPT ![a] = ScopeOf(a)]
  /\ AskGoto(a, IF ScopeOf(a) = {} THEN "generating" ELSE "summary")
  /\ UNCHANGED <<asker, wanted, rounds, sources>>

ReadDocument(a) ==
  /\ AskIsAt(a, "summary")
  /\ sources' = [sources EXCEPT ![a] = {r \in active : runFile[r] \in scope[a]}]
  /\ AskGoto(a, "generating")
  /\ UNCHANGED <<asker, wanted, rounds, scope>>

\* The model answers, fails or times out: each becomes an answer.
Answer(a) ==
  /\ AskIsAt(a, "generating")
  /\ AskGoto(a, "answered")
  /\ UNCHANGED <<asker, wanted, rounds, scope, sources>>

AskStep(a) ==
  \/ Scope(a) \/ VectorSearch(a) \/ KeywordSearch(a)
  \/ OpenDocument(a) \/ ReadDocument(a) \/ Answer(a)

\* A crash takes the open requests with it.
LoseAsks ==
  /\ askPc' = [a \in Asks |-> IF askPc[a] \in AskLive THEN "lost" ELSE askPc[a]]
  /\ UNCHANGED <<asker, wanted, rounds, scope, sources>>

\* What the rest of the system does meanwhile.
Elsewhere == Next /\ IF up /\ ~up' THEN LoseAsks ELSE UNCHANGED askVars

NextWithAsks ==
  \/ Elsewhere
  \/ (\E a \in Asks : Ask(a) \/ AskStep(a)) /\ UNCHANGED vars

SpecWithAsks == Init /\ AskInit /\ [][NextWithAsks]_<<vars, askVars>>

----------------------------------------------------------------------------
\* No answer rests on a file the asker does not own or did not mention, whatever
\* is uploaded or deleted between scoping and searching (routers/rag.py:66).
SourcesStayInScope ==
  \A a \in Asks : \A r \in sources[a] :
    /\ Owner[runFile[r]] = asker[a]
    /\ wanted[a] # {} => runFile[r] \in wanted[a]

\* A document summary reads one generation of the document in one statement,
\* whatever is published while the question is open (routers/rag.py:167).
SummaryIsOneGeneration ==
  \A a \in Asks : rounds[a] = 0 =>
    \A r, q \in sources[a] : runFile[r] = runFile[q] => r = q

\* "Retrieval never sees two generations of the same file at once" (README.md:38).
RetrievalSeesOneGeneration ==
  \A a \in Asks : \A r, q \in sources[a] : runFile[r] = runFile[q] => r = q
=============================================================================
