----------------------------- MODULE Grounding -----------------------------
(***************************************************************************)
(* The gate between what the language model writes and what the reader     *)
(* sees: services/grounding.py, the answer schema of services/llm.py, and   *)
(* the part of routers/rag.py from the draft to the response.               *)
(*                                                                         *)
(* Quotes are compared after _normalise (white space collapsed, case       *)
(* folded), so a quote is the class of the strings that compare equal, and *)
(* a source is the set of the quotes that can be found in its text.  A      *)
(* draft's list of citations is a function from places in the list; what   *)
(* the code filters out of the list is a set of places.                    *)
(***************************************************************************)
EXTENDS Naturals

CONSTANTS
  Quotes,      \* quotes that say something
  Blank,       \* a quote of white space: it normalises to "", which every text contains
  Empty,       \* the empty string, which Citation.quote does not admit
  Slots,       \* places in the model's list of citations
  MaxMarker,   \* the largest number the model writes in brackets
  MaxSources,  \* the most sources build_context puts into the prompt
  Nothing         \* no draft, no message, no reply

ASSUME QuoteAssumption == Blank \notin Quotes /\ Empty \notin Quotes /\ Blank # Empty
ASSUME SizeAssumption == MaxMarker \in Nat /\ MaxSources \in Nat

Citation == [marker : 1..MaxMarker, quote : Quotes \cup {Blank, Empty}]

Gaps == {"absent", "blank", "named"}

\* What the model may return: its text (the numbers in brackets are all that
\* matters of it), its own claim, its citations, and the gap it declares.
Drafts ==
  {d \in [text : {"prose", "nothing"}, markers : SUBSET (0..MaxMarker), claims : BOOLEAN,
          citations : UNION {[K -> Citation] : K \in SUBSET Slots}, uncovered : Gaps] :
     d.text = "nothing" => d.markers = {}}

\* What stands in for the draft when the call to the model fails.
FailedDraft ==
  [text |-> "generation_failed", markers |-> {}, claims |-> FALSE,
   citations |-> [k \in {} |-> Nothing], uncovered |-> "absent"]

SourceLists == UNION {[1..n -> SUBSET Quotes] : n \in 0..MaxSources}

VARIABLES
  sources,   \* `selected`: the numbered sources of the prompt
  draft,     \* what the model returned
  stage,     \* "asked", "drafted", "stored", "answered" or "raised"
  storedMessage,   \* the assistant's row, committed with the question's
  reply      \* the response

gateVars == <<sources, draft, stage, storedMessage, reply>>

Texts == {"prose", "nothing", "generation_failed", "unverified", "nothing_cited"}

Verdicts == [text : Texts, kept : SUBSET Slots, grounded : BOOLEAN, uncovered : Gaps]

GateTypeOK ==
  /\ sources \in SourceLists
  /\ draft \in Drafts \cup {FailedDraft, Nothing}
  /\ stage \in {"asked", "drafted", "stored", "answered", "raised"}
  /\ storedMessage \in Verdicts \cup {Nothing}
  /\ reply \in Verdicts \cup {Nothing}
  /\ (draft = Nothing) <=> (stage = "asked")

----------------------------------------------------------------------------
(***************************************************************************)
(* The checks, on a draft d, a set K of places left in its list, and the   *)
(* sources s.                                                              *)
(***************************************************************************)
MarkerOf(d, k) == d.citations[k].marker

MarkersIn(d, K) == {MarkerOf(d, k) : k \in K}

\* `quote in content`, both normalised (the bug: any of the sources will do).
FoundAnywhere(c, s) == c.quote = Blank \/ \E n \in DOMAIN s : c.quote \in s[n]
QuoteFound(c, s) == c.quote = Blank \/ c.quote \in s[c.marker]

\* A marker without a source is dropped: there is no provenance to attach.
Resolved(d, s) == {k \in DOMAIN d.citations : MarkerOf(d, k) \in DOMAIN s}

\* An answer without any marker is left alone (the bug: every answer is).
DropNothing(d, K) == K
DropUnreferenced(d, K) ==
  IF d.markers = {} THEN K ELSE {k \in K : MarkerOf(d, k) \in d.markers}

Verified(d, K, s) == {k \in K : QuoteFound(d.citations[k], s)}

\* A failed quote goes when its marker keeps another one that holds.
DropUnverified(d, K, s) ==
  {k \in K : k \in Verified(d, K, s) \/ MarkerOf(d, k) \notin MarkersIn(d, Verified(d, K, s))}

Kept(d, s) == DropUnverified(d, DropUnreferenced(d, Resolved(d, s)), s)

GapIsNamed(d, K) == d.uncovered = "absent" \/ (d.uncovered = "named" /\ K # {})

NoQuoteTwice(d, K) == \A j, k \in K : j # k => d.citations[j] # d.citations[k]

CheckGrounding(d, K, s) ==
  /\ GapIsNamed(d, K)
  /\ d.markers = MarkersIn(d, K)
  /\ NoQuoteTwice(d, K)
  /\ \A k \in K : MarkerOf(d, k) \in DOMAIN s /\ QuoteFound(d.citations[k], s)

Withheld(text) == [text |-> text, kept |-> {}, grounded |-> FALSE, uncovered |-> "absent"]

NamesAGapOnly(d, K) == d.uncovered = "named" /\ K = {} /\ d.markers = {}

\* The model's claim is an input to the decision, never the decision itself.
Decide(d, s) ==
  LET K == Kept(d, s)
      grounded == K # {} /\ d.claims
  IN  IF CheckGrounding(d, K, s)
      THEN [text |-> d.text, kept |-> K, grounded |-> grounded,
            uncovered |-> IF grounded THEN d.uncovered ELSE "absent"]
      ELSE IF NamesAGapOnly(d, K) THEN Withheld("nothing_cited")
      ELSE Withheld("unverified")

\* Citation(quote="") does not validate, and nothing catches it.
ResolveRaises(d, s) == \E k \in Resolved(d, s) : d.citations[k].quote = Empty

----------------------------------------------------------------------------
GateInit ==
  /\ sources \in SourceLists
  /\ draft = Nothing /\ stage = "asked" /\ storedMessage = Nothing /\ reply = Nothing

\* generate_answer returned a draft that validates (the bug: it is not validated,
\* and a citation carries the marker 0).
GenerateUnvalidated ==
  /\ stage = "asked"
  /\ \E k \in Slots, q \in Quotes :
       draft' = [FailedDraft EXCEPT !.citations = [j \in {k} |-> [marker |-> 0, quote |-> q]]]
  /\ stage' = "drafted"
  /\ UNCHANGED <<sources, storedMessage, reply>>

GenerateAnswer ==
  /\ stage = "asked"
  /\ draft' \in Drafts
  /\ stage' = "drafted"
  /\ UNCHANGED <<sources, storedMessage, reply>>

\* It raised: transport, status, no candidate, or JSON that does not validate.
GenerationFails ==
  /\ stage = "asked"
  /\ draft' = FailedDraft
  /\ stage' = "drafted"
  /\ UNCHANGED <<sources, storedMessage, reply>>

\* Verify, decide, and commit both rows of the turn.
Store ==
  /\ stage = "drafted" /\ ~ResolveRaises(draft, sources)
  /\ storedMessage' = Decide(draft, sources)
  /\ stage' = "stored"
  /\ UNCHANGED <<sources, draft, reply>>

\* The request ends in a 500 before anything is committed.
RaiseUnstored ==
  /\ stage = "drafted" /\ ResolveRaises(draft, sources)
  /\ stage' = "raised"
  /\ UNCHANGED <<sources, draft, storedMessage, reply>>

\* RagAnswer.answer does not admit the empty string.
Reply ==
  /\ stage = "stored" /\ storedMessage.text # "nothing"
  /\ reply' = storedMessage
  /\ stage' = "answered"
  /\ UNCHANGED <<sources, draft, storedMessage>>

RaiseStored ==
  /\ stage = "stored" /\ storedMessage.text = "nothing"
  /\ stage' = "raised"
  /\ UNCHANGED <<sources, draft, storedMessage, reply>>

\* The request is over.
RequestOver == stage \in {"answered", "raised"} /\ UNCHANGED gateVars

GateNext ==
  \/ GenerateAnswer \/ GenerationFails \/ Store \/ RaiseUnstored \/ Reply \/ RaiseStored
  \/ RequestOver

GateSpec == GateInit /\ [][GateNext]_gateVars

----------------------------------------------------------------------------
\* A citation leads to a line of the source it names. A blank quote leads
\* anywhere: the code finds it in every source.
Leads(c, s) == c.marker \in DOMAIN s /\ (c.quote \in s[c.marker] \/ c.quote = Blank)

\* The places of a draft whose citations may be shown.
Good(d, s) ==
  {k \in DOMAIN d.citations : d.citations[k].marker \in d.markers /\ Leads(d.citations[k], s)}

\* What a draft must be to be shown with its markers: every marker in it leads
\* somewhere, no line is given twice, and a gap it declares is named.
Sound(d, s) ==
  /\ d.markers # {} /\ d.uncovered # "blank"
  /\ \A m \in d.markers : \E k \in Good(d, s) : d.citations[k].marker = m
  /\ \A j, k \in Good(d, s) : d.citations[j] = d.citations[k] => j = k

\* The three filters and the check, however they interact, let exactly the sound
\* drafts through, with exactly their good citations; a draft that cites nothing
\* is passed on as a refusal if it declares no gap; all else is withheld
\* (rag.py:510-555, grounding.py:66-235).
GateIsExact ==
  stage \in {"stored", "answered"} =>
    storedMessage =
      IF Sound(draft, sources)
      THEN [text |-> draft.text, kept |-> Good(draft, sources), grounded |-> draft.claims,
            uncovered |-> IF draft.claims THEN draft.uncovered ELSE "absent"]
      ELSE IF draft.markers # {} \/ Resolved(draft, sources) # {} THEN Withheld("unverified")
      ELSE CASE draft.uncovered = "absent" -> Withheld(draft.text)
             [] draft.uncovered = "blank" -> Withheld("unverified")
             [] draft.uncovered = "named" -> Withheld("nothing_cited")

\* Every number the reader finds in brackets leads to a line of the source that
\* was sent under that number, whatever the model claimed (grounding.py:140-144).
MarkersLeadSomewhere ==
  stage \in {"stored", "answered"} /\ storedMessage.text = "prose" =>
    \A m \in draft.markers : \E k \in storedMessage.kept :
      draft.citations[k].marker = m /\ Leads(draft.citations[k], sources)

\* A citation the reader would never miss: no source, no marker in the text, or
\* a quote that fails beside one that holds.
IsNoise(d, c, s) ==
  \/ c.marker \notin DOMAIN s
  \/ d.markers # {} /\ c.marker \notin d.markers
  \/ ~Leads(c, s) /\ \E k \in DOMAIN d.citations :
                      d.citations[k].marker = c.marker /\ Leads(d.citations[k], s)

With(d, k, c) ==
  [d EXCEPT !.citations = [j \in DOMAIN d.citations \cup {k} |->
                             IF j = k THEN c ELSE d.citations[j]]]

\* Had the model listed one more citation nobody would miss, the reader would
\* have seen the same answer (grounding.py:75-98, grounding.py:127-143: four
\* extras, and one bad quote beside two exact ones, refused a whole summary).
NoiseIsHarmless ==
  stage = "stored" =>
    \A k \in Slots \ DOMAIN draft.citations, c \in Citation :
      c.quote # Empty /\ IsNoise(draft, c, sources)
        => Decide(With(draft, k, c), sources) = storedMessage
============================================================================
