------------------------------ MODULE QueryCache ------------------------------
(***************************************************************************)
(* What the panes rely on of TanStack Query, as app.tsx sets it up: answers *)
(* are kept per key, a key in view is fetched when it has no answer or an  *)
(* old one, and a mutation may invalidate, cancel or overwrite an entry    *)
(* while an answer is still on the wire.  An entry is "old" once it was    *)
(* invalidated or is past staleTime.                                       *)
(***************************************************************************)

\* An entry before its key was ever in view; blank fills the unused fields.
NoEntry(blank) ==
  [loaded |-> FALSE, data |-> blank, old |-> TRUE, wire |-> "idle", reply |-> blank]

Entry(D) ==
  [loaded : BOOLEAN, data : D, old : BOOLEAN, wire : {"idle", "asked", "read"}, reply : D]

\* The key comes into view.
InView(e) ==
  IF e.wire = "idle" /\ (e.old \/ ~e.loaded) THEN [e EXCEPT !.wire = "asked"] ELSE e

\* invalidateQueries: a key in view is fetched again, over a fetch that is
\* running; but a first fetch is joined, and what it brings counts as new.
Invalidate(e, inView, blank) ==
  LET marked == [e EXCEPT !.old = TRUE]
  IN  IF inView /\ (e.loaded \/ e.wire = "idle")
      THEN [marked EXCEPT !.wire = "asked", !.reply = blank]
      ELSE marked

\* An invalidation is lost on a fetch that had its answer and goes on: what
\* that brings counts as new.
IsLostOn(e, inView) == e.wire = "read" /\ ~(inView /\ e.loaded)

\* refetch of a key that is not in its first fetch: over one that is running.
Refetch(e, blank) == [e EXCEPT !.wire = "asked", !.reply = blank]

\* cancelQueries: the answer on the wire is dropped.
Cancel(e, blank) == [e EXCEPT !.wire = "idle", !.reply = blank]

\* setQueryData: the value counts as new; a fetch that runs is left alone.
Put(e, d) == [e EXCEPT !.loaded = TRUE, !.data = d, !.old = FALSE]

\* The server answers with d; the answer arrives.
Read(e, d) == [e EXCEPT !.wire = "read", !.reply = d]
Deliver(e, blank) ==
  [e EXCEPT !.loaded = TRUE, !.data = e.reply, !.old = FALSE, !.wire = "idle", !.reply = blank]

\* What may befall an entry: the fetch and its retry fail, staleTime passes.
Lapsed(e, blank) ==
  {f \in {Cancel(e, blank), [e EXCEPT !.old = TRUE]} : f # e}

\* Nothing is under way that would change what is shown.
Settled(e) == e.loaded /\ ~e.old /\ e.wire = "idle"
=============================================================================
