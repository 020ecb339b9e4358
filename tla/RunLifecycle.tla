----------------------------- MODULE RunLifecycle -----------------------------
(***************************************************************************)
(* What an ingestion run promises to everyone who reads the database: the  *)
(* phases it goes through, and that retrieval moves from one generation of *)
(* a file to the next in a single step.                                    *)
(***************************************************************************)
CONSTANTS Runs, Files, NoFile

VARIABLES
  phase,   \* where each run stands
  file     \* the file it was requested for

vars == <<phase, file>>

Phases == {"none", "queued", "processing", "failed",
           "built",     \* READY, its chunks are stored and not served
           "serving",   \* READY and active: retrieval reads it
           "retired",   \* READY, was active
           "gone"}      \* removed with its file

TypeOK ==
  /\ phase \in [Runs -> Phases]
  /\ file \in [Runs -> Files \cup {NoFile}]

Init ==
  /\ phase = [r \in Runs |-> "none"]
  /\ file = [r \in Runs |-> NoFile]

Serving(f) == {r \in Runs : file[r] = f /\ phase[r] = "serving"}

Request(r, f) ==
  /\ phase[r] = "none"
  /\ phase' = [phase EXCEPT ![r] = "queued"]
  /\ file' = [file EXCEPT ![r] = f]

Begin(r) ==
  /\ phase[r] = "queued"
  /\ phase' = [phase EXCEPT ![r] = "processing"]
  /\ UNCHANGED file

Build(r) ==
  /\ phase[r] = "processing"
  /\ phase' = [phase EXCEPT ![r] = "built"]
  /\ UNCHANGED file

\* A task gives up on its run, or a restart on all that were interrupted.
Fail(S) ==
  /\ S # {}
  /\ \A r \in S : phase[r] \in {"queued", "processing"}
  /\ phase' = [r \in Runs |-> IF r \in S THEN "failed" ELSE phase[r]]
  /\ UNCHANGED file

\* The new generation replaces whatever was served.
Serve(r) ==
  /\ phase[r] = "built"
  /\ phase' = [q \in Runs |-> IF q = r THEN "serving"
                              ELSE IF q \in Serving(file[r]) THEN "retired" ELSE phase[q]]
  /\ UNCHANGED file

\* The bytes changed: nothing of f is served until it is built again.
Withdraw(f) ==
  /\ phase' = [q \in Runs |-> IF q \in Serving(f) THEN "retired" ELSE phase[q]]
  /\ UNCHANGED file

Drop(f) ==
  /\ phase' = [r \in Runs |-> IF file[r] = f /\ phase[r] # "none" THEN "gone" ELSE phase[r]]
  /\ UNCHANGED file

Next ==
  \/ \E r \in Runs, f \in Files : Request(r, f)
  \/ \E r \in Runs : Begin(r) \/ Build(r) \/ Serve(r)
  \/ \E S \in SUBSET Runs : Fail(S)
  \/ \E f \in Files : Withdraw(f) \/ Drop(f)

Spec == Init /\ [][Next]_vars
=============================================================================
