----------------------------- MODULE S3Assembly -----------------------------
(***************************************************************************)
(* S3StorageClient.assemble_file: existence check, multipart upload with   *)
(* all parts sent in parallel (asyncio.gather), completion, checksum       *)
(* comparison and clean-up.  Several calls for one key may overlap.  When  *)
(* one part fails gather raises at once and the other part uploads keep    *)
(* running while the multipart upload is aborted.                          *)
(*                                                                         *)
(* A call to S3 ends "ok", raises without effect ("error"), or takes       *)
(* effect and raises ("lost").  Faults are bounded by MaxFaults.           *)
(***************************************************************************)
EXTENDS Naturals, FiniteSets

CONSTANTS
  Calls,      \* assemble_file calls for one key
  Parts,      \* part numbers of the file
  Intact,     \* the calls whose chunks have the expected checksum
  MaxFaults,  \* bound on the calls to S3 that raise and on crashes
  Null        \* no object

ASSUME AssemblyAssumption ==
  /\ Parts # {}          \* _validate_chunk_data refuses an empty list
  /\ Intact \subseteq Calls
  /\ MaxFaults \in Nat
  /\ Null \notin Calls \cup [call : Calls, parts : SUBSET Parts]

VARIABLES
  pc,       \* where each call is
  upload,   \* S3: the call's multipart upload, "none", "open" or "closed"
  known,    \* the call has the upload id
  task,     \* the part uploads: "none", "running", "done" or "failed"
  stored,   \* S3: parts held for the multipart upload
  object,   \* S3: what is under the key, Null or a call and its parts
  faults,   \* faults so far, per call
  crashed   \* calls whose worker died

vars == <<pc, upload, known, task, stored, object, faults, crashed>>

Ends == {"returned", "raised"}
PCs == Ends \cup {"head", "create", "parts", "complete", "delete", "abort"}

Outcomes == {"ok", "error", "lost"}
Applied(o) == o # "error"
Raises(o) == o # "ok"

Init ==
  /\ pc = [c \in Calls |-> "head"]
  /\ upload = [c \in Calls |-> "none"]
  /\ known = [c \in Calls |-> FALSE]
  /\ task = [c \in Calls |-> [p \in Parts |-> "none"]]
  /\ stored = [c \in Calls |-> {}]
  /\ object = Null
  /\ faults = [c \in Calls |-> 0]
  /\ crashed = {}

Goto(c, l) == pc' = [pc EXCEPT ![c] = l]

Spend(c, o) ==
  /\ Raises(o) => faults[c] < MaxFaults
  /\ faults' = IF Raises(o) THEN [faults EXCEPT ![c] = @ + 1] ELSE faults

\* The two exception handlers: abort the upload if its id is known.
HandleError(c, idKnown) == Goto(c, IF idKnown THEN "abort" ELSE "raised")

\* _check_file_exists: an existing object is an IntegrityError.
CheckFileExists(c, o) ==
  /\ pc[c] = "head"
  /\ Spend(c, o)
  /\ Goto(c, IF Raises(o) \/ object # Null THEN "raised" ELSE "create")
  /\ UNCHANGED <<upload, known, task, stored, object, crashed>>

\* create_multipart_upload; then every part upload is started.
CreateUpload(c, o) ==
  /\ pc[c] = "create"
  /\ Spend(c, o)
  /\ upload' = IF Applied(o) THEN [upload EXCEPT ![c] = "open"] ELSE upload
  /\ IF Raises(o)
       THEN HandleError(c, FALSE) /\ UNCHANGED <<known, task>>
       ELSE /\ known' = [known EXCEPT ![c] = TRUE]
            /\ task' = [task EXCEPT ![c] = [p \in Parts |-> "running"]]
            /\ Goto(c, "parts")
  /\ UNCHANGED <<stored, object, crashed>>

\* Mutants of GatherDone: completion goes ahead when one part is there; it
\* waits for one more part than there is.
MutantAnyPart(t) == \E p \in Parts : t[p] = "done"

MutantOneMore(t) == Cardinality({p \in Parts : t[p] = "done"}) > Cardinality(Parts)

GatherDone(t) == \A p \in Parts : t[p] = "done"

\* One upload_part task ends.  While the call waits in gather, the first
\* failure or the last success resumes it; afterwards nobody listens.  S3
\* refuses a part of an upload that is no longer open.
UploadPart(c, p, o) ==
  LET t == [task[c] EXCEPT ![p] = IF Raises(o) THEN "failed" ELSE "done"] IN
  /\ task[c][p] = "running"
  /\ upload[c] # "open" => o = "error"
  /\ IF upload[c] # "open" THEN UNCHANGED faults ELSE Spend(c, o)
  /\ stored' = IF Applied(o) THEN [stored EXCEPT ![c] = @ \cup {p}] ELSE stored
  /\ task' = [task EXCEPT ![c] = t]
  /\ IF pc[c] # "parts" THEN UNCHANGED pc
     ELSE IF Raises(o) THEN HandleError(c, known[c])
     ELSE Goto(c, IF GatherDone(t) THEN "complete" ELSE "parts")
  /\ UNCHANGED <<upload, known, object, crashed>>

\* Mutant of AfterComplete: the checksum is not compared.
MutantNoChecksum(c, o) == IF Raises(o) THEN "abort" ELSE "returned"

\* complete_multipart_upload returned: compare the checksum.
AfterComplete(c, o) ==
  IF Raises(o) THEN "abort" ELSE IF c \in Intact THEN "returned" ELSE "delete"

CompleteUpload(c, o) ==
  /\ pc[c] = "complete"
  /\ Spend(c, o)
  /\ IF Applied(o)
       THEN /\ object' = [call |-> c, parts |-> stored[c]]
            /\ upload' = [upload EXCEPT ![c] = "closed"]
       ELSE UNCHANGED <<object, upload>>
  /\ Goto(c, AfterComplete(c, o))
  /\ UNCHANGED <<known, task, stored, crashed>>

\* Best-effort delete_object of a corrupt file, then IntegrityError.
DeleteCorrupt(c, o) ==
  /\ pc[c] = "delete"
  /\ Spend(c, o)
  /\ object' = IF Applied(o) THEN Null ELSE object
  /\ Goto(c, "raised")
  /\ UNCHANGED <<upload, known, task, stored, crashed>>

\* Mutant of AfterAbort: the upload stays open.
MutantNotClosed(c) == upload

AfterAbort(c) == [upload EXCEPT ![c] = "closed"]

\* _abort_multipart_upload: S3 drops the parts; an error is only logged.
AbortUpload(c, o) ==
  /\ pc[c] = "abort"
  /\ Spend(c, o)
  /\ IF Applied(o)
       THEN /\ upload' = AfterAbort(c)
            /\ stored' = [stored EXCEPT ![c] = {}]
       ELSE UNCHANGED <<upload, stored>>
  /\ Goto(c, "raised")
  /\ UNCHANGED <<known, task, object, crashed>>

\* The worker dies, with its part uploads.
Crash(c) ==
  /\ pc[c] \notin Ends
  /\ faults[c] < MaxFaults
  /\ faults' = [faults EXCEPT ![c] = @ + 1]
  /\ crashed' = crashed \cup {c}
  /\ Goto(c, "raised")
  /\ task' = [task EXCEPT ![c] = [p \in Parts |-> IF @[p] = "running" THEN "failed" ELSE @[p]]]
  /\ UNCHANGED <<upload, known, stored, object>>

Step(c) ==
  \E o \in Outcomes :
    \/ CheckFileExists(c, o)
    \/ CreateUpload(c, o)
    \/ CompleteUpload(c, o)
    \/ DeleteCorrupt(c, o)
    \/ AbortUpload(c, o)
    \/ \E p \in Parts : UploadPart(c, p, o)

Next == \E c \in Calls : Step(c) \/ Crash(c)

Spec == Init /\ [][Next]_vars

\* Every call to S3 returns or times out.
Fairness == \A c \in Calls : WF_vars(Step(c))

FairSpec == Spec /\ Fairness

----------------------------------------------------------------------------
(* Properties *)

TypeOK ==
  /\ pc \in [Calls -> PCs]
  /\ upload \in [Calls -> {"none", "open", "closed"}]
  /\ known \in [Calls -> BOOLEAN]
  /\ task \in [Calls -> [Parts -> {"none", "running", "done", "failed"}]]
  /\ stored \in [Calls -> SUBSET Parts]
  /\ object = Null \/ object \in [call : Calls, parts : SUBSET Parts]
  /\ faults \in [Calls -> Nat]
  /\ crashed \subseteq Calls

\* What is under the key has every part, whichever part uploads failed, came
\* late or belonged to another call.
ObjectIsWhole == object # Null => object.parts = Parts

LeavesNoUpload(c) ==
  pc[c] \in Ends /\ upload[c] = "open" =>
    ~known[c] \/ c \in crashed \/ faults[c] >= 2

\* A call that has ended leaves no multipart upload open, unless it never
\* learned the upload's id, its worker died, or the abort failed as well.
NoUploadLeft == \A c \in Calls : LeavesNoUpload(c)

\* What holds of one call at each point of assemble_file.
CallOK(c) ==
  /\ pc[c] \in {"head", "create"} => upload[c] = "none" /\ ~known[c]
  /\ pc[c] \in {"parts", "complete"} => upload[c] = "open"
  /\ pc[c] \in {"head", "create", "parts"} =>
       \A p \in Parts : task[c][p] = "done" => p \in stored[c]
  /\ pc[c] = "complete" => stored[c] = Parts
  /\ pc[c] = "delete" => upload[c] = "closed" /\ c \notin Intact
  /\ pc[c] = "abort" => faults[c] >= 1
  /\ LeavesNoUpload(c)

\* The inductive invariant: a part counted as done is held by S3, so the
\* completion finds all of them, an upload is aborted after a fault, and an
\* object is deleted only by a call whose bytes are wrong.
AssemblyInv ==
  /\ TypeOK
  /\ \A c \in Calls : CallOK(c)
  /\ ObjectIsWhole

\* Every call ends; it does not wait for parts nobody uploads.
AssemblyEnds == \A c \in Calls : <>(pc[c] \in Ends)

Result(c) ==
  CASE pc[c] = "returned" -> "ok"
    [] pc[c] = "raised" -> "raised"
    [] pc[c] = "delete" -> "put"
    [] pc[c] = "abort" /\ upload[c] = "closed" -> "put"
    [] OTHER -> "pending"

Store == INSTANCE ObjectStore WITH
  object <- IF object = Null THEN Null ELSE object.call,
  result <- [c \in Calls |-> Result(c)]

\* The parallel multipart upload looks to the service like one write of the
\* whole object: partial or aborted uploads never show.
StoreSpec == Store!Spec
============================================================================
