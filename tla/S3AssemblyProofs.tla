-------------------------- MODULE S3AssemblyProofs --------------------------
(***************************************************************************)
(* For any number of overlapping calls, any number of parts and of faults: *)
(* AssemblyInv is inductive, so the object under the key is always whole   *)
(* and a multipart upload is left open only as NoUploadLeft allows; and    *)
(* the parallel upload implements the single write of ObjectStore.         *)
(***************************************************************************)
EXTENDS S3Assembly, TLAPS

\* A call is not affected by a step of another one.
LEMMA OtherCall ==
  ASSUME NEW c \in Calls, CallOK(c),
         pc'[c] = pc[c], upload'[c] = upload[c], known'[c] = known[c],
         task'[c] = task[c], stored'[c] = stored[c], faults'[c] = faults[c],
         c \in crashed => c \in crashed'
  PROVE  CallOK(c)'
  BY DEF CallOK, LeavesNoUpload

LEMMA InitOK == Init => AssemblyInv
  BY DEF Init, AssemblyInv, TypeOK, CallOK, ObjectIsWhole, LeavesNoUpload, PCs, Ends

LEMMA CheckOK ==
  ASSUME AssemblyInv, NEW c \in Calls, NEW o \in Outcomes, CheckFileExists(c, o)
  PROVE  AssemblyInv'
<1>1. TypeOK'
  BY DEF AssemblyInv, TypeOK, CheckFileExists, Spend, Goto, PCs, Ends
<1>2. CallOK(c)'
  BY DEF AssemblyInv, TypeOK, CheckFileExists, Spend, Goto, CallOK, LeavesNoUpload, Ends
<1>3. ASSUME NEW d \in Calls, d # c PROVE CallOK(d)'
  BY <1>3, OtherCall DEF AssemblyInv, TypeOK, CheckFileExists, Spend, Goto
<1> QED
  BY <1>1, <1>2, <1>3 DEF AssemblyInv, ObjectIsWhole, CheckFileExists

LEMMA CreateOK ==
  ASSUME AssemblyInv, NEW c \in Calls, NEW o \in Outcomes, CreateUpload(c, o)
  PROVE  AssemblyInv'
<1>1. TypeOK'
  <2>1. pc' \in [Calls -> PCs] /\ faults' \in [Calls -> Nat]
    BY DEF AssemblyInv, TypeOK, CreateUpload, HandleError, Spend, Goto, PCs, Ends
  <2>2. /\ upload' \in [Calls -> {"none", "open", "closed"}]
        /\ known' \in [Calls -> BOOLEAN]
    BY DEF AssemblyInv, TypeOK, CreateUpload
  <2>3. task' \in [Calls -> [Parts -> {"none", "running", "done", "failed"}]]
    <3>1. [p \in Parts |-> "running"] \in [Parts -> {"none", "running", "done", "failed"}]
      OBVIOUS
    <3>2. task' = task \/ task' = [task EXCEPT ![c] = [p \in Parts |-> "running"]]
      BY DEF CreateUpload
    <3> QED
      BY <3>1, <3>2 DEF AssemblyInv, TypeOK
  <2> QED
    BY <2>1, <2>2, <2>3 DEF AssemblyInv, TypeOK, CreateUpload
<1>2. CallOK(c)'
  BY DEF AssemblyInv, TypeOK, CreateUpload, HandleError, Spend, Goto, Applied, Raises,
         CallOK, LeavesNoUpload, Ends
<1>3. ASSUME NEW d \in Calls, d # c PROVE CallOK(d)'
  BY <1>3, OtherCall DEF AssemblyInv, TypeOK, CreateUpload, HandleError, Spend, Goto
<1> QED
  BY <1>1, <1>2, <1>3 DEF AssemblyInv, ObjectIsWhole, CreateUpload

\* A part upload ends: the part is held by S3 before it counts as done.
LEMMA PartOK ==
  ASSUME AssemblyInv, NEW c \in Calls, NEW p \in Parts, NEW o \in Outcomes,
         UploadPart(c, p, o)
  PROVE  AssemblyInv'
<1> DEFINE t == [task[c] EXCEPT ![p] = IF Raises(o) THEN "failed" ELSE "done"]
<1>1. /\ t \in [Parts -> {"none", "running", "done", "failed"}]
      /\ task' = [task EXCEPT ![c] = t]
      /\ CallOK(c)
  BY DEF AssemblyInv, TypeOK, UploadPart
<1>2. TypeOK'
  BY <1>1 DEF AssemblyInv, TypeOK, UploadPart, HandleError, Spend, Goto, PCs, Ends
<1>3. /\ stored'[c] \subseteq Parts
      /\ stored[c] \subseteq stored'[c]
      /\ ~Raises(o) => p \in stored'[c]
  BY <1>2 DEF AssemblyInv, TypeOK, UploadPart, Applied, Raises
<1>4. faults'[c] \in Nat /\ faults'[c] >= faults[c] /\ faults[c] \in Nat
  BY <1>2 DEF AssemblyInv, TypeOK, UploadPart, Spend
<1>5. CallOK(c)'
  <2>1. CASE pc[c] # "parts"
    <3>1. pc'[c] = pc[c] /\ upload' = upload /\ known' = known /\ crashed' = crashed
      BY <2>1 DEF UploadPart
    <3>2. ASSUME pc[c] \in {"head", "create"}, NEW q \in Parts, task'[c][q] = "done"
          PROVE  q \in stored'[c]
      BY <1>1, <1>3, <3>2 DEF CallOK, AssemblyInv, TypeOK
    <3> QED
      BY <1>1, <1>3, <1>4, <2>1, <3>1, <3>2 DEF CallOK, LeavesNoUpload
  <2>2. CASE pc[c] = "parts" /\ Raises(o)
    <3>1. pc'[c] \in {"abort", "raised"} /\ (known[c] => pc'[c] = "abort")
      BY <2>2 DEF AssemblyInv, TypeOK, UploadPart, HandleError, Goto
    <3>2. faults'[c] >= 1
      BY <1>1, <2>2 DEF AssemblyInv, TypeOK, UploadPart, Spend, CallOK
    <3> QED
      BY <1>1, <2>2, <3>1, <3>2 DEF AssemblyInv, TypeOK, UploadPart, CallOK, LeavesNoUpload, Ends
  <2>3. CASE pc[c] = "parts" /\ ~Raises(o)
    <3>1. pc'[c] = IF GatherDone(t) THEN "complete" ELSE "parts"
      BY <2>3 DEF AssemblyInv, TypeOK, UploadPart, Goto
    <3>2. \A q \in Parts : t[q] = "done" => q \in stored'[c]
      BY <1>1, <1>3, <2>3 DEF CallOK, AssemblyInv, TypeOK
    <3>3. task'[c] = t
      BY <1>1 DEF AssemblyInv, TypeOK
    <3>4. GatherDone(t) => stored'[c] = Parts
      BY <1>3, <3>2 DEF GatherDone
    <3> QED
      BY <1>1, <2>3, <3>1, <3>2, <3>3, <3>4 DEF UploadPart, CallOK, LeavesNoUpload, Ends
  <2> QED
    BY <2>1, <2>2, <2>3
<1>6. ASSUME NEW d \in Calls, d # c PROVE CallOK(d)'
  BY <1>6, OtherCall DEF AssemblyInv, TypeOK, UploadPart, HandleError, Spend, Goto
<1> QED
  BY <1>2, <1>5, <1>6 DEF AssemblyInv, ObjectIsWhole, UploadPart

LEMMA CompleteOK ==
  ASSUME AssemblyInv, NEW c \in Calls, NEW o \in Outcomes, CompleteUpload(c, o)
  PROVE  AssemblyInv'
<1>1. TypeOK'
  BY DEF AssemblyInv, TypeOK, CompleteUpload, AfterComplete, Spend, Goto, PCs, Ends
<1>2. CallOK(c)'
  BY DEF AssemblyInv, TypeOK, CompleteUpload, AfterComplete, Spend, Goto, Applied, Raises,
         CallOK, LeavesNoUpload, Ends
<1>3. ASSUME NEW d \in Calls, d # c PROVE CallOK(d)'
  BY <1>3, OtherCall DEF AssemblyInv, TypeOK, CompleteUpload, Spend, Goto
<1>4. ObjectIsWhole'
  BY DEF AssemblyInv, CallOK, ObjectIsWhole, CompleteUpload
<1> QED
  BY <1>1, <1>2, <1>3, <1>4 DEF AssemblyInv

LEMMA DeleteOK ==
  ASSUME AssemblyInv, NEW c \in Calls, NEW o \in Outcomes, DeleteCorrupt(c, o)
  PROVE  AssemblyInv'
<1>1. TypeOK'
  BY DEF AssemblyInv, TypeOK, DeleteCorrupt, Spend, Goto, PCs, Ends
<1>2. CallOK(c)'
  BY DEF AssemblyInv, TypeOK, DeleteCorrupt, Spend, Goto, CallOK, LeavesNoUpload, Ends
<1>3. ASSUME NEW d \in Calls, d # c PROVE CallOK(d)'
  BY <1>3, OtherCall DEF AssemblyInv, TypeOK, DeleteCorrupt, Spend, Goto
<1> QED
  BY <1>1, <1>2, <1>3 DEF AssemblyInv, ObjectIsWhole, DeleteCorrupt

LEMMA AbortOK ==
  ASSUME AssemblyInv, NEW c \in Calls, NEW o \in Outcomes, AbortUpload(c, o)
  PROVE  AssemblyInv'
<1>1. TypeOK'
  <2>1. pc' \in [Calls -> PCs] /\ faults' \in [Calls -> Nat]
    BY DEF AssemblyInv, TypeOK, AbortUpload, Spend, Goto, PCs, Ends
  <2>2. upload' \in [Calls -> {"none", "open", "closed"}]
    BY DEF AssemblyInv, TypeOK, AbortUpload, AfterAbort
  <2>3. stored' \in [Calls -> SUBSET Parts]
    BY DEF AssemblyInv, TypeOK, AbortUpload
  <2> QED
    BY <2>1, <2>2, <2>3 DEF AssemblyInv, TypeOK, AbortUpload
<1>2. CallOK(c)'
  BY DEF AssemblyInv, TypeOK, AbortUpload, AfterAbort, Spend, Goto, Applied, Raises, CallOK,
         LeavesNoUpload, Ends
<1>3. ASSUME NEW d \in Calls, d # c PROVE CallOK(d)'
  BY <1>3, OtherCall DEF AssemblyInv, TypeOK, AbortUpload, AfterAbort, Spend, Goto
<1> QED
  BY <1>1, <1>2, <1>3 DEF AssemblyInv, ObjectIsWhole, AbortUpload

LEMMA CrashOK ==
  ASSUME AssemblyInv, NEW c \in Calls, Crash(c)
  PROVE  AssemblyInv'
<1>1. TypeOK'
  BY DEF AssemblyInv, TypeOK, Crash, Goto, PCs, Ends
<1>2. CallOK(c)'
  BY DEF AssemblyInv, TypeOK, Crash, Goto, CallOK, LeavesNoUpload, Ends
<1>3. ASSUME NEW d \in Calls, d # c PROVE CallOK(d)'
  BY <1>3, OtherCall DEF AssemblyInv, TypeOK, Crash, Goto
<1> QED
  BY <1>1, <1>2, <1>3 DEF AssemblyInv, ObjectIsWhole, Crash

\* Every step preserves the invariant.
LEMMA NextOK == AssemblyInv /\ [Next]_vars => AssemblyInv'
<1> SUFFICES ASSUME AssemblyInv, [Next]_vars PROVE AssemblyInv'
  OBVIOUS
<1>1. ASSUME NEW c \in Calls, Step(c) PROVE AssemblyInv'
  BY <1>1, CheckOK, CreateOK, PartOK, CompleteOK, DeleteOK, AbortOK DEF Step
<1>2. ASSUME NEW c \in Calls, Crash(c) PROVE AssemblyInv'
  BY <1>2, CrashOK
<1>3. CASE UNCHANGED vars
  <2>1. ASSUME NEW c \in Calls PROVE CallOK(c)'
    BY <1>3, OtherCall DEF AssemblyInv, vars
  <2> QED
    BY <1>3, <2>1 DEF vars, AssemblyInv, TypeOK, ObjectIsWhole
<1> QED
  BY <1>1, <1>2, <1>3 DEF Next

\* assemble_file keeps its bookkeeping in step with S3, whichever calls
\* overlap and whichever calls to S3 fail.
THEOREM Inductive == Spec => []AssemblyInv
<1>1. Init => AssemblyInv
  BY InitOK
<1>2. AssemblyInv /\ [Next]_vars => AssemblyInv'
  BY NextOK
<1> QED
  BY <1>1, <1>2, PTL DEF Spec

\* A reader of the bucket never sees a file with a part missing.
THEOREM WholeTheorem == Spec => []ObjectIsWhole
<1>1. AssemblyInv => ObjectIsWhole
  BY DEF AssemblyInv
<1> QED
  BY <1>1, Inductive, PTL

\* _abort_multipart_upload leaves nothing behind after a single fault once
\* the upload id is known and the worker lives.
THEOREM NoUploadLeftTheorem == Spec => []NoUploadLeft
<1>1. AssemblyInv => NoUploadLeft
  BY DEF AssemblyInv, CallOK, NoUploadLeft
<1> QED
  BY <1>1, Inductive, PTL

----------------------------------------------------------------------------
(* One write of the whole object *)

\* The object and the results as the caller sees them.
Seen == IF object = Null THEN Null ELSE object.call
Results == [c \in Calls |-> Result(c)]

StoreStep == Store!Next \/ UNCHANGED <<Seen, Results>>

ResultOK(c) ==
  /\ pc[c] = "returned" => Result(c) = "ok"
  /\ pc[c] = "raised" => Result(c) = "raised"
  /\ pc[c] = "delete" => Result(c) = "put"
  /\ pc[c] = "abort" => Result(c) = IF upload[c] = "closed" THEN "put" ELSE "pending"
  /\ pc[c] \in {"head", "create", "parts", "complete"} => Result(c) = "pending"

LEMMA ResultOf ==
  ASSUME NEW c \in Calls
  PROVE  ResultOK(c) /\ ResultOK(c)'
  BY DEF ResultOK, Result

\* A step of call c changes no other call's result.
LEMMA ResultStep ==
  ASSUME NEW c \in Calls,
         \A d \in Calls \ {c} : pc'[d] = pc[d] /\ upload'[d] = upload[d]
  PROVE  Results' = [Results EXCEPT ![c] = Result(c)']
<1>1. \A d \in Calls \ {c} : Result(d)' = Result(d)
  BY DEF Result
<1> QED
  BY <1>1 DEF Results

LEMMA StepStays ==
  ASSUME NEW c \in Calls, Results' = [Results EXCEPT ![c] = Result(c)'],
         Result(c)' = Result(c), object' = object
  PROVE  StoreStep
<1>1. Results' = Results
  BY DEF Results
<1> QED
  BY <1>1 DEF StoreStep, Seen

LEMMA StepRaises ==
  ASSUME NEW c \in Calls, Results' = [Results EXCEPT ![c] = Result(c)'],
         Result(c) \in {"pending", "put"}, Result(c)' = "raised", object' = object
  PROVE  StoreStep
<1>1. Results[c] = Result(c) /\ Results' = [Results EXCEPT ![c] = "raised"] /\ Seen' = Seen
  BY DEF Results, Seen
<1>2. Store!Raise(c)
  BY <1>1 DEF Store!Raise, Results, Seen
<1> QED
  BY <1>2 DEF StoreStep, Store!Next

\* The object is replaced by that of call c.
LEMMA StepPuts ==
  ASSUME NEW c \in Calls, Results' = [Results EXCEPT ![c] = Result(c)'],
         Result(c) = "pending", Result(c)' \in {"ok", "put"},
         Result(c)' = "ok" => c \in Intact, Seen' = c
  PROVE  StoreStep
<1>1. Results[c] = "pending"
  BY DEF Results
<1>2. PICK x \in {"ok", "put"} : x = Result(c)'
  OBVIOUS
<1>3. Results' = [Results EXCEPT ![c] = x] /\ (x = "ok" => c \in Intact)
  BY <1>2
<1>4. Store!Put(c)
  BY <1>1, <1>3 DEF Store!Put, Results, Seen
<1> QED
  BY <1>4 DEF StoreStep, Store!Next

\* Steps that do not touch the object.
LEMMA PlainSteps ==
  ASSUME AssemblyInv, NEW c \in Calls, NEW o \in Outcomes,
         \/ CheckFileExists(c, o) \/ CreateUpload(c, o) \/ AbortUpload(c, o)
         \/ (\E p \in Parts : UploadPart(c, p, o)) \/ Crash(c)
  PROVE  StoreStep
<1>0. /\ pc \in [Calls -> PCs] /\ upload \in [Calls -> {"none", "open", "closed"}]
      /\ CallOK(c)
  BY DEF AssemblyInv, TypeOK
<1>1. ASSUME \A d \in Calls \ {c} : pc'[d] = pc[d] /\ upload'[d] = upload[d],
             object' = object,
             \/ /\ pc[c] \in PCs \ Ends /\ pc'[c] = "raised"
             \/ /\ pc[c] \in {"head", "create", "parts"}
                /\ pc'[c] \in {"create", "parts", "complete"}
             \/ /\ pc[c] = "parts" /\ pc'[c] = "abort" /\ upload'[c] = "open"
             \/ /\ pc'[c] = pc[c] /\ upload'[c] = upload[c]
      PROVE  StoreStep
  <2>1. Results' = [Results EXCEPT ![c] = Result(c)']
    BY <1>1, ResultStep
  <2>2. CASE pc[c] \in PCs \ Ends /\ pc'[c] = "raised"
    <3>1. Result(c)' = "raised" /\ Result(c) \in {"pending", "put"}
      BY <2>2, ResultOf DEF ResultOK, PCs, Ends
    <3> QED
      BY <1>1, <2>1, <3>1, StepRaises
  <2>3. CASE /\ pc[c] \in {"head", "create", "parts"}
             /\ \/ pc'[c] \in {"create", "parts", "complete"}
                \/ pc'[c] = "abort" /\ upload'[c] = "open"
    <3>1. Result(c)' = Result(c)
      BY <2>3, ResultOf DEF ResultOK
    <3> QED
      BY <1>1, <2>1, <3>1, StepStays
  <2>4. CASE pc'[c] = pc[c] /\ upload'[c] = upload[c]
    <3>1. Result(c)' = Result(c)
      BY <2>4 DEF Result
    <3> QED
      BY <1>1, <2>1, <3>1, StepStays
  <2> QED
    BY <1>1, <2>2, <2>3, <2>4
<1>2. CASE CheckFileExists(c, o) \/ CreateUpload(c, o)
  BY <1>0, <1>1, <1>2 DEF CheckFileExists, CreateUpload, HandleError, Goto, PCs, Ends
<1>3. CASE AbortUpload(c, o)
  BY <1>0, <1>1, <1>3 DEF AbortUpload, AfterAbort, Goto, PCs, Ends
<1>4. ASSUME NEW p \in Parts, UploadPart(c, p, o) PROVE StoreStep
  <2>1. pc[c] = "parts" => upload[c] = "open"
    BY <1>0 DEF CallOK
  <2> QED
    BY <1>0, <1>1, <1>4, <2>1 DEF UploadPart, HandleError, Goto, PCs, Ends
<1>5. CASE Crash(c)
  BY <1>0, <1>1, <1>5 DEF Crash, Goto
<1> QED
  BY <1>2, <1>3, <1>4, <1>5

\* The object appears with the completion ...
LEMMA CompletePuts ==
  ASSUME AssemblyInv, NEW c \in Calls, NEW o \in Outcomes, CompleteUpload(c, o)
  PROVE  StoreStep
<1>0. /\ pc \in [Calls -> PCs] /\ upload \in [Calls -> {"none", "open", "closed"}]
      /\ stored[c] \subseteq Parts /\ upload[c] = "open" /\ pc[c] = "complete"
  BY DEF AssemblyInv, TypeOK, CallOK, CompleteUpload
<1>1. Results' = [Results EXCEPT ![c] = Result(c)']
  BY <1>0, ResultStep DEF CompleteUpload, Goto
<1>2. Result(c) = "pending" /\ pc'[c] = AfterComplete(c, o)
  BY <1>0, ResultOf DEF ResultOK, CompleteUpload, Goto
<1>3. CASE o = "error"
  <2>1. object' = object /\ upload'[c] = "open" /\ pc'[c] = "abort"
    BY <1>0, <1>2, <1>3 DEF CompleteUpload, Applied, AfterComplete, Raises
  <2>2. Result(c)' = "pending"
    BY <2>1, ResultOf DEF ResultOK
  <2> QED
    BY <1>1, <1>2, <2>1, <2>2, StepStays
<1>4. CASE o # "error"
  <2>1. object' = [call |-> c, parts |-> stored[c]] /\ upload'[c] = "closed"
    BY <1>0, <1>4 DEF CompleteUpload, Applied
  <2>2. Seen' = c
    <3>1. [call |-> c, parts |-> stored[c]] \in [call : Calls, parts : SUBSET Parts]
      BY <1>0
    <3> QED
      BY <2>1, <3>1, AssemblyAssumption DEF Seen
  <2>3. \/ pc'[c] = "abort" \/ pc'[c] = "delete"
        \/ pc'[c] = "returned" /\ c \in Intact
    BY <1>2 DEF AfterComplete
  <2>4. Result(c)' \in {"ok", "put"} /\ (Result(c)' = "ok" => c \in Intact)
    BY <2>1, <2>3, ResultOf DEF ResultOK
  <2> QED
    BY <1>1, <1>2, <2>2, <2>4, StepPuts
<1> QED
  BY <1>3, <1>4

\* ... and is removed by a call whose bytes are wrong.
LEMMA DeleteRemoves ==
  ASSUME AssemblyInv, NEW c \in Calls, NEW o \in Outcomes, DeleteCorrupt(c, o)
  PROVE  StoreStep
<1>0. pc \in [Calls -> PCs] /\ pc[c] = "delete" /\ pc'[c] = "raised" /\ c \notin Intact
  BY DEF AssemblyInv, TypeOK, CallOK, DeleteCorrupt, Goto
<1>1. Results' = [Results EXCEPT ![c] = Result(c)']
  BY <1>0, ResultStep DEF DeleteCorrupt, Goto
<1>2. Result(c) = "put" /\ Result(c)' = "raised" /\ Results[c] = Result(c)
  BY <1>0, ResultOf DEF ResultOK, Results
<1>3. CASE object' = object
  BY <1>1, <1>2, <1>3, StepRaises
<1>4. CASE object' = Null
  <2>1. Seen' = Null
    BY <1>4 DEF Seen
  <2>2. Store!Remove(c)
    BY <1>0, <1>1, <1>2, <2>1 DEF Store!Remove, Results, Seen
  <2> QED
    BY <2>2 DEF StoreStep, Store!Next
<1> QED
  BY <1>3, <1>4 DEF DeleteCorrupt

\* Seen from the service, assemble_file puts the whole object in one step or
\* not at all, for any number of parts, overlapping calls and faults.
THEOREM StoreTheorem == Spec => StoreSpec
<1>1. Init => Store!Init
  BY DEF Init, Store!Init, Result
<1>2. AssemblyInv /\ [Next]_vars => StoreStep
  <2> SUFFICES ASSUME AssemblyInv, [Next]_vars PROVE StoreStep
    OBVIOUS
  <2>1. ASSUME NEW c \in Calls, Step(c) PROVE StoreStep
    BY <2>1, PlainSteps, CompletePuts, DeleteRemoves DEF Step
  <2>2. ASSUME NEW c \in Calls, Crash(c) PROVE StoreStep
    <3>1. "ok" \in Outcomes
      BY DEF Outcomes
    <3> QED
      BY <2>2, <3>1, PlainSteps
  <2>3. CASE UNCHANGED vars
    BY <2>3 DEF vars, StoreStep, Seen, Results, Result
  <2> QED
    BY <2>1, <2>2, <2>3 DEF Next
<1>3. StoreStep => [Store!Next]_Store!objectVars
  BY DEF StoreStep, Store!objectVars, Seen, Results
<1> QED
  BY <1>1, <1>2, <1>3, Inductive, PTL DEF Spec, StoreSpec, Store!Spec
============================================================================
