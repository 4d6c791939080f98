-------------------------- MODULE SessionLifecycle --------------------------
(***************************************************************************)
(* What a client of the upload API may rely on about one session: the      *)
(* status transitions listed in domain/value_objects/session_status.py and *)
(* the offset rules of UploadSession, each taken in one step.  "NONE" is a *)
(* session that does not exist yet, "GONE" one that no longer does.        *)
(***************************************************************************)
EXTENDS Naturals

CONSTANTS
  SessionIds,
  Sizes        \* file sizes clients declare

VARIABLES
  status,
  offset,
  size

lifecycleVars == <<status, offset, size>>

Init ==
  /\ status = [s \in SessionIds |-> "NONE"]
  /\ offset = [s \in SessionIds |-> 0]
  /\ size = [s \in SessionIds |-> 0]

Create(s, n) ==
  /\ status[s] = "NONE"
  /\ status' = [status EXCEPT ![s] = "PENDING"]
  /\ size' = [size EXCEPT ![s] = n]
  /\ UNCHANGED offset

\* A chunk is received: the offset grows and stays within the file.
Receive(s) ==
  /\ status[s] \in {"PENDING", "IN_PROGRESS"}
  /\ status' = [status EXCEPT ![s] = "IN_PROGRESS"]
  /\ \E n \in offset[s] + 1 .. size[s] : offset' = [offset EXCEPT ![s] = n]
  /\ UNCHANGED size

Complete(s) ==
  /\ status[s] = "IN_PROGRESS"
  /\ offset[s] = size[s]
  /\ status' = [status EXCEPT ![s] = "COMPLETE"]
  /\ UNCHANGED <<offset, size>>

FailUpload(s) ==
  /\ status[s] = "IN_PROGRESS"
  /\ status' = [status EXCEPT ![s] = "FAILED"]
  /\ UNCHANGED <<offset, size>>

\* "Any state -> ABORTED".
Abort(s) ==
  /\ status[s] \notin {"NONE", "GONE"}
  /\ status' = [status EXCEPT ![s] = "ABORTED"]
  /\ UNCHANGED <<offset, size>>

\* Deleted, expired, or never created after all.
Remove(s) ==
  /\ status[s] # "GONE"
  /\ status' = [status EXCEPT ![s] = "GONE"]
  /\ offset' = [offset EXCEPT ![s] = 0]
  /\ size' = [size EXCEPT ![s] = 0]

Next ==
  \E s \in SessionIds :
    \/ \E n \in Sizes : Create(s, n)
    \/ Receive(s)
    \/ Complete(s)
    \/ FailUpload(s)
    \/ Abort(s)
    \/ Remove(s)

Spec == Init /\ [][Next]_lifecycleVars
============================================================================
