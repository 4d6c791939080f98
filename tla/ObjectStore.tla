---------------------------- MODULE ObjectStore ----------------------------
(***************************************************************************)
(* assemble_file as UploadService uses it: the object of a session's file  *)
(* appears whole, in one step, and is only removed by a call whose own     *)
(* bytes do not match the expected checksum.                               *)
(***************************************************************************)
CONSTANTS
  Calls,    \* assemble_file calls for one key
  Intact,   \* the calls whose chunks have the expected checksum
  Null

VARIABLES
  object,   \* the call whose bytes are under the key, or Null
  result    \* "pending", "put", "ok" or "raised"

objectVars == <<object, result>>

Init ==
  /\ object = Null
  /\ result = [c \in Calls |-> "pending"]

\* The object is replaced; the caller learns of it, or does not.
Put(c) ==
  /\ result[c] = "pending"
  /\ object' = c
  /\ \E r \in {"ok", "put"} :
        /\ r = "ok" => c \in Intact
        /\ result' = [result EXCEPT ![c] = r]

\* Deleted because of a wrong checksum.
Remove(c) ==
  /\ result[c] = "put"
  /\ c \notin Intact
  /\ object' = Null
  /\ result' = [result EXCEPT ![c] = "raised"]

Raise(c) ==
  /\ result[c] \in {"pending", "put"}
  /\ result' = [result EXCEPT ![c] = "raised"]
  /\ UNCHANGED object

Next == \E c \in Calls : Put(c) \/ Remove(c) \/ Raise(c)

Spec == Init /\ [][Next]_objectVars
============================================================================
