--------------------------- MODULE EventDelivery ---------------------------
(***************************************************************************)
(* What CompleteUpload relies on when it awaits publish(event): a call     *)
(* returns only if the bus holds the event; it may raise whether or not    *)
(* the bus holds it; the bus never loses an event.  These are the outcomes *)
(* "ok", "error" and "lost" of PublishEvent in UploadService.              *)
(***************************************************************************)
CONSTANTS
  Calls,     \* publish calls
  FileOf     \* the file each call announces

VARIABLES
  bus,       \* files whose event the bus has accepted
  result     \* "pending", "ok" or "raised"

deliveryVars == <<bus, result>>

Init ==
  /\ bus = {}
  /\ result = [c \in Calls |-> "pending"]

\* The event gets through although the call goes on (and may send it again).
Deliver(c) ==
  /\ result[c] = "pending"
  /\ bus' = bus \cup {FileOf[c]}
  /\ UNCHANGED result

Return(c) ==
  /\ result[c] = "pending"
  /\ bus' = bus \cup {FileOf[c]}
  /\ result' = [result EXCEPT ![c] = "ok"]

Raise(c) ==
  /\ result[c] = "pending"
  /\ bus' \in {bus, bus \cup {FileOf[c]}}
  /\ result' = [result EXCEPT ![c] = "raised"]

Next == \E c \in Calls : Deliver(c) \/ Return(c) \/ Raise(c)

Spec == Init /\ [][Next]_deliveryVars
============================================================================
