--------------------------- MODULE EventPublisher ---------------------------
(***************************************************************************)
(* EventPublisherWithRetry around NATSEventPublisher or                    *)
(* WebhookEventPublisher (the constructor takes either): an event is sent  *)
(* up to max_retry_attempts times with growing pauses, then written to the *)
(* dead letter queue in Redis, which is tried DlqAttempts times; in both   *)
(* cases of failure the call raises InfrastructureError.  Several calls    *)
(* run at the same time, also for one file (two completions of a session). *)
(*                                                                         *)
(* A call to NATS, the webhook or Redis ends "ok", raises without effect   *)
(* ("error"), or takes effect and raises ("lost": the PubAck, the response *)
(* or the reply timed out, or the receiver answered 5xx after it had taken *)
(* the event).                                                             *)
(* Serialisation of an event cannot fail (its fields are strings and       *)
(* numbers once it is constructed), so that error path is left out.        *)
(***************************************************************************)
EXTENDS Naturals, FiniteSets

CONSTANTS
  Calls,         \* publish calls
  FileOf,        \* the file each call announces
  MaxAttempts    \* settings.event_max_retry_attempts

\* The constructor refuses a bound outside 1 .. 100.
ASSUME AttemptsAssumption == MaxAttempts \in 1 .. 100

\* A process has handled finitely many calls.
ASSUME CallsAssumption == IsFiniteSet(Calls)

DlqAttempts == 3

VARIABLES
  stage,      \* where each call is, see Stages
  attempt,    \* the loop variable of the loop the call is in
  copies,     \* how often the receiver has taken the event of each file
  dlq,        \* dlq:file_load_completed:{file_id} keys
  link,       \* the inner publisher and its client, see Links
  failed,     \* history: calls to NATS and Redis that raised
  slept       \* history: seconds spent in the pauses between attempts

vars == <<stage, attempt, copies, dlq, link, failed, slept>>

Files == {FileOf[c] : c \in Calls}

\* "sleep" and "dlqsleep" are the pauses; a call ends "returned", "dead"
\* (raised, in the dead letter queue), "lost" (raised, not even there) or
\* "cancelled".
Running == {"try", "sleep", "setex", "dlqsleep"}
Stages == Running \cup {"new", "returned", "dead", "lost", "cancelled"}

\* NATSEventPublisher: its connection is "down", "connecting", "up",
\* "draining" (disconnect is under way) or "dead" (the client has closed,
\* but _connected is still set).  The HTTP client of WebhookEventPublisher is
\* there from the constructor on ("open") until it is closed for good.
Links == {"down", "connecting", "up", "draining", "dead", "open", "closed"}
CanSend == link \in {"up", "draining", "open"}

\* How the inner publisher's publish, or a Redis call, ends.
Outcomes == {"ok", "error", "lost"}
Applied(o) == o # "error"
Raises(o) == o # "ok"

Init ==
  /\ stage = [c \in Calls |-> "new"]
  /\ attempt = [c \in Calls |-> 0]
  /\ copies = [f \in Files |-> 0]
  /\ dlq = {}
  /\ link \in {"down", "open"}
  /\ failed = [c \in Calls |-> 0]
  /\ slept = [c \in Calls |-> 0]

Goto(c, s, n) ==
  /\ stage' = [stage EXCEPT ![c] = s]
  /\ attempt' = [attempt EXCEPT ![c] = n]

CountFailure(c, o) ==
  failed' = IF Raises(o) THEN [failed EXCEPT ![c] = @ + 1] ELSE failed

Publish(c) ==
  /\ stage[c] = "new"
  /\ Goto(c, "try", 1)
  /\ UNCHANGED <<copies, dlq, link, failed, slept>>

\* Mutants of LastAttempt: one attempt too few, one too many.
MutantOneLess(n) == n >= MaxAttempts - 1

MutantOneMore(n) == n > MaxAttempts

LastAttempt(n) == n = MaxAttempts

\* Mutant of AfterAttempt: the final error is swallowed.
MutantSwallow(n, o) ==
  IF ~Raises(o) \/ LastAttempt(n) THEN "returned" ELSE "sleep"

AfterAttempt(n, o) ==
  IF ~Raises(o) THEN "returned" ELSE IF LastAttempt(n) THEN "setex" ELSE "sleep"

\* NATSEventPublisher.publish: js.publish, waiting for the PubAck.  Without a
\* connection, and on a closed client, it raises before it sends anything.
JsPublish(o) == link \in {"down", "connecting", "dead"} => o = "error"

\* WebhookEventPublisher.publish: one POST; a time-out, a status of 400 or
\* more and any other exception raise.  A closed client sends nothing.
Post(o) == link = "closed" => o = "error"

\* One publish of the inner publisher.
Attempt(c, o) ==
  LET next == AfterAttempt(attempt[c], o) IN
  /\ stage[c] = "try"
  /\ JsPublish(o) /\ Post(o)
  /\ copies' = IF Applied(o) THEN [copies EXCEPT ![FileOf[c]] = @ + 1] ELSE copies
  /\ Goto(c, next, IF next = "setex" THEN 1 ELSE attempt[c])
  /\ CountFailure(c, o)
  /\ UNCHANGED <<dlq, link, slept>>

\* Mutant of Backoff: it waits until there is a connection again.
MutantAwaitConnection(c) ==
  /\ stage[c] = "sleep" /\ CanSend
  /\ Goto(c, "try", attempt[c] + 1)
  /\ UNCHANGED <<copies, dlq, link, failed, slept>>

\* asyncio.sleep(2 ** (attempt - 1)), then the next round of the loop.
Backoff(c) ==
  /\ stage[c] = "sleep"
  /\ Goto(c, "try", attempt[c] + 1)
  /\ slept' = [slept EXCEPT ![c] = @ + 2 ^ (attempt[c] - 1)]
  /\ UNCHANGED <<copies, dlq, link, failed>>

\* _write_to_dlq, one SETEX.
WriteToDlq(c, o) ==
  /\ stage[c] = "setex"
  /\ dlq' = IF Applied(o) THEN dlq \cup {FileOf[c]} ELSE dlq
  /\ Goto(c, IF ~Raises(o) THEN "dead"
             ELSE IF attempt[c] < DlqAttempts THEN "dlqsleep" ELSE "lost",
          attempt[c])
  /\ CountFailure(c, o)
  /\ UNCHANGED <<copies, link, slept>>

\* The pause before SETEX is tried again.
DlqBackoff(c) ==
  /\ stage[c] = "dlqsleep"
  /\ Goto(c, "setex", attempt[c] + 1)
  /\ UNCHANGED <<copies, dlq, link, failed, slept>>

\* The request's task is cancelled: CancelledError passes both loops.  The
\* call that was awaited may have taken effect.
Cancel(c) ==
  /\ stage[c] \in Running
  /\ Goto(c, "cancelled", attempt[c])
  /\ \/ UNCHANGED <<copies, dlq>>
     \/ /\ stage[c] = "try" /\ CanSend
        /\ copies' = [copies EXCEPT ![FileOf[c]] = @ + 1]
        /\ UNCHANGED dlq
     \/ /\ stage[c] = "setex"
        /\ dlq' = dlq \cup {FileOf[c]}
        /\ UNCHANGED copies
  /\ UNCHANGED <<link, failed, slept>>

LinkStep(from, to) ==
  /\ link = from
  /\ link' = to
  /\ UNCHANGED <<stage, attempt, copies, dlq, failed, slept>>

\* connect(); with _connected set it returns at once.
Connect == LinkStep("down", "connecting")

\* The dial, the look-up of the stream and its creation.  _connected is set
\* last; on any error the client is closed and the next connect() starts anew.
Connected(o) == LinkStep("connecting", IF Raises(o) THEN "down" ELSE "up")

\* disconnect() awaits the drain with _connected still set.  A dead client
\* refuses to drain, which is only logged, and stays dead.
Disconnect == LinkStep("up", "draining")

\* Drain and close.  If one raises, _connected stays set and connect() will
\* not replace the client, whether it is still alive or not.
Disconnected(o) ==
  IF Raises(o) THEN LinkStep("draining", "up") \/ LinkStep("draining", "dead")
  ELSE LinkStep("draining", "down")

\* The server was away for max_reconnect_attempts and the client has closed.
ClientDies == LinkStep("up", "dead")

\* WebhookEventPublisher.close, or the end of its async with block.
CloseClient == LinkStep("open", "closed")

\* What happens to the client, whoever publishes meanwhile.
LinkChanges ==
  \/ Connect
  \/ Disconnect
  \/ \E o \in Outcomes : Connected(o) \/ Disconnected(o)
  \/ ClientDies
  \/ CloseClient

\* A dead letter is kept for event_dlq_ttl_seconds; no call is that long.
DeadLetterLapses(f) ==
  /\ f \in dlq
  /\ \A c \in Calls : FileOf[c] = f => stage[c] \notin Running
  /\ dlq' = dlq \ {f}
  /\ UNCHANGED <<stage, attempt, copies, link, failed, slept>>

Step(c) ==
  \/ \E o \in Outcomes : Attempt(c, o) \/ WriteToDlq(c, o)
  \/ Backoff(c)
  \/ DlqBackoff(c)

Next ==
  \/ \E c \in Calls : Publish(c) \/ Step(c) \/ Cancel(c)
  \/ LinkChanges
  \/ \E f \in Files : DeadLetterLapses(f)

Spec == Init /\ [][Next]_vars

\* Every awaited call returns or times out and every pause ends.
Fairness == \A c \in Calls : WF_vars(Step(c))

FairSpec == Spec /\ Fairness

----------------------------------------------------------------------------
(* Properties *)

\* The inductive invariant: in each stage the failures so far account for
\* the loop variable, and a call that returned has delivered its event.
CallOK(c) ==
  /\ stage[c] \in Stages
  /\ attempt[c] \in Nat
  /\ failed[c] \in Nat
  /\ stage[c] = "new" => failed[c] = 0
  /\ stage[c] = "try" =>
       attempt[c] \in 1 .. MaxAttempts /\ failed[c] = attempt[c] - 1
  /\ stage[c] = "sleep" =>
       attempt[c] \in 1 .. MaxAttempts - 1 /\ failed[c] = attempt[c]
  /\ stage[c] = "setex" =>
       attempt[c] \in 1 .. DlqAttempts /\ failed[c] = MaxAttempts + attempt[c] - 1
  /\ stage[c] = "dlqsleep" =>
       attempt[c] \in 1 .. DlqAttempts - 1 /\ failed[c] = MaxAttempts + attempt[c]
  /\ stage[c] = "lost" => failed[c] = MaxAttempts + DlqAttempts
  /\ stage[c] = "returned" => copies[FileOf[c]] > 0

PublisherInv ==
  /\ stage \in [Calls -> Stages]
  /\ attempt \in [Calls -> Nat]
  /\ failed \in [Calls -> Nat]
  /\ copies \in [Files -> Nat]
  /\ dlq \subseteq Files
  /\ link \in Links
  /\ \A c \in Calls : CallOK(c)

\* At-least-once: when a call that was not cancelled ends, its event has
\* reached the receiver or is in the dead letter queue, unless every one of the
\* MaxAttempts sends and of the DlqAttempts writes has failed.
EndsAccounted ==
  [][\A c \in Calls :
       stage[c] \in Running /\ stage'[c] \notin Running \cup {"cancelled"} =>
         \/ copies'[FileOf[c]] > 0
         \/ FileOf[c] \in dlq'
         \/ failed'[c] >= MaxAttempts + DlqAttempts]_vars

\* Retries duplicate an event at most MaxAttempts times per call.
DuplicatesBounded ==
  \A f \in Files :
    copies[f] <= MaxAttempts * Cardinality({c \in Calls : FileOf[c] = f})

\* The pauses of a call add up to 2^(MaxAttempts - 1) - 1 seconds at most.
BackoffBounded == \A c \in Calls : slept[c] <= 2 ^ (MaxAttempts - 1) - 1

\* Every publish call ends, however NATS, the webhook and Redis behave.
PublishEnds == \A c \in Calls : (stage[c] \in Running) ~> (stage[c] \notin Running)

Result(s) == CASE s = "returned" -> "ok"
               [] s \in {"dead", "lost", "cancelled"} -> "raised"
               [] OTHER -> "pending"

Delivery == INSTANCE EventDelivery WITH
  bus <- {f \in Files : copies[f] > 0},
  result <- [c \in Calls |-> Result(stage[c])]

\* The retry loop is for its caller one publish that returns only when the
\* event is out.
DeliverySpec == Delivery!Spec
============================================================================
