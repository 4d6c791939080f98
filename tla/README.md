# TLA+ verification of the RAG file uploader

The repository is an HTTP service for resumable, chunked PDF uploads. A client
initiates a session, sends chunks with PATCH at increasing offsets, may ask for
the offset with HEAD or abort with DELETE, and completes the upload: the chunks
are assembled on S3, checked against the declared SHA-256, announced with a
`FILE_LOAD_COMPLETED` event and registered for deduplication. All state is in
Redis, S3 and NATS; every request is an asyncio coroutine that any worker may
run, and nothing locks.

## Inventory

| Part | State | Operations | What is hard |
|---|---|---|---|
| Upload session (`domain/entities/upload_session.py`, `session_status.py`) | status, offset, size, checksum, chunk manifest | add_chunk, update_offset, mark_* | manifest and offset must agree; which status may follow which |
| Use cases (`application/use_cases`) | a local copy of the session | initiate, process chunk, abort, complete | a copy read several awaits ago is written back whole; nested error handlers |
| Session store (`infrastructure/redis/session_store.py`) | `session:{id}` hash with TTL, `session:expiry:{id}` | create, get, get with expiry information, update (TTL probe, then HSET), delete | the key may vanish between probe and write |
| Rate limiter (`application/services/rate_limiter.py`) | counter per workspace | check_and_increment, decrement, get_current_count, reset | check and increment are two calls; repair of a negative counter |
| Deduplication store (`infrastructure/redis/deduplication_store.py`) | hash SHA-256 → file | check_duplicate, register_file | check and registration are far apart |
| S3 client (`infrastructure/s3/storage_client.py`) | object, multipart uploads, part tasks | assemble_file | parallel parts, `gather` on failure, concurrent completions |
| Publisher (`infrastructure/nats`) | connection, dead letter queue | connect, disconnect, publish with retry, dead letter | lost acknowledgements, exhaustion, cancellation, a `_connected` flag that outlives the connection |
| Webhook publisher | its HTTP client, open or closed | one POST, close | a timeout or a 5xx after the receiver took the event |
| HTTP routes (`presentation/api/v1`) | none | header checks, mapping of exceptions to status codes, a second look-up of a missing session | keys that expire between the reads; answers that must agree from one request to the next |
| Authentication and roles (`docker/auth_stub`, `infrastructure/auth`, `presentation/main.py`) | key pair in two files, cached public key | generate or reload the pair, issue a token, middleware, dependency, role check | a stop between two file operations; a failed read that costs a good pair; a token that expires between its two checks; a stale key |

The use cases call the store, the limiter, the deduplication store, the S3
client and the publisher; they interact with each other only through Redis and
S3. Correctness asks: an acknowledged byte is not lost; offset and manifest
agree; COMPLETE and a registered fingerprint mean the event is out; an announced
file is on S3 with the announced content; the limiter counts what is active;
sessions expire; a file appears on S3 whole or not at all; an event is delivered
or dead-lettered; requests end; the answers of the routes tell the truth and agree
with each other; a good token is accepted, and only for its hour.

## Modules

| Module | Models |
|---|---|
| `UploadSession` | the entity, as operators on a session record |
| `UploadService` | the use cases over Redis, S3 and the bus; one action per awaited call |
| `UploadRoutes` | extends `UploadService`: the answer of each route, and the second look-up |
| `StubKeys` | the key pair of the stub auth service on disk, with failed reads and stops between and inside file operations |
| `Authentication` | extends `StubKeys`: tokens, the configured key, middleware, dependency and roles |
| `RateLimiter` | the limiter alone, with every operation and any number of callers |
| `SessionLifecycle` | abstract: the documented status transitions and the offset rule |
| `EventPublisher` | `EventPublisherWithRetry` around the NATS or the webhook publisher |
| `EventDelivery` | abstract: what a caller of `publish` may rely on |
| `S3Assembly` | `assemble_file` with its part tasks |
| `ObjectStore` | abstract: the object appears whole, in one step |
| `MC*` | constants and bounds for TLC |
| `UploadServiceProofs` | theorems about `UploadSession` and `UploadService` for overlapping requests |
| `FileProofs` | the bytes of a file, from the PATCH to the event |
| `SequentialProofs` | `UploadService` when requests do not overlap |
| `RoutesProofs` | `UploadRoutes` |
| `RateLimiterProofs`, `EventPublisherProofs`, `S3AssemblyProofs`, `AuthenticationProofs` | the component of that name |

**UploadService.** `hash`, `ttl` and `meta` are the Redis keys of a session
(value, whether it can expire, expiry metadata), `blob` the chunk keys, `count`
the limiter's field, `dedup` the fingerprint hash, `object` the S3 objects,
`published` the events on the bus. `req[r]` is a handler: where it waits (`pc`),
its session id and local copy, the chunk in its hands, the chunks it has read
back, and for which caller `update_session` or `decrement` runs. Since a
coroutine gives up control only at an await, an action is one awaited call and
the code up to the next. The first `get_session` and the checks after it are
one action; a request they refuse changes nothing and is not a step. A call ends
`ok`, `error` (raises, no effect) or `lost` (takes effect, raises because the
reply was lost); a worker may die at any await (`Crash`). `told` and `lapsed`
are history: the largest offset the client was given, and whether the 24 hours
of a session are over.

**UploadRoutes.** `call[r]` is the HTTP request handler `r` works on: inside the use
case, in the first or second read of `get_session_with_expiry_info`, or answered
with a code. `UseCaseStep` is a step of `UploadService` together with what the route
does when the use case returns or raises, so the routes and the use cases are one
system. The two 404 bodies are told apart; `before` remembers the stored session
when the request arrived, `gone` the sessions a client was told are missing or
deleted. Checks that precede the first read (authentication, headers, body size)
change nothing and do not appear. An empty PATCH body is a 500 (`EmptyBody`): the
route builds `ProcessChunkRequest`, which refuses it, outside of its `try`, so that
the handler it has for a `ValueError` of the DTO, with a 422, is never reached by
one. A repeated read that fails in PATCH or DELETE leaves the handler of the
exception being handled and is a 500; in HEAD it is a 503.

**StubKeys and Authentication.** A key pair is a model value; `private` and `public`
are the files, which may also be absent or torn. `initialize` is modelled file
operation by file operation, `Stop` and `StopInWrite` end the process between or
inside them, `DamageFile` is the volume being changed from outside (`damaged`
remembers it). `LoadKeys(unread)` may fail to read either file although it is
intact: `initialize` catches that error together with those of corrupted files and
unlinks both files, so a passing fault of the volume replaces the pair. `lost` is
history: the pairs that were given up in this way. The stub's README promises the
same keys over restarts without this exception; `ConfiguredKeyIsServed` would not
hold without it. `ConfiguredKeyIsServed` and `RefusalJustified` say that, apart from
a changed volume, nothing else makes the service leave a configured pair or the API
refuse a good token. `config` is the key the upload service was started with: it is
copied by hand and cached for the life of the process. Each request is validated
twice, by the middleware and by the dependency, with `Tick` in between. The stub
drops an empty list of shared files and lets an owner carry one, the service
requires that exactly collaborators do: such tokens are issued and answered with
401, and `RefusalJustified` lists the case. A token request may carry 1000 shared
ids, which exceeds the 8192 bytes the dependency accepts (`Fits`).

**EventPublisher.** `link` is the inner publisher's client. `connect` sets
`_connected` last, so its inner steps are one outcome. A client that closed itself
after its reconnect attempts, or whose drain raised, leaves `_connected` set: the
link is `dead`, `connect` returns at once, and every publish fails until
the process is restarted. The model shows that each such call still ends in the
dead letter queue.

Limiter steps of the service are steps of `RateLimiter` (instance `Limiter`);
the session hash is seen through `SessionLifecycle` (instance `Lifecycle`). The
publish and the assembly are one step each in `UploadService`; `EventPublisher`
and `S3Assembly` show that the code behind them gives just these outcomes, by
implementing `EventDelivery` and `ObjectStore`.

**Abstractions.** SHA-256 is injective: the checksum of bytes is the bytes.
Names, MIME types and time stamps are not told apart; the 24-hour and 7-day
lifetimes are events that may happen in the order the code's TTLs allow. There
is one workspace: keys of different workspaces never meet, since every key
carries the workspace id.

## Runs

| Run | Instance | Shows |
|---|---|---|
| `service_races` | 2 overlapping requests, 1 session, every chunking, expiry, 1 fault | offset = manifest in Redis and in every copy; COMPLETE and registration only after the event; expiry is reported truthfully; the inductive invariant, types included; the service uses the limiter as `RateLimiter` says |
| `sequential` | requests that do not overlap, 2 sessions, 2 errors or crashes | no active session is uncounted; acknowledged bytes stay; the counter is exact and files are unique while nothing failed; the life cycle is the documented one; a completion repeated after a crash ends the session |
| `resume` | 2 overlapping requests, client always cuts the file alike and keeps resuming, 1 fault of any kind, expiry | chunk bytes match the manifest; an announced file stays intact; every request ends; the session reaches its last byte |
| `routes` | 1 client through all four routes, 1 session, 2 errors or crashes, expiry | gone stays gone; an error answer means nothing was stored; a 404 tells the truth; every request is answered |
| `auth` | 3 key pairs, 1 client, 2 stops, failed reads or damages, tokens of 2 ticks | the pair served matches; a configured key stays in use unless a failed read made the service give its pair up; refusals are justified; no stale token is admitted; the stub comes up again |
| `limiter_bound` | 3 callers, every fault | n callers pass the limit by at most n − 1 |
| `publisher` | 2 calls for one file, 3 attempts, NATS or webhook, connection lost, drained or dead at any moment | an event is lost only if all attempts and all dead-letter writes failed; duplicates and pauses are bounded; calls end; implements `EventDelivery` |
| `assembly` | 2 calls for one key, 2 parts, 2 faults each | object whole; uploads cleaned up; calls end; implements `ObjectStore` |

Four runs end in a violation on purpose; each shows code that disagrees with
its own comment or documentation:

* `double_abort`: two DELETEs both pass the terminal check and decrement twice,
  so that an active session is no longer counted.
* `late_write`: a session that expires between TTL probe and HSET comes back
  without an expiry.
* `concurrent_patch`: a slow PATCH writes its old copy over later chunks, the
  stored offset goes back.
* `slot_leak`: a completion that fails (a duplicate, an error) keeps its slot.

The same model shows, with other instances of the runs above, further consequences
of the whole-record write and of the separate calls: a late PATCH turns ABORTED back
into IN_PROGRESS, a transition `SessionStatus` does not list; two racing completions
of equal content are both announced; with differing chunk sizes and two completions
an announced object can be overwritten and deleted; if the update to COMPLETE fails
after the event is out, FAILED is stored for a file the class comment calls
committed; a lost reply of `create_session` leaves a session that is not counted; a
late PATCH over a COMPLETE session makes it completable again after its chunks were
deleted, so that `CompletionEnds` is stated for requests that do not overlap; a lost
reply of the HSET is a 503 for a chunk that was stored (the retry is a 409 with the
offset), so that `ErrorsChangeNothing` is checked with errors and crashes. The
properties are therefore checked where they hold and the instance says so. The retry
pauses add up to 2^(n−1) − 1 seconds for n attempts, 15 s for the default of 5; the
class comment speaks of 31 s.

**Bounds.** Files are two bytes in an alphabet of two: enough for one or two
chunks, a repeated chunk, an overrun, an empty and a corrupt one. The races
known in this code need two handlers; the limiter needs three callers to see
the bound rather than a pair. One or two faults cover every single failure and
every failure during the handling of a failure. Session ids are never reused and
run out, and the publisher's and the assembly's calls are finitely many, so
`CHECK_DEADLOCK FALSE` is set where the system may come to rest. Bounds are
`MaxFaults`, `SessionIds`, `MaxAttempts`, `MaxTime` and `Keys` (the clock and the
pairs of `Authentication`) and `Depth` (how far the limiter's counter may fall in
`MCRateLimiter`). Two faults let a stop hit the start that recovers from another
stop, with a third pair left to generate.

**Fairness.** A running handler takes its next step (`Fairness`): asyncio resumes a
coroutine whose call returned, and Redis, S3 and NATS clients return or time out.
`ResumingClient` adds the client of `docs/resumability.md`, which keeps sending the
chunk at the stored offset; `RepeatedCompletion` a caller that repeats a completion
until the session has ended (no route calls it in this commit, so this is an
assumption on the caller). The stub auth service is restarted by Docker (`restart:
unless-stopped`) and `initialize` runs on. Nothing is assumed about which outcome a
call has, beyond the bound on faults.

## Proofs

For every value of the constants, from the named assumptions `MaxSizeAssumption`,
`ServiceAssumption`, `LimiterAssumption`, `AttemptsAssumption`, `CallsAssumption`,
`AssemblyAssumption`, `KeysAssumption` and `AuthAssumption`. Every invariant, action
property and refinement that a passing run checks is also proved; where a theorem
needs more than these assumptions, its `ASSUME` says so and the reason is given here.

**Any number of overlapping requests.**

* `UploadServiceProofs`: `IndInv` is inductive; type correctness,
  `OffsetMatchesManifest`, `CompleteIsPublished` and `RegisteredIsPublished`
  follow, for any number of racing handlers, sessions and faults. A handler
  writes its whole local copy back, so each property must hold of every copy that
  may still be written: `IndInv` says of every handler (`HandlerOK`) and every
  stored record (`StoredOK`) that it is well formed (`GoodSession`) and that a
  COMPLETE status, or a handler that is going to register, has its event on the
  bus. The module begins with the facts about the entity: each mutator keeps
  a session good. The running total of the manifest is stated with a witness
  function (`RunningTotal`), so that appending a chunk extends the witness and no
  induction over the manifest is needed.
* `ExpiryTheorem`: `ExpiryIsTruthful`. It is not
  inductive: the metadata may go once the session's time is over, so
  `ExpiryInv` adds that a key with an expiry has not lapsed, that only drawn ids
  lapse and that the session of a running initiation has not. The rest is
  that `update_session` never stores the absence of a session (from `IndInv`) and
  that no path through the error handlers leads back into initiation.
* `RefinementTheorem`: every step of the service is a step of
  `RateLimiter` or leaves its variables alone (`Spec => LimiterSpec`). With
  `OvershootTheorem` the limiter's bound holds for the counter of the service; the
  two are put together by hand.
* `FileProofs`: `ChunksMatchManifest` and `PublishedFileIntact`, overlapping
  PATCHes and completions included. Both need `CutsAlike`: a client that sends the
  chunk at an offset again sends the same bytes, as the client of
  `docs/resumability.md` does. Without it a PATCH whose save failed leaves bytes
  under an index that the next PATCH fills differently. `FileInv` says that each
  session has one `Cut`, the chunks sent so far with the offsets they start at, which
  every copy of the session, every chunk key, every list of chunks read back and the
  object are initial parts of. A cut only grows, and with it all of these stay initial
  parts, so it does not matter which of two racing writes wins; and two completions
  that have read all chunks have read the same file, so the second neither changes
  nor deletes the object of the first.
* `RoutesTheorem`: a route waits in its use case exactly as long as the handler of
  the same session runs. What a route does besides its use case only reads
  (`Quiet`), so that `IndInv` and `ExpiryInv` hold under the routes too.

**Requests that do not overlap** (`Single`: one handler, which serves any number of
requests, sessions and faults). The run `concurrent_patch` and the list above show
how overlapping requests break these properties, which is why they assume it.

* `AcknowledgedTheorem` and `MonotonicTheorem`: acknowledged offsets stay and the
  stored offset never falls, also when replies are lost, workers die and an expired
  session comes back with a late write. `AheadInv`: a handler's copy is never behind
  Redis or behind what the client was told.
* `CoversTheorem`: the counter covers the active sessions, unless a reply is lost
  (`"lost" \notin FaultKinds`): a session whose `create_session` took effect without
  a reply is stored although its slot was given back. `StageInv` says what is stored
  at each point of a use case, `CoverInv` that whoever is active, or about to
  become so, has a slot, so that the counter never needs its reset to zero.
* `AccountsTheorem`: the counter is exact between requests while no call has failed,
  without expiry (`~Expiry`): a session that expires keeps its slot. `Counted`
  includes the session of the request that is taking or giving back a slot.
* `OneFileTheorem`: one file for a content while no call has failed, without
  expiry: a session that expires between event and update is announced and never
  registered. `DedupInv`: every announced file is registered or is the one in flight.
* `LifecycleTheorem`: the service implements `SessionLifecycle`, without expiry (a
  late write brings a session back that is gone) and without lost replies (a
  COMPLETE that was stored without a reply is overwritten with FAILED).
* `GoneTheorem`, `NotFoundTheorem`, `ErrorsTheorem` in `RoutesProofs`: gone stays
  gone, a 404 tells the truth, an error answer means that nothing was stored. Expiry
  may fall between any two reads. `AnswerInv` ties the stage of an unanswered request
  to what is stored: a use case that deletes has nothing stored once it gives the
  slot back, a PATCH or DELETE that looks its session up again finds an ended one or
  none, and no handler has a session that was reported gone. Only `ErrorsTheorem`
  excludes lost replies (a 503 for a chunk that was stored).

**The other components.**

* `AuthenticationProofs`: `AuthInv` is inductive; from it `ServedPairMatches`,
  `ConfiguredKeyIsServed`, `RefusalJustified` and `AdmittedInTime`. The order of the
  unlinks and writes carries the proof: the public file is removed last and
  written last, so on an undamaged volume it is readable only beside its own
  private file (`FilesOK`), and every token and every configured key still agrees
  with it (`DerivedOK`). Neither holds of a pair that was given up after a failed
  read: `lost` excepts it until a start loads it again, and `RefusalTheorem` names
  it as a reason. `Keeps` is what a step of the key manager owes the rest: it lets go
  of a readable public.pem only after giving its pair up.
* `RateLimiterProofs`: the overshoot bound. The counter alone is not inductive;
  callers past the check but before the increment are counted with it
  (`CommittedBounded`).
* `EventPublisherProofs`: `PublisherInv` ties the failures so far to the loop
  variable of the two loops; from it at-least-once (`EndsAccounted`), the
  refinement of `EventDelivery` and the bound on the pauses. For the bound on
  duplicates `SentInv` gives every copy of a file a try of its own, a pair of a
  call and one of its attempts that the call has already made; the tries of a
  file are finitely many by `CallsAssumption`.
* `S3AssemblyProofs`: `AssemblyInv` says that a part counted as done is held by
  S3 while the upload is open; from it `ObjectIsWhole` and `NoUploadLeft`, and
  `StoreTheorem`, the refinement of `ObjectStore`: only the completion puts the
  object, and only a call whose bytes are wrong removes it.

Only model-checked: the liveness properties (`RequestsEnd`, `UploadConverges`,
`CompletionEnds`, `EveryCallAnswered`, `PublishEnds`, `AssemblyEnds`, `StubRecovers`),
which are out of the prover's reach, and the four disagreements with comments and
documentation, which are counterexamples.

## Not modelled, and the plan

Not modelled: the webhook signature and headers; the header and body checks of
the routes before the first read (a refused request changes nothing);
(de)serialisation, whose error is an `InfrastructureError` like any other;
settings, DTOs, logging; the domain `DeduplicationService` and the workspace and
file access validators, which no use case or route calls; overlapping calls of
`connect`, which only start-up makes; virus scanning, which is an empty package.

What is left, in this order:

1. theorems: the limiter's bound stated of `UploadService` itself; how much of the
   sequential properties survives when requests overlap only for different sessions;
   the 24 hours of `SessionsExpire` as long as no session lapses under a running
   update;
2. a route for completion, once the repository has one.
