--------------------------- MODULE UploadService ---------------------------
(***************************************************************************)
(* The resumable-upload service of one workspace: the four use cases       *)
(* (initiate, process chunk, abort, complete) and the offset query, run by *)
(* concurrent request handlers over shared Redis, S3 and event-bus state.  *)
(*                                                                         *)
(* A handler is an asyncio coroutine: it gives up control only at an       *)
(* await, so every awaited Redis, S3 or publish call is one action here,   *)
(* together with the synchronous code up to the next await.  Handlers keep *)
(* a private copy of the session they read first and write it back whole.  *)
(*                                                                         *)
(* A call ends in one of three ways: "ok"; "error", it raises and had no   *)
(* effect; "lost", it took effect but the reply was lost and it raises.    *)
(* A handler may also stop for good ("crash").  These faults are bounded   *)
(* by MaxFaults.                                                           *)
(***************************************************************************)
EXTENDS UploadSession, Integers, FiniteSets

CONSTANTS
  Requests,        \* handlers that may be running at the same time
  SessionIds,      \* the UUIDs initiate may draw
  Declarations,    \* what clients declare when they initiate: size and SHA-256
  Patches,         \* what clients send in the PATCHes of each session: offset,
                   \* body and checksum
  MaxConcurrent,   \* settings.max_concurrent_uploads
  MaxChunk,        \* the 10 MB bound on a chunk
  Ops,             \* operations the environment calls
  FaultKinds,      \* the faults that may happen
  MaxFaults,       \* how many of them, at most
  Expiry,          \* whether 24 hours may pass
  Null             \* absence of a key, an object or a local value

ASSUME ServiceAssumption ==
  /\ Declarations \subseteq [size : Nat, sha256 : Content]
  /\ Patches \in [SessionIds -> SUBSET [offset : Nat, data : Content, checksum : Content]]
  /\ MaxConcurrent \in Nat \ {0}
  /\ MaxChunk \in Nat
  /\ MaxFaults \in Nat
  /\ Expiry \in BOOLEAN
  /\ FaultKinds \subseteq {"error", "lost", "crash"}
  /\ Null \notin SessionIds \cup UploadSessions \cup Content \cup Seq(Content)

VARIABLES
  hash,       \* session:{id} hash, or Null when the key does not exist
  ttl,        \* the session:{id} key has an expiry
  meta,       \* the session:expiry:{id} key exists
  blob,       \* chunk:...:index_{i} keys
  count,      \* ratelimit:workspace hash, field active_uploads
  dedup,      \* dedup hash: SHA-256 -> file id
  object,     \* S3 object workspace/{file_id}.pdf as its list of parts
  published,  \* FileLoadCompleted events the bus has accepted
  req,        \* the handlers' local state
  used,       \* session ids drawn so far
  lapsed,     \* 24 hours have passed since the session was created
  told,       \* history: largest offset the client was told
  faults      \* faults so far

redis == <<hash, ttl, meta, blob, count, dedup>>
store == <<hash, ttl, meta>>
vars == <<hash, ttl, meta, blob, count, dedup, object, published,
          req, used, lapsed, told, faults>>

Shas == {d.sha256 : d \in Declarations}
Indices == 0 .. MaxSize
Event == [file : SessionIds, sha256 : Shas]
Outcomes == {"ok"} \cup (FaultKinds \ {"crash"})

\* Points between two awaits; "probe" and "hset" are update_session,
\* "decr" and "zero" are RateLimiter.decrement.
PCs == {"idle", "incr", "create", "set", "probe", "hset", "del", "decr",
        "zero", "get", "head", "assemble", "s3del", "dedup", "publish",
        "register", "cleanup"}

\* What update_session or decrement was called for.
Callers == {"none", "chunk", "abort", "complete", "dup", "pubfail",
            "failed", "initfail"}

Handler == [pc : PCs, sid : SessionIds \cup {Null},
            loc : UploadSessions \cup {Null}, data : Content,
            got : Seq(Content), k : Nat, caller : Callers]

Idle == [pc |-> "idle", sid |-> Null, loc |-> Null, data |-> <<>>,
         got |-> <<>>, k |-> 0, caller |-> "none"]

Init ==
  /\ hash = [s \in SessionIds |-> Null]
  /\ ttl = [s \in SessionIds |-> FALSE]
  /\ meta = [s \in SessionIds |-> FALSE]
  /\ blob = [s \in SessionIds |-> [i \in Indices |-> Null]]
  /\ count = 0
  /\ dedup = [c \in Shas |-> Null]
  /\ object = [s \in SessionIds |-> Null]
  /\ published = {}
  /\ req = [r \in Requests |-> Idle]
  /\ used = {}
  /\ lapsed = [s \in SessionIds |-> FALSE]
  /\ told = [s \in SessionIds |-> 0]
  /\ faults = 0

----------------------------------------------------------------------------
(* Helpers *)

Applied(o) == o # "error"
Raises(o) == o # "ok"

\* A fault uses up one unit of the budget.
Spend(o) ==
  /\ Raises(o) => faults < MaxFaults
  /\ faults' = IF Raises(o) THEN faults + 1 ELSE faults

Become(r, h) == req' = [req EXCEPT ![r] = h]

\* A response carries the offset n of session s.
Tell(s, n) == told' = [told EXCEPT ![s] = IF n > @ THEN n ELSE @]

\* get_session: HGETALL of a missing or expired key is empty.
Found(s) == hash[s] # Null

\* get_session_with_expiry_info: no session, but its expiry metadata, which
\* the routes report as SESSION_EXPIRED.
ReportedExpired(s) == ~Found(s) /\ meta[s]

\* Call update_session with the local session u, on behalf of caller.
Save(h, u, caller) == [h EXCEPT !.pc = "probe", !.loc = u, !.caller = caller]

\* The exception handlers of CompleteUpload: mark_failed, update_session.
Fail(h) == Save(h, MarkFailed(h.loc), "failed")

\* Mutant of ReachesFailHandler: the handler's own update is tried again.
MutantRetryFailed(h, result) ==
  \/ result = "ok" /\ h.caller = "pubfail"
  \/ result # "ok" /\ h.caller \in {"dup", "pubfail", "complete", "failed"}

\* update_session ended in a way that reaches those handlers: the publish
\* error that was waiting, or an InfrastructureError of its own; a
\* SessionNotFoundError passes through them.
ReachesFailHandler(h, result) ==
  \/ result = "ok" /\ h.caller = "pubfail"
  \/ result = "infra" /\ h.caller \in {"dup", "pubfail", "complete"}

\* Where a handler goes when update_session returns or raises.
AfterUpdate(h, result) ==
  IF result = "ok" /\ h.caller = "abort" THEN [h EXCEPT !.pc = "del"]
  ELSE IF result = "ok" /\ h.caller = "complete" THEN [h EXCEPT !.pc = "decr"]
  ELSE IF ReachesFailHandler(h, result) THEN Fail(h)
  ELSE Idle

\* Where it goes when decrement returns; a raised error is only logged.
AfterDecrement(h) ==
  IF h.caller = "complete" THEN [h EXCEPT !.pc = "register"] ELSE Idle

----------------------------------------------------------------------------
(* InitiateUpload *)

\* Mutant of BelowLimit: off by one.
MutantAtLimit(n) == n <= MaxConcurrent

\* check_and_increment refuses at or above the limit.
BelowLimit(n) == n < MaxConcurrent

\* validate_size and the other checks of InitiateUploadRequest (name, MIME
\* type and checksum format are not told apart here).
ValidRequest(d) == d.size \in 1 .. MaxSize

\* Valid request; HGET of the counter finds room (otherwise 429, no change).
\* The UUID s is private to the handler, so it is drawn here: SessionIds
\* bounds the number of initiations.
InitiateCheck(r, s, d) ==
  /\ "initiate" \in Ops
  /\ req[r] = Idle
  /\ s \notin used
  /\ ValidRequest(d)
  /\ BelowLimit(count)
  /\ used' = used \cup {s}
  /\ Become(r, [Idle EXCEPT !.pc = "incr", !.sid = s,
                             !.loc = NewSession(d.size, d.sha256)])
  /\ UNCHANGED <<redis, object, published, lapsed, told, faults>>

\* HINCRBY +1, still inside check_and_increment.
InitiateIncrement(r, o) ==
  /\ req[r].pc = "incr"
  /\ Spend(o)
  /\ count' = IF Applied(o) THEN count + 1 ELSE count
  /\ Become(r, IF Raises(o) THEN Idle ELSE [req[r] EXCEPT !.pc = "create"])
  /\ UNCHANGED <<store, blob, dedup, object, published, used, lapsed, told>>

\* create_session: one pipeline writes the hash, its TTL and the expiry
\* metadata.  If it raises, the counter is given back.
InitiateCreate(r, o) ==
  LET h == req[r] IN
  /\ h.pc = "create"
  /\ Spend(o)
  /\ IF Applied(o)
       THEN /\ hash' = [hash EXCEPT ![h.sid] = h.loc]
            /\ ttl' = [ttl EXCEPT ![h.sid] = TRUE]
            /\ meta' = [meta EXCEPT ![h.sid] = TRUE]
       ELSE UNCHANGED store
  /\ Become(r, IF Raises(o) THEN [h EXCEPT !.pc = "decr", !.caller = "initfail"]
               ELSE Idle)
  /\ UNCHANGED <<blob, count, dedup, object, published, used, lapsed, told>>

----------------------------------------------------------------------------
(* ProcessChunk *)

\* Mutant of AcceptsChunk: the offset is not compared.
MutantAnyOffset(u, p) ==
  ~IsTerminal(u) /\ Len(p.data) \in 1 .. MaxChunk /\ VerifyChunk(p.data, p.checksum)

\* Mutant of AcceptsChunk: a session that has ended takes more chunks.
MutantAnyTerminal(u, p) ==
  p.offset = u.offset /\ Len(p.data) \in 1 .. MaxChunk /\ VerifyChunk(p.data, p.checksum)

\* The checks that precede the first write: session not terminal, offset
\* matches, chunk size in bounds, checksum verified.
AcceptsChunk(u, p) ==
  /\ ~IsTerminal(u)
  /\ p.offset = u.offset
  /\ Len(p.data) \in 1 .. MaxChunk
  /\ VerifyChunk(p.data, p.checksum)

\* get_session; a missing session or a refused chunk changes nothing.
ChunkGet(r, s, p) ==
  /\ "chunk" \in Ops
  /\ req[r] = Idle
  /\ Found(s)
  /\ AcceptsChunk(hash[s], p)
  /\ Become(r, [Idle EXCEPT !.pc = "set", !.sid = s, !.loc = hash[s], !.data = p.data])
  /\ UNCHANGED <<redis, object, published, used, lapsed, told, faults>>

\* SET of the chunk bytes, then add_chunk, update_offset (which refuses an
\* overrun, after the bytes were stored) and mark_in_progress.
ChunkSet(r, o) ==
  LET h == req[r]
      index == Len(h.loc.manifest)
      size == Len(h.data)
      newOffset == h.loc.offset + size
  IN
  /\ h.pc = "set"
  /\ Spend(o)
  /\ blob' = IF Applied(o) THEN [blob EXCEPT ![h.sid][index] = h.data] ELSE blob
  /\ Become(r, IF \/ Raises(o)
                  \/ ~CanAddChunk(h.loc, index)
                  \/ ~CanUpdateOffset(h.loc, newOffset)
                 THEN Idle
                 ELSE Save(h, MarkInProgress(UpdateOffset(
                             AddChunk(h.loc, index, size, h.data), newOffset)), "chunk"))
  /\ UNCHANGED <<store, count, dedup, object, published, used, lapsed, told>>

----------------------------------------------------------------------------
(* RedisSessionStore.update_session and delete_session *)

\* The TTL probe: -2 means the key is gone, SessionNotFoundError.
UpdateProbe(r, o) ==
  LET h == req[r] IN
  /\ h.pc = "probe"
  /\ Spend(o)
  /\ Become(r, IF Raises(o) THEN AfterUpdate(h, "infra")
               ELSE IF hash[h.sid] = Null THEN AfterUpdate(h, "notfound")
               ELSE [h EXCEPT !.pc = "hset"])
  /\ UNCHANGED <<redis, object, published, used, lapsed, told>>

\* Mutant of Acknowledges: the client gets a success for a failed save.
MutantAckAnyway(h, o) == h.caller = "chunk"

\* The update_session of a PATCH returned: 204 with the new offset.
Acknowledges(h, o) == h.caller = "chunk" /\ ~Raises(o)

\* HSET of the whole local copy.  It keeps the expiry of an existing key; a
\* key that vanished since the probe comes back without one.
UpdateHset(r, o) ==
  LET h == req[r] IN
  /\ h.pc = "hset"
  /\ Spend(o)
  /\ hash' = IF Applied(o) THEN [hash EXCEPT ![h.sid] = h.loc] ELSE hash
  /\ Become(r, AfterUpdate(h, IF Raises(o) THEN "infra" ELSE "ok"))
  /\ IF Acknowledges(h, o) THEN Tell(h.sid, h.loc.offset)
     ELSE UNCHANGED told
  /\ UNCHANGED <<ttl, meta, blob, count, dedup, object, published, used, lapsed>>

\* Mutant of MetaAfterDelete: the expiry metadata is forgotten.
MutantMetaKept(s) == meta

MetaAfterDelete(s) == [meta EXCEPT ![s] = FALSE]

\* DEL of the session and of its expiry metadata; abort then decrements.
DeleteSession(r, o) ==
  LET h == req[r] IN
  /\ h.pc = "del"
  /\ Spend(o)
  /\ IF Applied(o)
       THEN /\ hash' = [hash EXCEPT ![h.sid] = Null]
            /\ ttl' = [ttl EXCEPT ![h.sid] = FALSE]
            /\ meta' = MetaAfterDelete(h.sid)
       ELSE UNCHANGED store
  /\ Become(r, IF Raises(o) THEN Idle ELSE [h EXCEPT !.pc = "decr"])
  /\ UNCHANGED <<blob, count, dedup, object, published, used, lapsed, told>>

----------------------------------------------------------------------------
(* AbortUpload and HEAD *)

\* Mutant of Abortable: a session that has ended can be aborted again.
MutantAlwaysAbortable(u) == TRUE

Abortable(u) == ~IsTerminal(u)

\* get_session; a missing or terminal session is a 404.
AbortGet(r, s) ==
  /\ "abort" \in Ops
  /\ req[r] = Idle
  /\ Found(s)
  /\ Abortable(hash[s])
  /\ Become(r, [Save(Idle, MarkAborted(hash[s]), "abort") EXCEPT !.sid = s])
  /\ UNCHANGED <<redis, object, published, used, lapsed, told, faults>>

\* HEAD reports the stored offset of a session that is not terminal.
QueryOffset(s) ==
  /\ "head" \in Ops
  /\ Found(s)
  /\ ~IsTerminal(hash[s])
  /\ Tell(s, hash[s].offset)
  /\ UNCHANGED <<redis, object, published, req, used, lapsed, faults>>

----------------------------------------------------------------------------
(* RateLimiter.decrement *)

\* Mutant of DecrementHincrby: the reset is also done at zero.
MutantResetAtZero(r, o) ==
  LET h == req[r] IN
  /\ h.pc = "decr"
  /\ Spend(o)
  /\ count' = IF Applied(o) THEN count - 1 ELSE count
  /\ Become(r, IF ~Raises(o) /\ count' <= 0 THEN [h EXCEPT !.pc = "zero"]
               ELSE AfterDecrement(h))
  /\ UNCHANGED <<store, blob, dedup, object, published, used, lapsed, told>>

DecrementHincrby(r, o) ==
  LET h == req[r] IN
  /\ h.pc = "decr"
  /\ Spend(o)
  /\ count' = IF Applied(o) THEN count - 1 ELSE count
  /\ Become(r, IF ~Raises(o) /\ count' < 0 THEN [h EXCEPT !.pc = "zero"]
               ELSE AfterDecrement(h))
  /\ UNCHANGED <<store, blob, dedup, object, published, used, lapsed, told>>

DecrementZero(r, o) ==
  /\ req[r].pc = "zero"
  /\ Spend(o)
  /\ count' = IF Applied(o) THEN 0 ELSE count
  /\ Become(r, AfterDecrement(req[r]))
  /\ UNCHANGED <<store, blob, dedup, object, published, used, lapsed, told>>

----------------------------------------------------------------------------
(* CompleteUpload *)

\* Mutants of Completable: the status, or the manifest and the offset, are
\* not checked.
MutantAnyStatus(u) == ManifestComplete(u) /\ u.offset = u.size

MutantPartial(u) == u.status = "IN_PROGRESS"

\* Status, manifest and offset checks.
Completable(u) ==
  /\ u.status = "IN_PROGRESS"
  /\ ManifestComplete(u)
  /\ u.offset = u.size

\* get_session; a session that cannot be completed is left as it is.
CompleteGet(r, s) ==
  /\ "complete" \in Ops
  /\ req[r] = Idle
  /\ Found(s)
  /\ Completable(hash[s])
  /\ Become(r, [Idle EXCEPT !.pc = "get", !.sid = s, !.loc = hash[s]])
  /\ UNCHANGED <<redis, object, published, used, lapsed, told, faults>>

\* GET of the next chunk, in index order.  A missing chunk ends the request
\* and leaves the session as it is.
RetrieveChunk(r, o) ==
  LET h == req[r]
      chunk == blob[h.sid][Len(h.got)]
      got == Append(h.got, chunk)
  IN
  /\ h.pc = "get"
  /\ Spend(o)
  /\ Become(r, IF Raises(o) THEN Fail(h)
               ELSE IF chunk = Null THEN Idle
               ELSE [h EXCEPT !.got = got,
                              !.pc = IF Len(got) = Len(h.loc.manifest)
                                     THEN "head" ELSE "get"])
  /\ UNCHANGED <<redis, object, published, used, lapsed, told>>

\* Mutant of CheckFileExists: an object that is there ends the request only.
MutantLeaveSession(r, o) ==
  LET h == req[r] IN
  /\ h.pc = "head"
  /\ Spend(o)
  /\ Become(r, IF Raises(o) THEN Fail(h)
               ELSE IF object[h.sid] # Null THEN Idle
               ELSE [h EXCEPT !.pc = "assemble"])
  /\ UNCHANGED <<redis, object, published, used, lapsed, told>>

\* head_object: an object that is already there is an IntegrityError.
CheckFileExists(r, o) ==
  LET h == req[r] IN
  /\ h.pc = "head"
  /\ Spend(o)
  /\ Become(r, IF Raises(o) \/ object[h.sid] # Null THEN Fail(h)
               ELSE [h EXCEPT !.pc = "assemble"])
  /\ UNCHANGED <<redis, object, published, used, lapsed, told>>

\* The multipart upload becomes visible when it is completed; then the
\* checksum computed from the chunks is compared.
AssembleFile(r, o) ==
  LET h == req[r] IN
  /\ h.pc = "assemble"
  /\ Spend(o)
  /\ object' = IF Applied(o) THEN [object EXCEPT ![h.sid] = h.got] ELSE object
  /\ Become(r, IF Raises(o) THEN Fail(h)
               ELSE IF Concat(h.got) = h.loc.sha256 THEN [h EXCEPT !.pc = "dedup"]
               ELSE [h EXCEPT !.pc = "s3del"])
  /\ UNCHANGED <<redis, published, used, lapsed, told>>

\* Best-effort delete_object of a file whose checksum is wrong.
DeleteCorrupt(r, o) ==
  LET h == req[r] IN
  /\ h.pc = "s3del"
  /\ Spend(o)
  /\ object' = IF Applied(o) THEN [object EXCEPT ![h.sid] = Null] ELSE object
  /\ Become(r, Fail(h))
  /\ UNCHANGED <<redis, published, used, lapsed, told>>

\* Mutant of IsDuplicate: only a file registered under the same id counts.
MutantSameFile(h) == dedup[h.loc.sha256] = h.sid

IsDuplicate(h) == dedup[h.loc.sha256] # Null

\* check_duplicate: HEXISTS, then HGET of what is there (no field is ever
\* removed, so the two are one step); a known checksum fails the session.
CheckDuplicate(r, o) ==
  LET h == req[r] IN
  /\ h.pc = "dedup"
  /\ Spend(o)
  /\ Become(r, IF Raises(o) THEN Fail(h)
               ELSE IF IsDuplicate(h) THEN Save(h, MarkFailed(h.loc), "dup")
               ELSE [h EXCEPT !.pc = "publish"])
  /\ UNCHANGED <<redis, object, published, used, lapsed, told>>

\* Mutant of AfterPublish: the publisher's error is swallowed.
MutantSwallow(h, o) == Save(h, MarkComplete(h.loc), "complete")

\* mark_complete after a publish that returned, mark_failed otherwise.
AfterPublish(h, o) ==
  IF Raises(o) THEN Save(h, MarkFailed(h.loc), "pubfail")
  ELSE Save(h, MarkComplete(h.loc), "complete")

\* publish, retries included; then update_session.
PublishEvent(r, o) ==
  LET h == req[r] IN
  /\ h.pc = "publish"
  /\ Spend(o)
  /\ published' = IF Applied(o)
                    THEN published \cup {[file |-> h.sid, sha256 |-> h.loc.sha256]}
                    ELSE published
  /\ Become(r, AfterPublish(h, o))
  /\ UNCHANGED <<redis, object, used, lapsed, told>>

\* register_file, last writer wins; an error is only logged.
RegisterFile(r, o) ==
  LET h == req[r] IN
  /\ h.pc = "register"
  /\ Spend(o)
  /\ dedup' = IF Applied(o) THEN [dedup EXCEPT ![h.loc.sha256] = h.sid] ELSE dedup
  /\ Become(r, [h EXCEPT !.pc = "cleanup", !.k = 1])
  /\ UNCHANGED <<store, blob, count, object, published, used, lapsed, told>>

\* _cleanup_chunks: DEL chunk by chunk, errors are logged.
CleanupChunk(r, o) ==
  LET h == req[r]
      index == h.loc.manifest[h.k].index
  IN
  /\ h.pc = "cleanup"
  /\ Spend(o)
  /\ blob' = IF Applied(o) THEN [blob EXCEPT ![h.sid][index] = Null] ELSE blob
  /\ Become(r, IF h.k < Len(h.loc.manifest) THEN [h EXCEPT !.k = @ + 1] ELSE Idle)
  /\ UNCHANGED <<store, count, dedup, object, published, used, lapsed, told>>

----------------------------------------------------------------------------
(* The environment *)

\* A handler stops for good: its worker died.
Crash(r) ==
  /\ "crash" \in FaultKinds
  /\ req[r] # Idle
  /\ faults < MaxFaults
  /\ faults' = faults + 1
  /\ Become(r, Idle)
  /\ UNCHANGED <<redis, object, published, used, lapsed, told>>

\* 24 hours after creation Redis drops a session key that has an expiry.
SessionLapses(s) ==
  /\ Expiry
  /\ s \in used
  /\ ~lapsed[s]
  /\ \A r \in Requests : ~(req[r].sid = s /\ req[r].pc \in {"incr", "create"})
  /\ lapsed' = [lapsed EXCEPT ![s] = TRUE]
  /\ hash' = IF ttl[s] THEN [hash EXCEPT ![s] = Null] ELSE hash
  /\ ttl' = [ttl EXCEPT ![s] = FALSE]
  /\ UNCHANGED <<meta, blob, count, dedup, object, published, req, used, told, faults>>

\* A chunk key is written after its session, with the same 24 hours, so it
\* can only go after the session's time is over.
ChunkLapses(s, i) ==
  /\ lapsed[s]
  /\ blob[s][i] # Null
  /\ blob' = [blob EXCEPT ![s][i] = Null]
  /\ UNCHANGED <<store, count, dedup, object, published, req, used, lapsed, told, faults>>

\* The expiry metadata goes 7 days after creation.
MetaLapses(s) ==
  /\ lapsed[s]
  /\ meta[s]
  /\ meta' = [meta EXCEPT ![s] = FALSE]
  /\ UNCHANGED <<hash, ttl, blob, count, dedup, object, published, req, used,
                 lapsed, told, faults>>

\* One awaited call of handler r and the code up to its next await.
HandlerStep(r, o) ==
  \/ InitiateIncrement(r, o)
  \/ InitiateCreate(r, o)
  \/ ChunkSet(r, o)
  \/ UpdateProbe(r, o)
  \/ UpdateHset(r, o)
  \/ DeleteSession(r, o)
  \/ DecrementHincrby(r, o)
  \/ DecrementZero(r, o)
  \/ RetrieveChunk(r, o)
  \/ CheckFileExists(r, o)
  \/ AssembleFile(r, o)
  \/ DeleteCorrupt(r, o)
  \/ CheckDuplicate(r, o)
  \/ PublishEvent(r, o)
  \/ RegisterFile(r, o)
  \/ CleanupChunk(r, o)

\* Arrivals at the routes; what a route answers, also to the requests that are
\* refused and change nothing, is in UploadRoutes.
PostUploads(r) == \E s \in SessionIds, d \in Declarations : InitiateCheck(r, s, d)

PatchUpload(r) == \E s \in SessionIds : \E p \in Patches[s] : ChunkGet(r, s, p)

DeleteUpload(r) == \E s \in SessionIds : AbortGet(r, s)

\* A request arrives and makes its first call.  CompleteUpload has no route
\* in this commit.
Arrive(r) ==
  \/ PostUploads(r)
  \/ PatchUpload(r)
  \/ DeleteUpload(r)
  \/ \E s \in SessionIds : CompleteGet(r, s)

Environment ==
  \/ \E r \in Requests : Crash(r)
  \/ \E s \in SessionIds : QueryOffset(s)
  \/ \E s \in SessionIds : SessionLapses(s)
  \/ \E s \in SessionIds, i \in Indices : ChunkLapses(s, i)
  \/ \E s \in SessionIds : MetaLapses(s)

Next ==
  \/ \E r \in Requests : Arrive(r)
  \/ \E r \in Requests, o \in Outcomes : HandlerStep(r, o)
  \/ Environment

Spec == Init /\ [][Next]_vars

\* asyncio resumes a coroutine whose awaited call has returned, and every
\* call returns or times out: a handler that is running takes its next step.
Fairness == \A r \in Requests : WF_vars(\E o \in Outcomes : HandlerStep(r, o))

FairSpec == Spec /\ Fairness

\* A client that follows docs/resumability.md: as long as the file is not
\* complete it asks for the offset and sends the chunk that starts there.
ResumingClient ==
  \A r \in Requests : WF_vars(PatchUpload(r))

ResumeSpec == FairSpec /\ ResumingClient

\* A caller that repeats a completion until the session has ended.
RepeatedCompletion ==
  \A s \in SessionIds : SF_vars(\E r \in Requests : CompleteGet(r, s))

CompletingSpec == FairSpec /\ RepeatedCompletion

----------------------------------------------------------------------------
(* Properties *)

TypeOK ==
  /\ hash \in [SessionIds -> UploadSessions \cup {Null}]
  /\ ttl \in [SessionIds -> BOOLEAN]
  /\ meta \in [SessionIds -> BOOLEAN]
  /\ blob \in [SessionIds -> [Indices -> Content \cup {Null}]]
  /\ count \in Int
  /\ dedup \in [Shas -> SessionIds \cup {Null}]
  /\ object \in [SessionIds -> Seq(Content) \cup {Null}]
  /\ published \subseteq Event
  /\ req \in [Requests -> Handler]
  /\ used \subseteq SessionIds
  /\ lapsed \in [SessionIds -> BOOLEAN]
  /\ told \in [SessionIds -> Nat]
  /\ faults \in 0 .. MaxFaults

\* Manifest and offset never come apart, in Redis or in a handler's copy,
\* whatever PATCHes race and whichever whole-record write wins.
OffsetMatchesManifest ==
  /\ \A s \in SessionIds : hash[s] # Null => Consistent(hash[s])
  /\ \A r \in Requests : req[r].loc # Null => Consistent(req[r].loc)

\* CompleteUpload marks a session COMPLETE only after its event is out: a
\* session stored as COMPLETE has been announced, races and faults included.
CompleteIsPublished ==
  \A s \in SessionIds :
    hash[s] # Null /\ hash[s].status = "COMPLETE" =>
      [file |-> s, sha256 |-> hash[s].sha256] \in published

\* A checksum is registered for deduplication only for a file announced with
\* that checksum: a later upload is never refused in favour of a file
\* downstream was not told of.
RegisteredIsPublished ==
  \A c \in Shas : dedup[c] # Null => [file |-> dedup[c], sha256 |-> c] \in published

\* The inductive invariant behind these: what holds of handler h when the
\* events in E are out ...
Completing == {"get", "head", "assemble", "s3del", "dedup", "publish",
               "register", "cleanup"}

HandlerOK(h, E) ==
  /\ h \in Handler
  /\ h.pc = "idle" => h = Idle
  /\ h.pc # "idle" =>
       /\ h.sid \in SessionIds
       /\ GoodSession(h.loc)
       /\ h.loc.sha256 \in Shas
       /\ h.loc.status = "COMPLETE" \/ h.caller = "complete" =>
            [file |-> h.sid, sha256 |-> h.loc.sha256] \in E
       /\ h.pc \in Completing \/ h.caller = "complete" => Len(h.loc.manifest) > 0
  /\ h.pc = "set" => Len(h.data) > 0
  /\ h.pc = "get" => Len(h.got) < Len(h.loc.manifest)
  /\ h.pc = "register" => h.caller = "complete"
  /\ h.pc = "cleanup" => h.k \in 1 .. Len(h.loc.manifest)

\* ... of a stored value u of session s ...
StoredOK(s, u, E) ==
  /\ u \in UploadSessions \cup {Null}
  /\ u # Null => /\ GoodSession(u)
                 /\ u.sha256 \in Shas
                 /\ u.status = "COMPLETE" => [file |-> s, sha256 |-> u.sha256] \in E

\* ... and of the state.
IndInv ==
  /\ TypeOK
  /\ \A r \in Requests : HandlerOK(req[r], published)
  /\ \A s \in SessionIds : StoredOK(s, hash[s], published)
  /\ RegisteredIsPublished

\* Every announced file is in S3 with the announced content: no later
\* request of the same session overwrites or deletes it.
PublishedFileIntact ==
  \A e \in published :
    object[e.file] # Null /\ Concat(object[e.file]) = e.sha256

\* Chunk bytes in Redis are the ones the stored manifest vouches for (or are
\* gone), so the file can be assembled from them.
ChunksMatchManifest ==
  \A s \in SessionIds : hash[s] # Null =>
    \A i \in 1 .. Len(hash[s].manifest) :
      blob[s][i - 1] \in {hash[s].manifest[i].checksum, Null}

\* An offset the client was told, by a PATCH or a HEAD response, is still
\* covered by the stored session: resuming never loses acknowledged bytes.
AcknowledgedIsKept ==
  \A s \in SessionIds : hash[s] # Null => hash[s].offset >= told[s]

\* Sessions that take up a slot of the workspace's limit.
Active == {s \in SessionIds : hash[s] # Null /\ ~IsTerminal(hash[s])}

\* The limiter's counter never falls below the number of active sessions,
\* so the limit cannot be passed by uploads that are not counted.
CounterCoversActive == Active # {} => count >= Cardinality(Active)

Quiescent == \A r \in Requests : req[r] = Idle

\* As long as no call has failed, between requests the counter counts exactly
\* the active sessions and the FAILED ones: initiation, abort and completion
\* balance, failure does not.
CounterAccounts ==
  Quiescent /\ faults = 0 =>
    count = Cardinality(Active \cup
              {s \in SessionIds : hash[s] # Null /\ hash[s].status = "FAILED"})

\* The documented form: once nothing runs, every session that ended
\* (completed, failed or aborted) has given its slot back.
CounterReleased == Quiescent => count = Cardinality(Active)

\* At most one file with a given content is announced in the workspace, as
\* long as no call has failed (a failed registration is only logged).
OneFilePerContent ==
  faults = 0 => \A e, f \in published : e.sha256 = f.sha256 => e.file = f.file

\* A stored session always has an expiry: it cannot stay in Redis for ever.
SessionsExpire == \A s \in SessionIds : hash[s] # Null => ttl[s]

\* The expiry metadata tells the truth: a session that can still expire has
\* it, and only a session that ran out of its 24 hours is reported as
\* expired, never an aborted one.
ExpiryIsTruthful ==
  \A s \in SessionIds :
    /\ ttl[s] => meta[s]
    /\ ReportedExpired(s) => lapsed[s]

\* The stored offset of a session never goes backwards.
OffsetMonotonic ==
  [][\A s \in SessionIds :
       hash[s] # Null /\ hash'[s] # Null => hash'[s].offset >= hash[s].offset]_vars

\* Where a handler is inside the limiter.
LimiterPc(h) == IF h.pc \in {"incr", "zero"} THEN h.pc ELSE "idle"

Limiter == INSTANCE RateLimiter WITH
  Callers <- Requests,
  pc <- [r \in Requests |-> LimiterPc(req[r])]

\* The use cases call the limiter only as its own specification allows, so
\* its bound on the counter holds for the whole service.
LimiterSpec == Limiter!Spec

Initiating(s) ==
  s \notin used \/ \E r \in Requests : req[r].sid = s /\ req[r].pc \in {"incr", "create"}

\* The session in Redis as a client of the API sees it.
Lifecycle == INSTANCE SessionLifecycle WITH
  Sizes <- {d.size : d \in Declarations},
  status <- [s \in SessionIds |->
               IF hash[s] # Null THEN hash[s].status
               ELSE IF Initiating(s) THEN "NONE" ELSE "GONE"],
  offset <- [s \in SessionIds |-> IF hash[s] # Null THEN hash[s].offset ELSE 0],
  size <- [s \in SessionIds |-> IF hash[s] # Null THEN hash[s].size ELSE 0]

\* Requests that do not overlap take a session through its documented life
\* cycle, even when calls fail or a worker dies between two of them.
LifecycleSpec == Lifecycle!Spec

\* Every request is answered.
RequestsEnd == \A r \in Requests : (req[r] # Idle) ~> (req[r] = Idle)

\* A completion that dies between any two of its steps can be repeated: the
\* object it left in S3, the event it published and the half-written session
\* never keep an upload for ever in the state where it can be completed.
CompletionEnds ==
  \A s \in SessionIds :
    (hash[s] # Null /\ Completable(hash[s])) ~>
      (hash[s] = Null \/ IsTerminal(hash[s]))

\* However PATCHes fail, are repeated and race with each other and with
\* aborts and completions, a client that keeps resuming brings a session to
\* its last byte, unless the session ends before.
UploadConverges ==
  \A s \in SessionIds :
    (hash[s] # Null) ~>
      (hash[s] = Null \/ IsTerminal(hash[s]) \/ hash[s].offset = hash[s].size)
============================================================================
