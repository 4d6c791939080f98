---------------------------- MODULE UploadRoutes ----------------------------
(***************************************************************************)
(* The HTTP layer over UploadService: what each of the four routes answers *)
(* to every way its use case can end.  A SessionNotFoundError makes PATCH  *)
(* and DELETE read the session once more, to tell an expired session from  *)
(* one that never was; HEAD makes the same two reads.                      *)
(*                                                                         *)
(* Answers are status codes; the two bodies of a 404 are told apart.       *)
(* Headers and authentication are checked before anything is read, see     *)
(* Authentication, and a request refused there (401, 403, 413, 415, 422)   *)
(* does not appear here.                                                   *)
(***************************************************************************)
EXTENDS UploadService

VARIABLES
  call,    \* the HTTP request handler r has, or had last
  gone     \* history: sessions reported as missing or deleted

routeVars == <<call, gone>>
allVars == <<vars, routeVars>>

Routes == {"none", "POST", "PATCH", "DELETE", "HEAD"}
Codes == {"none", "200", "201", "204", "404 expired", "404", "409", "410",
          "413", "422", "429", "460", "500", "503"}
Success == {"200", "201", "204"}

\* use_case: inside the use case; lookup and meta: the two reads of
\* get_session_with_expiry_info; done: answered, or never used.  before is
\* the stored session when the request arrived.
Call == [step : {"done", "use_case", "lookup", "meta"}, route : Routes,
         sid : SessionIds \cup {Null}, code : Codes,
         before : UploadSessions \cup {Null}]

NoCall == [step |-> "done", route |-> "none", sid |-> Null, code |-> "none",
           before |-> Null]

RoutesInit ==
  /\ Init
  /\ call = [r \in Requests |-> NoCall]
  /\ gone = {}

----------------------------------------------------------------------------
(* Answers *)

\* Mutant of Begin: a request whose session is missing stays in the use case.
MutantNoLookup(r, route, s, step) ==
  /\ call' = [call EXCEPT ![r] =
                [step |-> "use_case", route |-> route, sid |-> s, code |-> "none",
                 before |-> hash[s]]]
  /\ UNCHANGED gone

\* Request r of this route for session s is being handled.
Begin(r, route, s, step) ==
  /\ call' = [call EXCEPT ![r] =
                [step |-> step, route |-> route, sid |-> s, code |-> "none",
                 before |-> hash[s]]]
  /\ UNCHANGED gone

\* Mutant of Continue: a session that is not found is read again.
MutantReadAgain(r, step) ==
  /\ call' = [call EXCEPT ![r].step = "lookup"]
  /\ UNCHANGED gone

Continue(r, step) ==
  /\ call' = [call EXCEPT ![r].step = step]
  /\ UNCHANGED gone

\* The client learns that the session is not there any more.
ReportsGone(route, code) ==
  code \in {"404", "404 expired"} \/ (route = "DELETE" /\ code = "204")

Answered(r, route, s, code, before) ==
  /\ call' = [call EXCEPT ![r] =
                [step |-> "done", route |-> route, sid |-> s, code |-> code,
                 before |-> before]]
  /\ gone' = IF ReportsGone(route, code) THEN gone \cup {s} ELSE gone

\* An answer after the first read, which changed nothing.
Refuse(r, route, s, code) == Answered(r, route, s, code, hash[s])

Finish(r, code) ==
  Answered(r, call[r].route, call[r].sid, code, call[r].before)

Free(r) == req[r] = Idle /\ call[r].step = "done"

----------------------------------------------------------------------------
(* POST /v1/uploads *)

Post(r) ==
  /\ Free(r)
  /\ \E s \in SessionIds, d \in Declarations :
       InitiateCheck(r, s, d) /\ Begin(r, "POST", s, "use_case")

\* The request is not valid, or the counter is at the limit.
PostRefused(r, d) ==
  /\ "initiate" \in Ops
  /\ Free(r)
  /\ \/ ~ValidRequest(d) /\ Answered(r, "POST", Null,
                              IF d.size > MaxSize THEN "413" ELSE "422", Null)
     \/ /\ ValidRequest(d) /\ ~BelowLimit(count)
        /\ Answered(r, "POST", Null, "429", Null)
  /\ UNCHANGED vars

----------------------------------------------------------------------------
(* PATCH /v1/uploads/{id} *)

Patch(r) ==
  /\ Free(r)
  /\ \E s \in SessionIds : \E p \in Patches[s] :
       ChunkGet(r, s, p) /\ Begin(r, "PATCH", s, "use_case")

\* ProcessChunkRequest refuses an empty body.  The route builds it before the
\* use case runs and outside of its try, so that nothing is read and the
\* ValueError leaves the route.
EmptyBody(p) == p.data = <<>>

\* The exception of ProcessChunk's checks, in their order.
\* InvalidSessionStateError has no handler of its own.
PatchError(u, p) ==
  IF IsTerminal(u) THEN "500"
  ELSE IF p.offset # u.offset THEN "409"
  ELSE IF Len(p.data) > MaxChunk THEN "422"
  ELSE "460"

\* A 409 carries the expected offset.
PatchRefused(r, s, p) ==
  /\ "chunk" \in Ops
  /\ Free(r)
  /\ s \in used
  /\ \/ /\ EmptyBody(p)
        /\ Refuse(r, "PATCH", s, "500")
        /\ UNCHANGED told
     \/ /\ ~EmptyBody(p)
        /\ ~Found(s)
        /\ Begin(r, "PATCH", s, "lookup")
        /\ UNCHANGED told
     \/ /\ ~EmptyBody(p)
        /\ Found(s) /\ ~AcceptsChunk(hash[s], p)
        /\ Refuse(r, "PATCH", s, PatchError(hash[s], p))
        /\ IF PatchError(hash[s], p) = "409" THEN Tell(s, hash[s].offset)
           ELSE UNCHANGED told
  /\ UNCHANGED <<redis, object, published, req, used, lapsed, faults>>

----------------------------------------------------------------------------
(* DELETE and HEAD /v1/uploads/{id} *)

Delete(r) ==
  /\ Free(r)
  /\ \E s \in SessionIds : AbortGet(r, s) /\ Begin(r, "DELETE", s, "use_case")

\* AbortUpload treats a session that has ended like one that is missing.
DeleteRefused(r, s) ==
  /\ "abort" \in Ops
  /\ Free(r)
  /\ s \in used
  /\ ~(Found(s) /\ Abortable(hash[s]))
  /\ Begin(r, "DELETE", s, "lookup")
  /\ UNCHANGED vars

HeadUpload(r, s) ==
  /\ "head" \in Ops
  /\ Free(r)
  /\ s \in used
  /\ Begin(r, "HEAD", s, "lookup")
  /\ UNCHANGED vars

\* The first read of a use case raises.
FirstReadFails(r, route, s) ==
  /\ Free(r)
  /\ "error" \in FaultKinds
  /\ Spend("error")
  /\ \/ route = "POST" /\ s = Null /\ Answered(r, "POST", Null, "503", Null)
     \/ route \in {"PATCH", "DELETE"} /\ s \in used /\ Refuse(r, route, s, "503")
  /\ UNCHANGED <<redis, object, published, req, used, lapsed, told>>

\* An error of the reads is handled by HEAD only; in PATCH and DELETE it
\* leaves the handler of another exception.
LookupError(route) == IF route = "HEAD" THEN "503" ELSE "500"

\* A session is there: HEAD reports it, the other two had taken it for
\* missing.  Offsets beyond the size, a 500 in HEAD, are not stored.
LookupFound(route, u) ==
  IF route # "HEAD" THEN "404" ELSE IF IsTerminal(u) THEN "410" ELSE "200"

\* get_session_with_expiry_info: HGETALL of the session ...
Lookup(r, o) ==
  LET c == call[r]
      code == LookupFound(c.route, hash[c.sid])
  IN
  /\ c.step = "lookup"
  /\ Spend(o)
  /\ IF Raises(o) THEN Finish(r, LookupError(c.route)) /\ UNCHANGED told
     ELSE IF Found(c.sid)
       THEN /\ Finish(r, code)
            /\ IF code = "200" THEN Tell(c.sid, hash[c.sid].offset)
               ELSE UNCHANGED told
     ELSE Continue(r, "meta") /\ UNCHANGED told
  /\ UNCHANGED <<redis, object, published, req, used, lapsed>>

\* ... and of its expiry metadata.
LookupMeta(r, o) ==
  LET c == call[r] IN
  /\ c.step = "meta"
  /\ Spend(o)
  /\ Finish(r, IF Raises(o) THEN LookupError(c.route)
               ELSE IF meta[c.sid] THEN "404 expired" ELSE "404")
  /\ UNCHANGED <<redis, object, published, req, used, lapsed, told>>

----------------------------------------------------------------------------
(* The end of a use case *)

\* Mutant of Succeeds: an error after the session was stored fails the
\* request.
MutantLateError(h, o) ==
  /\ h.caller # "initfail"
  /\ h.pc \in {"decr", "zero"} \/ (~Raises(o) /\ h.pc = "create")

\* execute returned: the session is created, the chunk saved, or the session
\* deleted (whatever became of the decrement).
Succeeds(h, o) ==
  /\ h.caller # "initfail"
  /\ h.pc \in {"decr", "zero"} \/ (~Raises(o) /\ h.pc \in {"create", "hset"})

\* The route's answer when handler h ends with outcome o.  An overrun is a
\* ValueError, raised after the bytes were stored.
UseCaseCode(route, h, o) ==
  IF Succeeds(h, o) THEN IF route = "POST" THEN "201" ELSE "204"
  ELSE IF h.pc = "set" /\ ~Raises(o) THEN "422"
  ELSE "503"

\* update_session found no session.
SessionVanished(h, o) == h.pc = "probe" /\ ~Raises(o)

\* A step of the use case; when it ends, the route answers or looks up why
\* the session is missing.
UseCaseStep(r, o) ==
  /\ HandlerStep(r, o)
  /\ IF req'[r] # Idle \/ call[r].step # "use_case" THEN UNCHANGED routeVars
     ELSE IF SessionVanished(req[r], o) THEN Continue(r, "lookup")
     ELSE Finish(r, UseCaseCode(call[r].route, req[r], o))

\* The worker dies and nobody is answered.
CrashUnanswered(r) ==
  /\ Crash(r)
  /\ call' = [call EXCEPT ![r] = NoCall]
  /\ UNCHANGED gone

\* CompleteUpload has no route in this commit.
CompleteUnrouted(r) ==
  /\ Free(r)
  /\ \E s \in SessionIds : CompleteGet(r, s)
  /\ UNCHANGED routeVars

RoutesNext ==
  \/ \E r \in Requests :
       \/ Post(r) \/ Patch(r) \/ Delete(r) \/ CompleteUnrouted(r)
       \/ \E d \in Declarations : PostRefused(r, d)
       \/ \E s \in SessionIds : \E p \in Patches[s] : PatchRefused(r, s, p)
       \/ \E s \in SessionIds : DeleteRefused(r, s) \/ HeadUpload(r, s)
       \/ \E route \in Routes, s \in SessionIds \cup {Null} : FirstReadFails(r, route, s)
       \/ CrashUnanswered(r)
       \/ \E o \in Outcomes : UseCaseStep(r, o) \/ Lookup(r, o) \/ LookupMeta(r, o)
  \/ /\ \/ \E s \in SessionIds : SessionLapses(s) \/ MetaLapses(s)
        \/ \E s \in SessionIds, i \in Indices : ChunkLapses(s, i)
     /\ UNCHANGED routeVars

RoutesSpec == RoutesInit /\ [][RoutesNext]_allVars

\* asyncio resumes a coroutine whose awaited call has returned.
RoutesFairness ==
  \A r \in Requests :
    WF_allVars(\E o \in Outcomes : UseCaseStep(r, o) \/ Lookup(r, o) \/ LookupMeta(r, o))

FairRoutesSpec == RoutesSpec /\ RoutesFairness

----------------------------------------------------------------------------
(* Properties *)

\* The types, and the link between the two layers: a route waits in its use
\* case exactly as long as the handler for the same session runs.
RoutesInv ==
  /\ call \in [Requests -> Call]
  /\ gone \subseteq SessionIds
  /\ \A r \in Requests :
       /\ call[r].step = "use_case" => req[r] # Idle /\ req[r].sid = call[r].sid
       /\ call[r].step \in {"lookup", "meta"} => req[r] = Idle

\* Request r is answered in this step.
Answers(r) == call'[r].step = "done" /\ call'[r].code # "none" /\ call'[r] # call[r]

\* A session that was reported as missing, expired or deleted stays so: a
\* second DELETE is not a 204, and no later request for it succeeds.
GoneStaysGone ==
  [][\A r \in Requests :
       Answers(r) /\ call'[r].code \in Success => call'[r].sid \notin gone]_allVars

\* An error answer to POST, PATCH or HEAD means the stored session is what
\* it was when the request arrived (or has expired since): a client may
\* repeat the request.  DELETE does not promise this, see AbortUpload.
ErrorsChangeNothing ==
  [][\A r \in Requests :
       Answers(r) /\ call'[r].route # "DELETE" /\ call'[r].code \notin Success
         /\ call'[r].sid # Null
       => hash'[call'[r].sid] \in {call'[r].before, Null}]_allVars

\* The two reads made after a session was not found tell the truth although
\* Redis may drop its keys between them: a 404 is never answered for an
\* upload that can still be resumed, and SESSION_EXPIRED only once the
\* session's 24 hours are over.
NotFoundAnswerTrue ==
  [][\A r \in Requests :
       Answers(r) /\ call'[r].code \in {"404", "404 expired"} =>
         /\ call'[r].sid \notin Active'
         /\ call'[r].code = "404 expired" => lapsed[call'[r].sid]]_allVars

\* Every request is answered.
EveryCallAnswered == \A r \in Requests : (call[r].step # "done") ~> (call[r].step = "done")
============================================================================
