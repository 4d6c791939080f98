---------------------------- MODULE RoutesProofs ----------------------------
(***************************************************************************)
(* Theorems about UploadRoutes.  Whatever a route does besides its use     *)
(* case only reads, so the invariants of the service hold under the routes *)
(* too; for any number of handlers a route and its use case stay in step;  *)
(* and the answers to requests that do not overlap are truthful and agree  *)
(* with each other.                                                        *)
(***************************************************************************)
EXTENDS UploadRoutes, SequentialProofs

----------------------------------------------------------------------------
(* Steps of the routes *)

Refusals == {"409", "413", "422", "429", "460", "500", "503"}

\* A route reads without a use case: only a fault or a reported offset is
\* left behind.
Quiet ==
  /\ \E o \in Outcomes : Spend(o)
  /\ told' = told \/ \E s \in SessionIds : hash[s] # Null /\ Tell(s, hash[s].offset)
  /\ UNCHANGED <<redis, object, published, req, used, lapsed>>

\* Handler r's request is now c.
Handles(r, c) == call' = [call EXCEPT ![r] = c]

\* Handler r's request is answered before its use case runs.
Refused(r, c) ==
  /\ Quiet /\ Free(r) /\ Handles(r, c) /\ gone' = gone
  /\ c \in Call /\ c.step = "done" /\ c.code \in Refusals
  /\ c.sid = Null \/ (c.sid \in SessionIds /\ c.before = hash[c.sid])

\* A request for a session that is not there or has ended, or a HEAD, looks
\* the session up.
Looks(r, c) ==
  /\ Quiet /\ Free(r) /\ Handles(r, c) /\ gone' = gone
  /\ c \in Call /\ c.step = "lookup" /\ c.route \in {"PATCH", "DELETE", "HEAD"}
  /\ c.sid \in used /\ c.sid \in SessionIds /\ c.before = hash[c.sid]
  /\ c.route = "HEAD" \/ hash[c.sid] = Null \/ IsTerminal(hash[c.sid])

\* Where the use case of a route can be.
Within(route, h) ==
  \/ /\ route = "POST"
     /\ \/ h.pc \in Early /\ h.caller = "none"
        \/ h.pc \in {"decr", "zero"} /\ h.caller = "initfail"
  \/ /\ route = "PATCH"
     /\ h.pc = "set" \/ (h.pc \in Saving /\ h.caller = "chunk")
  \/ /\ route = "DELETE"
     /\ h.pc \in Saving \cup {"del", "decr", "zero"} /\ h.caller = "abort"

\* A request enters its use case.
Enters(r, c) ==
  /\ Arrive(r) /\ Free(r) /\ Handles(r, c) /\ gone' = gone
  /\ c \in Call /\ c.step = "use_case" /\ c.sid \in SessionIds /\ c.before = hash[c.sid]
  /\ Within(c.route, req'[r]) /\ req'[r].pc \in {"incr", "set", "probe"}
  /\ req'[r].sid = c.sid

\* The first read fails, or its result ends the request.
LEMMA RefusedCases ==
  ASSUME IndInv, NEW r \in Requests,
         \/ \E d \in Declarations : PostRefused(r, d)
         \/ \E s \in SessionIds : \E p \in Patches[s] : PatchRefused(r, s, p)
         \/ \E s \in SessionIds : DeleteRefused(r, s) \/ HeadUpload(r, s)
         \/ \E route \in Routes, s \in SessionIds \cup {Null} : FirstReadFails(r, route, s)
  PROVE  \E c : Refused(r, c) \/ Looks(r, c)
<1>0. /\ hash \in [SessionIds -> UploadSessions \cup {Null}] /\ faults \in 0 .. MaxFaults
      /\ "ok" \in Outcomes /\ MaxFaults \in Nat
  BY ServiceAssumption DEF IndInv, TypeOK, Outcomes
<1>1. UNCHANGED faults => \E o \in Outcomes : Spend(o)
  <2>1. UNCHANGED faults => Spend("ok")
    BY <1>0 DEF Spend, Raises
  <2> QED
    BY <1>0, <2>1
<1>2. UNCHANGED vars => Quiet
  BY <1>1 DEF vars, Quiet, redis
<1>3. ASSUME NEW d \in Declarations, PostRefused(r, d)
      PROVE  \E c : Refused(r, c)
  <2>1. ASSUME NEW code \in {"413", "422", "429"}, Answered(r, "POST", Null, code, Null)
        PROVE  \E c : Refused(r, c)
    <3> DEFINE c == [step |-> "done", route |-> "POST", sid |-> Null, code |-> code,
                     before |-> Null]
    <3>1. c \in Call /\ c.step = "done" /\ c.code \in Refusals /\ c.sid = Null
      BY DEF Call, Refusals, Codes, Routes
    <3>2. Handles(r, c) /\ gone' = gone
      BY <2>1 DEF Answered, ReportsGone, Handles
    <3>3. Quiet /\ Free(r)
      BY <1>2, <1>3 DEF PostRefused
    <3> HIDE DEF c
    <3> QED
      BY <3>1, <3>2, <3>3 DEF Refused
  <2> QED
    BY <1>3, <2>1 DEF PostRefused
<1>4. ASSUME NEW s \in SessionIds, NEW route \in {"PATCH", "DELETE", "HEAD"}, s \in used,
             Free(r), Begin(r, route, s, "lookup"), Quiet,
             route = "HEAD" \/ hash[s] = Null \/ IsTerminal(hash[s])
      PROVE  \E c : Looks(r, c)
  <2>1. PICK u : u = hash[s] /\ u \in UploadSessions \cup {Null}
    BY <1>0
  <2> DEFINE c == [step |-> "lookup", route |-> route, sid |-> s, code |-> "none",
                   before |-> u]
  <2>2. /\ c \in Call /\ c.step = "lookup" /\ c.route = route /\ c.sid = s /\ c.before = u
    BY <2>1 DEF Call, Codes, Routes
  <2>3. Handles(r, c) /\ gone' = gone
    BY <1>4, <2>1 DEF Begin, Handles
  <2> HIDE DEF c
  <2> QED
    BY <1>4, <2>1, <2>2, <2>3 DEF Looks
<1>5. ASSUME NEW s \in SessionIds, NEW route \in {"PATCH", "DELETE"}, NEW code \in Refusals,
             Free(r), Quiet, gone' = gone,
             call' = [call EXCEPT ![r] = [step |-> "done", route |-> route, sid |-> s,
                                          code |-> code, before |-> hash[s]]]
      PROVE  \E c : Refused(r, c)
  <2>1. PICK u : u = hash[s] /\ u \in UploadSessions \cup {Null}
    BY <1>0
  <2> DEFINE c == [step |-> "done", route |-> route, sid |-> s, code |-> code, before |-> u]
  <2>2. /\ c \in Call /\ c.step = "done" /\ c.code \in Refusals /\ c.sid = s /\ c.before = u
    BY <2>1 DEF Call, Codes, Routes, Refusals
  <2>3. Handles(r, c)
    BY <1>5, <2>1 DEF Handles
  <2> HIDE DEF c
  <2> QED
    BY <1>5, <2>1, <2>2, <2>3 DEF Refused
<1>6. ASSUME NEW s \in SessionIds, NEW p \in Patches[s], PatchRefused(r, s, p)
      PROVE  \E c : Refused(r, c) \/ Looks(r, c)
  <2>1. /\ told' = told \/ (hash[s] # Null /\ Tell(s, hash[s].offset))
        /\ UNCHANGED <<redis, object, published, req, used, lapsed, faults>>
    BY <1>6 DEF PatchRefused, Found
  <2>2. Quiet /\ Free(r)
    BY <1>1, <1>6, <2>1 DEF Quiet, PatchRefused
  <2>3. CASE ~EmptyBody(p) /\ ~Found(s)
    BY <1>4, <1>6, <2>2, <2>3 DEF PatchRefused, Found
  <2>5. CASE EmptyBody(p)
    <3>1. "500" \in Refusals
      BY DEF Refusals
    <3>2. /\ gone' = gone
          /\ call' = [call EXCEPT ![r] = [step |-> "done", route |-> "PATCH", sid |-> s,
                                          code |-> "500", before |-> hash[s]]]
      BY <1>6, <2>5 DEF PatchRefused, Refuse, Answered, ReportsGone
    <3> QED
      BY <1>5, <2>2, <3>1, <3>2
  <2>4. CASE ~EmptyBody(p) /\ Found(s)
    <3>1. PICK code \in Refusals : code = PatchError(hash[s], p)
      BY DEF PatchError, Refusals
    <3>2. /\ gone' = gone
          /\ call' = [call EXCEPT ![r] = [step |-> "done", route |-> "PATCH", sid |-> s,
                                          code |-> code, before |-> hash[s]]]
      BY <1>6, <2>4, <3>1 DEF PatchRefused, Refuse, Answered, ReportsGone, Refusals
    <3> QED
      BY <1>5, <2>2, <3>2
  <2> QED
    BY <2>3, <2>4, <2>5
<1>7. ASSUME NEW s \in SessionIds, DeleteRefused(r, s) \/ HeadUpload(r, s)
      PROVE  \E c : Looks(r, c)
  <2>1. CASE DeleteRefused(r, s)
    BY <1>2, <1>4, <2>1 DEF DeleteRefused, Found, Abortable
  <2>2. CASE HeadUpload(r, s)
    BY <1>2, <1>4, <2>2 DEF HeadUpload
  <2> QED
    BY <1>7, <2>1, <2>2
<1>8. ASSUME NEW route \in Routes, NEW s \in SessionIds \cup {Null}, FirstReadFails(r, route, s)
      PROVE  \E c : Refused(r, c)
  <2>1. Quiet /\ Free(r)
    <3>1. "error" \in Outcomes
      BY <1>8 DEF FirstReadFails, Outcomes
    <3> QED
      BY <1>8, <3>1 DEF FirstReadFails, Quiet
  <2>2. CASE s = Null /\ Answered(r, "POST", Null, "503", Null)
    <3> DEFINE c == [step |-> "done", route |-> "POST", sid |-> Null, code |-> "503",
                     before |-> Null]
    <3>1. c \in Call /\ c.step = "done" /\ c.code \in Refusals /\ c.sid = Null
      BY DEF Call, Refusals, Codes, Routes
    <3>2. Handles(r, c) /\ gone' = gone
      BY <2>2 DEF Answered, ReportsGone, Handles
    <3> HIDE DEF c
    <3> QED
      BY <2>1, <3>1, <3>2 DEF Refused
  <2>3. CASE route \in {"PATCH", "DELETE"} /\ s \in used /\ Refuse(r, route, s, "503")
    <3>1. s \in SessionIds /\ "503" \in Refusals
      BY <2>3 DEF IndInv, TypeOK, Refusals
    <3>2. /\ gone' = gone
          /\ call' = [call EXCEPT ![r] = [step |-> "done", route |-> route, sid |-> s,
                                          code |-> "503", before |-> hash[s]]]
      BY <2>3 DEF Refuse, Answered, ReportsGone
    <3> QED
      BY <1>5, <2>1, <2>3, <3>1, <3>2
  <2> QED
    BY <1>8, <2>2, <2>3 DEF FirstReadFails
<1> QED
  BY <1>3, <1>6, <1>7, <1>8

\* The first read lets the request into its use case.
LEMMA EntersCases ==
  ASSUME IndInv, NEW r \in Requests, Post(r) \/ Patch(r) \/ Delete(r)
  PROVE  \E c : Enters(r, c)
<1>0. hash \in [SessionIds -> UploadSessions \cup {Null}] /\ req \in [Requests -> Handler]
  BY DEF IndInv, TypeOK
<1>1. ASSUME NEW s \in SessionIds, NEW route \in {"POST", "PATCH", "DELETE"}, NEW g,
             Begin(r, route, s, "use_case"), Become(r, g), g.sid = s, Within(route, g),
             g.pc \in {"incr", "set", "probe"}, Arrive(r), Free(r)
      PROVE  \E c : Enters(r, c)
  <2>1. PICK u : u = hash[s] /\ u \in UploadSessions \cup {Null}
    BY <1>0
  <2> DEFINE c == [step |-> "use_case", route |-> route, sid |-> s, code |-> "none",
                   before |-> u]
  <2>2. /\ c \in Call /\ c.step = "use_case" /\ c.route = route /\ c.sid = s /\ c.before = u
    BY <2>1 DEF Call, Codes, Routes
  <2>3. Handles(r, c) /\ gone' = gone
    BY <1>1, <2>1 DEF Begin, Handles
  <2>4. req'[r] = g
    BY <1>0, <1>1 DEF Become
  <2> HIDE DEF c
  <2> QED
    BY <1>1, <2>1, <2>2, <2>3, <2>4 DEF Enters
<1>2. CASE Post(r)
  <2>1. PICK s \in SessionIds, d \in Declarations :
          InitiateCheck(r, s, d) /\ Begin(r, "POST", s, "use_case")
    BY <1>2 DEF Post
  <2> DEFINE g == [Idle EXCEPT !.pc = "incr", !.sid = s, !.loc = NewSession(d.size, d.sha256)]
  <2>2. g.pc = "incr" /\ g.sid = s /\ g.caller = "none"
    BY DEF Idle
  <2>3. Become(r, g) /\ Arrive(r) /\ Free(r)
    BY <1>2, <2>1 DEF InitiateCheck, Arrive, PostUploads, Post
  <2> HIDE DEF g
  <2>4. Within("POST", g)
    BY <2>2 DEF Within, Early
  <2> QED
    BY <1>1, <2>1, <2>2, <2>3, <2>4
<1>3. CASE Patch(r)
  <2>1. PICK s \in SessionIds : \E p \in Patches[s] :
          ChunkGet(r, s, p) /\ Begin(r, "PATCH", s, "use_case")
    BY <1>3 DEF Patch
  <2>2. PICK p \in Patches[s] : ChunkGet(r, s, p) /\ Begin(r, "PATCH", s, "use_case")
    BY <2>1
  <2>3. PICK u : u = hash[s]
    OBVIOUS
  <2> DEFINE g == [Idle EXCEPT !.pc = "set", !.sid = s, !.loc = u, !.data = p.data]
  <2>4. g.pc = "set" /\ g.sid = s
    BY DEF Idle
  <2>5. Become(r, g) /\ Arrive(r) /\ Free(r)
    BY <1>3, <2>2, <2>3 DEF ChunkGet, Arrive, PatchUpload, Patch
  <2> HIDE DEF g
  <2>6. Within("PATCH", g)
    BY <2>4 DEF Within
  <2> QED
    BY <1>1, <2>2, <2>4, <2>5, <2>6
<1>4. CASE Delete(r)
  <2>1. PICK s \in SessionIds : AbortGet(r, s) /\ Begin(r, "DELETE", s, "use_case")
    BY <1>4 DEF Delete
  <2>2. PICK u : u = MarkAborted(hash[s])
    OBVIOUS
  <2> DEFINE g == [Save(Idle, u, "abort") EXCEPT !.sid = s]
  <2>3. g.pc = "probe" /\ g.sid = s /\ g.caller = "abort"
    BY DEF Idle, Save
  <2>4. Become(r, g) /\ Arrive(r) /\ Free(r)
    BY <1>4, <2>1, <2>2 DEF AbortGet, Arrive, DeleteUpload, Delete
  <2> HIDE DEF g
  <2>5. Within("DELETE", g)
    BY <2>3 DEF Within, Saving
  <2> QED
    BY <1>1, <2>1, <2>3, <2>4, <2>5
<1> QED
  BY <1>2, <1>3, <1>4

----------------------------------------------------------------------------
(* A route and its use case *)

\* What holds of handler h while its request is c.
Attends(c, h) ==
  /\ c.step = "use_case" => h.sid = c.sid /\ Within(c.route, h)
  /\ c.step \in {"lookup", "meta"} =>
       h = Idle /\ c.sid \in SessionIds /\ c.route \in {"PATCH", "DELETE", "HEAD"}

AttendInv ==
  /\ call \in [Requests -> Call]
  /\ gone \subseteq SessionIds
  /\ \A r \in Requests : Attends(call[r], req[r])

\* A use case that does not end stays within its route's part of the code.
LEMMA StaysWithin ==
  ASSUME IndInv, NEW r \in Requests, NEW o \in Outcomes, HandlerStep(r, o),
         NEW route, Within(route, req[r]), req'[r] # Idle
  PROVE  req'[r].sid = req[r].sid /\ Within(route, req'[r])
<1> DEFINE h == req[r]
<1>1. h \in Handler /\ req \in [Requests -> Handler]
  BY DEF IndInv, TypeOK
<1>2. \A g : Become(r, g) => req'[r] = g
  BY <1>1 DEF Become
<1>3. \A p \in PCs : LET g == [h EXCEPT !.pc = p]
                     IN  g.pc = p /\ g.sid = h.sid /\ g.caller = h.caller
  BY <1>1 DEF Handler
<1>4. {"create", "hset", "del", "decr", "zero", "register"} \subseteq PCs
  BY DEF PCs
<1>5. CASE InitiateIncrement(r, o)
  <2>1. h.pc = "incr" /\ req'[r] = [h EXCEPT !.pc = "create"]
    BY <1>2, <1>5 DEF InitiateIncrement
  <2>2. req'[r].pc = "create" /\ req'[r].sid = h.sid /\ req'[r].caller = h.caller
    BY <1>3, <1>4, <2>1
  <2> QED
    BY <2>1, <2>2 DEF Within, Early, Saving
<1>6. CASE InitiateCreate(r, o)
  <2>1. h.pc = "create" /\ req'[r] = [h EXCEPT !.pc = "decr", !.caller = "initfail"]
    BY <1>2, <1>6 DEF InitiateCreate
  <2>2. req'[r].pc = "decr" /\ req'[r].sid = h.sid /\ req'[r].caller = "initfail"
    BY <1>1, <2>1 DEF Handler
  <2> QED
    BY <2>1, <2>2 DEF Within, Early, Saving
<1>7. CASE ChunkSet(r, o)
  <2>1. h.pc = "set" /\ \E u : req'[r] = Save(h, u, "chunk")
    BY <1>2, <1>7 DEF ChunkSet
  <2>2. req'[r].pc = "probe" /\ req'[r].sid = h.sid /\ req'[r].caller = "chunk"
    BY <1>1, <2>1 DEF Handler, Save
  <2> QED
    BY <2>1, <2>2 DEF Within, Early, Saving
<1>8. CASE UpdateProbe(r, o) \/ UpdateHset(r, o)
  <2>1. h.pc \in Saving /\ h.caller \in {"chunk", "abort"}
    BY <1>8 DEF Within, UpdateProbe, UpdateHset, Early, Saving
  <2>2. \A result : \/ AfterUpdate(h, result) = Idle
                    \/ /\ h.caller = "abort"
                       /\ AfterUpdate(h, result) = [h EXCEPT !.pc = "del"]
    BY <2>1 DEF AfterUpdate, ReachesFailHandler
  <2>3. \/ req'[r] = [h EXCEPT !.pc = "hset"]
        \/ h.caller = "abort" /\ req'[r] = [h EXCEPT !.pc = "del"]
    BY <1>2, <1>8, <2>2 DEF UpdateProbe, UpdateHset
  <2>4. \E p \in {"hset", "del"} : /\ req'[r] = [h EXCEPT !.pc = p]
                                   /\ p = "del" => h.caller = "abort"
    BY <2>3
  <2>5. /\ req'[r].sid = h.sid /\ req'[r].caller = h.caller
        /\ req'[r].pc = "hset" \/ (h.caller = "abort" /\ req'[r].pc = "del")
    BY <1>3, <1>4, <2>4
  <2> QED
    BY <2>1, <2>5 DEF Within, Early, Saving
<1>9. CASE DeleteSession(r, o)
  <2>1. h.pc = "del" /\ req'[r] = [h EXCEPT !.pc = "decr"]
    BY <1>2, <1>9 DEF DeleteSession
  <2>2. req'[r].pc = "decr" /\ req'[r].sid = h.sid /\ req'[r].caller = h.caller
    BY <1>3, <1>4, <2>1
  <2> QED
    BY <2>1, <2>2 DEF Within, Early, Saving
<1>10. CASE DecrementHincrby(r, o) \/ DecrementZero(r, o)
  <2>1. h.pc \in {"decr", "zero"} /\ h.caller # "complete"
    BY <1>10 DEF Within, DecrementHincrby, DecrementZero, Early, Saving
  <2>2. req'[r] = [h EXCEPT !.pc = "zero"]
    BY <1>2, <1>10, <2>1 DEF DecrementHincrby, DecrementZero, AfterDecrement
  <2>3. req'[r].pc = "zero" /\ req'[r].sid = h.sid /\ req'[r].caller = h.caller
    BY <1>3, <1>4, <2>2
  <2> QED
    BY <2>1, <2>3 DEF Within, Early, Saving
<1>11. ~ \/ RetrieveChunk(r, o) \/ CheckFileExists(r, o) \/ AssembleFile(r, o)
         \/ DeleteCorrupt(r, o) \/ CheckDuplicate(r, o) \/ PublishEvent(r, o)
         \/ RegisterFile(r, o) \/ CleanupChunk(r, o)
  BY DEF Within, Early, Saving, RetrieveChunk, CheckFileExists, AssembleFile, DeleteCorrupt,
         CheckDuplicate, PublishEvent, RegisterFile, CleanupChunk
<1> QED
  BY <1>5, <1>6, <1>7, <1>8, <1>9, <1>10, <1>11 DEF HandlerStep

\* Handler r's request is answered as c says.
Ends(r, c) ==
  /\ Handles(r, c)
  /\ c \in Call /\ c.step = "done"
  /\ c.route = call[r].route /\ c.sid = call[r].sid /\ c.before = call[r].before
  /\ gone' = IF ReportsGone(c.route, c.code) THEN gone \cup {c.sid} ELSE gone

LEMMA FinishEnds ==
  ASSUME AttendInv, NEW r \in Requests, NEW code \in Codes, Finish(r, code)
  PROVE  \E c : Ends(r, c) /\ c.code = code
<1>1. PICK d \in Call : d = call[r]
  BY DEF AttendInv
<1> DEFINE c == [step |-> "done", route |-> d.route, sid |-> d.sid, code |-> code,
                 before |-> d.before]
<1>2. /\ c \in Call /\ c.step = "done" /\ c.route = d.route /\ c.sid = d.sid
      /\ c.before = d.before /\ c.code = code
  BY DEF Call
<1>3. /\ Handles(r, c)
      /\ gone' = IF ReportsGone(d.route, code) THEN gone \cup {d.sid} ELSE gone
  BY <1>1 DEF Finish, Answered, Handles
<1> HIDE DEF c
<1> QED
  BY <1>1, <1>2, <1>3 DEF Ends

\* A request whose handling goes on with another read.
Proceeds(r, c, step) ==
  /\ Handles(r, c) /\ gone' = gone
  /\ c \in Call /\ c.step = step
  /\ c.route = call[r].route /\ c.sid = call[r].sid /\ c.before = call[r].before

LEMMA ContinueProceeds ==
  ASSUME AttendInv, NEW r \in Requests, NEW step \in {"lookup", "meta"}, Continue(r, step)
  PROVE  \E c : Proceeds(r, c, step)
<1>1. PICK d \in Call : d = call[r]
  BY DEF AttendInv
<1> DEFINE c == [d EXCEPT !.step = step]
<1>2. /\ c \in Call /\ c.step = step /\ c.route = d.route /\ c.sid = d.sid
      /\ c.before = d.before
  BY DEF Call
<1>3. Handles(r, c) /\ gone' = gone
  BY <1>1 DEF Continue, Handles, AttendInv
<1> HIDE DEF c
<1> QED
  BY <1>1, <1>2, <1>3 DEF Proceeds

\* The first read of the look-up.
LookupEnds(r, c) ==
  /\ Ends(r, c)
  /\ \/ c.code \in {"410", "500", "503"}
     \/ c.code = "404" /\ c.route # "HEAD"
     \/ c.code = "200" /\ hash[c.sid] # Null /\ ~IsTerminal(hash[c.sid])

LEMMA LookupCases ==
  ASSUME IndInv, AttendInv, NEW r \in Requests, NEW o \in Outcomes, Lookup(r, o)
  PROVE  /\ Quiet /\ call[r].step = "lookup" /\ req[r] = Idle /\ call[r].sid \in SessionIds
         /\ \E c : \/ LookupEnds(r, c)
                   \/ Proceeds(r, c, "meta") /\ hash[c.sid] = Null
<1>1. PICK d \in Call : d = call[r]
  BY DEF AttendInv
<1>2. d.step = "lookup" /\ req[r] = Idle /\ d.sid \in SessionIds
  BY <1>1 DEF Lookup, AttendInv, Attends
<1>3. told' = told \/ (hash[d.sid] # Null /\ Tell(d.sid, hash[d.sid].offset))
  BY <1>1 DEF Lookup, Found
<1>4. Spend(o) /\ UNCHANGED <<redis, object, published, req, used, lapsed>>
  BY DEF Lookup
<1>5. Quiet
  BY <1>2, <1>3, <1>4 DEF Quiet
<1>6. CASE Raises(o)
  <2>1. PICK code \in {"500", "503"} : code = LookupError(d.route)
    BY DEF LookupError
  <2>2. Finish(r, code) /\ code \in Codes
    BY <1>1, <1>6, <2>1 DEF Lookup, Codes
  <2>3. PICK c : Ends(r, c) /\ c.code = code
    BY <2>2, FinishEnds
  <2> QED
    BY <1>1, <1>2, <1>5, <2>1, <2>3 DEF LookupEnds
<1>7. CASE ~Raises(o) /\ Found(d.sid)
  <2>1. PICK code \in {"404", "410", "200"} : code = LookupFound(d.route, hash[d.sid])
    BY DEF LookupFound
  <2>2. Finish(r, code) /\ code \in Codes
    BY <1>1, <1>7, <2>1 DEF Lookup, Codes
  <2>3. PICK c : Ends(r, c) /\ c.code = code
    BY <2>2, FinishEnds
  <2>4. c.sid = d.sid /\ c.route = d.route
    BY <1>1, <2>3 DEF Ends
  <2>5. /\ code = "404" => d.route # "HEAD"
        /\ code = "200" => ~IsTerminal(hash[d.sid])
    BY <2>1 DEF LookupFound
  <2>6. LookupEnds(r, c)
    BY <1>7, <2>1, <2>3, <2>4, <2>5 DEF LookupEnds, Found
  <2> QED
    BY <1>1, <1>2, <1>5, <2>6
<1>8. CASE ~Raises(o) /\ ~Found(d.sid)
  <2>1. Continue(r, "meta")
    BY <1>1, <1>8 DEF Lookup
  <2>2. PICK c : Proceeds(r, c, "meta")
    BY <2>1, ContinueProceeds
  <2>3. hash[c.sid] = Null
    BY <1>1, <1>8, <2>2 DEF Proceeds, Found
  <2> QED
    BY <1>1, <1>2, <1>5, <2>2, <2>3
<1> QED
  BY <1>6, <1>7, <1>8

\* The second read of the look-up.
MetaEnds(r, c) ==
  /\ Ends(r, c)
  /\ \/ c.code \in {"404", "500", "503"}
     \/ c.code = "404 expired" /\ meta[c.sid]

LEMMA MetaCases ==
  ASSUME IndInv, AttendInv, NEW r \in Requests, NEW o \in Outcomes, LookupMeta(r, o)
  PROVE  /\ Quiet /\ call[r].step = "meta" /\ req[r] = Idle /\ call[r].sid \in SessionIds
         /\ \E c : MetaEnds(r, c)
<1>1. PICK d \in Call : d = call[r]
  BY DEF AttendInv
<1>2. d.step = "meta" /\ req[r] = Idle /\ d.sid \in SessionIds
  BY <1>1 DEF LookupMeta, AttendInv, Attends
<1>3. Spend(o) /\ UNCHANGED <<redis, object, published, req, used, lapsed, told>>
  BY DEF LookupMeta
<1>4. Quiet
  BY <1>3 DEF Quiet
<1>5. PICK code \in {"404", "404 expired", "500", "503"} :
        code = IF Raises(o) THEN LookupError(d.route)
               ELSE IF meta[d.sid] THEN "404 expired" ELSE "404"
  BY DEF LookupError
<1>6. Finish(r, code) /\ code \in Codes
  BY <1>1, <1>5 DEF LookupMeta, Codes
<1>7. PICK c : Ends(r, c) /\ c.code = code
  BY <1>6, FinishEnds
<1>8. c.sid = d.sid
  BY <1>1, <1>7 DEF Ends
<1>9. code = "404 expired" => meta[d.sid]
  BY <1>5 DEF LookupError
<1>10. MetaEnds(r, c)
  BY <1>5, <1>7, <1>8, <1>9 DEF MetaEnds
<1> QED
  BY <1>1, <1>2, <1>4, <1>10

\* The use case of handler r's request ends with outcome o.
UseCaseEnds(r, o, c) ==
  /\ call[r].step = "use_case" /\ req'[r] = Idle
  /\ \/ SessionVanished(req[r], o) /\ Proceeds(r, c, "lookup")
     \/ /\ ~SessionVanished(req[r], o) /\ Ends(r, c)
        /\ c.code = UseCaseCode(call[r].route, req[r], o)

LEMMA UseCaseCases ==
  ASSUME AttendInv, NEW r \in Requests, NEW o \in Outcomes, UseCaseStep(r, o)
  PROVE  /\ HandlerStep(r, o)
         /\ \/ UNCHANGED routeVars /\ (req'[r] # Idle \/ call[r].step # "use_case")
            \/ \E c : UseCaseEnds(r, o, c)
<1>1. HandlerStep(r, o)
  BY DEF UseCaseStep
<1>2. CASE req'[r] # Idle \/ call[r].step # "use_case"
  BY <1>1, <1>2 DEF UseCaseStep
<1>3. CASE req'[r] = Idle /\ call[r].step = "use_case" /\ SessionVanished(req[r], o)
  <2>1. Continue(r, "lookup")
    BY <1>3 DEF UseCaseStep
  <2>2. PICK c : Proceeds(r, c, "lookup")
    BY <2>1, ContinueProceeds
  <2> QED
    BY <1>1, <1>3, <2>2 DEF UseCaseEnds
<1>4. CASE req'[r] = Idle /\ call[r].step = "use_case" /\ ~SessionVanished(req[r], o)
  <2>1. PICK code \in {"201", "204", "422", "503"} :
          code = UseCaseCode(call[r].route, req[r], o)
    BY DEF UseCaseCode
  <2>2. Finish(r, code) /\ code \in Codes
    BY <1>4, <2>1 DEF UseCaseStep, Codes
  <2>3. PICK c : Ends(r, c) /\ c.code = code
    BY <2>2, FinishEnds
  <2> QED
    BY <1>1, <1>4, <2>1, <2>3 DEF UseCaseEnds
<1> QED
  BY <1>2, <1>3, <1>4

----------------------------------------------------------------------------
(* The routes keep what the service keeps *)

\* The keys of a session expire.
Lapse ==
  \/ \E s \in SessionIds : SessionLapses(s) \/ MetaLapses(s)
  \/ \E s \in SessionIds, i \in Indices : ChunkLapses(s, i)

\* The steps of the routes, by what they do to the request.
LEMMA RouteCases ==
  ASSUME IndInv, AttendInv, RoutesNext
  PROVE  \/ \E r \in Requests : \E c : Refused(r, c) \/ Looks(r, c) \/ Enters(r, c)
         \/ \E r \in Requests : CompleteUnrouted(r) \/ CrashUnanswered(r)
         \/ \E r \in Requests, o \in Outcomes :
              UseCaseStep(r, o) \/ Lookup(r, o) \/ LookupMeta(r, o)
         \/ Lapse /\ UNCHANGED routeVars
<1>1. ASSUME NEW r \in Requests,
             \/ \E d \in Declarations : PostRefused(r, d)
             \/ \E s \in SessionIds : \E p \in Patches[s] : PatchRefused(r, s, p)
             \/ \E s \in SessionIds : DeleteRefused(r, s) \/ HeadUpload(r, s)
             \/ \E route \in Routes, s \in SessionIds \cup {Null} : FirstReadFails(r, route, s)
      PROVE  \E c : Refused(r, c) \/ Looks(r, c)
  BY <1>1, RefusedCases
<1>2. ASSUME NEW r \in Requests, Post(r) \/ Patch(r) \/ Delete(r)
      PROVE  \E c : Enters(r, c)
  BY <1>2, EntersCases
<1> QED
  BY <1>1, <1>2 DEF RoutesNext, Lapse

LEMMA LapseNext ==
  ASSUME Lapse
  PROVE  Next /\ UNCHANGED <<req, used>>
<1>1. Environment
  BY DEF Lapse, Environment
<1>2. UNCHANGED <<req, used>>
  BY DEF Lapse, SessionLapses, MetaLapses, ChunkLapses
<1> QED
  BY <1>1, <1>2 DEF Next

\* Every step of the routes is a step of the service or only reads.
LEMMA Embeds ==
  ASSUME IndInv, AttendInv, [RoutesNext]_allVars
  PROVE  [Next]_vars \/ Quiet
<1>1. ASSUME NEW r \in Requests, NEW c, Refused(r, c) \/ Looks(r, c) \/ Enters(r, c)
      PROVE  [Next]_vars \/ Quiet
  BY <1>1 DEF Refused, Looks, Enters, Next
<1>2. ASSUME NEW r \in Requests, CompleteUnrouted(r) \/ CrashUnanswered(r)
      PROVE  Next
  BY <1>2 DEF CompleteUnrouted, CrashUnanswered, Next, Arrive, Environment
<1>3. ASSUME NEW r \in Requests, NEW o \in Outcomes,
             UseCaseStep(r, o) \/ Lookup(r, o) \/ LookupMeta(r, o)
      PROVE  Next \/ Quiet
  <2>1. CASE UseCaseStep(r, o)
    BY <2>1 DEF UseCaseStep, Next
  <2> QED
    BY <1>3, <2>1, LookupCases, MetaCases
<1>4. CASE UNCHANGED allVars
  BY <1>4 DEF allVars
<1>5. CASE RoutesNext
  BY <1>1, <1>2, <1>3, <1>5, RouteCases, LapseNext
<1> QED
  BY <1>4, <1>5

LEMMA QuietKeeps ==
  ASSUME IndInv, Quiet
  PROVE  IndInv' /\ (ExpiryInv => ExpiryInv')
<1>1. ExpiryInv => ExpiryInv'
  BY DEF Quiet, redis, ExpiryInv, SessionExpiryOK, EarlyOK
<1>2. faults' \in 0 .. MaxFaults
  BY ServiceAssumption DEF Quiet, Spend, IndInv, TypeOK
<1>3. told' \in [SessionIds -> Nat]
  <2>1. told \in [SessionIds -> Nat] /\ hash \in [SessionIds -> UploadSessions \cup {Null}]
    BY DEF IndInv, TypeOK
  <2>2. ASSUME NEW s \in SessionIds, hash[s] # Null, Tell(s, hash[s].offset)
        PROVE  told' \in [SessionIds -> Nat]
    <3>1. hash[s].offset \in Nat
      BY <2>1, <2>2, FieldTypes
    <3> QED
      BY <2>1, <2>2, <3>1 DEF Tell
  <2> QED
    BY <2>1, <2>2 DEF Quiet
<1>4. UNCHANGED <<redis, object, published, req, used, lapsed>>
  BY DEF Quiet
<1>5. TypeOK'
  BY <1>2, <1>3, <1>4 DEF IndInv, TypeOK, redis
<1>6. /\ \A r \in Requests : HandlerOK(req'[r], published')
      /\ \A s \in SessionIds : StoredOK(s, hash'[s], published')
  BY <1>4 DEF IndInv, redis
<1>7. RegisteredIsPublished'
  BY <1>4, RegistryStays DEF redis
<1> QED
  BY <1>1, <1>5, <1>6, <1>7 DEF IndInv

LEMMA ServiceKeeps ==
  ASSUME IndInv, AttendInv, [RoutesNext]_allVars
  PROVE  IndInv' /\ (ExpiryInv => ExpiryInv')
  BY Embeds, QuietKeeps, NextOK, ExpiryNext

LEMMA HandlerMoves ==
  ASSUME IndInv, NEW r \in Requests, NEW o \in Outcomes, HandlerStep(r, o)
  PROVE  req[r].pc # "idle" /\ \E g : Become(r, g)
<1>1. CASE InitiateIncrement(r, o)
  BY <1>1 DEF InitiateIncrement
<1>2. CASE ~InitiateIncrement(r, o)
  <2>1. \E g : Become(r, g)
    BY <1>2, StepsOnward
  <2>2. req[r].pc # "idle"
    BY DEF HandlerStep, InitiateIncrement, InitiateCreate, ChunkSet, UpdateProbe, UpdateHset,
           DeleteSession, DecrementHincrby, DecrementZero, RetrieveChunk, CheckFileExists,
           AssembleFile, DeleteCorrupt, CheckDuplicate, PublishEvent, RegisterFile,
           CleanupChunk
  <2> QED
    BY <2>1, <2>2
<1> QED
  BY <1>1, <1>2

\* The other handlers are not concerned by what handler r does.
LEMMA AttendStep ==
  ASSUME IndInv, AttendInv, NEW r \in Requests, NEW c \in Call, Handles(r, c),
         gone' \subseteq SessionIds, req' = req \/ \E g : Become(r, g), Attends(c, req'[r])
  PROVE  AttendInv'
<1>1. call \in [Requests -> Call] /\ req \in [Requests -> Handler]
  BY DEF AttendInv, IndInv, TypeOK
<1>2. call' \in [Requests -> Call] /\ call'[r] = c
  BY <1>1 DEF Handles
<1>3. \A q \in Requests \ {r} : call'[q] = call[q] /\ req'[q] = req[q]
  BY <1>1 DEF Handles, Become
<1> QED
  BY <1>2, <1>3 DEF AttendInv

LEMMA EndsAttended ==
  ASSUME IndInv, AttendInv, NEW r \in Requests, NEW c, Ends(r, c),
         call[r].sid \in SessionIds, req' = req \/ \E g : Become(r, g)
  PROVE  AttendInv'
<1>1. c \in Call /\ Handles(r, c) /\ gone' \subseteq SessionIds
  BY DEF Ends, AttendInv
<1>2. Attends(c, req'[r])
  BY DEF Attends, Ends
<1> QED
  BY <1>1, <1>2, AttendStep

LEMMA AttendNext ==
  ASSUME IndInv, AttendInv, [RoutesNext]_allVars
  PROVE  AttendInv'
<1>0. gone \subseteq SessionIds /\ call \in [Requests -> Call] /\ req \in [Requests -> Handler]
  BY DEF AttendInv, IndInv, TypeOK
<1>1. ASSUME NEW r \in Requests, NEW c, Refused(r, c)
      PROVE  AttendInv'
  <2>1. c \in Call /\ Handles(r, c) /\ gone' \subseteq SessionIds /\ req' = req
    BY <1>0, <1>1 DEF Refused, Quiet
  <2>2. Attends(c, req'[r])
    BY <1>1 DEF Refused, Attends
  <2> QED
    BY <2>1, <2>2, AttendStep
<1>2. ASSUME NEW r \in Requests, NEW c, Looks(r, c)
      PROVE  AttendInv'
  <2>1. c \in Call /\ Handles(r, c) /\ gone' \subseteq SessionIds /\ req' = req
    BY <1>0, <1>2 DEF Looks, Quiet
  <2>2. Attends(c, req'[r])
    BY <1>2, <2>1 DEF Looks, Free, Attends
  <2> QED
    BY <2>1, <2>2, AttendStep
<1>3. ASSUME NEW r \in Requests, NEW c, Enters(r, c)
      PROVE  AttendInv'
  <2>1. c \in Call /\ Handles(r, c) /\ gone' \subseteq SessionIds
    BY <1>0, <1>3 DEF Enters
  <2>2. \E g : Become(r, g)
    BY <1>3, ArriveTargets DEF Enters, Starts
  <2>3. Attends(c, req'[r])
    BY <1>3 DEF Enters, Attends
  <2> QED
    BY <2>1, <2>2, <2>3, AttendStep
<1>4. ASSUME NEW r \in Requests, CompleteUnrouted(r)
      PROVE  AttendInv'
  <2>1. Arrive(r) /\ Free(r) /\ UNCHANGED <<call, gone>>
    BY <1>4 DEF CompleteUnrouted, Arrive, routeVars
  <2>2. \E g : Become(r, g)
    BY <2>1, ArriveTargets DEF Starts
  <2>3. call[r] \in Call /\ Handles(r, call[r]) /\ call[r].step = "done"
    BY <1>0, <2>1 DEF Handles, Free
  <2>4. \A q \in Requests \ {r} : req'[q] = req[q]
    BY <1>0, <2>2 DEF Become
  <2> QED
    BY <1>0, <2>1, <2>3, <2>4 DEF AttendInv, Attends
<1>5. ASSUME NEW r \in Requests, CrashUnanswered(r)
      PROVE  AttendInv'
  <2>1. NoCall \in Call /\ NoCall.step = "done"
    BY DEF NoCall, Call, Routes, Codes
  <2>2. Handles(r, NoCall) /\ gone' = gone /\ Become(r, Idle)
    BY <1>5 DEF CrashUnanswered, Crash, Handles
  <2>3. Attends(NoCall, req'[r])
    BY <2>1 DEF Attends
  <2> QED
    BY <1>0, <2>1, <2>2, <2>3, AttendStep
<1>6. ASSUME NEW r \in Requests, NEW o \in Outcomes, Lookup(r, o) \/ LookupMeta(r, o)
      PROVE  AttendInv'
  <2>1. /\ Quiet /\ req[r] = Idle /\ call[r].sid \in SessionIds
        /\ call[r].step \in {"lookup", "meta"}
        /\ \E c : Ends(r, c) \/ Proceeds(r, c, "meta")
    BY <1>6, LookupCases, MetaCases DEF LookupEnds, MetaEnds
  <2>2. PICK c : Ends(r, c) \/ Proceeds(r, c, "meta")
    BY <2>1
  <2>3. req' = req
    BY <2>1 DEF Quiet
  <2>4. CASE Ends(r, c)
    BY <2>1, <2>3, <2>4, EndsAttended
  <2>5. CASE Proceeds(r, c, "meta")
    <3>1. c \in Call /\ Handles(r, c) /\ gone' = gone
      BY <2>5 DEF Proceeds
    <3>2. call[r].route \in {"PATCH", "DELETE", "HEAD"}
      BY <2>1 DEF AttendInv, Attends
    <3>3. Attends(c, req'[r])
      BY <2>1, <2>3, <2>5, <3>2 DEF Proceeds, Attends
    <3> QED
      BY <1>0, <2>3, <3>1, <3>3, AttendStep
  <2> QED
    BY <2>2, <2>4, <2>5
<1>7. ASSUME NEW r \in Requests, NEW o \in Outcomes, UseCaseStep(r, o)
      PROVE  AttendInv'
  <2>1. HandlerStep(r, o)
    BY <1>7 DEF UseCaseStep
  <2>2. req[r].pc # "idle" /\ req[r] # Idle /\ \E g : Become(r, g)
    BY <2>1, HandlerMoves, IdleFields
  <2>3. call[r].step \notin {"lookup", "meta"} /\ Attends(call[r], req[r])
    BY <2>2 DEF AttendInv, Attends
  <2>4. req[r].sid \in SessionIds
    BY <2>2, Running
  <2>5. CASE UNCHANGED routeVars /\ (req'[r] # Idle \/ call[r].step # "use_case")
    <3>1. Attends(call[r], req'[r])
      BY <2>1, <2>3, <2>5, StaysWithin DEF Attends
    <3>2. UNCHANGED <<call, gone>> /\ \A q \in Requests \ {r} : req'[q] = req[q]
      BY <1>0, <2>2, <2>5 DEF routeVars, Become
    <3> QED
      BY <1>0, <3>1, <3>2 DEF AttendInv
  <2>6. ASSUME NEW c, UseCaseEnds(r, o, c)
        PROVE  AttendInv'
    <3>1. call[r].step = "use_case" /\ req'[r] = Idle /\ call[r].sid \in SessionIds
      BY <2>3, <2>4, <2>6 DEF UseCaseEnds, Attends
    <3>2. CASE Ends(r, c)
      BY <2>2, <3>1, <3>2, EndsAttended
    <3>3. CASE SessionVanished(req[r], o) /\ Proceeds(r, c, "lookup")
      <4>1. c \in Call /\ Handles(r, c) /\ gone' = gone
        BY <3>3 DEF Proceeds
      <4>2. call[r].route \in {"PATCH", "DELETE"}
        BY <2>3, <3>1, <3>3 DEF Attends, Within, SessionVanished, Early
      <4>3. Attends(c, req'[r])
        BY <3>1, <3>3, <4>2 DEF Proceeds, Attends
      <4> QED
        BY <1>0, <2>2, <4>1, <4>3, AttendStep
    <3> QED
      BY <2>6, <3>2, <3>3 DEF UseCaseEnds
  <2> QED
    BY <1>7, <2>5, <2>6, UseCaseCases
<1>8. CASE (Lapse /\ UNCHANGED routeVars) \/ UNCHANGED allVars
  <2>1. UNCHANGED <<call, gone, req>>
    BY <1>8, LapseNext DEF allVars, vars, routeVars
  <2> QED
    BY <2>1 DEF AttendInv
<1> QED
  BY <1>1, <1>2, <1>3, <1>4, <1>5, <1>6, <1>7, <1>8, RouteCases

LEMMA RoutesInductive == RoutesSpec => [](IndInv /\ AttendInv /\ ExpiryInv)
<1>1. RoutesInit => IndInv /\ AttendInv /\ ExpiryInv
  <2> SUFFICES ASSUME RoutesInit PROVE IndInv /\ AttendInv /\ ExpiryInv
    OBVIOUS
  <2>1. IndInv
    BY InitOK DEF RoutesInit
  <2>2. ExpiryInv
    BY IdleFields DEF RoutesInit, Init, ExpiryInv, SessionExpiryOK, EarlyOK, Early
  <2>3. NoCall \in Call /\ NoCall.step = "done"
    BY DEF NoCall, Call, Routes, Codes
  <2>4. AttendInv
    BY <2>3 DEF RoutesInit, AttendInv, Attends
  <2> QED
    BY <2>1, <2>2, <2>4
<1>2. /\ IndInv /\ AttendInv /\ ExpiryInv /\ [RoutesNext]_allVars
      => IndInv' /\ AttendInv' /\ ExpiryInv'
  BY ServiceKeeps, AttendNext
<1> QED
  BY <1>1, <1>2, PTL DEF RoutesSpec

\* For any number of overlapping requests a route waits in its use case
\* exactly as long as the handler for the same session runs: no end of a use
\* case goes unanswered, and none is answered twice.
THEOREM RoutesTheorem == RoutesSpec => []RoutesInv
<1>1. ASSUME AttendInv PROVE RoutesInv
  <2>1. ASSUME NEW r \in Requests, call[r].step = "use_case"
        PROVE  req[r] # Idle /\ req[r].sid = call[r].sid
    <3>1. req[r].sid = call[r].sid /\ Within(call[r].route, req[r])
      BY <1>1, <2>1 DEF AttendInv, Attends
    <3>2. req[r].pc # "idle"
      BY <3>1 DEF Within, Early, Saving
    <3> QED
      BY <3>1, <3>2, IdleFields
  <2> QED
    BY <1>1, <2>1 DEF AttendInv, Attends, RoutesInv
<1> QED
  BY <1>1, RoutesInductive, PTL

----------------------------------------------------------------------------
(* Answers to requests that do not overlap *)

Ended(u) == u = Null \/ IsTerminal(u)

\* What holds of a request c that is not answered yet, with its handler h,
\* when its session is stored as u.
PlaceOK(c, h, u) ==
  /\ c.step = "use_case" /\ c.route = "DELETE" /\ h.pc \in {"decr", "zero"} => u = Null
  /\ c.step = "lookup" /\ c.route # "HEAD" => Ended(u)
  /\ c.step = "meta" => u = Null
  /\ "lost" \notin FaultKinds /\ c.route # "DELETE" => u \in {c.before, Null}

\* The inductive invariant: no handler has a session a client was told is
\* gone, so nothing can bring it back.
AnswerInv ==
  /\ \A s \in SessionIds : s \notin used => hash[s] = Null
  /\ \A s \in gone : s \in used /\ Ended(hash[s])
  /\ \A r \in Requests : req[r].pc # "idle" => req[r].sid \in used \ gone
  /\ \A r \in Requests : call[r].step # "done" =>
       call[r].sid \in used /\ PlaceOK(call[r], req[r], hash[call[r].sid])

LEMMA AnswerClose ==
  ASSUME Single, NEW r \in Requests,
         \A s \in SessionIds : s \notin used' => hash'[s] = Null,
         \A s \in gone' : s \in used' /\ Ended(hash'[s]),
         req'[r].pc # "idle" => req'[r].sid \in used' \ gone',
         call'[r].step # "done" =>
           call'[r].sid \in used' /\ PlaceOK(call'[r], req'[r], hash'[call'[r].sid])
  PROVE  AnswerInv'
<1>1. \A q \in Requests : q = r
  BY Only
<1> QED
  BY <1>1 DEF AnswerInv

\* A request that is let in works on a new session or on one that has not
\* ended.
LEMMA ArriveOpen ==
  ASSUME IndInv, NEW r \in Requests, Arrive(r)
  PROVE  /\ req[r] = Idle /\ req'[r].sid \in SessionIds /\ hash' = hash
         /\ \/ req'[r].sid \notin used /\ used' = used \cup {req'[r].sid}
            \/ used' = used /\ ~Ended(hash[req'[r].sid])
<1>0. req \in [Requests -> Handler]
  BY DEF IndInv, TypeOK
<1>1. req[r] = Idle /\ hash' = hash
  BY ArriveTargets DEF redis
<1>2. PICK g : Starts(r, g)
  BY ArriveTargets
<1>3. req'[r] = g /\ g.sid \in SessionIds
  BY <1>0, <1>2 DEF Starts, Become
<1>4. ASSUME NEW s \in SessionIds, NEW p \in Patches[s], ChunkGet(r, s, p)
      PROVE  req'[r].sid = s /\ ~Ended(hash[s])
  <2>1. req'[r] = [Idle EXCEPT !.pc = "set", !.sid = s, !.loc = hash[s], !.data = p.data]
    BY <1>0, <1>4 DEF ChunkGet, Become
  <2> QED
    BY <1>4, <2>1 DEF ChunkGet, Found, AcceptsChunk, VerifyChunk, Ended, Idle
<1>5. ASSUME NEW s \in SessionIds, AbortGet(r, s)
      PROVE  req'[r].sid = s /\ ~Ended(hash[s])
  <2>1. req'[r] = [Save(Idle, MarkAborted(hash[s]), "abort") EXCEPT !.sid = s]
    BY <1>0, <1>5 DEF AbortGet, Become
  <2> QED
    BY <1>5, <2>1 DEF AbortGet, Found, Abortable, Ended, Idle, Save
<1>6. ASSUME NEW s \in SessionIds, CompleteGet(r, s)
      PROVE  req'[r].sid = s /\ ~Ended(hash[s])
  <2>1. req'[r] = [Idle EXCEPT !.pc = "get", !.sid = s, !.loc = hash[s]]
    BY <1>0, <1>6 DEF CompleteGet, Become
  <2>2. ~IsTerminal(hash[s]) /\ hash[s] # Null
    BY <1>6 DEF CompleteGet, Found, Completable, IsTerminal, Terminal
  <2> QED
    BY <2>1, <2>2 DEF Ended, Idle
<1>7. ASSUME NEW s \in SessionIds, NEW d \in Declarations, InitiateCheck(r, s, d)
      PROVE  req'[r].sid = s /\ s \notin used /\ used' = used \cup {s}
  <2>1. req'[r] = [Idle EXCEPT !.pc = "incr", !.sid = s, !.loc = NewSession(d.size, d.sha256)]
    BY <1>0, <1>7 DEF InitiateCheck, Become
  <2> QED
    BY <1>7, <2>1 DEF InitiateCheck, Idle
<1>8. used' = used \/ \E s \in SessionIds, d \in Declarations : InitiateCheck(r, s, d)
  BY DEF Arrive, PostUploads, PatchUpload, DeleteUpload, ChunkGet, AbortGet, CompleteGet
<1> QED
  BY <1>1, <1>3, <1>4, <1>5, <1>6, <1>7, <1>8
     DEF Arrive, PostUploads, PatchUpload, DeleteUpload

LEMMA AnswerArrive ==
  ASSUME Single, IndInv, AnswerInv, NEW r \in Requests, Arrive(r), gone' = gone,
         call'[r].step # "done" =>
           \E c : /\ call'[r] = c /\ c.step = "use_case" /\ c.sid = req'[r].sid
                  /\ c.before = hash[c.sid] /\ req'[r].pc \in {"incr", "set", "probe"}
  PROVE  AnswerInv'
<1>1. /\ req'[r].sid \in SessionIds /\ hash' = hash /\ req'[r].sid \notin gone
      /\ req'[r].sid \in used' /\ used \subseteq used'
  BY ArriveOpen DEF AnswerInv, Ended
<1>2. /\ \A s \in SessionIds : s \notin used' => hash'[s] = Null
      /\ \A s \in gone' : s \in used' /\ Ended(hash'[s])
  BY <1>1 DEF AnswerInv
<1>3. ASSUME call'[r].step # "done"
      PROVE  call'[r].sid \in used' /\ PlaceOK(call'[r], req'[r], hash'[call'[r].sid])
  <2>1. PICK c : /\ call'[r] = c /\ c.step = "use_case" /\ c.sid = req'[r].sid
                 /\ c.before = hash[c.sid] /\ req'[r].pc \in {"incr", "set", "probe"}
    BY <1>3
  <2> QED
    BY <1>1, <2>1 DEF PlaceOK
<1> QED
  BY <1>1, <1>2, <1>3, AnswerClose

\* A handler keeps its session until it ends.
LEMMA SidStays ==
  ASSUME IndInv, NEW r \in Requests, NEW o \in Outcomes, HandlerStep(r, o),
         req'[r].pc # "idle"
  PROVE  req'[r].sid = req[r].sid
<1>0. req \in [Requests -> Handler] /\ req[r] \in Handler
  BY DEF IndInv, TypeOK
<1>1. CASE InitiateIncrement(r, o)
  <2>1. req'[r] = Idle \/ req'[r] = [req[r] EXCEPT !.pc = "create"]
    BY <1>0, <1>1 DEF InitiateIncrement, Become
  <2> QED
    BY <1>0, <2>1, IdleFields DEF Handler
<1>2. CASE ~InitiateIncrement(r, o)
  <2>1. PICK g : Become(r, g) /\ Onward(g, req[r])
    BY <1>2, StepsOnward
  <2>2. req'[r] = g
    BY <1>0, <2>1 DEF Become
  <2> QED
    BY <2>1, <2>2 DEF Onward
<1> QED
  BY <1>1, <1>2

\* An abort goes on to the counter only when its session has been deleted.
LEMMA DeleteFirst ==
  ASSUME IndInv, NEW r \in Requests, NEW o \in Outcomes, HandlerStep(r, o),
         Within("DELETE", req[r]), req[r].pc \in {"decr", "zero"} => hash[req[r].sid] = Null,
         req'[r].pc \in {"decr", "zero"}
  PROVE  hash'[req[r].sid] = Null
<1> DEFINE h == req[r]
<1>0. /\ req \in [Requests -> Handler] /\ h \in Handler
      /\ hash \in [SessionIds -> UploadSessions \cup {Null}]
  BY DEF IndInv, TypeOK
<1>1. h.pc \in Saving \cup {"del", "decr", "zero"} /\ h.caller = "abort"
  BY DEF Within
<1>2. h.sid \in SessionIds
  BY <1>1, Running DEF Saving
<1>3. CASE h.pc \in {"decr", "zero"}
  BY <1>3, StoreEffect
<1>4. CASE h.pc = "del"
  <2>1. DeleteSession(r, o)
    BY <1>4 DEF HandlerStep, InitiateIncrement, InitiateCreate, ChunkSet, UpdateProbe,
       UpdateHset, DecrementHincrby, DecrementZero, RetrieveChunk, CheckFileExists,
       AssembleFile, DeleteCorrupt, CheckDuplicate, PublishEvent, RegisterFile, CleanupChunk
  <2>2. o = "ok"
    <3>1. Raises(o) => req'[r] = Idle
      BY <1>0, <2>1 DEF DeleteSession, Become
    <3> QED
      BY <3>1, IdleFields DEF Raises
  <2>3. hash' = [hash EXCEPT ![h.sid] = Null]
    BY <2>1, <2>2 DEF DeleteSession, Applied
  <2> QED
    BY <1>0, <1>2, <2>3
<1>5. CASE h.pc \in Saving
  <2>1. UpdateProbe(r, o) \/ UpdateHset(r, o)
    BY <1>5 DEF Saving, HandlerStep, InitiateIncrement, InitiateCreate, ChunkSet,
       DeleteSession, DecrementHincrby, DecrementZero, RetrieveChunk, CheckFileExists,
       AssembleFile, DeleteCorrupt, CheckDuplicate, PublishEvent, RegisterFile, CleanupChunk
  <2>2. \A result : AfterUpdate(h, result) \in {Idle, [h EXCEPT !.pc = "del"]}
    BY <1>1 DEF AfterUpdate, ReachesFailHandler
  <2>3. req'[r] \in {Idle, [h EXCEPT !.pc = "del"], [h EXCEPT !.pc = "hset"]}
    BY <1>0, <2>1, <2>2 DEF UpdateProbe, UpdateHset, Become
  <2>4. [h EXCEPT !.pc = "del"].pc = "del" /\ [h EXCEPT !.pc = "hset"].pc = "hset"
    BY <1>0 DEF Handler
  <2>5. req'[r].pc \in {"idle", "del", "hset"}
    BY <2>3, <2>4, IdleFields
  <2> QED
    BY <2>5
<1> QED
  BY <1>1, <1>3, <1>4, <1>5

\* When no reply is lost, a POST or PATCH changes its session only in its
\* last step, and then succeeds.
LEMMA ChangeSucceeds ==
  ASSUME IndInv, NEW r \in Requests, NEW o \in Outcomes, HandlerStep(r, o),
         NEW route, route # "DELETE", Within(route, req[r]),
         "lost" \notin FaultKinds, hash' # hash
  PROVE  Succeeds(req[r], o) /\ req'[r] = Idle
<1> DEFINE h == req[r]
<1>0. req \in [Requests -> Handler] /\ h \in Handler
  BY DEF IndInv, TypeOK
<1>1. o \in {"ok", "error"}
  BY ServiceAssumption DEF Outcomes
<1>2. h.pc \in {"create", "hset"} /\ h.caller \in {"none", "chunk"}
  <2>1. h.pc \in {"create", "hset", "del"}
    BY StoreEffect
  <2> QED
    BY <2>1 DEF Within, Early, Saving
<1>3. InitiateCreate(r, o) \/ UpdateHset(r, o)
  BY <1>2 DEF HandlerStep, InitiateIncrement, ChunkSet, UpdateProbe,
     DeleteSession, DecrementHincrby, DecrementZero, RetrieveChunk, CheckFileExists,
     AssembleFile, DeleteCorrupt, CheckDuplicate, PublishEvent, RegisterFile, CleanupChunk
<1>4. o = "ok"
  BY <1>1, <1>3 DEF InitiateCreate, UpdateHset, Applied, store
<1>5. Succeeds(h, o)
  BY <1>2, <1>4 DEF Succeeds, Raises
<1>6. CASE InitiateCreate(r, o)
  BY <1>0, <1>4, <1>5, <1>6 DEF InitiateCreate, Become, Raises
<1>7. CASE UpdateHset(r, o)
  <2>1. h.caller = "chunk"
    BY <1>7 DEF UpdateHset, Within, Early, Saving
  <2>2. AfterUpdate(h, "ok") = Idle
    BY <2>1 DEF AfterUpdate, ReachesFailHandler
  <2> QED
    BY <1>0, <1>4, <1>5, <1>7, <2>2 DEF UpdateHset, Become, Raises
<1> QED
  BY <1>3, <1>6, <1>7

\* update_session misses a session only when it is not stored.
LEMMA VanishedMissing ==
  ASSUME IndInv, NEW r \in Requests, NEW o \in Outcomes, HandlerStep(r, o),
         SessionVanished(req[r], o), req'[r] = Idle
  PROVE  hash[req[r].sid] = Null /\ hash' = hash
<1> DEFINE h == req[r]
<1>0. req \in [Requests -> Handler] /\ h \in Handler
  BY DEF IndInv, TypeOK
<1>1. UpdateProbe(r, o) /\ ~Raises(o)
  BY DEF SessionVanished, HandlerStep, InitiateIncrement, InitiateCreate, ChunkSet,
     UpdateHset, DeleteSession, DecrementHincrby, DecrementZero, RetrieveChunk,
     CheckFileExists, AssembleFile, DeleteCorrupt, CheckDuplicate, PublishEvent,
     RegisterFile, CleanupChunk
<1>2. hash[h.sid] # Null => req'[r] = [h EXCEPT !.pc = "hset"]
  BY <1>0, <1>1 DEF UpdateProbe, Become
<1>3. [h EXCEPT !.pc = "hset"].pc = "hset"
  BY <1>0 DEF Handler
<1>4. [h EXCEPT !.pc = "hset"] # Idle
  BY <1>3, IdleFields
<1> QED
  BY <1>1, <1>2, <1>4 DEF UpdateProbe, redis

\* DELETE answers 204 only when the session has been deleted.
LEMMA DeletedMissing ==
  ASSUME IndInv, NEW r \in Requests, NEW o \in Outcomes, HandlerStep(r, o),
         Within("DELETE", req[r]), req[r].pc \in {"decr", "zero"} => hash[req[r].sid] = Null,
         Succeeds(req[r], o), req'[r] = Idle
  PROVE  hash'[req[r].sid] = Null
<1> DEFINE h == req[r]
<1>0. req \in [Requests -> Handler] /\ h \in Handler
  BY DEF IndInv, TypeOK
<1>1. CASE h.pc \in {"decr", "zero"}
  BY <1>1, StoreEffect
<1>2. CASE h.pc \notin {"decr", "zero"}
  <2>1. h.pc = "hset" /\ h.caller = "abort" /\ ~Raises(o)
    BY <1>2 DEF Succeeds, Within, Saving
  <2>2. UpdateHset(r, o)
    BY <2>1 DEF HandlerStep, InitiateIncrement, InitiateCreate, ChunkSet, UpdateProbe,
       DeleteSession, DecrementHincrby, DecrementZero, RetrieveChunk, CheckFileExists,
       AssembleFile, DeleteCorrupt, CheckDuplicate, PublishEvent, RegisterFile, CleanupChunk
  <2>3. req'[r] = [h EXCEPT !.pc = "del"]
    BY <1>0, <2>1, <2>2 DEF UpdateHset, Become, AfterUpdate
  <2>4. [h EXCEPT !.pc = "del"].pc = "del"
    BY <1>0 DEF Handler
  <2> QED
    BY <2>3, <2>4, IdleFields
<1> QED
  BY <1>1, <1>2

\* The step ends the use case of handler r's request.
LEMMA UseCaseAnswer ==
  ASSUME IndInv, AttendInv, AnswerInv, NEW r \in Requests, NEW o \in Outcomes,
         HandlerStep(r, o), NEW c, UseCaseEnds(r, o, c)
  PROVE  /\ c.sid = req[r].sid /\ c.sid \in used \ gone /\ c.sid \in SessionIds
         /\ c.route = call[r].route /\ c.before = call[r].before /\ call'[r] = c
         /\ \/ /\ c.step = "lookup" /\ gone' = gone /\ hash'[c.sid] = Null
            \/ /\ c.step = "done" /\ c.code \in {"201", "204", "422", "503"}
               /\ gone' \subseteq gone \cup {c.sid}
               /\ c.sid \in gone' => Ended(hash'[c.sid])
               /\ c.code \in Success <=> Succeeds(req[r], o)
<1> DEFINE h == req[r]
<1>1. /\ call \in [Requests -> Call] /\ call[r].step = "use_case"
      /\ h.sid = call[r].sid /\ Within(call[r].route, h) /\ req'[r] = Idle
  BY DEF UseCaseEnds, AttendInv, Attends
<1>2. /\ h.pc # "idle" /\ h.sid \in used \ gone /\ h.sid \in SessionIds
  BY HandlerMoves, Running DEF AnswerInv
<1>3. c.sid = h.sid /\ c.route = call[r].route /\ c.before = call[r].before /\ call'[r] = c
  BY <1>1 DEF UseCaseEnds, Proceeds, Ends, Handles
<1>4. CASE SessionVanished(h, o) /\ Proceeds(r, c, "lookup")
  <2>1. hash'[h.sid] = Null
    BY <1>1, <1>4, VanishedMissing
  <2> QED
    BY <1>2, <1>3, <1>4, <2>1 DEF Proceeds
<1>5. CASE ~SessionVanished(h, o) /\ Ends(r, c) /\ c.code = UseCaseCode(c.route, h, o)
  <2>1. c.code \in {"201", "204", "422", "503"} /\ (c.code \in Success <=> Succeeds(h, o))
    BY <1>5 DEF UseCaseCode, Success
  <2>2. gone' = IF c.route = "DELETE" /\ c.code = "204" THEN gone \cup {c.sid} ELSE gone
    BY <1>5, <2>1 DEF Ends, ReportsGone
  <2>3. ASSUME c.route = "DELETE", c.code = "204"
        PROVE  hash'[c.sid] = Null
    <3>1. h.pc \in {"decr", "zero"} => hash[h.sid] = Null
      BY <1>1, <1>3, <2>3 DEF AnswerInv, PlaceOK
    <3>2. Succeeds(h, o) /\ Within("DELETE", h)
      BY <1>1, <1>3, <2>1, <2>3 DEF Success
    <3> QED
      BY <1>1, <1>3, <3>1, <3>2, DeletedMissing
  <2>4. c.sid \in gone' => Ended(hash'[c.sid])
    BY <1>2, <1>3, <2>2, <2>3 DEF Ended
  <2>5. gone' \subseteq gone \cup {c.sid} /\ c.step = "done"
    BY <1>5, <2>2 DEF Ends
  <2> QED
    BY <1>2, <1>3, <2>1, <2>4, <2>5
<1> QED
  BY <1>3, <1>4, <1>5 DEF UseCaseEnds

LEMMA AnswerHandler ==
  ASSUME Single, IndInv, AttendInv, AnswerInv, NEW r \in Requests, NEW o \in Outcomes,
         UseCaseStep(r, o)
  PROVE  AnswerInv'
<1> DEFINE h == req[r]
<1>1. HandlerStep(r, o)
  BY DEF UseCaseStep
<1>2. /\ h.pc # "idle" /\ h.sid \in used \ gone /\ h.sid \in SessionIds
      /\ h # Idle /\ hash \in [SessionIds -> UploadSessions \cup {Null}]
  BY <1>1, HandlerMoves, Running, IdleFields DEF AnswerInv, IndInv, TypeOK
<1>3. used' = used /\ \A s \in SessionIds : s # h.sid => hash'[s] = hash[s]
  BY <1>1, <1>2, StoreEffect
<1>4. \A s \in SessionIds : s \notin used' => hash'[s] = Null
  BY <1>2, <1>3 DEF AnswerInv
<1>5. gone \subseteq SessionIds
  BY DEF AttendInv
<1>6. \A s \in gone : s \in used' /\ Ended(hash'[s])
  BY <1>2, <1>3, <1>5 DEF AnswerInv
<1>7. CASE UNCHANGED routeVars /\ (req'[r] # Idle \/ call[r].step # "use_case")
  <2>1. gone' = gone /\ call'[r] = call[r]
    BY <1>7 DEF routeVars
  <2>2. req'[r].pc # "idle" => req'[r].sid \in used' \ gone'
    BY <1>1, <1>2, <1>3, <2>1, SidStays
  <2>3. ASSUME call[r].step # "done"
        PROVE  call[r].sid \in used' /\ PlaceOK(call[r], req'[r], hash'[call[r].sid])
    <3>1. PICK c : c = call[r]
      OBVIOUS
    <3>2. /\ c.step = "use_case" /\ c.sid = h.sid /\ Within(c.route, h) /\ req'[r] # Idle
          /\ PlaceOK(c, h, hash[h.sid])
      <4>1. c \in Call
        BY <3>1 DEF AttendInv
      <4>2. c.step = "use_case"
        BY <1>2, <2>3, <3>1, <4>1 DEF AttendInv, Attends, Call
      <4> QED
        BY <1>7, <2>3, <3>1, <4>2 DEF AttendInv, Attends, AnswerInv
    <3>3. ASSUME c.route = "DELETE", req'[r].pc \in {"decr", "zero"}
          PROVE  hash'[c.sid] = Null
      <4>1. h.pc \in {"decr", "zero"} => hash[h.sid] = Null
        BY <3>2, <3>3 DEF PlaceOK
      <4>2. Within("DELETE", h)
        BY <3>2, <3>3
      <4> QED
        BY <1>1, <3>2, <3>3, <4>1, <4>2, DeleteFirst
    <3>4. ASSUME "lost" \notin FaultKinds, c.route # "DELETE"
          PROVE  hash'[c.sid] \in {c.before, Null}
      <4>1. hash' = hash
        BY <1>1, <3>2, <3>4, ChangeSucceeds
      <4> QED
        BY <3>2, <3>4, <4>1 DEF PlaceOK
    <3> QED
      BY <1>2, <1>3, <3>1, <3>2, <3>3, <3>4 DEF PlaceOK
  <2> QED
    BY <1>4, <1>6, <2>1, <2>2, <2>3, AnswerClose
<1>8. ASSUME NEW c, UseCaseEnds(r, o, c)
      PROVE  AnswerInv'
  <2>1. /\ c.sid \in used \ gone /\ c.sid \in SessionIds /\ call'[r] = c
        /\ \/ c.step = "lookup" /\ gone' = gone /\ hash'[c.sid] = Null
           \/ /\ c.step = "done" /\ gone' \subseteq gone \cup {c.sid}
              /\ c.sid \in gone' => Ended(hash'[c.sid])
    BY <1>1, <1>8, UseCaseAnswer
  <2>2. \A s \in gone' : s \in used' /\ Ended(hash'[s])
    BY <1>3, <1>6, <2>1
  <2>3. req'[r].pc = "idle"
    BY <1>8, IdleFields DEF UseCaseEnds
  <2>4. call'[r].step # "done" =>
          call'[r].sid \in used' /\ PlaceOK(call'[r], req'[r], hash'[call'[r].sid])
    BY <1>3, <2>1 DEF PlaceOK, Ended
  <2> QED
    BY <1>4, <2>2, <2>3, <2>4, AnswerClose
<1> QED
  BY <1>7, <1>8, UseCaseCases

\* An answer after the look-up: a 404 means that the session has ended.
LEMMA LookupAnswer ==
  ASSUME IndInv, AttendInv, AnswerInv, NEW r \in Requests, NEW o \in Outcomes,
         Lookup(r, o) \/ LookupMeta(r, o)
  PROVE  /\ Quiet /\ req[r] = Idle /\ call[r].step # "done" /\ call[r].sid \in used
         /\ \E c : /\ c.sid = call[r].sid /\ c.before = call[r].before
                   /\ c.route = call[r].route /\ call'[r] = c
                   /\ \/ c.step = "meta" /\ gone' = gone /\ hash[c.sid] = Null
                      \/ /\ c.step = "done" /\ gone' \subseteq gone \cup {c.sid}
                         /\ c.sid \in gone' => Ended(hash[c.sid])
                         /\ c.code \in {"404", "404 expired"} => Ended(hash[c.sid])
                         /\ c.code = "404 expired" => hash[c.sid] = Null /\ meta[c.sid]
                         /\ c.code \in Success => ~Ended(hash[c.sid])
<1>0. call \in [Requests -> Call]
  BY DEF AttendInv
<1>1. CASE Lookup(r, o)
  <2>1. PICK c : LookupEnds(r, c) \/ (Proceeds(r, c, "meta") /\ hash[c.sid] = Null)
    BY <1>1, LookupCases
  <2>2. /\ c.sid = call[r].sid /\ c.before = call[r].before /\ c.route = call[r].route
        /\ call'[r] = c
    BY <1>0, <2>1 DEF LookupEnds, Ends, Proceeds, Handles
  <2>3. /\ Quiet /\ req[r] = Idle /\ call[r].step = "lookup"
        /\ call[r].sid \in used /\ PlaceOK(call[r], req[r], hash[call[r].sid])
        /\ call[r].route # "HEAD" => Ended(hash[call[r].sid])
    BY <1>1, LookupCases DEF AnswerInv, PlaceOK
  <2>4. CASE LookupEnds(r, c)
    <3>1. c.code = "404" => Ended(hash[c.sid])
      BY <2>2, <2>3, <2>4 DEF LookupEnds
    <3>2. gone' = IF ReportsGone(c.route, c.code) THEN gone \cup {c.sid} ELSE gone
      BY <2>4 DEF LookupEnds, Ends
    <3>3. ReportsGone(c.route, c.code) => c.code = "404"
      BY <2>4 DEF LookupEnds, ReportsGone
    <3>4. c.sid \notin gone \/ Ended(hash[c.sid])
      BY <2>2, <2>3 DEF AnswerInv
    <3>5. c.code \in Success => ~Ended(hash[c.sid])
      BY <2>4 DEF LookupEnds, Success, Ended
    <3>6. c.code # "404 expired" /\ c.step = "done"
      BY <2>4 DEF LookupEnds, Ends
    <3> QED
      BY <2>2, <2>3, <3>1, <3>2, <3>3, <3>4, <3>5, <3>6
  <2>5. CASE Proceeds(r, c, "meta") /\ hash[c.sid] = Null
    BY <2>2, <2>3, <2>5 DEF Proceeds
  <2> QED
    BY <2>1, <2>4, <2>5
<1>2. CASE LookupMeta(r, o)
  <2>1. PICK c : MetaEnds(r, c)
    BY <1>2, MetaCases
  <2>2. /\ c.sid = call[r].sid /\ c.before = call[r].before /\ c.route = call[r].route
        /\ call'[r] = c /\ c.step = "done"
    BY <1>0, <2>1 DEF MetaEnds, Ends, Handles
  <2>3. /\ Quiet /\ req[r] = Idle /\ call[r].step = "meta" /\ call[r].sid \in used
        /\ hash[call[r].sid] = Null
    BY <1>2, MetaCases DEF AnswerInv, PlaceOK
  <2>4. gone' \subseteq gone \cup {c.sid}
    BY <2>1 DEF MetaEnds, Ends
  <2>5. c.code = "404 expired" => meta[c.sid]
    BY <2>1 DEF MetaEnds
  <2>6. c.code \notin Success
    BY <2>1 DEF MetaEnds, Success
  <2> QED
    BY <2>2, <2>3, <2>4, <2>5, <2>6 DEF Ended
<1> QED
  BY <1>1, <1>2

LEMMA AnswerNext ==
  ASSUME Single, IndInv, AttendInv, AnswerInv, [RoutesNext]_allVars
  PROVE  AnswerInv'
<1>0. /\ call \in [Requests -> Call] /\ req \in [Requests -> Handler]
      /\ gone \subseteq SessionIds /\ hash \in [SessionIds -> UploadSessions \cup {Null}]
  BY DEF AttendInv, IndInv, TypeOK
<1>1. ASSUME NEW r \in Requests, NEW c, Refused(r, c) \/ Looks(r, c)
      PROVE  AnswerInv'
  <2>1. UNCHANGED <<hash, req, used, gone>> /\ call'[r] = c
    BY <1>0, <1>1 DEF Refused, Looks, Quiet, redis, Handles
  <2>2. c.step # "done" => c.sid \in used /\ PlaceOK(c, req[r], hash[c.sid])
    BY <1>1 DEF Refused, Looks, PlaceOK, Ended
  <2> QED
    BY <2>1, <2>2, AnswerClose DEF AnswerInv
<1>2. ASSUME NEW r \in Requests, NEW c, Enters(r, c)
      PROVE  AnswerInv'
  <2>1. /\ Arrive(r) /\ gone' = gone /\ call'[r] = c /\ c.step = "use_case"
        /\ c.sid = req'[r].sid /\ c.before = hash[c.sid]
        /\ req'[r].pc \in {"incr", "set", "probe"}
    BY <1>0, <1>2 DEF Enters, Handles
  <2> QED
    BY <2>1, AnswerArrive
<1>3. ASSUME NEW r \in Requests, CompleteUnrouted(r)
      PROVE  AnswerInv'
  <2>1. Arrive(r) /\ gone' = gone /\ call'[r].step = "done"
    BY <1>3 DEF CompleteUnrouted, Arrive, routeVars, Free
  <2> QED
    BY <2>1, AnswerArrive
<1>4. ASSUME NEW r \in Requests, CrashUnanswered(r)
      PROVE  AnswerInv'
  <2>1. UNCHANGED <<hash, used, gone>> /\ req'[r] = Idle /\ call'[r].step = "done"
    BY <1>0, <1>4 DEF CrashUnanswered, Crash, redis, Become, NoCall
  <2> QED
    BY <2>1, IdleFields, AnswerClose DEF AnswerInv
<1>5. ASSUME NEW r \in Requests, NEW o \in Outcomes, Lookup(r, o) \/ LookupMeta(r, o)
      PROVE  AnswerInv'
  <2>1. PICK c : /\ c.sid = call[r].sid /\ c.before = call[r].before
                 /\ c.route = call[r].route /\ call'[r] = c
                 /\ \/ c.step = "meta" /\ gone' = gone /\ hash[c.sid] = Null
                    \/ /\ c.step = "done" /\ gone' \subseteq gone \cup {c.sid}
                       /\ c.sid \in gone' => Ended(hash[c.sid])
    BY <1>5, LookupAnswer
  <2>2. UNCHANGED <<hash, req, used>> /\ req[r] = Idle /\ call[r].sid \in used
    BY <1>5, LookupAnswer DEF Quiet, redis
  <2>3. \A s \in gone' : s \in used' /\ Ended(hash'[s])
    BY <2>1, <2>2 DEF AnswerInv
  <2>4. c.step # "done" => c.sid \in used' /\ PlaceOK(c, req'[r], hash'[c.sid])
    BY <2>1, <2>2 DEF PlaceOK, Ended
  <2>5. req'[r].pc = "idle" /\ \A s \in SessionIds : s \notin used' => hash'[s] = Null
    BY <2>2, IdleFields DEF AnswerInv
  <2> QED
    BY <2>1, <2>3, <2>4, <2>5, AnswerClose
<1>6. CASE Lapse /\ UNCHANGED routeVars
  <2>1. UNCHANGED <<req, used, call, gone>>
    BY <1>6, LapseNext DEF routeVars
  <2>2. \A s \in SessionIds : hash'[s] \in {hash[s], Null}
    BY <1>0, <1>6 DEF Lapse, SessionLapses, MetaLapses, ChunkLapses, store
  <2>3. \A s \in gone : Ended(hash'[s])
    BY <1>0, <2>2 DEF AnswerInv, Ended
  <2>4. ASSUME NEW r \in Requests, call[r].step # "done"
        PROVE  call[r].sid \in used /\ PlaceOK(call[r], req[r], hash'[call[r].sid])
    <3>1. call[r].sid \in used /\ PlaceOK(call[r], req[r], hash[call[r].sid])
      BY <2>4 DEF AnswerInv
    <3>2. hash'[call[r].sid] \in {hash[call[r].sid], Null}
      BY <2>2, <3>1 DEF IndInv, TypeOK
    <3> QED
      BY <3>1, <3>2 DEF PlaceOK, Ended
  <2> QED
    BY <2>1, <2>2, <2>3, <2>4 DEF AnswerInv
<1>7. CASE UNCHANGED allVars
  BY <1>7 DEF allVars, vars, routeVars, AnswerInv, PlaceOK
<1> QED
  BY <1>1, <1>2, <1>3, <1>4, <1>5, <1>6, <1>7, AnswerHandler, RouteCases

LEMMA AnswerInductive ==
  ASSUME Single
  PROVE  RoutesSpec => []AnswerInv
<1>1. RoutesInit => AnswerInv
  BY IdleFields DEF RoutesInit, Init, NoCall, AnswerInv
<1>2. IndInv /\ AttendInv /\ AnswerInv /\ [RoutesNext]_allVars => AnswerInv'
  BY AnswerNext
<1> QED
  BY <1>1, <1>2, RoutesInductive, PTL DEF RoutesSpec

\* What an answer tells about the session.
LEMMA AnswerFacts ==
  ASSUME Single, IndInv, AttendInv, AnswerInv, RoutesNext, NEW r \in Requests, Answers(r)
  PROVE  \E c : /\ c = call'[r]
                /\ c.code \in Success => c.sid \notin gone
                /\ c.code \in {"404", "404 expired"} => Ended(hash'[c.sid])
                /\ c.code = "404 expired" =>
                     c.sid \in SessionIds /\ hash[c.sid] = Null /\ meta[c.sid]
                /\ "lost" \notin FaultKinds /\ c.route # "DELETE" /\ c.code \notin Success
                     /\ c.sid # Null => hash'[c.sid] \in {c.before, Null}
<1>0. call \in [Requests -> Call] /\ \A q \in Requests : q = r
  BY Only DEF AttendInv
<1>1. PICK a : a = call'[r] /\ a.step = "done" /\ a.code # "none" /\ a # call[r]
  BY DEF Answers
<1>2. ASSUME NEW c, Refused(r, c) \/ Looks(r, c) \/ Enters(r, c)
      PROVE  /\ a.code \in Refusals /\ hash' = hash
             /\ a.sid = Null \/ a.before = hash[a.sid]
  <2>1. call'[r] = c
    BY <1>0, <1>2 DEF Refused, Looks, Enters, Handles
  <2> QED
    BY <1>1, <1>2, <2>1 DEF Refused, Looks, Enters, Quiet, redis
<1>3. CASE /\ a.code \in Refusals /\ hash' = hash
           /\ a.sid = Null \/ a.before = hash[a.sid]
  BY <1>1, <1>3 DEF Refusals, Success
<1>4. ASSUME NEW o \in Outcomes, Lookup(r, o) \/ LookupMeta(r, o)
      PROVE  /\ a.code \in {"404", "404 expired"} => Ended(hash[a.sid])
             /\ a.code = "404 expired" => hash[a.sid] = Null /\ meta[a.sid]
             /\ a.code \in Success => ~Ended(hash[a.sid])
             /\ a.sid = call[r].sid /\ a.before = call[r].before /\ a.route = call[r].route
             /\ hash' = hash /\ call[r].step # "done" /\ a.sid \in SessionIds
  <2>1. PICK c : /\ c.sid = call[r].sid /\ c.before = call[r].before
                 /\ c.route = call[r].route /\ call'[r] = c
                 /\ \/ c.step = "meta"
                    \/ /\ c.code \in {"404", "404 expired"} => Ended(hash[c.sid])
                       /\ c.code = "404 expired" => hash[c.sid] = Null /\ meta[c.sid]
                       /\ c.code \in Success => ~Ended(hash[c.sid])
    BY <1>4, LookupAnswer
  <2>2. c = a
    BY <1>1, <2>1
  <2>3. hash' = hash /\ call[r].step # "done" /\ call[r].sid \in SessionIds
    BY <1>4, LookupAnswer DEF Quiet, redis, IndInv, TypeOK
  <2> QED
    BY <1>1, <2>1, <2>2, <2>3
<1>5. ASSUME NEW o \in Outcomes, Lookup(r, o) \/ LookupMeta(r, o)
      PROVE  /\ a.code \in Success => a.sid \notin gone
             /\ "lost" \notin FaultKinds /\ a.route # "DELETE" =>
                  hash'[a.sid] \in {a.before, Null}
  <2>1. /\ PlaceOK(call[r], req[r], hash[call[r].sid])
        /\ \A s \in gone : Ended(hash[s])
    BY <1>4, <1>5 DEF AnswerInv
  <2>2. "lost" \notin FaultKinds /\ a.route # "DELETE" => hash[a.sid] \in {a.before, Null}
    BY <1>4, <1>5, <2>1 DEF PlaceOK
  <2> QED
    BY <1>4, <1>5, <2>1, <2>2
<1>6. ASSUME NEW o \in Outcomes, UseCaseStep(r, o)
      PROVE  /\ a.code \notin {"404", "404 expired"} /\ a.sid \notin gone
             /\ "lost" \notin FaultKinds /\ a.route # "DELETE" /\ a.code \notin Success =>
                  hash'[a.sid] \in {a.before, Null}
  <2>1. HandlerStep(r, o) /\ \E c : UseCaseEnds(r, o, c)
    <3>1. ~UNCHANGED routeVars
      BY <1>1 DEF routeVars
    <3> QED
      BY <1>6, <3>1, UseCaseCases
  <2>2. PICK c : UseCaseEnds(r, o, c)
    BY <2>1
  <2>3. /\ c.sid = req[r].sid /\ c.sid \in used \ gone
        /\ c.route = call[r].route /\ c.before = call[r].before /\ call'[r] = c
        /\ c.step = "done" => /\ c.code \in {"201", "204", "422", "503"}
                              /\ c.code \in Success <=> Succeeds(req[r], o)
    BY <2>1, <2>2, UseCaseAnswer
  <2>4. /\ call[r].step = "use_case" /\ call[r].sid = c.sid
        /\ Within(c.route, req[r]) /\ PlaceOK(call[r], req[r], hash[c.sid])
    BY <2>2, <2>3 DEF UseCaseEnds, AttendInv, Attends, AnswerInv
  <2>5. ASSUME "lost" \notin FaultKinds, c.route # "DELETE", ~Succeeds(req[r], o)
        PROVE  hash'[c.sid] \in {c.before, Null}
    <3>1. hash' = hash
      BY <2>1, <2>4, <2>5, ChangeSucceeds
    <3> QED
      BY <2>3, <2>4, <2>5, <3>1 DEF PlaceOK
  <2>6. c = a
    BY <1>1, <2>3
  <2> QED
    BY <1>1, <2>3, <2>5, <2>6
<1>7. ASSUME CompleteUnrouted(r) \/ CrashUnanswered(r) \/ UNCHANGED routeVars
      PROVE  FALSE
  BY <1>0, <1>1, <1>7 DEF CompleteUnrouted, CrashUnanswered, routeVars, NoCall
<1>8. \/ \E c : Refused(r, c) \/ Looks(r, c) \/ Enters(r, c)
      \/ \E o \in Outcomes : UseCaseStep(r, o) \/ Lookup(r, o) \/ LookupMeta(r, o)
  BY <1>0, <1>7, RouteCases
<1>9. CASE \E c : Refused(r, c) \/ Looks(r, c) \/ Enters(r, c)
  BY <1>2, <1>3, <1>9
<1>10. CASE \E o \in Outcomes : Lookup(r, o) \/ LookupMeta(r, o)
  BY <1>1, <1>4, <1>5, <1>10
<1>11. CASE \E o \in Outcomes : UseCaseStep(r, o)
  BY <1>1, <1>6, <1>11
<1> QED
  BY <1>8, <1>9, <1>10, <1>11

\* Requests that do not overlap never succeed on a session that was reported
\* as missing, expired or deleted, whatever calls failed on the way there.
THEOREM GoneTheorem ==
  ASSUME Single
  PROVE  RoutesSpec => GoneStaysGone
<1>1. ASSUME IndInv, AttendInv, AnswerInv, [RoutesNext]_allVars
      PROVE  [\A r \in Requests :
                Answers(r) /\ call'[r].code \in Success => call'[r].sid \notin gone]_allVars
  BY <1>1, AnswerFacts
<1> QED
  BY <1>1, RoutesInductive, AnswerInductive, PTL DEF RoutesSpec, GoneStaysGone

\* A 404 is never answered for an upload that can be resumed, nor
\* SESSION_EXPIRED before the 24 hours are over, although the session and
\* its metadata may go between the reads and calls may fail or lose their
\* replies.
THEOREM NotFoundTheorem ==
  ASSUME Single
  PROVE  RoutesSpec => NotFoundAnswerTrue
<1>1. ASSUME IndInv, AttendInv, AnswerInv, ExpiryInv, RoutesNext, NEW r \in Requests,
             Answers(r), call'[r].code \in {"404", "404 expired"}
      PROVE  /\ call'[r].sid \notin Active'
             /\ call'[r].code = "404 expired" => lapsed[call'[r].sid]
  <2>1. PICK c : /\ c = call'[r] /\ Ended(hash'[c.sid])
                 /\ c.code = "404 expired" =>
                      c.sid \in SessionIds /\ hash[c.sid] = Null /\ meta[c.sid]
    BY <1>1, AnswerFacts
  <2>2. c.sid \notin Active'
    BY <2>1 DEF Active, Ended
  <2>3. c.code = "404 expired" => lapsed[c.sid]
    BY <1>1, <2>1 DEF ExpiryInv, SessionExpiryOK
  <2> QED
    BY <2>1, <2>2, <2>3
<1>2. ASSUME IndInv, AttendInv, AnswerInv, ExpiryInv, [RoutesNext]_allVars
      PROVE  [\A r \in Requests :
                Answers(r) /\ call'[r].code \in {"404", "404 expired"} =>
                  /\ call'[r].sid \notin Active'
                  /\ call'[r].code = "404 expired" => lapsed[call'[r].sid]]_allVars
  BY <1>1, <1>2
<1> QED
  BY <1>2, RoutesInductive, AnswerInductive, PTL DEF RoutesSpec, NotFoundAnswerTrue

\* A POST, PATCH or HEAD that is answered with an error has left the session
\* as it was, as long as no reply is lost: a chunk that was stored although
\* the reply was lost is answered with 503.
THEOREM ErrorsTheorem ==
  ASSUME Single, "lost" \notin FaultKinds
  PROVE  RoutesSpec => ErrorsChangeNothing
<1>1. ASSUME IndInv, AttendInv, AnswerInv, [RoutesNext]_allVars
      PROVE  [\A r \in Requests :
                Answers(r) /\ call'[r].route # "DELETE" /\ call'[r].code \notin Success
                  /\ call'[r].sid # Null
                => hash'[call'[r].sid] \in {call'[r].before, Null}]_allVars
  BY <1>1, AnswerFacts
<1> QED
  BY <1>1, RoutesInductive, AnswerInductive, PTL DEF RoutesSpec, ErrorsChangeNothing
============================================================================
