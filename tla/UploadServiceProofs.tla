------------------------ MODULE UploadServiceProofs ------------------------
(***************************************************************************)
(* Safety of the upload service for any number of handlers, sessions,      *)
(* chunks and faults: types, agreement of manifest and offset, COMPLETE    *)
(* only after the event, registration only of announced files, use of the  *)
(* limiter as its own specification allows, truthful expiry metadata.      *)
(***************************************************************************)
EXTENDS UploadService, TLAPS

----------------------------------------------------------------------------
(* What the operations of the UploadSession entity preserve *)

\* A session is a record of its fields, with the offset within the file.
LEMMA FieldTypes ==
  ASSUME NEW u \in UploadSessions
  PROVE  /\ u.status \in Status
         /\ u.offset \in Nat
         /\ u.size \in 1 .. MaxSize
         /\ u.sha256 \in Content
         /\ u.manifest \in Seq(ManifestEntry)
         /\ u.offset <= u.size
         /\ u.size \in Nat
         /\ Len(u.manifest) \in Nat
  BY MaxSizeAssumption DEF UploadSessions, SessionFields

\* A new session is well formed.
LEMMA NewSessionGood ==
  ASSUME NEW n \in 1 .. MaxSize, NEW c \in Content
  PROVE  /\ GoodSession(NewSession(n, c))
         /\ NewSession(n, c).status = "PENDING"
         /\ NewSession(n, c).sha256 = c
<1> DEFINE u == NewSession(n, c)
           start == [i \in 0 .. 0 |-> 0]
<1>1. u \in UploadSessions
  BY MaxSizeAssumption DEF NewSession, UploadSessions, SessionFields, Status
<1>2. /\ u.manifest = <<>> /\ Len(u.manifest) = 0 /\ u.offset = 0 /\ u.size = n
      /\ u.status = "PENDING" /\ u.sha256 = c
  BY DEF NewSession
<1>3. /\ start \in [0 .. Len(u.manifest) -> 0 .. u.size]
      /\ RunningTotal(start, u.manifest)
      /\ start[Len(u.manifest)] = u.offset
  BY <1>2, MaxSizeAssumption DEF RunningTotal
<1>4. Consistent(u)
  BY <1>2, <1>3 DEF Consistent
<1> QED
  BY <1>1, <1>2, <1>4 DEF GoodSession

\* Changing the status leaves a session well formed.
LEMMA StatusGood ==
  ASSUME NEW u, GoodSession(u), NEW t \in Status
  PROVE  /\ GoodSession([u EXCEPT !.status = t])
         /\ [u EXCEPT !.status = t].status = t
         /\ [u EXCEPT !.status = t].sha256 = u.sha256
         /\ [u EXCEPT !.status = t].manifest = u.manifest
         /\ [u EXCEPT !.status = t].offset = u.offset
         /\ [u EXCEPT !.status = t].size = u.size
<1> DEFINE v == [u EXCEPT !.status = t]
<1>1. u \in SessionFields /\ u.offset <= u.size
  BY DEF GoodSession, UploadSessions
<1>2. /\ v \in UploadSessions
      /\ v.status = t
      /\ v.manifest = u.manifest /\ v.offset = u.offset /\ v.size = u.size
      /\ v.sha256 = u.sha256
  BY <1>1 DEF UploadSessions, SessionFields
<1>3. Consistent(v)
  BY <1>2 DEF GoodSession, Consistent
<1> QED
  BY <1>2, <1>3 DEF GoodSession

\* add_chunk with the next index followed by update_offset: the manifest and
\* the offset grow by the same chunk, so they stay in step.
LEMMA ReceiveGood ==
  ASSUME NEW u, GoodSession(u), NEW d \in Content, Len(d) > 0,
         CanUpdateOffset(u, u.offset + Len(d))
  PROVE  LET v == UpdateOffset(AddChunk(u, Len(u.manifest), Len(d), d),
                               u.offset + Len(d))
         IN  /\ GoodSession(v)
             /\ v.sha256 = u.sha256 /\ v.status = u.status /\ v.size = u.size
             /\ v.offset = u.offset + Len(d)
             /\ v.manifest = Append(u.manifest, [index |-> Len(u.manifest),
                                                 size |-> Len(d), checksum |-> d])
<1> DEFINE n == Len(u.manifest)
           off == u.offset + Len(d)
           e == [index |-> n, size |-> Len(d), checksum |-> d]
           v == UpdateOffset(AddChunk(u, n, Len(d), d), off)
<1>1. u \in UploadSessions
  BY DEF GoodSession
<1>2. /\ n \in Nat /\ Len(d) \in Nat /\ off \in Nat /\ off <= u.size
      /\ u.manifest \in Seq(ManifestEntry) /\ e \in ManifestEntry
      /\ u.offset \in Nat /\ u.size \in Nat
  <2>1. /\ u.offset \in Nat /\ u.size \in Nat /\ n \in Nat
        /\ u.manifest \in Seq(ManifestEntry)
    BY <1>1, FieldTypes
  <2>2. Len(d) \in Nat
    BY DEF Content
  <2>3. off \in Nat /\ off <= u.size
    BY <2>1, <2>2 DEF CanUpdateOffset
  <2>4. e \in ManifestEntry
    BY <2>1, <2>2 DEF ManifestEntry
  <2> QED
    BY <2>1, <2>2, <2>3, <2>4
<1>3. /\ v \in UploadSessions
      /\ v.manifest = Append(u.manifest, e)
      /\ v.offset = off /\ v.size = u.size
      /\ v.sha256 = u.sha256 /\ v.status = u.status
  <2>1. u \in SessionFields
    BY <1>1 DEF UploadSessions
  <2> DEFINE m == Append(u.manifest, e)
             w == [u EXCEPT !.manifest = m]
  <2>0. m \in Seq(ManifestEntry)
    BY <1>2
  <2> HIDE DEF m, e
  <2>2. /\ w \in SessionFields
        /\ w.manifest = m
        /\ w.size = u.size /\ w.sha256 = u.sha256 /\ w.status = u.status
    BY <2>0, <2>1 DEF SessionFields
  <2>3. v = [w EXCEPT !.offset = off]
    BY DEF UpdateOffset, AddChunk, m, e
  <2> HIDE DEF w
  <2> QED
    BY <2>2, <2>3, <1>2 DEF SessionFields, UploadSessions, m
<1>4. /\ Len(v.manifest) = n + 1
      /\ \A i \in 1 .. n : v.manifest[i] = u.manifest[i]
      /\ v.manifest[n + 1] = e
  BY <1>2, <1>3
<1>5. Len(v.manifest) <= v.offset
  BY <1>2, <1>3, <1>4 DEF GoodSession
<1>6. \A i \in 1 .. Len(v.manifest) :
        /\ v.manifest[i].index = i - 1
        /\ v.manifest[i].size = Len(v.manifest[i].checksum)
        /\ v.manifest[i].size > 0
  <2> SUFFICES ASSUME NEW i \in 1 .. Len(v.manifest)
               PROVE  /\ v.manifest[i].index = i - 1
                      /\ v.manifest[i].size = Len(v.manifest[i].checksum)
                      /\ v.manifest[i].size > 0
    OBVIOUS
  <2>1. CASE i \in 1 .. n
    BY <2>1, <1>4 DEF GoodSession, Consistent
  <2>2. CASE i = n + 1
    BY <2>2, <1>2, <1>4
  <2> QED
    BY <2>1, <2>2, <1>2, <1>4
<1>7. PICK start \in [0 .. n -> 0 .. u.size] :
        /\ RunningTotal(start, u.manifest)
        /\ start[n] = u.offset
  BY DEF GoodSession, Consistent
<1> DEFINE next == [i \in 0 .. n + 1 |-> IF i = n + 1 THEN off ELSE start[i]]
<1>8. next \in [0 .. Len(v.manifest) -> 0 .. v.size]
  BY <1>2, <1>3, <1>4, <1>7
<1>9. next[Len(v.manifest)] = v.offset
  BY <1>2, <1>3, <1>4
<1>10. RunningTotal(next, v.manifest)
  <2>1. next[0] = 0
    BY <1>2, <1>7 DEF RunningTotal
  <2>2. ASSUME NEW i \in 1 .. Len(v.manifest)
        PROVE  next[i] = next[i - 1] + v.manifest[i].size
    <3>1. CASE i \in 1 .. n
      <4>1. next[i] = start[i] /\ next[i - 1] = start[i - 1]
        BY <3>1, <1>2
      <4> QED
        BY <4>1, <3>1, <1>4, <1>7 DEF RunningTotal
    <3>2. CASE i = n + 1
      <4>1. next[i] = off /\ next[i - 1] = start[n]
        BY <3>2, <1>2
      <4> QED
        BY <4>1, <3>2, <1>2, <1>4, <1>7
    <3> QED
      BY <3>1, <3>2, <1>2, <1>4
  <2> QED
    BY <2>1, <2>2 DEF RunningTotal
<1> HIDE DEF next, v
<1>11. Consistent(v)
  BY <1>6, <1>8, <1>9, <1>10 DEF Consistent
<1> QED
  BY <1>3, <1>5, <1>11 DEF GoodSession, v

----------------------------------------------------------------------------
(* Handler values *)

\* The value of a handler that is not running.
LEMMA IdleFields ==
  /\ Idle \in Handler
  /\ Idle.pc = "idle" /\ Idle.loc = Null
  /\ Idle.got = <<>> /\ Idle.caller = "none" /\ Idle.data = <<>>
  BY DEF Idle, Handler, PCs, Callers, Content

\* What moving a handler to another point changes.
LEMMA PcFields ==
  ASSUME NEW h \in Handler, NEW p \in PCs
  PROVE  LET g == [h EXCEPT !.pc = p]
         IN  /\ g \in Handler
             /\ g.pc = p /\ g.sid = h.sid /\ g.loc = h.loc
             /\ g.data = h.data /\ g.got = h.got /\ g.caller = h.caller
  BY DEF Handler

\* What calling update_session changes.
LEMMA SaveFields ==
  ASSUME NEW h \in Handler, NEW u \in UploadSessions, NEW c \in Callers
  PROVE  LET g == Save(h, u, c)
         IN  /\ g \in Handler
             /\ g.pc = "probe" /\ g.sid = h.sid /\ g.loc = u /\ g.caller = c
  BY DEF Save, Handler, PCs

\* Where update_session can send a handler.
LEMMA UpdateTargets ==
  ASSUME NEW h \in Handler, GoodSession(h.loc), NEW result
  PROVE  LET g == AfterUpdate(h, result)
         IN  \/ g = Idle
             \/ /\ g \in Handler
                /\ g.sid = h.sid /\ g.loc = h.loc /\ g.caller = h.caller
                /\ \/ g.pc = "del" /\ h.caller = "abort"
                   \/ g.pc = "decr" /\ h.caller = "complete"
                /\ result = "ok"
             \/ g = Fail(h)
<1>1. /\ [h EXCEPT !.pc = "del"] \in Handler
      /\ [h EXCEPT !.pc = "del"].sid = h.sid
      /\ [h EXCEPT !.pc = "del"].loc = h.loc
      /\ [h EXCEPT !.pc = "del"].caller = h.caller
      /\ [h EXCEPT !.pc = "del"].pc = "del"
  BY PcFields DEF PCs
<1>2. /\ [h EXCEPT !.pc = "decr"] \in Handler
      /\ [h EXCEPT !.pc = "decr"].sid = h.sid
      /\ [h EXCEPT !.pc = "decr"].loc = h.loc
      /\ [h EXCEPT !.pc = "decr"].caller = h.caller
      /\ [h EXCEPT !.pc = "decr"].pc = "decr"
  BY PcFields DEF PCs
<1> QED
  BY <1>1, <1>2 DEF AfterUpdate

\* What the failure handlers change.
LEMMA FailFields ==
  ASSUME NEW h \in Handler, GoodSession(h.loc)
  PROVE  /\ Fail(h) \in Handler
         /\ Fail(h).pc = "probe" /\ Fail(h).sid = h.sid
         /\ Fail(h).loc = MarkFailed(h.loc) /\ Fail(h).caller = "failed"
         /\ MarkFailed(h.loc) \in UploadSessions
<1> DEFINE u == MarkFailed(h.loc)
<1>1. u \in UploadSessions
  BY StatusGood DEF MarkFailed, Status, GoodSession
<1>2. "failed" \in Callers /\ Fail(h) = Save(h, u, "failed")
  BY DEF Callers, Fail
<1> HIDE DEF u
<1>3. /\ Fail(h) \in Handler
      /\ Fail(h).pc = "probe" /\ Fail(h).sid = h.sid
      /\ Fail(h).loc = u /\ Fail(h).caller = "failed"
  BY <1>1, <1>2, SaveFields
<1> QED
  BY <1>1, <1>3 DEF u

\* An idle handler is well formed whatever events are out.
LEMMA IdleOK ==
  ASSUME NEW E
  PROVE  HandlerOK(Idle, E)
  BY IdleFields DEF HandlerOK

\* More events never hurt.
LEMMA MoreEvents ==
  ASSUME NEW h, NEW E, NEW F, E \subseteq F, HandlerOK(h, E)
  PROVE  HandlerOK(h, F)
  BY DEF HandlerOK

\* A running handler may move on to any point that needs no more than the
\* session it holds.
LEMMA MoveOK ==
  ASSUME NEW h, NEW E, HandlerOK(h, E), h.pc # "idle",
         NEW p \in PCs \ {"idle", "set", "get", "cleanup"},
         p \in Completing => Len(h.loc.manifest) > 0,
         p = "register" => h.caller = "complete"
  PROVE  HandlerOK([h EXCEPT !.pc = p], E)
<1> DEFINE g == [h EXCEPT !.pc = p]
<1>1. h \in Handler
  BY DEF HandlerOK
<1>2. /\ g \in Handler
      /\ g.pc = p /\ g.sid = h.sid /\ g.loc = h.loc /\ g.caller = h.caller
  BY <1>1 DEF Handler
<1>3. p # "idle" /\ p # "set" /\ p # "get" /\ p # "cleanup"
  OBVIOUS
<1>4. /\ h.sid \in SessionIds /\ GoodSession(h.loc) /\ h.loc.sha256 \in Shas
      /\ h.loc.status = "COMPLETE" \/ h.caller = "complete" =>
           [file |-> h.sid, sha256 |-> h.loc.sha256] \in E
      /\ h.caller = "complete" => Len(h.loc.manifest) > 0
  BY DEF HandlerOK
<1> HIDE DEF g
<1>5. HandlerOK(g, E)
  BY <1>2, <1>3, <1>4, Zenon DEF HandlerOK
<1> QED
  BY <1>5 DEF g

\* Calling update_session with a well-formed session.
LEMMA SaveOK ==
  ASSUME NEW h, NEW E, HandlerOK(h, E), h.pc # "idle",
         NEW u, GoodSession(u), u.sha256 \in Shas, NEW c \in Callers,
         u.status = "COMPLETE" \/ c = "complete" =>
           [file |-> h.sid, sha256 |-> u.sha256] \in E,
         c = "complete" => Len(u.manifest) > 0
  PROVE  HandlerOK(Save(h, u, c), E)
<1> DEFINE g == Save(h, u, c)
<1>1. h \in Handler /\ u \in UploadSessions
  BY DEF HandlerOK, GoodSession
<1>2. /\ g \in Handler
      /\ g.pc = "probe" /\ g.sid = h.sid /\ g.loc = u /\ g.caller = c
  BY <1>1 DEF Save, Handler, PCs
<1>3. h.sid \in SessionIds
  BY DEF HandlerOK
<1>4. "probe" \notin Completing
  BY DEF Completing
<1> HIDE DEF g
<1>5. HandlerOK(g, E)
  BY <1>2, <1>3, <1>4 DEF HandlerOK
<1> QED
  BY <1>5 DEF g

\* Going to the failure handler.
LEMMA FailOK ==
  ASSUME NEW h, NEW E, HandlerOK(h, E), h.pc # "idle"
  PROVE  HandlerOK(Fail(h), E)
<1>1. GoodSession(h.loc) /\ h.loc.sha256 \in Shas
  BY DEF HandlerOK
<1> DEFINE u == MarkFailed(h.loc)
<1>2. GoodSession(u) /\ u.sha256 = h.loc.sha256 /\ u.status = "FAILED"
  BY <1>1, StatusGood DEF MarkFailed, Status
<1> HIDE DEF u
<1>3. HandlerOK(Save(h, u, "failed"), E)
  BY <1>1, <1>2, SaveOK DEF Callers
<1> QED
  BY <1>3 DEF Fail, u

\* Wherever update_session sends a handler, it is well formed there.
LEMMA AfterUpdateOK ==
  ASSUME NEW h, NEW E, HandlerOK(h, E), h.pc # "idle", NEW result
  PROVE  HandlerOK(AfterUpdate(h, result), E)
<1>1. HandlerOK([h EXCEPT !.pc = "del"], E)
  BY MoveOK DEF PCs, Completing
<1>2. HandlerOK([h EXCEPT !.pc = "decr"], E)
  BY MoveOK DEF PCs, Completing
<1> QED
  BY <1>1, <1>2, FailOK, IdleOK DEF AfterUpdate

\* The same for decrement.
LEMMA AfterDecrementOK ==
  ASSUME NEW h, NEW E, HandlerOK(h, E), h.pc # "idle"
  PROVE  HandlerOK(AfterDecrement(h), E)
<1>1. CASE h.caller = "complete"
  <2>1. Len(h.loc.manifest) > 0
    BY <1>1 DEF HandlerOK
  <2>2. HandlerOK([h EXCEPT !.pc = "register"], E)
    BY <1>1, <2>1, MoveOK DEF PCs
  <2> QED
    BY <1>1, <2>2 DEF AfterDecrement
<1>2. CASE h.caller # "complete"
  BY <1>2, IdleOK DEF AfterDecrement
<1> QED
  BY <1>1, <1>2

----------------------------------------------------------------------------
(* Parts of a step *)

\* One handler takes a well-formed value, the others keep theirs.
LEMMA HandlersStep ==
  ASSUME IndInv, NEW r \in Requests, NEW h, Become(r, h),
         HandlerOK(h, published'), published \subseteq published'
  PROVE  /\ req' \in [Requests -> Handler]
         /\ \A q \in Requests : HandlerOK(req'[q], published')
<1>1. req \in [Requests -> Handler] /\ h \in Handler
  BY DEF IndInv, TypeOK, HandlerOK
<1>2. req' = [req EXCEPT ![r] = h]
  BY DEF Become
<1>3. req' \in [Requests -> Handler]
  BY <1>1, <1>2
<1>4. ASSUME NEW q \in Requests
      PROVE  HandlerOK(req'[q], published')
  <2>1. CASE q = r
    <3>1. req'[q] = h
      BY <1>1, <1>2, <2>1
    <3> QED
      BY <3>1
  <2>2. CASE q # r
    <3>1. req'[q] = req[q]
      BY <1>1, <1>2, <2>2
    <3>2. HandlerOK(req[q], published)
      BY DEF IndInv
    <3>3. HandlerOK(req[q], published')
      BY <3>2, MoreEvents
    <3> QED
      BY <3>1, <3>3
  <2> QED
    BY <2>1, <2>2
<1> QED
  BY <1>3, <1>4

\* No handler moves, no event is taken back.
LEMMA HandlersStay ==
  ASSUME IndInv, req' = req, published' = published
  PROVE  /\ req' \in [Requests -> Handler]
         /\ \A q \in Requests : HandlerOK(req'[q], published')
  BY DEF IndInv, TypeOK

\* The stored sessions stay as they are.
LEMMA StoreStays ==
  ASSUME IndInv, hash' = hash, published \subseteq published'
  PROVE  /\ hash' \in [SessionIds -> UploadSessions \cup {Null}]
         /\ \A s \in SessionIds : StoredOK(s, hash'[s], published')
<1>1. \A s \in SessionIds : StoredOK(s, hash[s], published)
  BY DEF IndInv
<1>2. \A s \in SessionIds : StoredOK(s, hash[s], published')
  BY <1>1 DEF StoredOK
<1> QED
  BY <1>2 DEF IndInv, TypeOK

\* One stored session takes a well-formed value.
LEMMA StoreStep ==
  ASSUME IndInv, NEW s \in SessionIds, NEW u, hash' = [hash EXCEPT ![s] = u],
         StoredOK(s, u, published), published' = published
  PROVE  /\ hash' \in [SessionIds -> UploadSessions \cup {Null}]
         /\ \A t \in SessionIds : StoredOK(t, hash'[t], published')
<1>1. /\ hash \in [SessionIds -> UploadSessions \cup {Null}]
      /\ u \in UploadSessions \cup {Null}
  BY DEF IndInv, TypeOK, StoredOK
<1>2. hash' \in [SessionIds -> UploadSessions \cup {Null}]
  BY <1>1
<1>3. ASSUME NEW t \in SessionIds
      PROVE  StoredOK(t, hash'[t], published')
  <2>1. CASE t = s
    BY <2>1, <1>1
  <2>2. CASE t # s
    <3>1. hash'[t] = hash[t]
      BY <1>1, <2>2
    <3> QED
      BY <3>1 DEF IndInv
  <2> QED
    BY <2>1, <2>2
<1> QED
  BY <1>2, <1>3

\* What a handler holds may be stored.
LEMMA HandlerStores ==
  ASSUME NEW h, NEW E, HandlerOK(h, E), h.pc # "idle"
  PROVE  StoredOK(h.sid, h.loc, E) /\ h.sid \in SessionIds
  BY DEF HandlerOK, StoredOK, GoodSession

\* The budget of faults is kept.
LEMMA SpendOK ==
  ASSUME TypeOK, NEW o, Spend(o)
  PROVE  faults' \in 0 .. MaxFaults
  BY ServiceAssumption DEF TypeOK, Spend

\* The registered checksums stay as they are.
LEMMA RegistryStays ==
  ASSUME IndInv, dedup' = dedup, published \subseteq published'
  PROVE  /\ dedup' \in [Shas -> SessionIds \cup {Null}]
         /\ RegisteredIsPublished'
  BY DEF IndInv, TypeOK, RegisteredIsPublished

\* A step that only moves one handler (a call that reads).
LEMMA ReadStep ==
  ASSUME IndInv, NEW r \in Requests, NEW h, Become(r, h), HandlerOK(h, published),
         UNCHANGED <<redis, object, published, lapsed, told>>,
         used' \subseteq SessionIds, faults' \in 0 .. MaxFaults
  PROVE  IndInv'
<1>1. /\ req' \in [Requests -> Handler]
      /\ \A q \in Requests : HandlerOK(req'[q], published')
  BY HandlersStep
<1>2. /\ hash' \in [SessionIds -> UploadSessions \cup {Null}]
      /\ \A s \in SessionIds : StoredOK(s, hash'[s], published')
  BY StoreStays DEF redis
<1>3. RegisteredIsPublished'
  BY RegistryStays DEF redis
<1>4. TypeOK'
  BY <1>1, <1>2 DEF IndInv, TypeOK, redis
<1> QED
  BY <1>1, <1>2, <1>3, <1>4 DEF IndInv

----------------------------------------------------------------------------
(* The actions *)

\* A handler that has just read session s and is at "set" or "get".
LEMMA ArriveOK ==
  ASSUME IndInv, NEW s \in SessionIds, hash[s] # Null, ~IsTerminal(hash[s]),
         NEW h \in Handler, h.sid = s, h.loc = hash[s],
         h.got = <<>>, h.caller = "none",
         \/ h.pc = "set" /\ Len(h.data) > 0
         \/ h.pc = "get" /\ Len(hash[s].manifest) > 0
  PROVE  HandlerOK(h, published)
<1>1. /\ GoodSession(hash[s])
      /\ hash[s].sha256 \in Shas
      /\ hash[s].status # "COMPLETE"
  BY DEF IndInv, StoredOK, IsTerminal, Terminal
<1>2. Len(h.got) = 0
  OBVIOUS
<1> QED
  BY <1>1, <1>2 DEF HandlerOK, Completing

\* InitiateCheck preserves the invariant.
LEMMA InitiateCheckOK ==
  ASSUME IndInv, NEW r \in Requests, NEW s \in SessionIds, NEW d \in Declarations,
         InitiateCheck(r, s, d)
  PROVE  IndInv'
<1> DEFINE u == NewSession(d.size, d.sha256)
           h == [Idle EXCEPT !.pc = "incr", !.sid = s, !.loc = u]
<1>1. d.size \in 1 .. MaxSize /\ d.sha256 \in Content /\ d.sha256 \in Shas
  BY ServiceAssumption DEF Shas, InitiateCheck, ValidRequest
<1>2. GoodSession(u) /\ u.status = "PENDING" /\ u.sha256 \in Shas
  BY <1>1, NewSessionGood
<1> HIDE DEF u
<1>3. /\ h \in Handler
      /\ h.pc = "incr" /\ h.sid = s /\ h.loc = u /\ h.caller = "none"
  BY <1>2, IdleFields DEF Handler, PCs, GoodSession
<1>4. Become(r, h)
  BY DEF InitiateCheck, u
<1> HIDE DEF h
<1>5. HandlerOK(h, published)
  BY <1>2, <1>3 DEF HandlerOK, Completing
<1> QED
  BY <1>4, <1>5, ReadStep DEF InitiateCheck, IndInv, TypeOK, redis

\* ChunkGet preserves the invariant.
LEMMA ChunkGetOK ==
  ASSUME IndInv, NEW r \in Requests, NEW s \in SessionIds, NEW p \in Patches[s],
         ChunkGet(r, s, p)
  PROVE  IndInv'
<1> DEFINE h == [Idle EXCEPT !.pc = "set", !.sid = s, !.loc = hash[s], !.data = p.data]
<1>1. p.data \in Content /\ Len(p.data) > 0
  BY ServiceAssumption DEF ChunkGet, Found, AcceptsChunk, VerifyChunk
<1>2. hash[s] # Null /\ ~IsTerminal(hash[s]) /\ Become(r, h)
  BY DEF ChunkGet, Found, AcceptsChunk, VerifyChunk
<1>3. hash[s] \in UploadSessions
  BY <1>2 DEF IndInv, StoredOK
<1>4. /\ h \in Handler
      /\ h.pc = "set" /\ h.sid = s /\ h.loc = hash[s] /\ h.data = p.data
      /\ h.got = <<>> /\ h.caller = "none"
  BY <1>1, <1>3, IdleFields DEF Handler, PCs
<1> HIDE DEF h
<1>5. HandlerOK(h, published)
  BY <1>1, <1>2, <1>4, ArriveOK
<1> QED
  BY <1>2, <1>5, ReadStep DEF ChunkGet, Found, IndInv, TypeOK, redis

\* CompleteGet preserves the invariant.
LEMMA CompleteGetOK ==
  ASSUME IndInv, NEW r \in Requests, NEW s \in SessionIds, CompleteGet(r, s)
  PROVE  IndInv'
<1> DEFINE h == [Idle EXCEPT !.pc = "get", !.sid = s, !.loc = hash[s]]
<1>1. /\ hash[s] # Null /\ ~IsTerminal(hash[s]) /\ Become(r, h)
      /\ hash[s].manifest # <<>>
  BY DEF CompleteGet, Found, Completable, ManifestComplete, IsTerminal, Terminal
<1>2. hash[s] \in UploadSessions
  BY <1>1 DEF IndInv, StoredOK
<1>3. Len(hash[s].manifest) > 0
  <2>1. hash[s].manifest \in Seq(ManifestEntry)
    BY <1>2, FieldTypes
  <2> QED
    BY <1>1, <2>1
<1>4. /\ h \in Handler
      /\ h.pc = "get" /\ h.sid = s /\ h.loc = hash[s]
      /\ h.got = <<>> /\ h.caller = "none"
  BY <1>2, IdleFields DEF Handler, PCs
<1> HIDE DEF h
<1>5. HandlerOK(h, published)
  BY <1>1, <1>3, <1>4, ArriveOK
<1> QED
  BY <1>1, <1>5, ReadStep DEF CompleteGet, Found, IndInv, TypeOK, redis

\* AbortGet preserves the invariant.
LEMMA AbortGetOK ==
  ASSUME IndInv, NEW r \in Requests, NEW s \in SessionIds, AbortGet(r, s)
  PROVE  IndInv'
<1> DEFINE u == MarkAborted(hash[s])
           g == Save(Idle, u, "abort")
           h == [g EXCEPT !.sid = s]
<1>1. hash[s] # Null /\ Become(r, h)
  BY DEF AbortGet, Found
<1>2. /\ GoodSession(hash[s])
      /\ hash[s].sha256 \in Shas
  BY <1>1 DEF IndInv, StoredOK
<1>3. GoodSession(u) /\ u.status = "ABORTED" /\ u.sha256 \in Shas
  BY <1>2, StatusGood DEF MarkAborted, Status
<1> HIDE DEF u
<1>4. g \in Handler /\ g.pc = "probe" /\ g.loc = u /\ g.caller = "abort"
  BY <1>3, IdleFields DEF Save, Handler, PCs, Callers, GoodSession
<1> HIDE DEF g
<1>5. /\ h \in Handler
      /\ h.pc = "probe" /\ h.sid = s /\ h.loc = u /\ h.caller = "abort"
  BY <1>4 DEF Handler
<1> HIDE DEF h
<1>6. HandlerOK(h, published)
  BY <1>3, <1>5 DEF HandlerOK, Completing
<1> QED
  BY <1>1, <1>6, ReadStep DEF AbortGet, Found, IndInv, TypeOK, redis

\* The handlers whose call is under way are well formed and running.
LEMMA Running ==
  ASSUME IndInv, NEW r \in Requests, req[r].pc # "idle"
  PROVE  /\ HandlerOK(req[r], published)
         /\ req[r] \in Handler
         /\ req[r].sid \in SessionIds
         /\ GoodSession(req[r].loc)
         /\ req[r].loc \in UploadSessions
         /\ req[r].loc.sha256 \in Shas
  BY DEF IndInv, HandlerOK, GoodSession

\* UpdateProbe preserves the invariant.
LEMMA UpdateProbeOK ==
  ASSUME IndInv, NEW r \in Requests, NEW o \in Outcomes, UpdateProbe(r, o)
  PROVE  IndInv'
<1> DEFINE h == req[r]
           g == IF Raises(o) THEN AfterUpdate(h, "infra")
                ELSE IF hash[h.sid] = Null THEN AfterUpdate(h, "notfound")
                ELSE [h EXCEPT !.pc = "hset"]
<1>1. h.pc = "probe" /\ Become(r, g) /\ Spend(o)
  BY DEF UpdateProbe
<1>2. HandlerOK(h, published)
  BY <1>1, Running
<1>3. HandlerOK([h EXCEPT !.pc = "hset"], published)
  BY <1>1, <1>2, MoveOK DEF PCs, Completing
<1>4. HandlerOK(g, published)
  BY <1>1, <1>2, <1>3, AfterUpdateOK
<1>5. faults' \in 0 .. MaxFaults
  BY <1>1, SpendOK DEF IndInv
<1> HIDE DEF g
<1> QED
  BY <1>1, <1>4, <1>5, ReadStep DEF UpdateProbe, IndInv, TypeOK, redis

\* RetrieveChunk preserves the invariant.
LEMMA RetrieveChunkOK ==
  ASSUME IndInv, NEW r \in Requests, NEW o \in Outcomes, RetrieveChunk(r, o)
  PROVE  IndInv'
<1> DEFINE h == req[r]
           chunk == blob[h.sid][Len(h.got)]
           got == Append(h.got, chunk)
           next == IF Len(got) = Len(h.loc.manifest) THEN "head" ELSE "get"
           f == [h EXCEPT !.got = got, !.pc = next]
           g == IF Raises(o) THEN Fail(h) ELSE IF chunk = Null THEN Idle ELSE f
<1>1. h.pc = "get" /\ Become(r, g) /\ Spend(o)
  BY DEF RetrieveChunk
<1>2. HandlerOK(h, published) /\ h \in Handler /\ h.sid \in SessionIds /\ GoodSession(h.loc)
  BY <1>1, Running
<1>3. /\ Len(h.got) < Len(h.loc.manifest) /\ h.got \in Seq(Content)
      /\ Len(h.got) \in Nat /\ Len(h.loc.manifest) \in Nat
      /\ Len(h.loc.manifest) <= MaxSize
  BY <1>1, <1>2, FieldTypes, MaxSizeAssumption DEF HandlerOK, GoodSession, Handler
<1>4. chunk \in Content \cup {Null}
  BY <1>2, <1>3, MaxSizeAssumption DEF IndInv, TypeOK, Indices
<1>5. ASSUME chunk # Null
      PROVE  HandlerOK(f, published)
  <2>1. got \in Seq(Content) /\ Len(got) = Len(h.got) + 1
    BY <1>3, <1>4, <1>5
  <2>2. next \in {"head", "get"} /\ (next = "get" => Len(got) < Len(h.loc.manifest))
    BY <1>3, <2>1
  <2> HIDE DEF got, next
  <2>3. /\ f \in Handler
        /\ f.pc = next /\ f.sid = h.sid /\ f.loc = h.loc /\ f.got = got
        /\ f.caller = h.caller
    BY <1>2, <2>1, <2>2 DEF Handler, PCs
  <2> HIDE DEF f
  <2> QED
    BY <1>1, <1>2, <2>2, <2>3 DEF HandlerOK, Completing
<1>6. HandlerOK(Fail(h), published) /\ HandlerOK(Idle, published)
  BY <1>1, <1>2, FailOK, IdleOK
<1>7. faults' \in 0 .. MaxFaults
  BY <1>1, SpendOK DEF IndInv
<1> HIDE DEF f, chunk
<1>8. HandlerOK(g, published)
  BY <1>5, <1>6
<1> HIDE DEF g
<1> QED
  BY <1>1, <1>7, <1>8, ReadStep DEF RetrieveChunk, IndInv, TypeOK, redis

\* CheckFileExists preserves the invariant.
LEMMA CheckFileExistsOK ==
  ASSUME IndInv, NEW r \in Requests, NEW o \in Outcomes, CheckFileExists(r, o)
  PROVE  IndInv'
<1> DEFINE h == req[r]
           g == IF Raises(o) \/ object[h.sid] # Null THEN Fail(h)
                ELSE [h EXCEPT !.pc = "assemble"]
<1>1. h.pc = "head" /\ Become(r, g) /\ Spend(o)
  BY DEF CheckFileExists
<1>2. HandlerOK(h, published)
  BY <1>1, Running
<1>3. Len(h.loc.manifest) > 0
  BY <1>1, <1>2 DEF HandlerOK, Completing
<1>4. HandlerOK([h EXCEPT !.pc = "assemble"], published)
  BY <1>1, <1>2, <1>3, MoveOK DEF PCs
<1>5. HandlerOK(g, published)
  BY <1>1, <1>2, <1>4, FailOK
<1>6. faults' \in 0 .. MaxFaults
  BY <1>1, SpendOK DEF IndInv
<1> HIDE DEF g
<1> QED
  BY <1>1, <1>5, <1>6, ReadStep DEF CheckFileExists, IndInv, TypeOK, redis

\* CheckDuplicate preserves the invariant.
LEMMA CheckDuplicateOK ==
  ASSUME IndInv, NEW r \in Requests, NEW o \in Outcomes, CheckDuplicate(r, o)
  PROVE  IndInv'
<1> DEFINE h == req[r]
           u == MarkFailed(h.loc)
           g == IF Raises(o) THEN Fail(h)
                ELSE IF IsDuplicate(h) THEN Save(h, u, "dup")
                ELSE [h EXCEPT !.pc = "publish"]
<1>1. h.pc = "dedup" /\ Become(r, g) /\ Spend(o)
  BY DEF CheckDuplicate
<1>2. HandlerOK(h, published) /\ GoodSession(h.loc) /\ h.loc.sha256 \in Shas
  BY <1>1, Running
<1>3. Len(h.loc.manifest) > 0
  BY <1>1, <1>2 DEF HandlerOK, Completing
<1>4. HandlerOK([h EXCEPT !.pc = "publish"], published)
  BY <1>1, <1>2, <1>3, MoveOK DEF PCs
<1>5. GoodSession(u) /\ u.status = "FAILED" /\ u.sha256 \in Shas
  BY <1>2, StatusGood DEF MarkFailed, Status
<1> HIDE DEF u
<1>6. HandlerOK(Save(h, u, "dup"), published)
  BY <1>1, <1>2, <1>5, SaveOK DEF Callers
<1>7. HandlerOK(g, published)
  BY <1>1, <1>2, <1>4, <1>6, FailOK
<1>8. faults' \in 0 .. MaxFaults
  BY <1>1, SpendOK DEF IndInv
<1> HIDE DEF g
<1> QED
  BY <1>1, <1>7, <1>8, ReadStep DEF CheckDuplicate, IndInv, TypeOK, redis

\* Crash preserves the invariant.
LEMMA CrashOK ==
  ASSUME IndInv, NEW r \in Requests, Crash(r)
  PROVE  IndInv'
<1>1. faults' \in 0 .. MaxFaults
  BY ServiceAssumption DEF Crash, IndInv, TypeOK
<1>2. HandlerOK(Idle, published)
  BY IdleOK
<1> QED
  BY <1>1, <1>2, ReadStep DEF Crash, IndInv, TypeOK, redis

\* A step that moves one handler and changes the counter.
LEMMA CounterStep ==
  ASSUME IndInv, NEW r \in Requests, NEW h, Become(r, h), HandlerOK(h, published),
         count' \in Int,
         UNCHANGED <<store, blob, dedup, object, published, used, lapsed, told>>,
         faults' \in 0 .. MaxFaults
  PROVE  IndInv'
<1>1. /\ req' \in [Requests -> Handler]
      /\ \A q \in Requests : HandlerOK(req'[q], published')
  BY HandlersStep
<1>2. /\ hash' \in [SessionIds -> UploadSessions \cup {Null}]
      /\ \A s \in SessionIds : StoredOK(s, hash'[s], published')
  BY StoreStays DEF store
<1>3. RegisteredIsPublished'
  BY RegistryStays
<1>4. TypeOK'
  BY <1>1, <1>2 DEF IndInv, TypeOK, store
<1> QED
  BY <1>1, <1>2, <1>3, <1>4 DEF IndInv

\* InitiateIncrement preserves the invariant.
LEMMA InitiateIncrementOK ==
  ASSUME IndInv, NEW r \in Requests, NEW o \in Outcomes, InitiateIncrement(r, o)
  PROVE  IndInv'
<1> DEFINE h == req[r]
           g == IF Raises(o) THEN Idle ELSE [h EXCEPT !.pc = "create"]
<1>1. h.pc = "incr" /\ Become(r, g) /\ Spend(o)
  BY DEF InitiateIncrement
<1>2. HandlerOK([h EXCEPT !.pc = "create"], published)
  BY <1>1, Running, MoveOK DEF PCs, Completing
<1>3. HandlerOK(g, published)
  BY <1>2, IdleOK
<1>4. faults' \in 0 .. MaxFaults
  BY <1>1, SpendOK DEF IndInv
<1>5. count' \in Int
  BY DEF InitiateIncrement, IndInv, TypeOK
<1> HIDE DEF g
<1> QED
  BY <1>1, <1>3, <1>4, <1>5, CounterStep DEF InitiateIncrement

\* DecrementHincrby preserves the invariant.
LEMMA DecrementHincrbyOK ==
  ASSUME IndInv, NEW r \in Requests, NEW o \in Outcomes, DecrementHincrby(r, o)
  PROVE  IndInv'
<1> DEFINE h == req[r]
           g == IF ~Raises(o) /\ count' < 0 THEN [h EXCEPT !.pc = "zero"]
                ELSE AfterDecrement(h)
<1>1. h.pc = "decr" /\ Become(r, g) /\ Spend(o)
  BY DEF DecrementHincrby
<1>2. HandlerOK([h EXCEPT !.pc = "zero"], published)
  BY <1>1, Running, MoveOK DEF PCs, Completing
<1>3. HandlerOK(AfterDecrement(h), published)
  BY <1>1, Running, AfterDecrementOK
<1>4. HandlerOK(g, published)
  BY <1>2, <1>3
<1>5. faults' \in 0 .. MaxFaults
  BY <1>1, SpendOK DEF IndInv
<1>6. count' \in Int
  BY DEF DecrementHincrby, IndInv, TypeOK
<1> HIDE DEF g
<1> QED
  BY <1>1, <1>4, <1>5, <1>6, CounterStep DEF DecrementHincrby

\* DecrementZero preserves the invariant.
LEMMA DecrementZeroOK ==
  ASSUME IndInv, NEW r \in Requests, NEW o \in Outcomes, DecrementZero(r, o)
  PROVE  IndInv'
<1>1. req[r].pc = "zero" /\ Become(r, AfterDecrement(req[r])) /\ Spend(o)
  BY DEF DecrementZero
<1>2. HandlerOK(AfterDecrement(req[r]), published)
  BY <1>1, Running, AfterDecrementOK
<1>3. faults' \in 0 .. MaxFaults
  BY <1>1, SpendOK DEF IndInv
<1>4. count' \in Int
  BY DEF DecrementZero, IndInv, TypeOK
<1> QED
  BY <1>1, <1>2, <1>3, <1>4, CounterStep DEF DecrementZero

\* A step that moves one handler and changes the session keys.
LEMMA StoreWriteStep ==
  ASSUME IndInv, NEW r \in Requests, NEW h, Become(r, h), HandlerOK(h, published),
         NEW s \in SessionIds, NEW u, StoredOK(s, u, published),
         hash' = [hash EXCEPT ![s] = u] \/ hash' = hash,
         ttl' \in [SessionIds -> BOOLEAN], meta' \in [SessionIds -> BOOLEAN],
         told' \in [SessionIds -> Nat],
         UNCHANGED <<blob, count, dedup, object, published, used, lapsed>>,
         faults' \in 0 .. MaxFaults
  PROVE  IndInv'
<1>1. /\ req' \in [Requests -> Handler]
      /\ \A q \in Requests : HandlerOK(req'[q], published')
  BY HandlersStep
<1>2. /\ hash' \in [SessionIds -> UploadSessions \cup {Null}]
      /\ \A t \in SessionIds : StoredOK(t, hash'[t], published')
  BY StoreStays, StoreStep
<1>3. RegisteredIsPublished'
  BY RegistryStays
<1>4. TypeOK'
  BY <1>1, <1>2 DEF IndInv, TypeOK
<1> QED
  BY <1>1, <1>2, <1>3, <1>4 DEF IndInv

\* InitiateCreate preserves the invariant.
LEMMA InitiateCreateOK ==
  ASSUME IndInv, NEW r \in Requests, NEW o \in Outcomes, InitiateCreate(r, o)
  PROVE  IndInv'
<1> DEFINE h == req[r]
           f == [h EXCEPT !.pc = "decr", !.caller = "initfail"]
           g == IF Raises(o) THEN f ELSE Idle
<1>1. h.pc = "create" /\ Become(r, g) /\ Spend(o)
  BY DEF InitiateCreate
<1>2. HandlerOK(h, published) /\ h \in Handler
  BY <1>1, Running
<1>3. HandlerOK(f, published)
  <2>1. /\ f \in Handler
        /\ f.pc = "decr" /\ f.sid = h.sid /\ f.loc = h.loc /\ f.caller = "initfail"
    BY <1>2 DEF Handler, PCs, Callers
  <2> HIDE DEF f
  <2> QED
    BY <1>1, <1>2, <2>1 DEF HandlerOK, Completing
<1> HIDE DEF f
<1>4. HandlerOK(g, published)
  BY <1>3, IdleOK
<1>5. StoredOK(h.sid, h.loc, published) /\ h.sid \in SessionIds
  BY <1>1, <1>2, HandlerStores
<1>6. faults' \in 0 .. MaxFaults
  BY <1>1, SpendOK DEF IndInv
<1>7. hash' = [hash EXCEPT ![h.sid] = h.loc] \/ hash' = hash
  BY DEF InitiateCreate, store
<1>8. ttl' \in [SessionIds -> BOOLEAN] /\ meta' \in [SessionIds -> BOOLEAN]
  BY <1>5 DEF InitiateCreate, store, IndInv, TypeOK
<1>9. told' \in [SessionIds -> Nat]
  BY DEF InitiateCreate, IndInv, TypeOK
<1> HIDE DEF g, h
<1> QED
  BY <1>1, <1>4, <1>5, <1>6, <1>7, <1>8, <1>9, StoreWriteStep DEF InitiateCreate

\* UpdateHset preserves the invariant.
LEMMA UpdateHsetOK ==
  ASSUME IndInv, NEW r \in Requests, NEW o \in Outcomes, UpdateHset(r, o)
  PROVE  IndInv'
<1> DEFINE h == req[r]
           g == AfterUpdate(h, IF Raises(o) THEN "infra" ELSE "ok")
<1>1. h.pc = "hset" /\ Become(r, g) /\ Spend(o)
  BY DEF UpdateHset
<1>2. HandlerOK(h, published)
  BY <1>1, Running
<1>3. HandlerOK(g, published)
  BY <1>1, <1>2, AfterUpdateOK
<1>4. StoredOK(h.sid, h.loc, published) /\ h.sid \in SessionIds
  BY <1>1, <1>2, HandlerStores
<1>5. faults' \in 0 .. MaxFaults
  BY <1>1, SpendOK DEF IndInv
<1>6. hash' = [hash EXCEPT ![h.sid] = h.loc] \/ hash' = hash
  BY DEF UpdateHset
<1>7. ttl' \in [SessionIds -> BOOLEAN] /\ meta' \in [SessionIds -> BOOLEAN]
  BY DEF UpdateHset, IndInv, TypeOK
<1>8. told' \in [SessionIds -> Nat]
  <2>1. h.loc.offset \in Nat
    BY <1>1, Running, FieldTypes
  <2>2. told \in [SessionIds -> Nat]
    BY DEF IndInv, TypeOK
  <2>3. told' = told \/ Tell(h.sid, h.loc.offset)
    BY DEF UpdateHset
  <2> QED
    BY <2>1, <2>2, <2>3, <1>4 DEF Tell
<1> HIDE DEF g, h
<1> QED
  BY <1>1, <1>3, <1>4, <1>5, <1>6, <1>7, <1>8, StoreWriteStep DEF UpdateHset

\* DeleteSession preserves the invariant.
LEMMA DeleteSessionOK ==
  ASSUME IndInv, NEW r \in Requests, NEW o \in Outcomes, DeleteSession(r, o)
  PROVE  IndInv'
<1> DEFINE h == req[r]
           g == IF Raises(o) THEN Idle ELSE [h EXCEPT !.pc = "decr"]
<1>1. h.pc = "del" /\ Become(r, g) /\ Spend(o)
  BY DEF DeleteSession
<1>2. HandlerOK([h EXCEPT !.pc = "decr"], published) /\ h.sid \in SessionIds
  BY <1>1, Running, MoveOK DEF PCs, Completing
<1>3. HandlerOK(g, published)
  BY <1>2, IdleOK
<1>4. StoredOK(h.sid, Null, published)
  BY DEF StoredOK
<1>5. faults' \in 0 .. MaxFaults
  BY <1>1, SpendOK DEF IndInv
<1>6. hash' = [hash EXCEPT ![h.sid] = Null] \/ hash' = hash
  BY DEF DeleteSession, store
<1>7. ttl' \in [SessionIds -> BOOLEAN] /\ meta' \in [SessionIds -> BOOLEAN]
  BY <1>2 DEF DeleteSession, MetaAfterDelete, store, IndInv, TypeOK
<1>8. told' \in [SessionIds -> Nat]
  BY DEF DeleteSession, IndInv, TypeOK
<1> HIDE DEF g, h
<1> QED
  BY <1>1, <1>2, <1>3, <1>4, <1>5, <1>6, <1>7, <1>8, StoreWriteStep DEF DeleteSession

\* A step that moves one handler and changes chunk keys, objects or events.
LEMMA DataStep ==
  ASSUME IndInv, NEW r \in Requests, NEW h, Become(r, h), HandlerOK(h, published'),
         blob' \in [SessionIds -> [Indices -> Content \cup {Null}]],
         object' \in [SessionIds -> Seq(Content) \cup {Null}],
         published \subseteq published', published' \subseteq Event,
         UNCHANGED <<store, count, dedup, used, lapsed, told>>,
         faults' \in 0 .. MaxFaults
  PROVE  IndInv'
<1>1. /\ req' \in [Requests -> Handler]
      /\ \A q \in Requests : HandlerOK(req'[q], published')
  BY HandlersStep
<1>2. /\ hash' \in [SessionIds -> UploadSessions \cup {Null}]
      /\ \A s \in SessionIds : StoredOK(s, hash'[s], published')
  BY StoreStays DEF store
<1>3. RegisteredIsPublished'
  BY RegistryStays
<1>4. TypeOK'
  BY <1>1, <1>2 DEF IndInv, TypeOK, store
<1> QED
  BY <1>1, <1>2, <1>3, <1>4 DEF IndInv

\* Writing or removing one chunk key keeps the type of the chunk keys.
LEMMA BlobWrite ==
  ASSUME TypeOK, NEW s \in SessionIds, NEW i \in Indices, NEW c \in Content \cup {Null},
         blob' = [blob EXCEPT ![s][i] = c] \/ blob' = blob
  PROVE  blob' \in [SessionIds -> [Indices -> Content \cup {Null}]]
<1>1. blob \in [SessionIds -> [Indices -> Content \cup {Null}]]
  BY DEF TypeOK
<1>2. [blob[s] EXCEPT ![i] = c] \in [Indices -> Content \cup {Null}]
  BY <1>1
<1>3. [blob EXCEPT ![s] = [blob[s] EXCEPT ![i] = c]] = [blob EXCEPT ![s][i] = c]
  BY <1>1
<1> QED
  BY <1>1, <1>2, <1>3

\* ChunkSet preserves the invariant.
LEMMA ChunkSetOK ==
  ASSUME IndInv, NEW r \in Requests, NEW o \in Outcomes, ChunkSet(r, o)
  PROVE  IndInv'
<1> DEFINE h == req[r]
           index == Len(h.loc.manifest)
           size == Len(h.data)
           off == h.loc.offset + size
           v == UpdateOffset(AddChunk(h.loc, index, size, h.data), off)
           w == MarkInProgress(v)
           refused == \/ Raises(o)
                      \/ ~CanAddChunk(h.loc, index)
                      \/ ~CanUpdateOffset(h.loc, off)
           g == IF refused THEN Idle ELSE Save(h, w, "chunk")
<1>1. h.pc = "set" /\ Become(r, g) /\ Spend(o)
  BY DEF ChunkSet
<1>2. /\ HandlerOK(h, published) /\ h \in Handler /\ h.sid \in SessionIds
      /\ GoodSession(h.loc) /\ h.loc.sha256 \in Shas /\ h.loc \in UploadSessions
  BY <1>1, Running
<1>3. h.data \in Content /\ Len(h.data) > 0
  BY <1>1, <1>2 DEF HandlerOK, Handler
<1>4. index \in Indices
  <2>1. /\ index \in Nat /\ h.loc.size \in 1 .. MaxSize /\ h.loc.offset \in Nat
        /\ h.loc.offset <= h.loc.size /\ index <= h.loc.offset
    BY <1>2, FieldTypes DEF GoodSession
  <2> QED
    BY <2>1, MaxSizeAssumption DEF Indices
<1>5. blob' \in [SessionIds -> [Indices -> Content \cup {Null}]]
  <2>1. blob' = [blob EXCEPT ![h.sid][index] = h.data] \/ blob' = blob
    BY DEF ChunkSet
  <2> QED
    BY <1>2, <1>3, <1>4, <2>1, BlobWrite DEF IndInv
<1>6. ASSUME ~refused
      PROVE  HandlerOK(Save(h, w, "chunk"), published)
  <2>1. GoodSession(v) /\ v.sha256 = h.loc.sha256 /\ v.status = h.loc.status
    BY <1>2, <1>3, <1>6, ReceiveGood
  <2> HIDE DEF v
  <2> DEFINE t == IF v.status = "PENDING" THEN "IN_PROGRESS" ELSE v.status
  <2>2. t \in Status /\ (t = "COMPLETE" => h.loc.status = "COMPLETE")
    <3>1. v.status \in Status
      BY <2>1, FieldTypes DEF GoodSession
    <3> QED
      BY <2>1, <3>1 DEF Status
  <2>3. w = [v EXCEPT !.status = t]
    BY DEF MarkInProgress
  <2> HIDE DEF t, w
  <2>4. GoodSession(w) /\ w.status = t /\ w.sha256 = h.loc.sha256
    BY <2>1, <2>2, <2>3, StatusGood
  <2>5. w.status = "COMPLETE" => [file |-> h.sid, sha256 |-> w.sha256] \in published
    BY <1>1, <1>2, <2>2, <2>4 DEF HandlerOK
  <2> HIDE DEF h
  <2> QED
    BY <1>1, <1>2, <2>4, <2>5, SaveOK DEF Callers
<1> HIDE DEF w, refused
<1>7. HandlerOK(g, published)
  BY <1>6, IdleOK
<1>8. faults' \in 0 .. MaxFaults
  BY <1>1, SpendOK DEF IndInv
<1>9. published' = published /\ UNCHANGED <<store, count, dedup, object, used, lapsed, told>>
  BY DEF ChunkSet
<1> HIDE DEF g, h
<1> QED
  BY <1>1, <1>5, <1>7, <1>8, <1>9, DataStep DEF IndInv, TypeOK

\* CleanupChunk preserves the invariant.
LEMMA CleanupChunkOK ==
  ASSUME IndInv, NEW r \in Requests, NEW o \in Outcomes, CleanupChunk(r, o)
  PROVE  IndInv'
<1> DEFINE h == req[r]
           n == Len(h.loc.manifest)
           index == h.loc.manifest[h.k].index
           f == [h EXCEPT !.k = h.k + 1]
           g == IF h.k < n THEN f ELSE Idle
<1>1. h.pc = "cleanup" /\ Spend(o)
  BY DEF CleanupChunk
<1>2. /\ HandlerOK(h, published) /\ h \in Handler /\ h.sid \in SessionIds
      /\ GoodSession(h.loc) /\ h.loc \in UploadSessions
  BY <1>1, Running
<1>3. h.k \in 1 .. n /\ n \in Nat /\ h.k \in Nat
  BY <1>1, <1>2, FieldTypes DEF HandlerOK, Handler
<1>4. Become(r, g)
  BY DEF CleanupChunk
<1>5. index \in Indices
  <2>1. /\ h.loc.size \in 1 .. MaxSize /\ h.loc.offset \in Nat
        /\ h.loc.offset <= h.loc.size /\ n <= h.loc.offset /\ index = h.k - 1
    BY <1>2, <1>3, FieldTypes DEF GoodSession, Consistent
  <2>2. MaxSize \in Nat /\ h.loc.size <= MaxSize /\ h.loc.size \in Nat
    BY <2>1, MaxSizeAssumption
  <2> HIDE DEF index, n, h
  <2> QED
    BY <1>3, <2>1, <2>2 DEF Indices
<1>6. blob' \in [SessionIds -> [Indices -> Content \cup {Null}]]
  <2>1. blob' = [blob EXCEPT ![h.sid][index] = Null] \/ blob' = blob
    BY DEF CleanupChunk
  <2> QED
    BY <1>2, <1>5, <2>1, BlobWrite DEF IndInv
<1>7. ASSUME h.k < n
      PROVE  HandlerOK(f, published)
  <2>1. /\ f \in Handler
        /\ f.pc = "cleanup" /\ f.sid = h.sid /\ f.loc = h.loc /\ f.caller = h.caller
        /\ f.k = h.k + 1
    BY <1>1, <1>2, <1>3 DEF Handler
  <2>2. h.k + 1 \in 1 .. Len(h.loc.manifest)
    BY <1>3, <1>7
  <2> HIDE DEF f
  <2> QED
    BY <1>1, <1>2, <2>1, <2>2 DEF HandlerOK, Completing
<1> HIDE DEF f
<1>8. HandlerOK(g, published)
  BY <1>7, IdleOK
<1>9. faults' \in 0 .. MaxFaults
  BY <1>1, SpendOK DEF IndInv
<1>10. published' = published /\ UNCHANGED <<store, count, dedup, object, used, lapsed, told>>
  BY DEF CleanupChunk
<1> HIDE DEF g, h
<1> QED
  BY <1>4, <1>6, <1>8, <1>9, <1>10, DataStep DEF IndInv, TypeOK

\* AssembleFile preserves the invariant.
LEMMA AssembleFileOK ==
  ASSUME IndInv, NEW r \in Requests, NEW o \in Outcomes, AssembleFile(r, o)
  PROVE  IndInv'
<1> DEFINE h == req[r]
           g == IF Raises(o) THEN Fail(h)
                ELSE IF Concat(h.got) = h.loc.sha256 THEN [h EXCEPT !.pc = "dedup"]
                ELSE [h EXCEPT !.pc = "s3del"]
<1>1. h.pc = "assemble" /\ Become(r, g) /\ Spend(o)
  BY DEF AssembleFile
<1>2. HandlerOK(h, published) /\ h \in Handler /\ h.sid \in SessionIds
  BY <1>1, Running
<1>3. Len(h.loc.manifest) > 0
  BY <1>1, <1>2 DEF HandlerOK, Completing
<1>4. /\ HandlerOK([h EXCEPT !.pc = "dedup"], published)
      /\ HandlerOK([h EXCEPT !.pc = "s3del"], published)
  BY <1>1, <1>2, <1>3, MoveOK DEF PCs
<1>5. HandlerOK(g, published)
  BY <1>1, <1>2, <1>4, FailOK
<1>6. h.got \in Seq(Content)
  BY <1>2 DEF Handler
<1>7. object' \in [SessionIds -> Seq(Content) \cup {Null}]
  BY <1>2, <1>6 DEF AssembleFile, IndInv, TypeOK
<1>8. faults' \in 0 .. MaxFaults
  BY <1>1, SpendOK DEF IndInv
<1>9. published' = published /\ UNCHANGED <<store, blob, count, dedup, used, lapsed, told>>
  BY DEF AssembleFile, redis, store
<1> HIDE DEF g, h
<1> QED
  BY <1>1, <1>5, <1>7, <1>8, <1>9, DataStep DEF IndInv, TypeOK

\* DeleteCorrupt preserves the invariant.
LEMMA DeleteCorruptOK ==
  ASSUME IndInv, NEW r \in Requests, NEW o \in Outcomes, DeleteCorrupt(r, o)
  PROVE  IndInv'
<1> DEFINE h == req[r]
           g == Fail(h)
<1>1. h.pc = "s3del" /\ Become(r, g) /\ Spend(o)
  BY DEF DeleteCorrupt
<1>2. HandlerOK(h, published) /\ h.sid \in SessionIds
  BY <1>1, Running
<1>3. HandlerOK(g, published)
  BY <1>1, <1>2, FailOK
<1>4. object' \in [SessionIds -> Seq(Content) \cup {Null}]
  BY <1>2 DEF DeleteCorrupt, IndInv, TypeOK
<1>5. faults' \in 0 .. MaxFaults
  BY <1>1, SpendOK DEF IndInv
<1>6. published' = published /\ UNCHANGED <<store, blob, count, dedup, used, lapsed, told>>
  BY DEF DeleteCorrupt, redis, store
<1> HIDE DEF g, h
<1> QED
  BY <1>1, <1>3, <1>4, <1>5, <1>6, DataStep DEF IndInv, TypeOK

\* PublishEvent preserves the invariant: COMPLETE only after the event.
LEMMA PublishEventOK ==
  ASSUME IndInv, NEW r \in Requests, NEW o \in Outcomes, PublishEvent(r, o)
  PROVE  IndInv'
<1> DEFINE h == req[r]
           e == [file |-> h.sid, sha256 |-> h.loc.sha256]
           c == MarkComplete(h.loc)
           u == MarkFailed(h.loc)
           g == AfterPublish(h, o)
<1>1. h.pc = "publish" /\ Become(r, g) /\ Spend(o)
  BY DEF PublishEvent
<1>2. /\ HandlerOK(h, published) /\ h.sid \in SessionIds
      /\ GoodSession(h.loc) /\ h.loc.sha256 \in Shas
  BY <1>1, Running
<1>3. Len(h.loc.manifest) > 0
  BY <1>1, <1>2 DEF HandlerOK, Completing
<1>4. /\ published \subseteq published' /\ published' \subseteq Event
      /\ ~Raises(o) => e \in published'
  BY <1>2 DEF PublishEvent, IndInv, TypeOK, Event, Raises, Applied
<1>5. /\ GoodSession(c) /\ c.sha256 = h.loc.sha256 /\ c.manifest = h.loc.manifest
      /\ GoodSession(u) /\ u.sha256 = h.loc.sha256 /\ u.status = "FAILED"
  BY <1>2, StatusGood DEF MarkComplete, MarkFailed, Status
<1>6. g = IF Raises(o) THEN Save(h, u, "pubfail") ELSE Save(h, c, "complete")
  BY DEF AfterPublish
<1>7. HandlerOK(h, published')
  BY <1>2, <1>4, MoreEvents
<1> HIDE DEF c, u, g
<1>8. HandlerOK(Save(h, u, "pubfail"), published')
  BY <1>1, <1>2, <1>5, <1>7, SaveOK DEF Callers
<1>9. ASSUME ~Raises(o)
      PROVE  HandlerOK(Save(h, c, "complete"), published')
  BY <1>1, <1>2, <1>3, <1>4, <1>5, <1>7, <1>9, SaveOK DEF Callers
<1>10. HandlerOK(g, published')
  BY <1>6, <1>8, <1>9
<1>11. faults' \in 0 .. MaxFaults
  BY <1>1, SpendOK DEF IndInv
<1>12. UNCHANGED <<store, blob, count, dedup, object, used, lapsed, told>>
  BY DEF PublishEvent, redis, store
<1> HIDE DEF h
<1> QED
  BY <1>1, <1>4, <1>10, <1>11, <1>12, DataStep DEF IndInv, TypeOK

\* RegisterFile preserves the invariant: only completed uploads register.
LEMMA RegisterFileOK ==
  ASSUME IndInv, NEW r \in Requests, NEW o \in Outcomes, RegisterFile(r, o)
  PROVE  IndInv'
<1> DEFINE h == req[r]
           x == h.loc.sha256
           g == [h EXCEPT !.pc = "cleanup", !.k = 1]
<1>1. h.pc = "register" /\ Become(r, g) /\ Spend(o)
  BY DEF RegisterFile
<1>2. /\ HandlerOK(h, published) /\ h \in Handler /\ h.sid \in SessionIds
      /\ x \in Shas /\ h.loc \in UploadSessions
  BY <1>1, Running
<1>3. Len(h.loc.manifest) > 0 /\ Len(h.loc.manifest) \in Nat
  BY <1>1, <1>2, FieldTypes DEF HandlerOK, Completing
<1>4. [file |-> h.sid, sha256 |-> x] \in published
  BY <1>1, <1>2 DEF HandlerOK
<1>5. HandlerOK(g, published)
  <2>1. /\ g \in Handler
        /\ g.pc = "cleanup" /\ g.sid = h.sid /\ g.loc = h.loc /\ g.caller = h.caller
        /\ g.k = 1
    BY <1>2 DEF Handler, PCs
  <2>2. 1 \in 1 .. Len(h.loc.manifest)
    BY <1>3
  <2> HIDE DEF g
  <2> QED
    BY <1>1, <1>2, <1>3, <2>1, <2>2 DEF HandlerOK, Completing
<1>6. published' = published /\ UNCHANGED <<store, blob, count, object, used, lapsed, told>>
  BY DEF RegisterFile
<1>7. dedup' = [dedup EXCEPT ![x] = h.sid] \/ dedup' = dedup
  BY DEF RegisterFile
<1> HIDE DEF g, x, h
<1>8. dedup \in [Shas -> SessionIds \cup {Null}] /\ RegisteredIsPublished
  BY DEF IndInv, TypeOK
<1>9. dedup' \in [Shas -> SessionIds \cup {Null}]
  BY <1>2, <1>7, <1>8
<1>10. RegisteredIsPublished'
  <2> SUFFICES ASSUME NEW c \in Shas, dedup'[c] # Null
               PROVE  [file |-> dedup'[c], sha256 |-> c] \in published'
    BY DEF RegisteredIsPublished
  <2>1. dedup'[c] = dedup[c] \/ (c = x /\ dedup'[c] = h.sid)
    BY <1>7, <1>8
  <2>2. CASE dedup'[c] = dedup[c]
    BY <2>2, <1>6, <1>8 DEF RegisteredIsPublished
  <2>3. CASE c = x /\ dedup'[c] = h.sid
    BY <2>3, <1>4, <1>6
  <2> QED
    BY <2>1, <2>2, <2>3
<1>11. /\ req' \in [Requests -> Handler]
       /\ \A q \in Requests : HandlerOK(req'[q], published')
  BY <1>1, <1>5, <1>6, HandlersStep
<1>12. /\ hash' \in [SessionIds -> UploadSessions \cup {Null}]
       /\ \A s \in SessionIds : StoredOK(s, hash'[s], published')
  BY <1>6, StoreStays DEF store
<1>13. faults' \in 0 .. MaxFaults
  BY <1>1, SpendOK DEF IndInv
<1>14. TypeOK'
  BY <1>6, <1>9, <1>11, <1>12, <1>13 DEF IndInv, TypeOK, store
<1> QED
  BY <1>10, <1>11, <1>12, <1>14 DEF IndInv

\* A step of the environment that touches at most one stored session.
LEMMA QuietStep ==
  ASSUME IndInv, NEW s \in SessionIds,
         hash' = [hash EXCEPT ![s] = Null] \/ hash' = hash,
         ttl' \in [SessionIds -> BOOLEAN], meta' \in [SessionIds -> BOOLEAN],
         blob' \in [SessionIds -> [Indices -> Content \cup {Null}]],
         lapsed' \in [SessionIds -> BOOLEAN], told' \in [SessionIds -> Nat],
         UNCHANGED <<count, dedup, object, published, req, used, faults>>
  PROVE  IndInv'
<1>1. /\ req' \in [Requests -> Handler]
      /\ \A q \in Requests : HandlerOK(req'[q], published')
  BY HandlersStay
<1>2. StoredOK(s, Null, published)
  BY DEF StoredOK
<1>3. /\ hash' \in [SessionIds -> UploadSessions \cup {Null}]
      /\ \A t \in SessionIds : StoredOK(t, hash'[t], published')
  BY <1>2, StoreStays, StoreStep
<1>4. RegisteredIsPublished'
  BY RegistryStays
<1>5. TypeOK'
  BY <1>1, <1>3 DEF IndInv, TypeOK
<1> QED
  BY <1>1, <1>3, <1>4, <1>5 DEF IndInv

\* QueryOffset preserves the invariant.
LEMMA QueryOffsetOK ==
  ASSUME IndInv, NEW s \in SessionIds, QueryOffset(s)
  PROVE  IndInv'
<1>1. hash[s] \in UploadSessions
  BY DEF QueryOffset, Found, IndInv, StoredOK
<1>2. hash[s].offset \in Nat
  BY <1>1, FieldTypes
<1>3. told' \in [SessionIds -> Nat]
  BY <1>2 DEF QueryOffset, Tell, IndInv, TypeOK
<1> QED
  BY <1>3, QuietStep DEF QueryOffset, redis, IndInv, TypeOK

\* The expiries preserve the invariant.
LEMMA LapsesOK ==
  ASSUME IndInv, NEW s \in SessionIds,
         \/ SessionLapses(s)
         \/ \E i \in Indices : ChunkLapses(s, i)
         \/ MetaLapses(s)
  PROVE  IndInv'
<1>1. CASE SessionLapses(s)
  <2>1. hash' = [hash EXCEPT ![s] = Null] \/ hash' = hash
    BY <1>1 DEF SessionLapses
  <2>2. ttl' \in [SessionIds -> BOOLEAN] /\ lapsed' \in [SessionIds -> BOOLEAN]
    BY <1>1 DEF SessionLapses, IndInv, TypeOK
  <2> QED
    BY <1>1, <2>1, <2>2, QuietStep DEF SessionLapses, IndInv, TypeOK
<1>2. CASE \E i \in Indices : ChunkLapses(s, i)
  <2>1. PICK i \in Indices : ChunkLapses(s, i)
    BY <1>2
  <2>2. blob' \in [SessionIds -> [Indices -> Content \cup {Null}]]
    BY <2>1, BlobWrite DEF ChunkLapses, IndInv
  <2> QED
    BY <2>1, <2>2, QuietStep DEF ChunkLapses, store, IndInv, TypeOK
<1>3. CASE MetaLapses(s)
  <2>1. meta' \in [SessionIds -> BOOLEAN]
    BY <1>3 DEF MetaLapses, IndInv, TypeOK
  <2> QED
    BY <1>3, <2>1, QuietStep DEF MetaLapses, IndInv, TypeOK
<1> QED
  BY <1>1, <1>2, <1>3

----------------------------------------------------------------------------
(* The specification *)

\* The empty system satisfies the invariant.
LEMMA InitOK == Init => IndInv
<1> SUFFICES ASSUME Init PROVE IndInv
  OBVIOUS
<1>1. TypeOK
  BY IdleFields, ServiceAssumption DEF Init, TypeOK
<1>2. \A r \in Requests : HandlerOK(req[r], published)
  BY IdleOK DEF Init
<1>3. \A s \in SessionIds : StoredOK(s, hash[s], published)
  BY DEF Init, StoredOK
<1>4. RegisteredIsPublished
  BY DEF Init, RegisteredIsPublished
<1> QED
  BY <1>1, <1>2, <1>3, <1>4 DEF IndInv

\* Every step preserves it.
LEMMA NextOK == IndInv /\ [Next]_vars => IndInv'
<1> SUFFICES ASSUME IndInv, [Next]_vars PROVE IndInv'
  OBVIOUS
<1>1. ASSUME NEW r \in Requests, Arrive(r)
      PROVE  IndInv'
  BY <1>1, InitiateCheckOK, ChunkGetOK, AbortGetOK, CompleteGetOK DEF Arrive, PostUploads, PatchUpload, DeleteUpload
<1>2. ASSUME NEW r \in Requests, NEW o \in Outcomes, HandlerStep(r, o)
      PROVE  IndInv'
  <2>1. CASE \/ InitiateIncrement(r, o) \/ InitiateCreate(r, o)
             \/ DecrementHincrby(r, o) \/ DecrementZero(r, o)
    BY <2>1, InitiateIncrementOK, InitiateCreateOK, DecrementHincrbyOK, DecrementZeroOK
  <2>2. CASE \/ ChunkSet(r, o) \/ UpdateProbe(r, o)
             \/ UpdateHset(r, o) \/ DeleteSession(r, o)
    BY <2>2, ChunkSetOK, UpdateProbeOK, UpdateHsetOK, DeleteSessionOK
  <2>3. CASE \/ RetrieveChunk(r, o) \/ CheckFileExists(r, o)
             \/ AssembleFile(r, o) \/ DeleteCorrupt(r, o)
    BY <2>3, RetrieveChunkOK, CheckFileExistsOK, AssembleFileOK, DeleteCorruptOK
  <2>4. CASE \/ CheckDuplicate(r, o) \/ PublishEvent(r, o)
             \/ RegisterFile(r, o) \/ CleanupChunk(r, o)
    BY <2>4, CheckDuplicateOK, PublishEventOK, RegisterFileOK, CleanupChunkOK
  <2> QED
    BY <1>2, <2>1, <2>2, <2>3, <2>4 DEF HandlerStep
<1>3. CASE Environment
  BY <1>3, CrashOK, QueryOffsetOK, LapsesOK DEF Environment
<1>4. CASE UNCHANGED vars
  <2>1. /\ req' \in [Requests -> Handler]
        /\ \A q \in Requests : HandlerOK(req'[q], published')
    BY <1>4, HandlersStay DEF vars
  <2>2. /\ hash' \in [SessionIds -> UploadSessions \cup {Null}]
        /\ \A s \in SessionIds : StoredOK(s, hash'[s], published')
    BY <1>4, StoreStays DEF vars
  <2>3. RegisteredIsPublished'
    BY <1>4, RegistryStays DEF vars
  <2>4. TypeOK'
    BY <1>4 DEF vars, IndInv, TypeOK
  <2> QED
    BY <2>1, <2>2, <2>3, <2>4 DEF IndInv
<1> QED
  BY <1>1, <1>2, <1>3, <1>4 DEF Next

\* The inductive invariant holds in every reachable state.
THEOREM Inductive == Spec => []IndInv
  BY InitOK, NextOK, PTL DEF Spec

\* Redis, S3, the bus and the handlers only ever hold values of their types:
\* no interleaving or fault produces a session whose offset is past its size.
THEOREM TypeTheorem == Spec => []TypeOK
<1>1. IndInv => TypeOK
  BY DEF IndInv
<1> QED
  BY <1>1, Inductive, PTL

\* The manifest and the offset of a session never come apart.
THEOREM OffsetTheorem == Spec => []OffsetMatchesManifest
<1>1. IndInv => OffsetMatchesManifest
  <2> SUFFICES ASSUME IndInv PROVE OffsetMatchesManifest
    OBVIOUS
  <2>1. \A s \in SessionIds : hash[s] # Null => Consistent(hash[s])
    BY DEF IndInv, StoredOK, GoodSession
  <2>2. ASSUME NEW r \in Requests, req[r].loc # Null
        PROVE  Consistent(req[r].loc)
    <3>1. HandlerOK(req[r], published)
      BY DEF IndInv
    <3>2. req[r].pc # "idle"
      BY <2>2, <3>1, IdleFields DEF HandlerOK
    <3> QED
      BY <3>2, Running DEF GoodSession
  <2> QED
    BY <2>1, <2>2 DEF OffsetMatchesManifest
<1> QED
  BY <1>1, Inductive, PTL

\* A session stored as COMPLETE has been announced on the event bus.
THEOREM CompleteTheorem == Spec => []CompleteIsPublished
<1>1. IndInv => CompleteIsPublished
  BY DEF IndInv, StoredOK, CompleteIsPublished
<1> QED
  BY <1>1, Inductive, PTL

\* A checksum is registered only for a file announced with it.
THEOREM RegistryTheorem == Spec => []RegisteredIsPublished
<1>1. IndInv => RegisteredIsPublished
  BY DEF IndInv
<1> QED
  BY <1>1, Inductive, PTL

----------------------------------------------------------------------------
(* The service implements the limiter: its calls of check_and_increment and *)
(* decrement are steps of the limiter's own specification                   *)

\* Where the handlers are inside the limiter.
Place == [r \in Requests |-> LimiterPc(req[r])]

\* A handler outside "incr" and "zero" is idle for the limiter.
Outside(h) == h.pc \notin {"incr", "zero"}

\* When one handler moves, only its place in the limiter can change.
LEMMA PlaceStep ==
  ASSUME IndInv, NEW r \in Requests, NEW h, Become(r, h)
  PROVE  /\ Place' = [Place EXCEPT ![r] = LimiterPc(h)]
         /\ Place[r] = LimiterPc(req[r])
  BY DEF IndInv, TypeOK, Become, Place

\* A handler that is and stays outside the limiter does not change Place.
LEMMA OutsideStep ==
  ASSUME IndInv, NEW r \in Requests, NEW h, Become(r, h), Outside(req[r]), Outside(h)
  PROVE  Place' = Place
<1>1. LimiterPc(req[r]) = "idle" /\ LimiterPc(h) = "idle"
  BY DEF LimiterPc, Outside
<1>2. Place' = [Place EXCEPT ![r] = "idle"] /\ Place[r] = "idle"
  BY <1>1, PlaceStep
<1>3. [Place EXCEPT ![r] = Place[r]] = Place
  BY DEF Place
<1> QED
  BY <1>2, <1>3

\* Where the helpers send a handler is outside the limiter.
LEMMA HelpersOutside ==
  ASSUME NEW h \in Handler
  PROVE  /\ Outside(Idle)
         /\ \A u, c : Outside(Save(h, u, c))
         /\ Outside(Fail(h))
         /\ \A result : Outside(AfterUpdate(h, result))
         /\ Outside(AfterDecrement(h))
         /\ \A p \in PCs \ {"incr", "zero"} : Outside([h EXCEPT !.pc = p])
<1>1. Outside(Idle)
  BY IdleFields DEF Outside
<1>2. \A p \in PCs \ {"incr", "zero"} : Outside([h EXCEPT !.pc = p])
  BY DEF Outside, Handler
<1>3. \A u, c : Outside(Save(h, u, c))
  BY DEF Outside, Save, Handler
<1>4. Outside(Fail(h))
  BY <1>3 DEF Fail
<1>5. \A result : Outside(AfterUpdate(h, result))
  BY <1>1, <1>2, <1>4 DEF AfterUpdate, PCs
<1>6. Outside(AfterDecrement(h))
  BY <1>1, <1>2 DEF AfterDecrement, PCs
<1> QED
  BY <1>1, <1>2, <1>3, <1>4, <1>5, <1>6

\* Arrivals: initiate passes the limiter's check, the others do not use it.
LEMMA ArriveRefines ==
  ASSUME IndInv, NEW r \in Requests, Arrive(r)
  PROVE  Limiter!Check(r) \/ UNCHANGED <<count, Place>>
<1>1. ASSUME NEW s \in SessionIds, NEW d \in Declarations, InitiateCheck(r, s, d)
      PROVE  Limiter!Check(r)
  <2> DEFINE h == [Idle EXCEPT !.pc = "incr", !.sid = s,
                               !.loc = NewSession(d.size, d.sha256)]
  <2>1. Become(r, h) /\ req[r] = Idle /\ BelowLimit(count) /\ count' = count
    BY <1>1 DEF InitiateCheck, redis
  <2>2. LimiterPc(h) = "incr" /\ LimiterPc(Idle) = "idle"
    BY DEF LimiterPc, Idle
  <2> HIDE DEF h
  <2>3. Place' = [Place EXCEPT ![r] = "incr"] /\ Place[r] = "idle"
    BY <2>1, <2>2, PlaceStep
  <2> QED
    BY <2>1, <2>3 DEF Limiter!Check, Limiter!BelowLimit, BelowLimit, Place
<1>2. ASSUME NEW h, Become(r, h), req[r] = Idle, Outside(h)
      PROVE  Place' = Place
  BY <1>2, OutsideStep, HelpersOutside, IdleFields
<1>3. ASSUME NEW s \in SessionIds, NEW p \in Patches[s], ChunkGet(r, s, p)
      PROVE  UNCHANGED <<count, Place>>
  <2> DEFINE h == [Idle EXCEPT !.pc = "set", !.sid = s, !.loc = hash[s], !.data = p.data]
  <2>1. Become(r, h) /\ req[r] = Idle /\ count' = count
    BY <1>3 DEF ChunkGet, redis
  <2>2. Outside(h)
    BY DEF Outside, Idle
  <2> HIDE DEF h
  <2> QED
    BY <1>2, <2>1, <2>2
<1>4. ASSUME NEW s \in SessionIds, AbortGet(r, s)
      PROVE  UNCHANGED <<count, Place>>
  <2> DEFINE h == [Save(Idle, MarkAborted(hash[s]), "abort") EXCEPT !.sid = s]
  <2>1. Become(r, h) /\ req[r] = Idle /\ count' = count
    BY <1>4 DEF AbortGet, redis
  <2>2. Outside(h)
    BY DEF Outside, Idle, Save
  <2> HIDE DEF h
  <2> QED
    BY <1>2, <2>1, <2>2
<1>5. ASSUME NEW s \in SessionIds, CompleteGet(r, s)
      PROVE  UNCHANGED <<count, Place>>
  <2> DEFINE h == [Idle EXCEPT !.pc = "get", !.sid = s, !.loc = hash[s]]
  <2>1. Become(r, h) /\ req[r] = Idle /\ count' = count
    BY <1>5 DEF CompleteGet, redis
  <2>2. Outside(h)
    BY DEF Outside, Idle
  <2> HIDE DEF h
  <2> QED
    BY <1>2, <2>1, <2>2
<1> QED
  BY <1>1, <1>3, <1>4, <1>5 DEF Arrive, PostUploads, PatchUpload, DeleteUpload

\* Steps of a handler that is outside the limiter and does not call it.
LEMMA NoLimiterCall ==
  ASSUME IndInv, NEW r \in Requests, NEW o \in Outcomes,
         \/ InitiateCreate(r, o) \/ ChunkSet(r, o) \/ UpdateProbe(r, o)
         \/ UpdateHset(r, o) \/ DeleteSession(r, o) \/ RetrieveChunk(r, o)
         \/ CheckFileExists(r, o) \/ AssembleFile(r, o) \/ DeleteCorrupt(r, o)
         \/ CheckDuplicate(r, o) \/ PublishEvent(r, o) \/ RegisterFile(r, o)
         \/ CleanupChunk(r, o)
  PROVE  UNCHANGED <<count, Place>>
<1> DEFINE h == req[r]
<1>1. h \in Handler
  BY DEF IndInv, TypeOK
<1>2. Outside(Idle) /\ Outside(Fail(h)) /\ Outside(AfterDecrement(h))
  BY <1>1, HelpersOutside
<1>3. \A u, c : Outside(Save(h, u, c))
  BY <1>1, HelpersOutside
<1>4. \A result : Outside(AfterUpdate(h, result))
  BY <1>1, HelpersOutside
<1>5. \A p \in PCs \ {"incr", "zero"} : Outside([h EXCEPT !.pc = p])
  BY <1>1, HelpersOutside
<1>6. Outside(req[r])
  BY DEF Outside, InitiateCreate, ChunkSet, UpdateProbe, UpdateHset, DeleteSession,
         RetrieveChunk, CheckFileExists, AssembleFile, DeleteCorrupt, CheckDuplicate,
         PublishEvent, RegisterFile, CleanupChunk
<1>0. ASSUME NEW g, Become(r, g), Outside(g), count' = count
      PROVE  UNCHANGED <<count, Place>>
  BY <1>0, <1>6, OutsideStep
<1>7. CASE InitiateCreate(r, o)
  <2> DEFINE f == [h EXCEPT !.pc = "decr", !.caller = "initfail"]
             g == IF Raises(o) THEN f ELSE Idle
  <2>1. Outside(f)
    BY <1>1 DEF Outside, Handler
  <2>2. Become(r, g) /\ count' = count
    BY <1>7 DEF InitiateCreate
  <2> HIDE DEF h, f
  <2>3. Outside(g)
    BY <1>2, <1>3, <1>4, <2>1
  <2> HIDE DEF g
  <2> QED
    BY <1>0, <2>2, <2>3
<1>8. CASE ChunkSet(r, o)
  <2> DEFINE size == Len(h.data)
             off == h.loc.offset + size
             index == Len(h.loc.manifest)
             u == MarkInProgress(UpdateOffset(AddChunk(h.loc, index, size, h.data), off))
             g == IF \/ Raises(o)
                     \/ ~CanAddChunk(h.loc, index)
                     \/ ~CanUpdateOffset(h.loc, off)
                  THEN Idle ELSE Save(h, u, "chunk")
  <2>2. Become(r, g) /\ count' = count
    BY <1>8 DEF ChunkSet
  <2> HIDE DEF u, h
  <2>3. Outside(g)
    BY <1>2, <1>3
  <2> HIDE DEF g
  <2> QED
    BY <1>0, <2>2, <2>3
<1>9. CASE UpdateProbe(r, o)
  <2> DEFINE f == [h EXCEPT !.pc = "hset"]
             g == IF Raises(o) THEN AfterUpdate(h, "infra")
                  ELSE IF hash[h.sid] = Null THEN AfterUpdate(h, "notfound")
                  ELSE f
  <2>1. Outside(f)
    BY <1>5 DEF PCs
  <2>2. Become(r, g) /\ count' = count
    BY <1>9 DEF UpdateProbe, redis
  <2> HIDE DEF h, f
  <2>3. Outside(g)
    BY <1>2, <1>3, <1>4, <2>1
  <2> HIDE DEF g
  <2> QED
    BY <1>0, <2>2, <2>3
<1>10. CASE UpdateHset(r, o)
  <2> DEFINE g == AfterUpdate(h, IF Raises(o) THEN "infra" ELSE "ok")
  <2>2. Become(r, g) /\ count' = count
    BY <1>10 DEF UpdateHset
  <2> HIDE DEF h
  <2>3. Outside(g)
    BY <1>2, <1>3, <1>4
  <2> HIDE DEF g
  <2> QED
    BY <1>0, <2>2, <2>3
<1>11. CASE DeleteSession(r, o)
  <2> DEFINE f == [h EXCEPT !.pc = "decr"]
             g == IF Raises(o) THEN Idle ELSE f
  <2>1. Outside(f)
    BY <1>5 DEF PCs
  <2>2. Become(r, g) /\ count' = count
    BY <1>11 DEF DeleteSession
  <2> HIDE DEF h, f
  <2>3. Outside(g)
    BY <1>2, <1>3, <1>4, <2>1
  <2> HIDE DEF g
  <2> QED
    BY <1>0, <2>2, <2>3
<1>12. CASE RetrieveChunk(r, o)
  <2> DEFINE got == Append(h.got, blob[h.sid][Len(h.got)])
             next == IF Len(got) = Len(h.loc.manifest) THEN "head" ELSE "get"
             f == [h EXCEPT !.got = got, !.pc = next]
             g == IF Raises(o) THEN Fail(h)
                  ELSE IF blob[h.sid][Len(h.got)] = Null THEN Idle ELSE f
  <2>1. Outside(f)
    BY <1>1 DEF Outside, Handler
  <2>2. Become(r, g) /\ count' = count
    BY <1>12 DEF RetrieveChunk, redis
  <2> HIDE DEF h, f
  <2>3. Outside(g)
    BY <1>2, <1>3, <1>4, <2>1
  <2> HIDE DEF g
  <2> QED
    BY <1>0, <2>2, <2>3
<1>13. CASE CheckFileExists(r, o)
  <2> DEFINE f == [h EXCEPT !.pc = "assemble"]
             g == IF Raises(o) \/ object[h.sid] # Null THEN Fail(h) ELSE f
  <2>1. Outside(f)
    BY <1>5 DEF PCs
  <2>2. Become(r, g) /\ count' = count
    BY <1>13 DEF CheckFileExists, redis
  <2> HIDE DEF h, f
  <2>3. Outside(g)
    BY <1>2, <1>3, <1>4, <2>1
  <2> HIDE DEF g
  <2> QED
    BY <1>0, <2>2, <2>3
<1>14. CASE AssembleFile(r, o)
  <2> DEFINE e == [h EXCEPT !.pc = "dedup"]
             f == [h EXCEPT !.pc = "s3del"]
             g == IF Raises(o) THEN Fail(h)
                  ELSE IF Concat(h.got) = h.loc.sha256 THEN e ELSE f
  <2>1. Outside(e) /\ Outside(f)
    BY <1>5 DEF PCs
  <2>2. Become(r, g) /\ count' = count
    BY <1>14 DEF AssembleFile, redis
  <2> HIDE DEF h, f, e
  <2>3. Outside(g)
    BY <1>2, <1>3, <1>4, <2>1
  <2> HIDE DEF g
  <2> QED
    BY <1>0, <2>2, <2>3
<1>15. CASE DeleteCorrupt(r, o)
  <2> DEFINE g == Fail(h)
  <2>2. Become(r, g) /\ count' = count
    BY <1>15 DEF DeleteCorrupt, redis
  <2> HIDE DEF h
  <2>3. Outside(g)
    BY <1>2, <1>3, <1>4
  <2> HIDE DEF g
  <2> QED
    BY <1>0, <2>2, <2>3
<1>16. CASE CheckDuplicate(r, o)
  <2> DEFINE f == [h EXCEPT !.pc = "publish"]
             g == IF Raises(o) THEN Fail(h)
                  ELSE IF IsDuplicate(h) THEN Save(h, MarkFailed(h.loc), "dup") ELSE f
  <2>1. Outside(f)
    BY <1>5 DEF PCs
  <2>2. Become(r, g) /\ count' = count
    BY <1>16 DEF CheckDuplicate, redis
  <2> HIDE DEF h, f
  <2>3. Outside(g)
    BY <1>2, <1>3, <1>4, <2>1
  <2> HIDE DEF g
  <2> QED
    BY <1>0, <2>2, <2>3
<1>17. CASE PublishEvent(r, o)
  <2> DEFINE g == AfterPublish(h, o)
  <2>2. Become(r, g) /\ count' = count
    BY <1>17 DEF PublishEvent, redis
  <2> HIDE DEF h
  <2>3. Outside(g)
    BY <1>2, <1>3, <1>4 DEF AfterPublish
  <2> HIDE DEF g
  <2> QED
    BY <1>0, <2>2, <2>3
<1>18. CASE RegisterFile(r, o)
  <2> DEFINE f == [h EXCEPT !.pc = "cleanup", !.k = 1]
             g == f
  <2>1. Outside(f)
    BY <1>1 DEF Outside, Handler
  <2>2. Become(r, g) /\ count' = count
    BY <1>18 DEF RegisterFile
  <2> HIDE DEF h, f
  <2>3. Outside(g)
    BY <1>2, <1>3, <1>4, <2>1
  <2> HIDE DEF g
  <2> QED
    BY <1>0, <2>2, <2>3
<1>19. CASE CleanupChunk(r, o)
  <2> DEFINE f == [h EXCEPT !.k = h.k + 1]
             g == IF h.k < Len(h.loc.manifest) THEN f ELSE Idle
  <2>1. Outside(f)
    BY <1>1, <1>6 DEF Outside, Handler
  <2>2. Become(r, g) /\ count' = count
    BY <1>19 DEF CleanupChunk
  <2> HIDE DEF h, f
  <2>3. Outside(g)
    BY <1>2, <1>3, <1>4, <2>1
  <2> HIDE DEF g
  <2> QED
    BY <1>0, <2>2, <2>3
<1> QED
  BY <1>7, <1>8, <1>9, <1>10, <1>11, <1>12, <1>13, <1>14, <1>15, <1>16, <1>17,
     <1>18, <1>19

\* The three calls of the limiter are steps of its specification.
LEMMA LimiterCall ==
  ASSUME IndInv, NEW r \in Requests, NEW o \in Outcomes,
         InitiateIncrement(r, o) \/ DecrementHincrby(r, o) \/ DecrementZero(r, o)
  PROVE  Limiter!Increment(r, o) \/ Limiter!Decrement(r, o) \/ Limiter!Zero(r, o)
<1> DEFINE h == req[r]
<1>1. h \in Handler
  BY DEF IndInv, TypeOK
<1>2. LimiterPc(Idle) = "idle" /\ LimiterPc(AfterDecrement(h)) = "idle"
  BY <1>1, HelpersOutside DEF LimiterPc, Outside
<1>3. CASE InitiateIncrement(r, o)
  <2> DEFINE f == [h EXCEPT !.pc = "create"]
             g == IF Raises(o) THEN Idle ELSE f
  <2>1. LimiterPc(f) = "idle"
    BY <1>1 DEF LimiterPc, Handler
  <2>2. /\ Become(r, g) /\ LimiterPc(h) = "incr"
        /\ count' = IF Applied(o) THEN count + 1 ELSE count
    BY <1>3 DEF InitiateIncrement, LimiterPc
  <2> HIDE DEF f
  <2>3. LimiterPc(g) = "idle"
    BY <1>2, <2>1
  <2> HIDE DEF g
  <2>4. Place' = [Place EXCEPT ![r] = "idle"] /\ Place[r] = "incr"
    BY <2>2, <2>3, PlaceStep
  <2> QED
    BY <2>2, <2>4 DEF Limiter!Increment, Limiter!Applied, Applied, Place
<1>4. CASE DecrementHincrby(r, o)
  <2> DEFINE f == [h EXCEPT !.pc = "zero"]
             g == IF ~Raises(o) /\ count' < 0 THEN f ELSE AfterDecrement(h)
  <2>1. LimiterPc(f) = "zero"
    BY <1>1 DEF LimiterPc, Handler
  <2>2. /\ Become(r, g) /\ LimiterPc(h) = "idle"
        /\ count' = IF Applied(o) THEN count - 1 ELSE count
    BY <1>4 DEF DecrementHincrby, LimiterPc
  <2> HIDE DEF f
  <2>3. LimiterPc(g) = IF ~Raises(o) /\ count' < 0 THEN "zero" ELSE "idle"
    BY <1>2, <2>1
  <2> HIDE DEF g
  <2>4. /\ Place' = [Place EXCEPT ![r] = IF ~Raises(o) /\ count' < 0 THEN "zero" ELSE "idle"]
        /\ Place[r] = "idle"
    BY <2>2, <2>3, PlaceStep
  <2> QED
    BY <2>2, <2>4 DEF Limiter!Decrement, Limiter!Applied, Limiter!Raises,
                      Limiter!NeedsRepair, Applied, Raises, Place
<1>5. CASE DecrementZero(r, o)
  <2> DEFINE g == AfterDecrement(h)
  <2>1. /\ Become(r, g) /\ LimiterPc(h) = "zero"
        /\ count' = IF Applied(o) THEN 0 ELSE count
    BY <1>5 DEF DecrementZero, LimiterPc
  <2> HIDE DEF g
  <2>2. Place' = [Place EXCEPT ![r] = "idle"] /\ Place[r] = "zero"
    BY <1>2, <2>1, PlaceStep DEF g
  <2> QED
    BY <2>1, <2>2 DEF Limiter!Zero, Limiter!Applied, Applied, Place
<1> QED
  BY <1>3, <1>4, <1>5

\* A worker that dies inside the limiter is the limiter's own crash; the
\* rest of the environment does not touch it.
LEMMA EnvironmentRefines ==
  ASSUME IndInv, Environment
  PROVE  (\E r \in Requests : Limiter!Crash(r)) \/ UNCHANGED <<count, Place>>
<1>1. ASSUME NEW r \in Requests, Crash(r)
      PROVE  Limiter!Crash(r) \/ UNCHANGED <<count, Place>>
  <2>1. Become(r, Idle) /\ count' = count /\ "crash" \in FaultKinds
    BY <1>1 DEF Crash, redis
  <2>2. LimiterPc(Idle) = "idle" /\ Outside(Idle)
    BY IdleFields DEF LimiterPc, Outside
  <2>3. CASE Outside(req[r])
    BY <2>1, <2>2, <2>3, OutsideStep
  <2>4. CASE ~Outside(req[r])
    <3>1. LimiterPc(req[r]) # "idle"
      BY <2>4 DEF LimiterPc, Outside
    <3>2. Place' = [Place EXCEPT ![r] = "idle"] /\ Place[r] # "idle"
      BY <2>1, <2>2, <3>1, PlaceStep
    <3> QED
      BY <2>1, <3>2 DEF Limiter!Crash, Place
  <2> QED
    BY <2>3, <2>4
<1>2. ASSUME NEW s \in SessionIds,
             \/ QueryOffset(s) \/ SessionLapses(s) \/ MetaLapses(s)
             \/ \E i \in Indices : ChunkLapses(s, i)
      PROVE  UNCHANGED <<count, Place>>
  BY <1>2 DEF QueryOffset, SessionLapses, MetaLapses, ChunkLapses, redis, Place
<1> QED
  BY <1>1, <1>2 DEF Environment

\* The service implements the limiter's specification.
THEOREM RefinementTheorem == Spec => LimiterSpec
<1>1. Init => Limiter!Init
  BY IdleFields DEF Init, Limiter!Init, LimiterPc
<1>2. IndInv /\ [Next]_vars => [Limiter!Next]_Limiter!vars
  <2> SUFFICES ASSUME IndInv, [Next]_vars
               PROVE  Limiter!Next \/ UNCHANGED <<count, Place>>
    BY DEF Limiter!vars, Place
  <2>1. ASSUME NEW r \in Requests, Arrive(r)
        PROVE  Limiter!Next \/ UNCHANGED <<count, Place>>
    BY <2>1, ArriveRefines DEF Limiter!Next
  <2>2. ASSUME NEW r \in Requests, NEW o \in Outcomes, HandlerStep(r, o)
        PROVE  Limiter!Next \/ UNCHANGED <<count, Place>>
    <3>1. o \in Limiter!Outcomes
      BY DEF Outcomes, Limiter!Outcomes
    <3>2. CASE InitiateIncrement(r, o) \/ DecrementHincrby(r, o) \/ DecrementZero(r, o)
      BY <3>1, <3>2, LimiterCall DEF Limiter!Next
    <3>3. CASE ~(InitiateIncrement(r, o) \/ DecrementHincrby(r, o) \/ DecrementZero(r, o))
      BY <2>2, <3>3, NoLimiterCall DEF HandlerStep
    <3> QED
      BY <3>2, <3>3
  <2>3. CASE Environment
    BY <2>3, EnvironmentRefines DEF Limiter!Next
  <2>4. CASE UNCHANGED vars
    BY <2>4 DEF vars, Place
  <2> QED
    BY <2>1, <2>2, <2>3, <2>4 DEF Next
<1> QED
  BY <1>1, <1>2, Inductive, PTL DEF Spec, LimiterSpec, Limiter!Spec

----------------------------------------------------------------------------
(* What the expiry metadata says of a session *)

\* Where the session of an initiation is not stored yet.
Early == {"incr", "create"}

\* The inductive invariant.  The key's expiry ends with the 24 hours, so the
\* metadata may go after them; and the 24 hours do not pass before the
\* session is stored.
SessionExpiryOK(s) ==
  /\ ttl[s] => meta[s] /\ ~lapsed[s]
  /\ hash[s] = Null /\ meta[s] => lapsed[s]
  /\ lapsed[s] => s \in used

EarlyOK(r) ==
  req[r].pc \in Early => ~lapsed[req[r].sid] /\ req[r].sid \in used

ExpiryInv ==
  /\ \A s \in SessionIds : SessionExpiryOK(s)
  /\ \A r \in Requests : EarlyOK(r)

----------------------------------------------------------------------------
(* Handlers *)

\* No call of update_session, and no way it ends, leads back to initiation.
LEMMA LateTargets ==
  ASSUME NEW h \in Handler, NEW u, NEW c, NEW result, NEW p \in PCs
  PROVE  /\ Idle.pc \notin Early
         /\ [h EXCEPT !.pc = p].pc = p
         /\ Save(h, u, c).pc \notin Early
         /\ Fail(h).pc \notin Early
         /\ AfterUpdate(h, result).pc \notin Early
         /\ AfterDecrement(h).pc \notin Early
<1>1. Idle.pc \notin Early
  BY IdleFields DEF Early
<1>2. \A q \in PCs : [h EXCEPT !.pc = q].pc = q
  BY DEF Handler
<1>3. \A v, d : Save(h, v, d).pc = "probe"
  BY DEF Save, Handler
<1>4. Fail(h).pc = "probe"
  BY <1>3 DEF Fail
<1>5. AfterUpdate(h, result).pc \notin Early
  BY <1>1, <1>2, <1>4 DEF AfterUpdate, Early, PCs
<1>6. AfterDecrement(h).pc \notin Early
  BY <1>1, <1>2 DEF AfterDecrement, Early, PCs
<1> QED
  BY <1>1, <1>2, <1>3, <1>4, <1>5, <1>6 DEF Early

\* A handler moves on past initiation, the others stay where they are.
LEMMA HandlersLate ==
  ASSUME IndInv, ExpiryInv, NEW r \in Requests, NEW h, Become(r, h),
         h.pc \notin Early, UNCHANGED <<used, lapsed>>
  PROVE  \A q \in Requests : EarlyOK(q)'
<1>1. req \in [Requests -> Handler]
  BY DEF IndInv, TypeOK
<1> QED
  BY <1>1 DEF Become, ExpiryInv, EarlyOK

\* The same for a step that leaves the stored session alone.
LEMMA LateStep ==
  ASSUME IndInv, ExpiryInv, NEW r \in Requests, NEW h, Become(r, h),
         h.pc \notin Early, UNCHANGED <<store, used, lapsed>>
  PROVE  ExpiryInv'
  BY HandlersLate DEF ExpiryInv, SessionExpiryOK, store

----------------------------------------------------------------------------
(* Steps that leave the stored sessions alone *)

\* A handler's value has the type the lemmas above ask for.
LEMMA InHandler ==
  ASSUME IndInv, NEW r \in Requests
  PROVE  req[r] \in Handler
  BY DEF IndInv, TypeOK

\* PATCH and DELETE arrive, or a completion starts.
LEMMA ArrivalsKeep ==
  ASSUME IndInv, ExpiryInv, NEW r \in Requests,
         PatchUpload(r) \/ DeleteUpload(r) \/ \E s \in SessionIds : CompleteGet(r, s)
  PROVE  ExpiryInv'
<1>1. ASSUME NEW s \in SessionIds, NEW p \in Patches[s], ChunkGet(r, s, p)
      PROVE  ExpiryInv'
  <2> DEFINE h == [Idle EXCEPT !.pc = "set", !.sid = s, !.loc = hash[s], !.data = p.data]
  <2>1. h.pc \notin Early
    BY DEF Idle, Early
  <2> HIDE DEF h
  <2>2. Become(r, h) /\ UNCHANGED <<store, used, lapsed>>
    BY <1>1 DEF ChunkGet, redis, store, h
  <2> QED
    BY <2>1, <2>2, LateStep
<1>2. ASSUME NEW s \in SessionIds, AbortGet(r, s)
      PROVE  ExpiryInv'
  <2> DEFINE h == [Save(Idle, MarkAborted(hash[s]), "abort") EXCEPT !.sid = s]
  <2>1. h.pc \notin Early
    BY DEF Idle, Save, Early
  <2> HIDE DEF h
  <2>2. Become(r, h) /\ UNCHANGED <<store, used, lapsed>>
    BY <1>2 DEF AbortGet, redis, store, h
  <2> QED
    BY <2>1, <2>2, LateStep
<1>3. ASSUME NEW s \in SessionIds, CompleteGet(r, s)
      PROVE  ExpiryInv'
  <2> DEFINE h == [Idle EXCEPT !.pc = "get", !.sid = s, !.loc = hash[s]]
  <2>1. h.pc \notin Early
    BY DEF Idle, Early
  <2> HIDE DEF h
  <2>2. Become(r, h) /\ UNCHANGED <<store, used, lapsed>>
    BY <1>3 DEF CompleteGet, redis, store, h
  <2> QED
    BY <2>1, <2>2, LateStep
<1> QED
  BY <1>1, <1>2, <1>3 DEF PatchUpload, DeleteUpload

\* The chunk is stored, the session is probed, the counter goes down.
LEMMA RequestStepsKeep ==
  ASSUME IndInv, ExpiryInv, NEW r \in Requests, NEW o \in Outcomes,
         \/ ChunkSet(r, o) \/ UpdateProbe(r, o)
         \/ DecrementHincrby(r, o) \/ DecrementZero(r, o)
  PROVE  ExpiryInv'
<1>1. \E h : Become(r, h) /\ h.pc \notin Early
  <2>1. CASE ChunkSet(r, o)
    BY <2>1, InHandler, LateTargets DEF ChunkSet, PCs
  <2>2. CASE UpdateProbe(r, o)
    BY <2>2, InHandler, LateTargets DEF UpdateProbe, PCs, Early
  <2>3. CASE DecrementHincrby(r, o)
    BY <2>3, InHandler, LateTargets DEF DecrementHincrby, PCs, Early
  <2>4. CASE DecrementZero(r, o)
    BY <2>4, InHandler, LateTargets DEF DecrementZero, PCs
  <2> QED
    BY <2>1, <2>2, <2>3, <2>4
<1>2. UNCHANGED <<store, used, lapsed>>
  BY DEF ChunkSet, UpdateProbe, DecrementHincrby, DecrementZero, redis, store
<1> QED
  BY <1>1, <1>2, LateStep

\* The steps of a completion, its update_session apart.
LEMMA CompletionStepsKeep ==
  ASSUME IndInv, ExpiryInv, NEW r \in Requests, NEW o \in Outcomes,
         \/ RetrieveChunk(r, o) \/ CheckFileExists(r, o) \/ AssembleFile(r, o)
         \/ DeleteCorrupt(r, o) \/ CheckDuplicate(r, o) \/ PublishEvent(r, o)
         \/ RegisterFile(r, o) \/ CleanupChunk(r, o)
  PROVE  ExpiryInv'
<1>0. req[r] \in Handler
  BY InHandler
<1>1. \E h : Become(r, h) /\ h.pc \notin Early
  <2>1. CASE RetrieveChunk(r, o)
    <3> DEFINE got == Append(req[r].got, blob[req[r].sid][Len(req[r].got)])
               g == [req[r] EXCEPT !.got = got,
                                   !.pc = IF Len(got) = Len(req[r].loc.manifest)
                                          THEN "head" ELSE "get"]
    <3>1. g.pc \notin Early
      BY <1>0 DEF Handler, Early
    <3> HIDE DEF g
    <3>2. Become(r, Fail(req[r])) \/ Become(r, Idle) \/ Become(r, g)
      BY <2>1 DEF RetrieveChunk, g
    <3> QED
      BY <1>0, <3>1, <3>2, LateTargets DEF PCs
  <2>2. CASE CheckFileExists(r, o)
    BY <1>0, <2>2, LateTargets DEF CheckFileExists, PCs, Early
  <2>3. CASE AssembleFile(r, o)
    BY <1>0, <2>3, LateTargets DEF AssembleFile, PCs, Early
  <2>4. CASE DeleteCorrupt(r, o)
    BY <1>0, <2>4, LateTargets DEF DeleteCorrupt, PCs
  <2>5. CASE CheckDuplicate(r, o)
    BY <1>0, <2>5, LateTargets DEF CheckDuplicate, PCs, Early
  <2>6. CASE PublishEvent(r, o)
    BY <1>0, <2>6, LateTargets DEF PublishEvent, AfterPublish, PCs
  <2>7. CASE RegisterFile(r, o)
    <3>1. [req[r] EXCEPT !.pc = "cleanup", !.k = 1].pc = "cleanup"
      BY <1>0 DEF Handler
    <3> QED
      BY <2>7, <3>1 DEF RegisterFile, Early
  <2>8. CASE CleanupChunk(r, o)
    <3>1. [req[r] EXCEPT !.k = @ + 1].pc = "cleanup"
      BY <1>0, <2>8 DEF CleanupChunk, Handler
    <3> QED
      BY <1>0, <2>8, <3>1, LateTargets DEF CleanupChunk, Early, PCs
  <2> QED
    BY <2>1, <2>2, <2>3, <2>4, <2>5, <2>6, <2>7, <2>8
<1>2. UNCHANGED <<store, used, lapsed>>
  BY DEF RetrieveChunk, CheckFileExists, AssembleFile, DeleteCorrupt, CheckDuplicate,
         PublishEvent, RegisterFile, CleanupChunk, redis, store
<1> QED
  BY <1>1, <1>2, LateStep
----------------------------------------------------------------------------
(* Initiation *)

\* The 24 hours of a session id that was not drawn before have not passed.
LEMMA InitiateCheckKeeps ==
  ASSUME IndInv, ExpiryInv, NEW r \in Requests, NEW s \in SessionIds,
         NEW d \in Declarations, InitiateCheck(r, s, d)
  PROVE  ExpiryInv'
<1> DEFINE h == [Idle EXCEPT !.pc = "incr", !.sid = s,
                             !.loc = NewSession(d.size, d.sha256)]
<1>1. h.sid = s
  BY DEF Idle
<1> HIDE DEF h
<1>2. /\ Become(r, h)
      /\ UNCHANGED <<store, lapsed>>
      /\ used' = used \cup {s} /\ s \notin used
  BY DEF InitiateCheck, redis, store, h
<1>3. req \in [Requests -> Handler]
  BY DEF IndInv, TypeOK
<1>4. ~lapsed[s]
  BY <1>2 DEF ExpiryInv, SessionExpiryOK
<1>5. ASSUME NEW q \in Requests
      PROVE  EarlyOK(q)'
  BY <1>1, <1>2, <1>3, <1>4 DEF ExpiryInv, EarlyOK, Become
<1>6. ASSUME NEW t \in SessionIds
      PROVE  SessionExpiryOK(t)'
  BY <1>2 DEF ExpiryInv, SessionExpiryOK, store
<1> QED
  BY <1>5, <1>6 DEF ExpiryInv

\* The increment changes no session.
LEMMA InitiateIncrementKeeps ==
  ASSUME IndInv, ExpiryInv, NEW r \in Requests, NEW o \in Outcomes,
         InitiateIncrement(r, o)
  PROVE  ExpiryInv'
<1> DEFINE h == [req[r] EXCEPT !.pc = "create"]
<1>1. req \in [Requests -> Handler]
  BY DEF IndInv, TypeOK
<1>2. h.sid = req[r].sid
  BY <1>1 DEF Handler
<1> HIDE DEF h
<1>3. /\ req[r].pc \in Early
      /\ Become(r, Idle) \/ Become(r, h)
      /\ UNCHANGED <<store, used, lapsed>>
  BY DEF InitiateIncrement, Early, h
<1>4. CASE Become(r, Idle)
  BY <1>3, <1>4, IdleFields, LateStep DEF Early
<1>5. CASE Become(r, h)
  <2>1. ASSUME NEW q \in Requests
        PROVE  EarlyOK(q)'
    BY <1>1, <1>2, <1>3, <1>5 DEF ExpiryInv, EarlyOK, Become
  <2> QED
    BY <1>3, <2>1 DEF ExpiryInv, SessionExpiryOK, store
<1> QED
  BY <1>3, <1>4, <1>5

\* Session, expiry and metadata are written together, before any expiry.
LEMMA InitiateCreateKeeps ==
  ASSUME IndInv, ExpiryInv, NEW r \in Requests, NEW o \in Outcomes,
         InitiateCreate(r, o)
  PROVE  ExpiryInv'
<1> DEFINE s == req[r].sid
           u == req[r].loc
           h == [req[r] EXCEPT !.pc = "decr", !.caller = "initfail"]
<1>1. req[r] \in Handler /\ req[r].pc = "create"
  BY InHandler DEF InitiateCreate
<1>2. s \in SessionIds /\ u \in UploadSessions
  BY <1>1, Running DEF GoodSession
<1>3. u # Null
  BY <1>2, ServiceAssumption
<1>4. ~lapsed[s] /\ s \in used
  BY <1>1 DEF ExpiryInv, EarlyOK, Early
<1>5. h.pc \notin Early
  BY <1>1 DEF Handler, Early
<1> HIDE DEF h
<1>6. Become(r, h) \/ Become(r, Idle)
  BY DEF InitiateCreate, h
<1>7. UNCHANGED <<used, lapsed>>
  BY DEF InitiateCreate
<1>8. \A q \in Requests : EarlyOK(q)'
  BY <1>5, <1>6, <1>7, HandlersLate, IdleFields DEF Early
<1>9. \/ UNCHANGED store
      \/ /\ hash' = [hash EXCEPT ![s] = u]
         /\ ttl' = [ttl EXCEPT ![s] = TRUE]
         /\ meta' = [meta EXCEPT ![s] = TRUE]
  BY DEF InitiateCreate
<1>10. /\ hash \in [SessionIds -> UploadSessions \cup {Null}]
       /\ ttl \in [SessionIds -> BOOLEAN]
       /\ meta \in [SessionIds -> BOOLEAN]
  BY DEF IndInv, TypeOK
<1> HIDE DEF s, u
<1>11. ASSUME NEW t \in SessionIds
       PROVE  SessionExpiryOK(t)'
  <2>1. SessionExpiryOK(t)
    BY DEF ExpiryInv
  <2>2. CASE UNCHANGED store
    BY <1>7, <2>1, <2>2 DEF SessionExpiryOK, store
  <2>3. CASE ~UNCHANGED store
    BY <1>2, <1>3, <1>4, <1>7, <1>9, <1>10, <2>1, <2>3 DEF SessionExpiryOK
  <2> QED
    BY <2>2, <2>3
<1> QED
  BY <1>8, <1>11 DEF ExpiryInv

----------------------------------------------------------------------------
(* update_session and delete_session *)

\* update_session writes a session, never its absence.
LEMMA UpdateHsetKeeps ==
  ASSUME IndInv, ExpiryInv, NEW r \in Requests, NEW o \in Outcomes, UpdateHset(r, o)
  PROVE  ExpiryInv'
<1> DEFINE s == req[r].sid
           u == req[r].loc
<1>1. req[r] \in Handler /\ req[r].pc = "hset"
  BY InHandler DEF UpdateHset
<1>2. s \in SessionIds /\ u \in UploadSessions
  BY <1>1, Running DEF GoodSession
<1>3. u # Null
  BY <1>2, ServiceAssumption
<1>4. UNCHANGED <<ttl, meta, used, lapsed>>
  BY DEF UpdateHset
<1>5. \E result : Become(r, AfterUpdate(req[r], result))
  BY DEF UpdateHset
<1>6. \A q \in Requests : EarlyOK(q)'
  BY <1>1, <1>4, <1>5, LateTargets, HandlersLate DEF PCs
<1>7. hash' = hash \/ hash' = [hash EXCEPT ![s] = u]
  BY DEF UpdateHset
<1>8. hash \in [SessionIds -> UploadSessions \cup {Null}]
  BY DEF IndInv, TypeOK
<1> HIDE DEF s, u
<1>9. \A t \in SessionIds : SessionExpiryOK(t)'
  BY <1>2, <1>3, <1>4, <1>7, <1>8 DEF ExpiryInv, SessionExpiryOK
<1> QED
  BY <1>6, <1>9 DEF ExpiryInv

\* delete_session takes the metadata away with the session.
LEMMA DeleteSessionKeeps ==
  ASSUME IndInv, ExpiryInv, NEW r \in Requests, NEW o \in Outcomes, DeleteSession(r, o)
  PROVE  ExpiryInv'
<1> DEFINE s == req[r].sid
<1>1. req[r] \in Handler /\ req[r].pc = "del"
  BY InHandler DEF DeleteSession
<1>2. s \in SessionIds
  BY <1>1, Running
<1>3. UNCHANGED <<used, lapsed>>
  BY DEF DeleteSession
<1>4. \E h : Become(r, h) /\ h.pc \notin Early
  BY <1>1, LateTargets DEF DeleteSession, PCs, Early
<1>5. \A q \in Requests : EarlyOK(q)'
  BY <1>3, <1>4, HandlersLate
<1>6. \/ UNCHANGED store
      \/ /\ hash' = [hash EXCEPT ![s] = Null]
         /\ ttl' = [ttl EXCEPT ![s] = FALSE]
         /\ meta' = [meta EXCEPT ![s] = FALSE]
  BY DEF DeleteSession, MetaAfterDelete
<1>7. /\ hash \in [SessionIds -> UploadSessions \cup {Null}]
      /\ ttl \in [SessionIds -> BOOLEAN]
      /\ meta \in [SessionIds -> BOOLEAN]
  BY DEF IndInv, TypeOK
<1> HIDE DEF s
<1>8. ASSUME NEW t \in SessionIds
      PROVE  SessionExpiryOK(t)'
  <2>1. SessionExpiryOK(t)
    BY DEF ExpiryInv
  <2> QED
    BY <1>2, <1>3, <1>6, <1>7, <2>1 DEF SessionExpiryOK, store
<1> QED
  BY <1>5, <1>8 DEF ExpiryInv

----------------------------------------------------------------------------
(* The environment and the theorem *)

\* Keys expire in their order: session, chunks, metadata.
LEMMA LapsesKeep ==
  ASSUME IndInv, ExpiryInv, NEW s \in SessionIds,
         SessionLapses(s) \/ MetaLapses(s) \/ \E i \in Indices : ChunkLapses(s, i)
  PROVE  ExpiryInv'
<1>0. /\ hash \in [SessionIds -> UploadSessions \cup {Null}]
      /\ ttl \in [SessionIds -> BOOLEAN]
      /\ meta \in [SessionIds -> BOOLEAN]
      /\ lapsed \in [SessionIds -> BOOLEAN]
      /\ req \in [Requests -> Handler]
  BY DEF IndInv, TypeOK
<1>1. CASE SessionLapses(s)
  <2>1. ASSUME NEW t \in SessionIds
        PROVE  SessionExpiryOK(t)'
    <3>1. SessionExpiryOK(t)
      BY DEF ExpiryInv
    <3> QED
      BY <1>0, <1>1, <3>1 DEF SessionLapses, SessionExpiryOK
  <2>2. ASSUME NEW q \in Requests
        PROVE  EarlyOK(q)'
    <3>1. EarlyOK(q)
      BY DEF ExpiryInv
    <3>2. req[q].pc \in Early => req[q].sid # s
      BY <1>1 DEF SessionLapses, Early
    <3>3. req[q].sid # s => lapsed'[req[q].sid] = lapsed[req[q].sid]
      BY <1>0, <1>1 DEF SessionLapses
    <3> QED
      BY <1>1, <3>1, <3>2, <3>3 DEF SessionLapses, EarlyOK
  <2> QED
    BY <2>1, <2>2 DEF ExpiryInv
<1>2. CASE MetaLapses(s)
  BY <1>0, <1>2 DEF MetaLapses, ExpiryInv, SessionExpiryOK, EarlyOK
<1>3. ASSUME NEW i \in Indices, ChunkLapses(s, i)
      PROVE  ExpiryInv'
  BY <1>3 DEF ChunkLapses, store, ExpiryInv, SessionExpiryOK, EarlyOK
<1> QED
  BY <1>1, <1>2, <1>3

\* A worker that dies leaves Redis as it is.
LEMMA CrashKeeps ==
  ASSUME IndInv, ExpiryInv, NEW r \in Requests, Crash(r)
  PROVE  ExpiryInv'
<1>1. Become(r, Idle) /\ UNCHANGED <<store, used, lapsed>>
  BY DEF Crash, redis, store
<1> QED
  BY <1>1, IdleFields, LateStep DEF Early

\* Every step keeps the invariant.
LEMMA ExpiryNext == IndInv /\ ExpiryInv /\ [Next]_vars => ExpiryInv'
<1> SUFFICES ASSUME IndInv, ExpiryInv, [Next]_vars PROVE ExpiryInv'
  OBVIOUS
<1>1. ASSUME NEW r \in Requests, Arrive(r)
      PROVE  ExpiryInv'
  BY <1>1, ArrivalsKeep, InitiateCheckKeeps DEF Arrive, PostUploads
<1>2. ASSUME NEW r \in Requests, NEW o \in Outcomes, HandlerStep(r, o)
      PROVE  ExpiryInv'
  BY <1>2, InitiateIncrementKeeps, InitiateCreateKeeps, RequestStepsKeep,
     UpdateHsetKeeps, DeleteSessionKeeps, CompletionStepsKeep DEF HandlerStep
<1>3. CASE Environment
  <2>1. ASSUME NEW s \in SessionIds, QueryOffset(s)
        PROVE  ExpiryInv'
    BY <2>1 DEF QueryOffset, redis, ExpiryInv, SessionExpiryOK, EarlyOK
  <2> QED
    BY <1>3, <2>1, CrashKeeps, LapsesKeep DEF Environment
<1>4. CASE UNCHANGED vars
  BY <1>4 DEF vars, ExpiryInv, SessionExpiryOK, EarlyOK
<1> QED
  BY <1>1, <1>2, <1>3, <1>4 DEF Next

\* However requests, failures and the expiry of the keys interleave, a
\* session that can expire has its metadata, and SESSION_EXPIRED is reported
\* only for a session whose 24 hours are over.
THEOREM ExpiryTheorem == Spec => []ExpiryIsTruthful
<1>1. Init => ExpiryInv
  BY IdleFields DEF Init, ExpiryInv, SessionExpiryOK, EarlyOK, Early
<1>2. ExpiryInv => ExpiryIsTruthful
  BY DEF ExpiryInv, SessionExpiryOK, ExpiryIsTruthful, ReportedExpired, Found
<1> QED
  BY <1>1, <1>2, ExpiryNext, Inductive, PTL DEF Spec
============================================================================
