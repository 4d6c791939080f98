-------------------------- MODULE SequentialProofs --------------------------
(***************************************************************************)
(* What holds of the upload service as long as requests do not overlap,    *)
(* for any number of sessions, chunks and faults: acknowledged bytes stay, *)
(* the limiter's counter covers the active sessions, a content has one     *)
(* file, and a session goes through its documented life cycle.  Each of    *)
(* these fails when two requests of a session race.                        *)
(***************************************************************************)
EXTENDS UploadServiceProofs, FiniteSetTheorems

\* Requests of the workspace are served one after the other.
Single == \E r : Requests = {r}

LEMMA Only ==
  ASSUME Single, NEW r \in Requests, NEW q \in Requests
  PROVE  q = r
  BY DEF Single

\* The handler that moves is the only one.
LEMMA Moves ==
  ASSUME Single, IndInv, NEW r \in Requests, NEW g, Become(r, g)
  PROVE  \A q \in Requests : q = r /\ req'[q] = g
<1>1. req \in [Requests -> Handler]
  BY DEF IndInv, TypeOK
<1>2. req'[r] = g
  BY <1>1 DEF Become
<1> QED
  BY <1>2, Only

----------------------------------------------------------------------------
(* Acknowledged offsets *)

\* What holds of a running handler when its session is stored as u and the
\* client was told offset n.
AheadOK(h, u, n) ==
  IF h.pc \in Early THEN u = Null /\ n = 0
  ELSE n <= h.loc.offset /\ (u # Null => u.offset <= h.loc.offset)

\* The inductive invariant: a handler's copy is never behind Redis.
AheadInv ==
  /\ \A s \in SessionIds : s \notin used => hash[s] = Null /\ told[s] = 0
  /\ \A s \in SessionIds : hash[s] # Null => told[s] <= hash[s].offset
  /\ \A r \in Requests :
       req[r].pc # "idle" =>
         req[r].sid \in used /\ AheadOK(req[r], hash[req[r].sid], told[req[r].sid])

\* A handler that ends, or goes on with at least as many bytes.
Onward(g, h) ==
  g.pc # "idle" =>
    g.sid = h.sid /\ g.pc \notin Early /\ h.loc.offset <= g.loc.offset

LEMMA MarksOffset ==
  ASSUME NEW u, GoodSession(u)
  PROVE  /\ MarkFailed(u) \in UploadSessions /\ MarkFailed(u).offset = u.offset
         /\ MarkComplete(u) \in UploadSessions /\ MarkComplete(u).offset = u.offset
         /\ MarkAborted(u) \in UploadSessions /\ MarkAborted(u).offset = u.offset
         /\ u.offset \in Nat
<1>1. \A t \in Status : /\ [u EXCEPT !.status = t] \in UploadSessions
                        /\ [u EXCEPT !.status = t].offset = u.offset
  BY StatusGood DEF GoodSession
<1>2. u.offset \in Nat
  BY FieldTypes DEF GoodSession
<1> QED
  BY <1>1, <1>2 DEF MarkFailed, MarkComplete, MarkAborted, Status

LEMMA OnwardTargets ==
  ASSUME NEW h \in Handler, GoodSession(h.loc), NEW result
  PROVE  /\ Onward(Idle, h)
         /\ Onward(Fail(h), h)
         /\ Onward(AfterUpdate(h, result), h)
         /\ Onward(AfterDecrement(h), h)
         /\ \A p \in PCs \ Early : Onward([h EXCEPT !.pc = p], h)
         /\ \A u \in UploadSessions, c \in Callers :
              h.loc.offset <= u.offset => Onward(Save(h, u, c), h)
         /\ \A c \in Callers : Onward(Save(h, MarkFailed(h.loc), c), h)
         /\ \A c \in Callers : Onward(Save(h, MarkComplete(h.loc), c), h)
<1>0. /\ {"probe", "hset", "del", "decr", "zero", "register"} \subseteq PCs \ Early
      /\ h.loc.offset \in Nat
  BY MarksOffset DEF PCs, Early
<1>1. Onward(Idle, h)
  BY IdleFields DEF Onward
<1>2. \A p \in PCs \ Early : Onward([h EXCEPT !.pc = p], h)
  BY <1>0, PcFields DEF Onward
<1>3. ASSUME NEW u \in UploadSessions, NEW c \in Callers, h.loc.offset <= u.offset
      PROVE  Onward(Save(h, u, c), h)
  BY <1>0, <1>3, SaveFields DEF Onward
<1>4. \A c \in Callers : Onward(Save(h, MarkFailed(h.loc), c), h)
  BY <1>0, <1>3, MarksOffset
<1>5. \A c \in Callers : Onward(Save(h, MarkComplete(h.loc), c), h)
  BY <1>0, <1>3, MarksOffset
<1>6. Onward(Fail(h), h)
  BY <1>4 DEF Fail, Callers
<1>7. Onward(AfterUpdate(h, result), h)
  BY <1>0, <1>1, <1>2, <1>6 DEF AfterUpdate
<1>8. Onward(AfterDecrement(h), h)
  BY <1>0, <1>1, <1>2 DEF AfterDecrement
<1> QED
  BY <1>1, <1>2, <1>3, <1>4, <1>5, <1>6, <1>7, <1>8

\* The steps after the start of an initiation lead onward.
LEMMA StepsOnward ==
  ASSUME IndInv, NEW r \in Requests, NEW o \in Outcomes, HandlerStep(r, o),
         ~InitiateIncrement(r, o)
  PROVE  \E g : Become(r, g) /\ Onward(g, req[r])
<1> DEFINE h == req[r]
<1>1. h.pc # "idle"
  BY DEF HandlerStep, InitiateIncrement, InitiateCreate, ChunkSet, UpdateProbe, UpdateHset,
         DeleteSession, DecrementHincrby, DecrementZero, RetrieveChunk, CheckFileExists,
         AssembleFile, DeleteCorrupt, CheckDuplicate, PublishEvent, RegisterFile, CleanupChunk
<1>2. h \in Handler /\ GoodSession(h.loc) /\ HandlerOK(h, published) /\ h.loc.offset \in Nat
  BY <1>1, Running, MarksOffset
<1>3. {"probe", "hset", "del", "decr", "zero", "assemble", "dedup", "s3del", "publish"}
        \subseteq PCs \ Early
  BY DEF PCs, Early
<1>4. ASSUME NEW g, Become(r, g), g.sid = h.sid, g.pc \notin Early, g.loc = h.loc
      PROVE  \E f : Become(r, f) /\ Onward(f, h)
  BY <1>2, <1>4 DEF Onward
<1>5. CASE InitiateCreate(r, o)
  <2> DEFINE g == [h EXCEPT !.pc = "decr", !.caller = "initfail"]
  <2>1. g.pc = "decr" /\ g.sid = h.sid /\ g.loc = h.loc
    BY <1>2 DEF Handler
  <2>2. Become(r, g) \/ Become(r, Idle)
    BY <1>5 DEF InitiateCreate
  <2> HIDE DEF g
  <2> QED
    BY <1>2, <1>4, <2>1, <2>2, OnwardTargets DEF Early
<1>6. CASE ChunkSet(r, o)
  <2> DEFINE n == Len(h.loc.manifest)
             off == h.loc.offset + Len(h.data)
             v == UpdateOffset(AddChunk(h.loc, n, Len(h.data), h.data), off)
             u == MarkInProgress(v)
  <2>1. \/ Become(r, Idle)
        \/ CanUpdateOffset(h.loc, off) /\ Become(r, Save(h, u, "chunk"))
    BY <1>6 DEF ChunkSet
  <2>2. ASSUME CanUpdateOffset(h.loc, off) PROVE Onward(Save(h, u, "chunk"), h)
    <3>1. h.pc = "set"
      BY <1>6 DEF ChunkSet
    <3>2. h.data \in Content /\ Len(h.data) > 0 /\ Len(h.data) \in Nat
      BY <1>2, <3>1 DEF HandlerOK, Handler, Content
    <3>3. GoodSession(v) /\ v.offset = off
      BY <1>2, <2>2, <3>2, ReceiveGood
    <3>4. h.loc.offset <= off
      BY <1>2, <3>2
    <3> HIDE DEF v, off
    <3>5. u \in UploadSessions /\ u.offset = v.offset
      <4> DEFINE t == IF v.status = "PENDING" THEN "IN_PROGRESS" ELSE v.status
      <4>1. t \in Status /\ u = [v EXCEPT !.status = t]
        BY <3>3, FieldTypes DEF MarkInProgress, Status, GoodSession
      <4> HIDE DEF t, u
      <4> QED
        BY <3>3, <4>1, StatusGood DEF GoodSession
    <3> HIDE DEF u
    <3> QED
      BY <1>2, <3>3, <3>4, <3>5, OnwardTargets DEF Callers
  <2> HIDE DEF u, off
  <2> QED
    BY <1>2, <2>1, <2>2, OnwardTargets
<1>7. CASE \/ UpdateProbe(r, o) \/ UpdateHset(r, o) \/ DeleteSession(r, o)
           \/ DecrementHincrby(r, o) \/ DecrementZero(r, o)
  BY <1>2, <1>3, <1>7, OnwardTargets
     DEF UpdateProbe, UpdateHset, DeleteSession, DecrementHincrby, DecrementZero
<1>8. CASE \/ CheckFileExists(r, o) \/ AssembleFile(r, o) \/ DeleteCorrupt(r, o)
           \/ CheckDuplicate(r, o) \/ PublishEvent(r, o)
  <2>1. {"dup", "pubfail", "complete"} \subseteq Callers
    BY DEF Callers
  <2> QED
    BY <1>2, <1>3, <1>8, <2>1, OnwardTargets
       DEF CheckFileExists, AssembleFile, DeleteCorrupt, CheckDuplicate, PublishEvent, AfterPublish
<1>9. CASE RetrieveChunk(r, o)
  <2> DEFINE got == Append(h.got, blob[h.sid][Len(h.got)])
             next == IF Len(got) = Len(h.loc.manifest) THEN "head" ELSE "get"
             g == [h EXCEPT !.got = got, !.pc = next]
  <2>1. g.pc = next /\ g.sid = h.sid /\ g.loc = h.loc
    BY <1>2 DEF Handler
  <2>2. Become(r, g) \/ Become(r, Idle) \/ Become(r, Fail(h))
    BY <1>9 DEF RetrieveChunk
  <2>3. next \notin Early
    BY DEF Early
  <2> HIDE DEF g, next
  <2> QED
    BY <1>2, <1>4, <2>1, <2>2, <2>3, OnwardTargets
<1>10. CASE RegisterFile(r, o) \/ CleanupChunk(r, o)
  <2> DEFINE f == [h EXCEPT !.pc = "cleanup", !.k = 1]
             g == [h EXCEPT !.k = h.k + 1]
  <2>1. f.pc = "cleanup" /\ f.sid = h.sid /\ f.loc = h.loc
        /\ g.pc = h.pc /\ g.sid = h.sid /\ g.loc = h.loc
    BY <1>2 DEF Handler
  <2>2. Become(r, f) \/ Become(r, Idle) \/ (h.pc = "cleanup" /\ Become(r, g))
    BY <1>10 DEF RegisterFile, CleanupChunk
  <2> HIDE DEF f, g
  <2> QED
    BY <1>2, <1>4, <2>1, <2>2, OnwardTargets DEF Early
<1> QED
  BY <1>5, <1>6, <1>7, <1>8, <1>9, <1>10 DEF HandlerStep

\* What a step of a handler does to the stored sessions: it saves its copy,
\* with or without telling the client, or removes the session.
LEMMA StoreEffect ==
  ASSUME NEW r \in Requests, NEW o \in Outcomes, HandlerStep(r, o)
  PROVE  LET h == req[r]
         IN  /\ used' = used
             /\ \/ UNCHANGED <<hash, told>>
                \/ /\ hash' = [hash EXCEPT ![h.sid] = h.loc]
                   /\ h.pc \in {"create", "hset"}
                   /\ told' = told \/ Tell(h.sid, h.loc.offset)
                \/ /\ hash' = [hash EXCEPT ![h.sid] = Null] /\ told' = told
                   /\ h.pc = "del"
<1>1. CASE InitiateCreate(r, o) \/ UpdateHset(r, o) \/ DeleteSession(r, o)
  BY <1>1 DEF InitiateCreate, UpdateHset, DeleteSession, store, Acknowledges, Raises, Applied
<1>2. CASE \/ InitiateIncrement(r, o) \/ ChunkSet(r, o) \/ UpdateProbe(r, o)
           \/ DecrementHincrby(r, o) \/ DecrementZero(r, o)
  BY <1>2 DEF InitiateIncrement, ChunkSet, UpdateProbe, DecrementHincrby, DecrementZero,
              redis, store
<1>3. CASE \/ RetrieveChunk(r, o) \/ CheckFileExists(r, o) \/ AssembleFile(r, o)
           \/ DeleteCorrupt(r, o) \/ CheckDuplicate(r, o) \/ PublishEvent(r, o)
           \/ RegisterFile(r, o) \/ CleanupChunk(r, o)
  BY <1>3 DEF RetrieveChunk, CheckFileExists, AssembleFile, DeleteCorrupt, CheckDuplicate,
              PublishEvent, RegisterFile, CleanupChunk, redis, store
<1> QED
  BY <1>1, <1>2, <1>3 DEF HandlerStep

\* A step that leaves Redis alone takes an idle handler, or none, to g.
LEMMA AheadArrival ==
  ASSUME Single, IndInv, AheadInv, NEW r \in Requests, NEW g, Become(r, g),
         UNCHANGED <<hash, told>>, used \subseteq used',
         g.pc # "idle" => g.sid \in used' /\ AheadOK(g, hash[g.sid], told[g.sid])
  PROVE  AheadInv'
<1>1. \A q \in Requests : req'[q] = g
  BY Moves
<1> QED
  BY <1>1 DEF AheadInv

LEMMA AheadHandler ==
  ASSUME Single, IndInv, AheadInv, NEW r \in Requests, NEW o \in Outcomes, HandlerStep(r, o)
  PROVE  AheadInv'
<1> DEFINE h == req[r]
           s == h.sid
<1>1. h.pc # "idle"
  BY DEF HandlerStep, InitiateIncrement, InitiateCreate, ChunkSet, UpdateProbe, UpdateHset,
         DeleteSession, DecrementHincrby, DecrementZero, RetrieveChunk, CheckFileExists,
         AssembleFile, DeleteCorrupt, CheckDuplicate, PublishEvent, RegisterFile, CleanupChunk
<1>2. h \in Handler /\ s \in SessionIds /\ h.loc \in UploadSessions /\ GoodSession(h.loc)
  BY <1>1, Running
<1>3. s \in used /\ AheadOK(h, hash[s], told[s])
  BY <1>1 DEF AheadInv
<1>4. CASE InitiateIncrement(r, o)
  <2> DEFINE g == [h EXCEPT !.pc = "create"]
  <2>1. g.pc = "create" /\ g.sid = s /\ h.pc = "incr"
    BY <1>2, <1>4, PcFields DEF PCs, InitiateIncrement
  <2>2. Become(r, g) \/ Become(r, Idle)
    BY <1>4 DEF InitiateIncrement
  <2>3. UNCHANGED <<hash, told, used>>
    BY <1>4 DEF InitiateIncrement, store
  <2> HIDE DEF g
  <2>4. AheadOK(g, hash[g.sid], told[g.sid])
    BY <1>3, <2>1 DEF AheadOK, Early
  <2> QED
    BY <1>3, <2>1, <2>2, <2>3, <2>4, AheadArrival, IdleFields
<1>5. CASE ~InitiateIncrement(r, o)
  <2>1. PICK g : Become(r, g) /\ Onward(g, h)
    BY <1>5, StepsOnward
  <2>2. \A q \in Requests : req'[q] = g
    BY <2>1, Moves
  <2>3. h.loc.offset \in Nat /\ h.loc # Null
    BY <1>2, FieldTypes, ServiceAssumption
  <2>4. /\ hash \in [SessionIds -> UploadSessions \cup {Null}]
        /\ told \in [SessionIds -> Nat]
    BY DEF IndInv, TypeOK
  <2>5. told[s] <= h.loc.offset /\ (hash[s] # Null => hash[s].offset <= h.loc.offset)
    BY <1>3, <2>3 DEF AheadOK
  <2>6. /\ used' = used
        /\ \/ UNCHANGED <<hash, told>>
           \/ /\ hash' = [hash EXCEPT ![s] = h.loc]
              /\ told' = told \/ Tell(s, h.loc.offset)
           \/ hash' = [hash EXCEPT ![s] = Null] /\ told' = told
    BY StoreEffect
  <2> DEFINE n == h.loc.offset
             u == h.loc
  <2>7. n = u.offset /\ n \in Nat /\ u # Null
    BY <2>3
  <2> HIDE DEF s, n, h, u
  <2>8. \A t \in SessionIds : t # s => hash'[t] = hash[t] /\ told'[t] = told[t]
    BY <1>2, <2>4, <2>6 DEF Tell
  <2>9. /\ told'[s] <= n
        /\ hash'[s] # Null => hash'[s].offset <= n /\ told'[s] <= hash'[s].offset
    <3>1. told[s] <= n /\ (hash[s] # Null => hash[s].offset <= n /\ told[s] <= hash[s].offset)
      BY <1>2, <2>5 DEF AheadInv, n, u
    <3>2. CASE UNCHANGED <<hash, told>>
      BY <3>1, <3>2
    <3>3. CASE hash' = [hash EXCEPT ![s] = Null] /\ told' = told
      BY <1>2, <2>4, <3>1, <3>3
    <3>4. CASE hash' = [hash EXCEPT ![s] = u] /\ (told' = told \/ Tell(s, n))
      <4>1. hash'[s] = u /\ told'[s] \in {told[s], n}
        BY <1>2, <2>4, <3>4 DEF Tell
      <4> QED
        BY <2>7, <3>1, <4>1
    <3> QED
      BY <2>6, <3>2, <3>3, <3>4 DEF n, u
  <2>10. told'[s] \in Nat /\ (hash'[s] # Null => hash'[s].offset \in Nat)
    <3>1. IndInv'
      BY NextOK DEF Next
    <3> QED
      BY <1>2, <3>1, FieldTypes DEF IndInv, TypeOK
  <2>11. ASSUME g.pc # "idle"
         PROVE  g.sid \in used' /\ AheadOK(g, hash'[g.sid], told'[g.sid])
    <3>1. g.sid = s /\ g.pc \notin Early /\ n <= g.loc.offset
      BY <2>1, <2>11 DEF Onward, s, n
    <3>2. g.loc.offset \in Nat
      <4>1. IndInv'
        BY NextOK DEF Next
      <4>2. HandlerOK(g, published')
        BY <2>2, <4>1 DEF IndInv
      <4>3. GoodSession(g.loc)
        BY <2>11, <4>2 DEF HandlerOK
      <4> QED
        BY <4>3, MarksOffset
    <3>3. told'[s] <= g.loc.offset /\ (hash'[s] # Null => hash'[s].offset <= g.loc.offset)
      BY <2>7, <2>9, <2>10, <3>1, <3>2
    <3> QED
      BY <1>3, <2>6, <3>1, <3>3 DEF AheadOK, s
  <2>12. \A t \in SessionIds : t \notin used' => hash'[t] = Null /\ told'[t] = 0
    BY <1>3, <2>6, <2>8 DEF AheadInv, s
  <2>13. \A t \in SessionIds : hash'[t] # Null => told'[t] <= hash'[t].offset
    BY <2>8, <2>9 DEF AheadInv
  <2> QED
    BY <2>2, <2>11, <2>12, <2>13 DEF AheadInv
<1> QED
  BY <1>4, <1>5

\* A request starts with what it finds in Redis.
LEMMA AheadArrive ==
  ASSUME Single, IndInv, AheadInv, NEW r \in Requests, Arrive(r)
  PROVE  AheadInv'
<1>1. ASSUME NEW s \in SessionIds, hash[s] # Null, NEW g, Become(r, g), g.sid = s,
             g.pc \notin Early, g.loc.offset = hash[s].offset,
             UNCHANGED <<hash, told, used>>
      PROVE  AheadInv'
  <2>1. s \in used /\ told[s] <= hash[s].offset
    BY <1>1 DEF AheadInv
  <2>2. hash[s].offset \in Nat
    BY <1>1, FieldTypes DEF IndInv, TypeOK
  <2>3. AheadOK(g, hash[s], told[s])
    BY <1>1, <2>1, <2>2 DEF AheadOK
  <2> QED
    BY <1>1, <2>1, <2>3, AheadArrival
<1>2. ASSUME NEW s \in SessionIds, NEW d \in Declarations, InitiateCheck(r, s, d)
      PROVE  AheadInv'
  <2> DEFINE g == [Idle EXCEPT !.pc = "incr", !.sid = s, !.loc = NewSession(d.size, d.sha256)]
  <2>1. g.pc = "incr" /\ g.sid = s
    BY DEF Idle
  <2>2. /\ Become(r, g) /\ s \notin used /\ used' = used \cup {s}
        /\ UNCHANGED <<hash, told>>
    BY <1>2 DEF InitiateCheck, redis
  <2> HIDE DEF g
  <2>3. AheadOK(g, hash[s], told[s])
    BY <2>1, <2>2 DEF AheadOK, Early, AheadInv
  <2> QED
    BY <2>1, <2>2, <2>3, AheadArrival
<1>3. ASSUME NEW s \in SessionIds, NEW p \in Patches[s], ChunkGet(r, s, p)
      PROVE  AheadInv'
  <2> DEFINE g == [Idle EXCEPT !.pc = "set", !.sid = s, !.loc = hash[s], !.data = p.data]
  <2>1. g.pc = "set" /\ g.sid = s /\ g.loc = hash[s]
    BY DEF Idle
  <2>2. Become(r, g) /\ hash[s] # Null /\ UNCHANGED <<hash, told, used>>
    BY <1>3 DEF ChunkGet, redis, Found
  <2> HIDE DEF g
  <2> QED
    BY <1>1, <2>1, <2>2 DEF Early
<1>4. ASSUME NEW s \in SessionIds, AbortGet(r, s) PROVE AheadInv'
  <2> DEFINE g == [Save(Idle, MarkAborted(hash[s]), "abort") EXCEPT !.sid = s]
  <2>1. g.pc = "probe" /\ g.sid = s /\ g.loc = MarkAborted(hash[s])
    BY DEF Idle, Save
  <2>2. Become(r, g) /\ hash[s] # Null /\ UNCHANGED <<hash, told, used>>
    BY <1>4 DEF AbortGet, redis, Found
  <2> HIDE DEF g
  <2>3. MarkAborted(hash[s]).offset = hash[s].offset
    BY <2>2, MarksOffset DEF IndInv, StoredOK
  <2> QED
    BY <1>1, <2>1, <2>2, <2>3 DEF Early
<1>5. ASSUME NEW s \in SessionIds, CompleteGet(r, s) PROVE AheadInv'
  <2> DEFINE g == [Idle EXCEPT !.pc = "get", !.sid = s, !.loc = hash[s]]
  <2>1. g.pc = "get" /\ g.sid = s /\ g.loc = hash[s]
    BY DEF Idle
  <2>2. Become(r, g) /\ hash[s] # Null /\ UNCHANGED <<hash, told, used>>
    BY <1>5 DEF CompleteGet, redis, Found
  <2> HIDE DEF g
  <2> QED
    BY <1>1, <2>1, <2>2 DEF Early
<1> QED
  BY <1>2, <1>3, <1>4, <1>5 DEF Arrive, PostUploads, PatchUpload, DeleteUpload

LEMMA AheadEnvironment ==
  ASSUME Single, IndInv, AheadInv, Environment
  PROVE  AheadInv'
<1>0. /\ hash \in [SessionIds -> UploadSessions \cup {Null}]
      /\ told \in [SessionIds -> Nat]
      /\ req \in [Requests -> Handler]
  BY DEF IndInv, TypeOK
<1>1. ASSUME NEW r \in Requests, Crash(r) PROVE AheadInv'
  <2>1. Become(r, Idle) /\ UNCHANGED <<hash, told, used>>
    BY <1>1 DEF Crash, redis
  <2> QED
    BY <2>1, IdleFields, AheadArrival
<1>2. ASSUME NEW s \in SessionIds, QueryOffset(s) PROVE AheadInv'
  <2>1. hash[s] # Null /\ Tell(s, hash[s].offset) /\ UNCHANGED <<hash, req, used>>
    BY <1>2 DEF QueryOffset, Found, redis
  <2>2. hash[s].offset \in Nat /\ told[s] \in Nat
    BY <1>0, <2>1, FieldTypes
  <2>3. /\ \A t \in SessionIds : t # s => told'[t] = told[t]
        /\ told'[s] = hash[s].offset
    BY <1>0, <2>1, <2>2 DEF Tell, AheadInv
  <2>4. ASSUME NEW r \in Requests, req[r].pc # "idle"
        PROVE  AheadOK(req[r], hash[req[r].sid], told'[req[r].sid])
    <3>1. AheadOK(req[r], hash[req[r].sid], told[req[r].sid]) /\ req[r].sid \in SessionIds
      BY <2>4, Running DEF AheadInv
    <3>2. CASE req[r].sid = s
      BY <2>1, <2>3, <3>1, <3>2 DEF AheadOK
    <3>3. CASE req[r].sid # s
      BY <2>3, <3>1, <3>3
    <3> QED
      BY <3>2, <3>3
  <2>5. \A t \in SessionIds : hash[t] # Null => told'[t] <= hash[t].offset
    BY <2>2, <2>3 DEF AheadInv
  <2>6. \A t \in SessionIds : t \notin used => told'[t] = 0
    BY <2>1, <2>3 DEF AheadInv
  <2> QED
    BY <2>1, <2>4, <2>5, <2>6 DEF AheadInv
<1>3. ASSUME NEW s \in SessionIds,
             SessionLapses(s) \/ MetaLapses(s) \/ \E i \in Indices : ChunkLapses(s, i)
      PROVE  AheadInv'
  <2>1. /\ UNCHANGED <<req, used, told>>
        /\ hash' = hash \/ hash' = [hash EXCEPT ![s] = Null]
    BY <1>3 DEF SessionLapses, MetaLapses, ChunkLapses, store
  <2>2. \A t \in SessionIds : hash'[t] \in {hash[t], Null}
    BY <1>0, <2>1
  <2>3. ASSUME NEW r \in Requests, req[r].pc # "idle"
        PROVE  AheadOK(req[r], hash'[req[r].sid], told[req[r].sid])
    <3>1. AheadOK(req[r], hash[req[r].sid], told[req[r].sid]) /\ req[r].sid \in SessionIds
      BY <2>3, Running DEF AheadInv
    <3> QED
      BY <2>2, <3>1 DEF AheadOK
  <2> QED
    BY <2>1, <2>2, <2>3 DEF AheadInv
<1> QED
  BY <1>1, <1>2, <1>3 DEF Environment

LEMMA AheadNext ==
  ASSUME Single, IndInv, AheadInv, [Next]_vars
  PROVE  AheadInv'
<1>1. CASE UNCHANGED vars
  BY <1>1 DEF vars, AheadInv
<1> QED
  BY <1>1, AheadArrive, AheadHandler, AheadEnvironment DEF Next

LEMMA AheadInductive ==
  ASSUME Single
  PROVE  Spec => []AheadInv
<1>1. Init => AheadInv
  BY IdleFields DEF Init, AheadInv
<1>2. IndInv /\ AheadInv /\ [Next]_vars => AheadInv'
  BY AheadNext
<1> QED
  BY <1>1, <1>2, Inductive, PTL DEF Spec

\* When requests do not overlap, an offset a PATCH or HEAD response named is
\* still covered by the stored session, whatever calls fail, lose their
\* reply or are cut off by a crash, and also when an expired session comes
\* back with a late write.
THEOREM AcknowledgedTheorem ==
  ASSUME Single
  PROVE  Spec => []AcknowledgedIsKept
<1>1. ASSUME IndInv, AheadInv PROVE AcknowledgedIsKept
  <2> SUFFICES ASSUME NEW s \in SessionIds, hash[s] # Null PROVE hash[s].offset >= told[s]
    BY DEF AcknowledgedIsKept
  <2>1. told[s] <= hash[s].offset /\ told[s] \in Nat /\ hash[s] \in UploadSessions
    BY <1>1 DEF AheadInv, IndInv, TypeOK
  <2> QED
    BY <2>1, FieldTypes
<1> QED
  BY <1>1, AheadInductive, Inductive, PTL

\* Under the same condition the stored offset never goes backwards, the
\* property two racing PATCHes break.
THEOREM MonotonicTheorem ==
  ASSUME Single
  PROVE  Spec => OffsetMonotonic
<1>1. ASSUME IndInv, AheadInv, [Next]_vars
      PROVE  [\A s \in SessionIds :
                hash[s] # Null /\ hash'[s] # Null => hash'[s].offset >= hash[s].offset]_vars
  <2>0. hash \in [SessionIds -> UploadSessions \cup {Null}]
    BY <1>1 DEF IndInv, TypeOK
  <2>1. ASSUME NEW s \in SessionIds, hash[s] # Null, hash'[s] # Null, Next
        PROVE  hash'[s].offset >= hash[s].offset
    <3>0. hash[s].offset \in Nat
      BY <2>0, <2>1, FieldTypes
    <3>1. CASE hash'[s] = hash[s]
      BY <3>0, <3>1
    <3>2. ASSUME NEW r \in Requests, NEW o \in Outcomes, HandlerStep(r, o), hash'[s] # hash[s]
          PROVE  hash'[s].offset >= hash[s].offset
      <4> DEFINE h == req[r]
      <4>1. /\ h.pc \in {"create", "hset"} /\ h.pc # "idle"
            /\ hash' = [hash EXCEPT ![h.sid] = h.loc]
        BY <2>0, <2>1, <3>2, StoreEffect
      <4>2. h.sid = s /\ hash'[s] = h.loc
        BY <2>0, <3>2, <4>1
      <4>3. AheadOK(h, hash[s], told[s])
        BY <1>1, <4>1, <4>2 DEF AheadInv
      <4>4. hash[s].offset <= h.loc.offset
        BY <2>1, <4>3 DEF AheadOK
      <4>5. h.loc.offset \in Nat
        BY <1>1, <4>1, Running, FieldTypes
      <4> QED
        BY <3>0, <4>2, <4>4, <4>5
    <3>3. ASSUME NEW r \in Requests, Arrive(r) PROVE hash' = hash
      BY <3>3 DEF Arrive, PostUploads, PatchUpload, DeleteUpload, InitiateCheck, ChunkGet,
                  AbortGet, CompleteGet, redis
    <3>4. CASE Environment
      <4>1. hash' = hash \/ \E t \in SessionIds : hash' = [hash EXCEPT ![t] = Null]
        BY <3>4 DEF Environment, Crash, QueryOffset, SessionLapses, ChunkLapses, MetaLapses,
                    redis, store
      <4> QED
        BY <2>0, <2>1, <3>1, <4>1
    <3> QED
      BY <2>1, <3>1, <3>2, <3>3, <3>4 DEF Next
  <2> QED
    BY <1>1, <2>1
<1> QED
  BY <1>1, AheadInductive, Inductive, PTL DEF Spec, OffsetMonotonic

----------------------------------------------------------------------------
(* The stages of a request *)

\* No call has taken effect while its caller was told that it failed.
Clean == faults = 0 \/ "lost" \notin FaultKinds

Opened == {"get", "head", "assemble", "s3del", "dedup", "publish"}
Saving == {"probe", "hset"}
Sizes == {d.size : d \in Declarations}

\* The status update_session is called with.
SavedStatus(c) ==
  IF c = "chunk" THEN "IN_PROGRESS"
  ELSE IF c = "abort" THEN "ABORTED"
  ELSE IF c = "complete" THEN "COMPLETE"
  ELSE "FAILED"

\* The stored session u that v is going to replace on behalf of caller c.
Replaces(v, c, u) ==
  /\ u.size = v.size
  /\ c = "chunk" => u.offset < v.offset
  /\ c # "chunk" => u.offset = v.offset
  /\ c \in {"chunk", "abort"} => u.status \in {"PENDING", "IN_PROGRESS"}
  /\ c \in {"complete", "dup", "pubfail"} => u.status = "IN_PROGRESS"
  /\ c = "failed" => u.status \in {"IN_PROGRESS", "FAILED"}

SavingOK(h, u) ==
  /\ h.caller \notin {"none", "initfail"}
  /\ h.loc.status = SavedStatus(h.caller)
  /\ h.caller = "complete" => h.loc.offset = h.loc.size
  /\ u # Null => Replaces(h.loc, h.caller, u)

\* The session has to be there, unless it expired.
Keeps(h) ==
  h.pc \notin Early /\ (h.pc \in {"decr", "zero"} => h.caller = "complete")

\* What holds of a running handler whose session is stored as u.
StageOK(h, u) ==
  /\ h.pc \in Early => /\ u = Null /\ h.loc.status = "PENDING"
                          /\ h.loc.offset = 0 /\ h.loc.size \in Sizes
  /\ h.pc = "set" => u \in {h.loc, Null} /\ ~IsTerminal(h.loc)
  /\ h.pc \in Opened => /\ u \in {h.loc, Null} /\ h.loc.status = "IN_PROGRESS"
                        /\ h.loc.offset = h.loc.size
  /\ h.pc \in Saving => SavingOK(h, u)
  /\ h.pc = "del" => h.caller = "abort" /\ (u # Null => u.status = "ABORTED")
  /\ h.pc \in {"decr", "zero"} =>
       \/ h.caller \in {"abort", "initfail"} /\ u = Null
       \/ h.caller = "complete" /\ (u # Null => u.status = "COMPLETE")
  /\ ~Expiry /\ Keeps(h) => u # Null

\* The inductive invariant: only the handler itself changes its session.
StageInv ==
  Clean => \A r \in Requests : req[r].pc # "idle" => StageOK(req[r], hash[req[r].sid])

LEMMA CleanBack ==
  ASSUME IndInv, NEW o \in Outcomes, Spend(o), Clean'
  PROVE  Clean /\ o \in {"ok", "error"} /\ (o = "ok" \/ o = "error")
<1>1. faults \in Nat
  BY ServiceAssumption DEF IndInv, TypeOK
<1>2. faults' = 0 => faults = 0 /\ o = "ok"
  BY <1>1 DEF Spend, Raises
<1>3. o \in {"ok", "error", "lost"} /\ ("lost" \notin FaultKinds => o # "lost")
  BY ServiceAssumption DEF Outcomes
<1> QED
  BY <1>2, <1>3 DEF Clean

LEMMA StageClose ==
  ASSUME Single, IndInv, NEW r \in Requests, NEW g, Become(r, g),
         Clean' /\ g.pc # "idle" => StageOK(g, hash'[g.sid])
  PROVE  StageInv'
<1>1. \A q \in Requests : req'[q] = g
  BY Moves
<1> QED
  BY <1>1 DEF StageInv

\* What the invariant says of the handler that moves.
LEMMA StageNow ==
  ASSUME IndInv, StageInv, NEW r \in Requests, NEW o \in Outcomes, Spend(o),
         req[r].pc # "idle", Clean'
  PROVE  /\ StageOK(req[r], hash[req[r].sid])
         /\ o = "ok" \/ o = "error"
  BY CleanBack DEF StageInv

\* Calling update_session.
LEMMA SaveStage ==
  ASSUME NEW h \in Handler, NEW v \in UploadSessions, NEW c \in Callers, NEW u,
         c \notin {"none", "initfail"}, v.status = SavedStatus(c),
         c = "complete" => v.offset = v.size,
         u # Null => Replaces(v, c, u), ~Expiry => u # Null
  PROVE  StageOK(Save(h, v, c), u)
<1> DEFINE g == Save(h, v, c)
<1>1. g.pc = "probe" /\ g.loc = v /\ g.caller = c
  BY SaveFields
<1> HIDE DEF g
<1>2. SavingOK(g, u)
  BY <1>1 DEF SavingOK
<1>3. StageOK(g, u)
  BY <1>1, <1>2 DEF StageOK, Early, Opened, Saving
<1> QED
  BY <1>3 DEF g

LEMMA MarkedFields ==
  ASSUME NEW u, GoodSession(u)
  PROVE  /\ MarkFailed(u) \in UploadSessions /\ MarkComplete(u) \in UploadSessions
         /\ MarkAborted(u) \in UploadSessions
         /\ MarkFailed(u).status = "FAILED" /\ MarkComplete(u).status = "COMPLETE"
         /\ MarkAborted(u).status = "ABORTED"
         /\ MarkFailed(u).offset = u.offset /\ MarkComplete(u).offset = u.offset
         /\ MarkAborted(u).offset = u.offset
         /\ MarkFailed(u).size = u.size /\ MarkComplete(u).size = u.size
         /\ MarkAborted(u).size = u.size
<1>1. \A t \in Status : /\ [u EXCEPT !.status = t] \in UploadSessions
                        /\ [u EXCEPT !.status = t].status = t
                        /\ [u EXCEPT !.status = t].offset = u.offset
                        /\ [u EXCEPT !.status = t].size = u.size
  BY StatusGood DEF GoodSession
<1> QED
  BY <1>1 DEF MarkFailed, MarkComplete, MarkAborted, Status

LEMMA FailStage ==
  ASSUME NEW h \in Handler, GoodSession(h.loc), NEW u,
         u # Null => /\ u.size = h.loc.size /\ u.offset = h.loc.offset
                     /\ u.status \in {"IN_PROGRESS", "FAILED"},
         ~Expiry => u # Null
  PROVE  StageOK(Fail(h), u)
<1> DEFINE v == MarkFailed(h.loc)
<1>1. v \in UploadSessions /\ v.status = "FAILED" /\ v.offset = h.loc.offset
      /\ v.size = h.loc.size
  BY MarkedFields
<1> HIDE DEF v
<1>2. u # Null => Replaces(v, "failed", u)
  BY <1>1 DEF Replaces
<1>3. "failed" \in Callers /\ v.status = SavedStatus("failed")
  BY <1>1 DEF Callers, SavedStatus
<1> QED
  BY <1>1, <1>2, <1>3, SaveStage DEF Fail, v

\* update_session raised, or found nothing.
LEMMA InfraStage ==
  ASSUME NEW h \in Handler, GoodSession(h.loc), NEW u, h.pc \in Saving, StageOK(h, u)
  PROVE  /\ AfterUpdate(h, "infra").pc # "idle" => StageOK(AfterUpdate(h, "infra"), u)
         /\ AfterUpdate(h, "notfound").pc = "idle"
<1>1. SavingOK(h, u) /\ (~Expiry => u # Null)
  BY DEF StageOK, Keeps, Saving, Early
<1>2. AfterUpdate(h, "notfound").pc = "idle"
  BY IdleFields DEF AfterUpdate, ReachesFailHandler
<1>3. CASE h.caller \in {"dup", "pubfail", "complete"}
  <2>1. AfterUpdate(h, "infra") = Fail(h)
    BY <1>3 DEF AfterUpdate, ReachesFailHandler
  <2>2. u # Null => /\ u.size = h.loc.size /\ u.offset = h.loc.offset
                    /\ u.status \in {"IN_PROGRESS", "FAILED"}
    BY <1>1, <1>3 DEF SavingOK, Replaces
  <2> QED
    BY <1>1, <1>2, <2>1, <2>2, FailStage
<1>4. CASE h.caller \notin {"dup", "pubfail", "complete"}
  <2>1. AfterUpdate(h, "infra") = Idle
    BY <1>4 DEF AfterUpdate, ReachesFailHandler
  <2> QED
    BY <1>2, <2>1, IdleFields
<1> QED
  BY <1>3, <1>4

\* update_session has stored the handler's copy.
LEMMA SavedStage ==
  ASSUME NEW h \in Handler, GoodSession(h.loc), NEW u, SavingOK(h, u)
  PROVE  AfterUpdate(h, "ok").pc # "idle" => StageOK(AfterUpdate(h, "ok"), h.loc)
<1>0. h.loc # Null
  BY ServiceAssumption DEF GoodSession
<1>1. h.loc.status = SavedStatus(h.caller)
  BY DEF SavingOK
<1>2. CASE h.caller = "abort"
  <2> DEFINE g == [h EXCEPT !.pc = "del"]
  <2>1. g.pc = "del" /\ g.caller = "abort" /\ AfterUpdate(h, "ok") = g
    BY <1>2, PcFields DEF PCs, AfterUpdate
  <2> HIDE DEF g
  <2> QED
    BY <1>0, <1>1, <1>2, <2>1 DEF StageOK, Early, Opened, Saving, SavedStatus
<1>3. CASE h.caller = "complete"
  <2> DEFINE g == [h EXCEPT !.pc = "decr"]
  <2>1. g.pc = "decr" /\ g.caller = "complete" /\ AfterUpdate(h, "ok") = g
    BY <1>3, PcFields DEF PCs, AfterUpdate
  <2> HIDE DEF g
  <2> QED
    BY <1>0, <1>1, <1>3, <2>1 DEF StageOK, Early, Opened, Saving, SavedStatus
<1>4. CASE h.caller = "pubfail"
  <2>1. AfterUpdate(h, "ok") = Fail(h)
    BY <1>4 DEF AfterUpdate, ReachesFailHandler
  <2>2. h.loc.status = "FAILED"
    BY <1>1, <1>4 DEF SavedStatus
  <2> QED
    BY <1>0, <2>1, <2>2, FailStage
<1>5. CASE h.caller \notin {"abort", "complete", "pubfail"}
  BY <1>5, IdleFields DEF AfterUpdate, ReachesFailHandler
<1> QED
  BY <1>2, <1>3, <1>4, <1>5

----------------------------------------------------------------------------
(* Every step keeps the stages *)

LEMMA StageInitiate ==
  ASSUME Single, IndInv, StageInv, NEW r \in Requests, NEW o \in Outcomes,
         InitiateIncrement(r, o) \/ InitiateCreate(r, o)
  PROVE  StageInv'
<1> DEFINE h == req[r]
           u == hash[h.sid]
<1>1. h.pc \in Early /\ h.pc # "idle" /\ Spend(o)
  BY DEF InitiateIncrement, InitiateCreate, Early
<1>2. h \in Handler
  BY <1>1, Running
<1>3. Clean' => StageOK(h, u) /\ (o = "ok" \/ o = "error")
  BY <1>1, StageNow
<1>4. CASE InitiateIncrement(r, o)
  <2> DEFINE g == [h EXCEPT !.pc = "create"]
  <2>1. g.pc = "create" /\ g.sid = h.sid /\ g.loc = h.loc
    BY <1>2, PcFields DEF PCs
  <2>2. (Become(r, g) \/ Become(r, Idle)) /\ hash' = hash
    BY <1>4 DEF InitiateIncrement, store
  <2> HIDE DEF g
  <2>3. Clean' => StageOK(g, hash'[g.sid])
    BY <1>1, <1>3, <2>1, <2>2 DEF StageOK, Early, Opened, Saving, Keeps
  <2> QED
    BY <2>2, <2>3, StageClose, IdleFields
<1>5. CASE InitiateCreate(r, o)
  <2> DEFINE g == [h EXCEPT !.pc = "decr", !.caller = "initfail"]
  <2>1. g.pc = "decr" /\ g.sid = h.sid /\ g.caller = "initfail"
    BY <1>2 DEF Handler, Callers
  <2>2. \/ Become(r, Idle)
        \/ Become(r, g) /\ o # "ok" /\ (o = "error" => hash' = hash)
    BY <1>5 DEF InitiateCreate, Raises, Applied, store
  <2> HIDE DEF g
  <2>3. CASE Become(r, Idle)
    BY <2>3, StageClose, IdleFields
  <2>4. CASE Become(r, g) /\ o # "ok" /\ (o = "error" => hash' = hash)
    <3>1. ASSUME Clean' PROVE StageOK(g, hash'[g.sid])
      <4>1. hash'[g.sid] = u /\ u = Null
        BY <1>1, <1>3, <2>1, <2>4, <3>1 DEF StageOK
      <4> QED
        BY <2>1, <4>1 DEF StageOK, Early, Opened, Saving, Keeps
    <3> QED
      BY <2>4, <3>1, StageClose
  <2> QED
    BY <2>2, <2>3, <2>4
<1> QED
  BY <1>4, <1>5

LEMMA StageChunkSet ==
  ASSUME Single, IndInv, StageInv, NEW r \in Requests, NEW o \in Outcomes, ChunkSet(r, o)
  PROVE  StageInv'
<1> DEFINE h == req[r]
           u == hash[h.sid]
           n == Len(h.loc.manifest)
           off == h.loc.offset + Len(h.data)
           v == UpdateOffset(AddChunk(h.loc, n, Len(h.data), h.data), off)
           w == MarkInProgress(v)
           g == Save(h, w, "chunk")
<1>1. h.pc = "set" /\ h.pc # "idle" /\ Spend(o) /\ hash' = hash
  BY DEF ChunkSet, store
<1>2. h \in Handler /\ GoodSession(h.loc) /\ HandlerOK(h, published) /\ h.loc.offset \in Nat
  BY <1>1, Running, MarksOffset
<1>3. Clean' => StageOK(h, u)
  BY <1>1, StageNow
<1>4. Become(r, Idle) \/ (CanUpdateOffset(h.loc, off) /\ Become(r, g))
  BY DEF ChunkSet
<1>5. ASSUME CanUpdateOffset(h.loc, off), Clean' PROVE StageOK(g, u) /\ g.sid = h.sid
  <2>1. h.data \in Content /\ Len(h.data) > 0 /\ Len(h.data) \in Nat
    BY <1>1, <1>2 DEF HandlerOK, Handler, Content
  <2>2. GoodSession(v) /\ v.offset = off /\ v.size = h.loc.size /\ v.status = h.loc.status
    BY <1>2, <1>5, <2>1, ReceiveGood
  <2>3. h.loc.offset < off
    BY <1>2, <2>1
  <2>4. /\ u \in {h.loc, Null} /\ h.loc.status \in {"PENDING", "IN_PROGRESS"}
        /\ ~Expiry => u # Null
    <3>1. u \in {h.loc, Null} /\ ~IsTerminal(h.loc) /\ (~Expiry => u # Null)
      BY <1>1, <1>3, <1>5 DEF StageOK, Keeps, Early
    <3>2. h.loc.status \in Status
      BY <1>2, FieldTypes DEF GoodSession
    <3> QED
      BY <3>1, <3>2 DEF IsTerminal, Terminal, Status
  <2> HIDE DEF v, off
  <2>5. /\ w \in UploadSessions /\ w.status = "IN_PROGRESS"
        /\ w.offset = v.offset /\ w.size = v.size
    <3>1. w = [v EXCEPT !.status = "IN_PROGRESS"]
      BY <2>2, <2>4 DEF MarkInProgress
    <3> HIDE DEF w
    <3> QED
      BY <2>2, <3>1, StatusGood DEF GoodSession, Status
  <2> HIDE DEF w
  <2>6. u # Null => Replaces(w, "chunk", u)
    BY <2>2, <2>3, <2>4, <2>5 DEF Replaces
  <2>7. "chunk" \in Callers /\ w.status = SavedStatus("chunk")
    BY <2>5 DEF Callers, SavedStatus
  <2>8. g.sid = h.sid
    BY <1>2, <2>5, <2>7, SaveFields
  <2> HIDE DEF h
  <2> QED
    BY <1>2, <2>4, <2>5, <2>6, <2>7, <2>8, SaveStage
<1> HIDE DEF g, off
<1> QED
  BY <1>1, <1>4, <1>5, StageClose, IdleFields

LEMMA StageUpdate ==
  ASSUME Single, IndInv, StageInv, NEW r \in Requests, NEW o \in Outcomes,
         UpdateProbe(r, o) \/ UpdateHset(r, o)
  PROVE  StageInv'
<1> DEFINE h == req[r]
           u == hash[h.sid]
<1>1. h.pc \in Saving /\ h.pc # "idle" /\ Spend(o)
  BY DEF UpdateProbe, UpdateHset, Saving
<1>2. h \in Handler /\ GoodSession(h.loc) /\ h.sid \in SessionIds
  BY <1>1, Running
<1>3. Clean' => StageOK(h, u) /\ (o = "ok" \/ o = "error")
  BY <1>1, StageNow
<1>4. ASSUME NEW result, AfterUpdate(h, result).pc # "idle"
      PROVE  AfterUpdate(h, result).sid = h.sid
  BY <1>2, <1>4, OnwardTargets DEF Onward
<1>5. Clean' => (~Expiry => u # Null) /\ SavingOK(h, u)
  BY <1>1, <1>3 DEF StageOK, Keeps, Saving, Early
<1>6. CASE UpdateProbe(r, o)
  <2> DEFINE g == [h EXCEPT !.pc = "hset"]
  <2>1. g.pc = "hset" /\ g.sid = h.sid /\ g.loc = h.loc /\ g.caller = h.caller
    BY <1>2, PcFields DEF PCs
  <2>2. /\ hash' = hash
        /\ \/ Become(r, AfterUpdate(h, "infra"))
           \/ Become(r, AfterUpdate(h, "notfound"))
           \/ Become(r, g)
    BY <1>6 DEF UpdateProbe, redis
  <2> HIDE DEF g
  <2>3. Clean' => StageOK(g, hash'[g.sid])
    BY <1>5, <2>1, <2>2 DEF StageOK, SavingOK, Early, Opened, Saving
  <2>4. Clean' => /\ AfterUpdate(h, "infra").pc # "idle" =>
                       StageOK(AfterUpdate(h, "infra"), hash'[AfterUpdate(h, "infra").sid])
                  /\ AfterUpdate(h, "notfound").pc = "idle"
    BY <1>1, <1>2, <1>3, <1>4, <2>2, InfraStage
  <2> QED
    BY <2>2, <2>3, <2>4, StageClose
<1>7. CASE UpdateHset(r, o)
  <2>1. CASE o = "ok"
    <3> DEFINE g == AfterUpdate(h, "ok")
    <3>1. hash' = [hash EXCEPT ![h.sid] = h.loc] /\ Become(r, g)
      BY <1>7, <2>1 DEF UpdateHset, Applied, Raises
    <3>2. hash'[h.sid] = h.loc
      BY <1>2, <3>1 DEF IndInv, TypeOK
    <3>3. Clean' /\ g.pc # "idle" => StageOK(g, hash'[g.sid])
      BY <1>2, <1>4, <1>5, <3>2, SavedStage
    <3> HIDE DEF g
    <3> QED
      BY <3>1, <3>3, StageClose
  <2>2. CASE o # "ok"
    <3> DEFINE g == AfterUpdate(h, "infra")
    <3>1. (o = "error" => hash' = hash) /\ Become(r, g)
      BY <1>7, <2>2 DEF UpdateHset, Applied, Raises
    <3>2. Clean' /\ g.pc # "idle" => StageOK(g, hash'[g.sid])
      BY <1>1, <1>2, <1>3, <1>4, <2>2, <3>1, InfraStage
    <3> HIDE DEF g
    <3> QED
      BY <3>1, <3>2, StageClose
  <2> QED
    BY <2>1, <2>2
<1> QED
  BY <1>6, <1>7

LEMMA StageDelete ==
  ASSUME Single, IndInv, StageInv, NEW r \in Requests, NEW o \in Outcomes, DeleteSession(r, o)
  PROVE  StageInv'
<1> DEFINE h == req[r]
           g == [h EXCEPT !.pc = "decr"]
<1>1. h.pc = "del" /\ h.pc # "idle" /\ Spend(o)
  BY DEF DeleteSession
<1>2. h \in Handler /\ h.sid \in SessionIds
  BY <1>1, Running
<1>3. Clean' => StageOK(h, hash[h.sid])
  BY <1>1, StageNow
<1>4. g.pc = "decr" /\ g.sid = h.sid /\ g.caller = h.caller
  BY <1>2, PcFields DEF PCs
<1>5. \/ Become(r, Idle)
      \/ Become(r, g) /\ hash' = [hash EXCEPT ![h.sid] = Null]
  BY DEF DeleteSession, Raises, Applied
<1> HIDE DEF g
<1>6. CASE Become(r, Idle)
  BY <1>6, StageClose, IdleFields
<1>7. CASE Become(r, g) /\ hash' = [hash EXCEPT ![h.sid] = Null]
  <2>1. hash'[g.sid] = Null
    BY <1>2, <1>4, <1>7 DEF IndInv, TypeOK
  <2>2. Clean' => g.caller = "abort"
    BY <1>1, <1>3, <1>4 DEF StageOK
  <2>3. Clean' => StageOK(g, hash'[g.sid])
    BY <1>4, <2>1, <2>2 DEF StageOK, Early, Opened, Saving, Keeps
  <2> QED
    BY <1>7, <2>3, StageClose
<1> QED
  BY <1>5, <1>6, <1>7

LEMMA StageDecrement ==
  ASSUME Single, IndInv, StageInv, NEW r \in Requests, NEW o \in Outcomes,
         \/ DecrementHincrby(r, o) \/ DecrementZero(r, o)
         \/ RegisterFile(r, o) \/ CleanupChunk(r, o)
  PROVE  StageInv'
<1> DEFINE h == req[r]
           z == [h EXCEPT !.pc = "zero"]
           e == [h EXCEPT !.pc = "register"]
           f == [h EXCEPT !.pc = "cleanup", !.k = 1]
           k == [h EXCEPT !.k = h.k + 1]
<1>1. /\ h.pc \in {"decr", "zero", "register", "cleanup"} /\ h.pc # "idle"
      /\ Spend(o) /\ hash' = hash
  BY DEF DecrementHincrby, DecrementZero, RegisterFile, CleanupChunk, store
<1>2. h \in Handler
  BY <1>1, Running
<1>3. Clean' => StageOK(h, hash[h.sid])
  BY <1>1, StageNow
<1>4. /\ z.pc = "zero" /\ z.sid = h.sid /\ z.caller = h.caller
      /\ e.pc = "register" /\ e.sid = h.sid
      /\ f.pc = "cleanup" /\ f.sid = h.sid
      /\ k.pc = h.pc /\ k.sid = h.sid
  BY <1>2 DEF Handler
<1>5. \/ Become(r, Idle)
      \/ h.pc = "decr" /\ Become(r, z)
      \/ h.pc \in {"decr", "zero"} /\ h.caller = "complete" /\ Become(r, e)
      \/ h.pc = "register" /\ Become(r, f)
      \/ h.pc = "cleanup" /\ Become(r, k)
  BY DEF DecrementHincrby, DecrementZero, RegisterFile, CleanupChunk, AfterDecrement
<1> HIDE DEF z, e, f, k
<1>6. CASE Become(r, Idle)
  BY <1>6, StageClose, IdleFields
<1>7. CASE h.pc = "decr" /\ Become(r, z)
  <2>1. Clean' => StageOK(z, hash'[z.sid])
    BY <1>1, <1>3, <1>4, <1>7 DEF StageOK, Early, Opened, Saving, Keeps
  <2> QED
    BY <1>7, <2>1, StageClose
<1>8. ASSUME NEW g \in {e, f, k}, Become(r, g), g.pc \in {"register", "cleanup"},
             h.pc \in {"decr", "zero"} => h.caller = "complete"
      PROVE  StageInv'
  <2>1. Clean' => StageOK(g, hash'[g.sid])
    BY <1>1, <1>3, <1>4, <1>8 DEF StageOK, Early, Opened, Saving, Keeps
  <2> QED
    BY <1>8, <2>1, StageClose
<1> QED
  BY <1>4, <1>5, <1>6, <1>7, <1>8

\* Where the steps of a completion before its first write lead.
LEMMA OpenedTargets ==
  ASSUME IndInv, NEW r \in Requests, NEW o \in Outcomes,
         \/ RetrieveChunk(r, o) \/ CheckFileExists(r, o) \/ AssembleFile(r, o)
         \/ DeleteCorrupt(r, o) \/ CheckDuplicate(r, o) \/ PublishEvent(r, o)
  PROVE  LET h == req[r] IN
         \/ Become(r, Idle)
         \/ \E g : /\ Become(r, g) /\ g.sid = h.sid /\ g.loc = h.loc /\ g.pc \in Opened
         \/ Become(r, Fail(h))
         \/ Become(r, Save(h, MarkComplete(h.loc), "complete"))
         \/ \E c \in {"dup", "pubfail"} : Become(r, Save(h, MarkFailed(h.loc), c))
<1> DEFINE h == req[r]
<1>1. h \in Handler
  BY DEF IndInv, TypeOK
<1>2. CASE RetrieveChunk(r, o)
  <2> DEFINE got == Append(h.got, blob[h.sid][Len(h.got)])
             next == IF Len(got) = Len(h.loc.manifest) THEN "head" ELSE "get"
             g == [h EXCEPT !.got = got, !.pc = next]
  <2>1. g.pc = next /\ g.sid = h.sid /\ g.loc = h.loc /\ next \in Opened
    BY <1>1 DEF Handler, Opened
  <2>2. Become(r, g) \/ Become(r, Idle) \/ Become(r, Fail(h))
    BY <1>2 DEF RetrieveChunk
  <2> HIDE DEF g, next
  <2> QED
    BY <2>1, <2>2
<1>3. \A p \in {"assemble", "dedup", "s3del", "publish"} :
        LET g == [h EXCEPT !.pc = p]
        IN  g.sid = h.sid /\ g.loc = h.loc /\ g.pc \in Opened
  BY <1>1, PcFields DEF PCs, Opened
<1>4. CASE CheckFileExists(r, o) \/ AssembleFile(r, o) \/ DeleteCorrupt(r, o)
  BY <1>3, <1>4 DEF CheckFileExists, AssembleFile, DeleteCorrupt
<1>5. CASE CheckDuplicate(r, o) \/ PublishEvent(r, o)
  BY <1>3, <1>5 DEF CheckDuplicate, PublishEvent, AfterPublish
<1> QED
  BY <1>2, <1>4, <1>5

LEMMA StageOpened ==
  ASSUME Single, IndInv, StageInv, NEW r \in Requests, NEW o \in Outcomes,
         \/ RetrieveChunk(r, o) \/ CheckFileExists(r, o) \/ AssembleFile(r, o)
         \/ DeleteCorrupt(r, o) \/ CheckDuplicate(r, o) \/ PublishEvent(r, o)
  PROVE  StageInv'
<1> DEFINE h == req[r]
           u == hash[h.sid]
<1>1. h.pc \in Opened /\ h.pc # "idle" /\ Spend(o) /\ hash' = hash
  BY DEF RetrieveChunk, CheckFileExists, AssembleFile, DeleteCorrupt, CheckDuplicate,
         PublishEvent, Opened, redis
<1>2. h \in Handler /\ GoodSession(h.loc)
  BY <1>1, Running
<1>3. Clean' => /\ u \in {h.loc, Null} /\ h.loc.status = "IN_PROGRESS"
                /\ h.loc.offset = h.loc.size /\ (~Expiry => u # Null)
  <2>1. Clean' => StageOK(h, u)
    BY <1>1, StageNow
  <2> QED
    BY <1>1, <2>1 DEF StageOK, Keeps, Opened, Early
<1>4. \/ Become(r, Idle)
      \/ \E g : /\ Become(r, g) /\ g.sid = h.sid /\ g.loc = h.loc /\ g.pc \in Opened
      \/ Become(r, Fail(h))
      \/ Become(r, Save(h, MarkComplete(h.loc), "complete"))
      \/ \E c \in {"dup", "pubfail"} : Become(r, Save(h, MarkFailed(h.loc), c))
  BY OpenedTargets
<1>5. CASE Become(r, Idle)
  BY <1>5, StageClose, IdleFields
<1>6. ASSUME NEW g, Become(r, g), g.sid = h.sid, g.loc = h.loc, g.pc \in Opened
      PROVE  StageInv'
  <2>1. Clean' => StageOK(g, hash'[g.sid])
    BY <1>1, <1>3, <1>6 DEF StageOK, Early, Opened, Saving, Keeps
  <2> QED
    BY <1>6, <2>1, StageClose
<1>7. ASSUME NEW v \in UploadSessions, NEW c \in {"complete", "dup", "pubfail", "failed"},
             Become(r, Save(h, v, c)), v.status = SavedStatus(c),
             v.offset = h.loc.offset, v.size = h.loc.size
      PROVE  StageInv'
  <2> DEFINE g == Save(h, v, c)
  <2>1. c \in Callers /\ c \notin {"none", "initfail"}
    BY DEF Callers
  <2>2. g.sid = h.sid
    BY <1>2, <2>1, SaveFields
  <2>3. Clean' => StageOK(g, u)
    <3>1. Clean' /\ u # Null => Replaces(v, c, u)
      BY <1>3, <1>7 DEF Replaces
    <3> HIDE DEF h, u
    <3> QED
      BY <1>2, <1>3, <1>7, <2>1, <3>1, SaveStage
  <2>4. Become(r, g)
    BY <1>7
  <2> HIDE DEF g
  <2> QED
    BY <1>1, <2>2, <2>3, <2>4, StageClose
<1>8. /\ MarkFailed(h.loc) \in UploadSessions /\ MarkComplete(h.loc) \in UploadSessions
      /\ MarkFailed(h.loc).status = "FAILED" /\ MarkComplete(h.loc).status = "COMPLETE"
      /\ MarkFailed(h.loc).offset = h.loc.offset /\ MarkComplete(h.loc).offset = h.loc.offset
      /\ MarkFailed(h.loc).size = h.loc.size /\ MarkComplete(h.loc).size = h.loc.size
  BY <1>2, MarkedFields
<1>9. /\ SavedStatus("complete") = "COMPLETE"
      /\ \A c \in {"dup", "pubfail", "failed"} : SavedStatus(c) = "FAILED"
  BY DEF SavedStatus
<1>10. CASE Become(r, Save(h, MarkComplete(h.loc), "complete"))
  BY <1>7, <1>8, <1>9, <1>10
<1>11. ASSUME NEW c \in {"dup", "pubfail", "failed"}, Become(r, Save(h, MarkFailed(h.loc), c))
       PROVE  StageInv'
  BY <1>7, <1>8, <1>9, <1>11
<1> QED
  BY <1>4, <1>5, <1>6, <1>10, <1>11 DEF Fail

LEMMA StageArrive ==
  ASSUME Single, IndInv, AheadInv, StageInv, NEW r \in Requests, Arrive(r)
  PROVE  StageInv'
<1>0. \A s \in SessionIds : hash[s] # Null => GoodSession(hash[s]) /\ hash[s].status \in Status
  BY FieldTypes DEF IndInv, StoredOK, GoodSession
<1>1. ASSUME NEW s \in SessionIds, NEW d \in Declarations, InitiateCheck(r, s, d)
      PROVE  StageInv'
  <2> DEFINE v == NewSession(d.size, d.sha256)
             g == [Idle EXCEPT !.pc = "incr", !.sid = s, !.loc = v]
  <2>1. g.pc = "incr" /\ g.sid = s /\ g.loc = v
    BY DEF Idle
  <2>2. v.status = "PENDING" /\ v.offset = 0 /\ v.size = d.size
    BY DEF NewSession
  <2>3. Become(r, g) /\ s \notin used /\ hash' = hash
    BY <1>1 DEF InitiateCheck, redis
  <2> HIDE DEF g, v
  <2>4. hash'[g.sid] = Null /\ d.size \in Sizes
    BY <2>1, <2>3 DEF AheadInv, Sizes
  <2>5. StageOK(g, hash'[g.sid])
    BY <2>1, <2>2, <2>4 DEF StageOK, Early, Opened, Saving, Keeps
  <2> QED
    BY <2>3, <2>5, StageClose
<1>2. ASSUME NEW s \in SessionIds, NEW p \in Patches[s], ChunkGet(r, s, p)
      PROVE  StageInv'
  <2> DEFINE g == [Idle EXCEPT !.pc = "set", !.sid = s, !.loc = hash[s], !.data = p.data]
  <2>1. g.pc = "set" /\ g.sid = s /\ g.loc = hash[s]
    BY DEF Idle
  <2>2. Become(r, g) /\ hash[s] # Null /\ ~IsTerminal(hash[s]) /\ hash' = hash
    BY <1>2 DEF ChunkGet, redis, Found, AcceptsChunk, VerifyChunk
  <2> HIDE DEF g
  <2>3. StageOK(g, hash'[g.sid])
    BY <2>1, <2>2 DEF StageOK, Early, Opened, Saving
  <2> QED
    BY <2>2, <2>3, StageClose
<1>3. ASSUME NEW s \in SessionIds, AbortGet(r, s) PROVE StageInv'
  <2> DEFINE u == hash[s]
             v == MarkAborted(u)
             g == [Save(Idle, v, "abort") EXCEPT !.sid = s]
  <2>1. g.pc = "probe" /\ g.sid = s /\ g.loc = v /\ g.caller = "abort"
    BY DEF Idle, Save
  <2>2. Become(r, g) /\ u # Null /\ ~IsTerminal(u) /\ hash' = hash
    BY <1>3 DEF AbortGet, redis, Found, Abortable
  <2> HIDE DEF g
  <2>3. v.status = "ABORTED" /\ v.offset = u.offset /\ v.size = u.size
    BY <1>0, <2>2, MarkedFields
  <2> HIDE DEF v
  <2>4. Replaces(v, "abort", u)
    BY <1>0, <2>2, <2>3 DEF Replaces, IsTerminal, Terminal, Status
  <2>5. SavingOK(g, u)
    BY <2>1, <2>3, <2>4 DEF SavingOK, SavedStatus
  <2>6. StageOK(g, hash'[g.sid])
    BY <2>1, <2>2, <2>5 DEF StageOK, Early, Opened, Saving
  <2> QED
    BY <2>2, <2>6, StageClose
<1>4. ASSUME NEW s \in SessionIds, CompleteGet(r, s) PROVE StageInv'
  <2> DEFINE g == [Idle EXCEPT !.pc = "get", !.sid = s, !.loc = hash[s]]
  <2>1. g.pc = "get" /\ g.sid = s /\ g.loc = hash[s]
    BY DEF Idle
  <2>2. /\ Become(r, g) /\ hash[s] # Null /\ hash' = hash
        /\ hash[s].status = "IN_PROGRESS" /\ hash[s].offset = hash[s].size
    BY <1>4 DEF CompleteGet, redis, Found, Completable
  <2> HIDE DEF g
  <2>3. StageOK(g, hash'[g.sid])
    BY <2>1, <2>2 DEF StageOK, Early, Opened, Saving
  <2> QED
    BY <2>2, <2>3, StageClose
<1> QED
  BY <1>1, <1>2, <1>3, <1>4 DEF Arrive, PostUploads, PatchUpload, DeleteUpload

LEMMA StageEnvironment ==
  ASSUME Single, IndInv, StageInv, Environment
  PROVE  StageInv'
<1>0. hash \in [SessionIds -> UploadSessions \cup {Null}]
  BY DEF IndInv, TypeOK
<1>1. ASSUME NEW r \in Requests, Crash(r) PROVE StageInv'
  <2>1. Become(r, Idle)
    BY <1>1 DEF Crash
  <2> QED
    BY <2>1, IdleFields, StageClose
<1>2. ASSUME UNCHANGED <<req, faults>>,
             hash' = hash \/ (Expiry /\ \E s \in SessionIds : hash' = [hash EXCEPT ![s] = Null])
      PROVE  StageInv'
  <2> SUFFICES ASSUME Clean, NEW r \in Requests, req[r].pc # "idle"
               PROVE  StageOK(req[r], hash'[req[r].sid])
    BY <1>2 DEF StageInv, Clean
  <2> DEFINE h == req[r]
  <2>1. StageOK(h, hash[h.sid]) /\ h.sid \in SessionIds
    BY Running DEF StageInv
  <2>2. hash'[h.sid] = hash[h.sid] \/ (Expiry /\ hash'[h.sid] = Null)
    BY <1>0, <1>2, <2>1
  <2>3. StageOK(h, hash[h.sid]) /\ Expiry => StageOK(h, Null)
    BY DEF StageOK, SavingOK
  <2> QED
    BY <2>1, <2>2, <2>3
<1>3. ASSUME NEW s \in SessionIds,
             \/ QueryOffset(s) \/ SessionLapses(s) \/ MetaLapses(s)
             \/ \E i \in Indices : ChunkLapses(s, i)
      PROVE  StageInv'
  <2>1. /\ UNCHANGED <<req, faults>>
        /\ hash' = hash \/ (Expiry /\ hash' = [hash EXCEPT ![s] = Null])
    BY <1>3 DEF QueryOffset, SessionLapses, MetaLapses, ChunkLapses, store, redis
  <2> QED
    BY <1>2, <2>1
<1> QED
  BY <1>1, <1>3 DEF Environment

LEMMA StageNext ==
  ASSUME Single, IndInv, AheadInv, StageInv, [Next]_vars
  PROVE  StageInv'
<1>1. ASSUME NEW r \in Requests, NEW o \in Outcomes, HandlerStep(r, o) PROVE StageInv'
  BY <1>1, StageInitiate, StageChunkSet, StageUpdate, StageDelete, StageDecrement, StageOpened
     DEF HandlerStep
<1>2. CASE UNCHANGED vars
  BY <1>2 DEF vars, StageInv, Clean
<1> QED
  BY <1>1, <1>2, StageArrive, StageEnvironment DEF Next

LEMMA StageInductive ==
  ASSUME Single
  PROVE  Spec => []StageInv
<1>1. Init => StageInv
  BY IdleFields DEF Init, StageInv
<1>2. IndInv /\ AheadInv /\ StageInv /\ [Next]_vars => StageInv'
  BY StageNext
<1> QED
  BY <1>1, <1>2, Inductive, AheadInductive, PTL DEF Spec

----------------------------------------------------------------------------
(* The limiter's counter covers the active sessions *)

\* A request that holds a slot for a session which may become active, or has
\* not given it back yet.
Owing(h) ==
  \/ h.pc \in {"create", "set", "del", "decr"} \cup Opened
  \/ h.pc \in Saving /\ h.caller \in {"chunk", "abort", "complete"}

Covered ==
  Active \cup {s \in SessionIds : \E r \in Requests : req[r].sid = s /\ Owing(req[r])}

\* The inductive invariant; the counter is never reset to zero.
CoverInv ==
  Clean => /\ \A r \in Requests : req[r].pc # "zero"
           /\ IsFiniteSet(Covered)
           /\ count >= Cardinality(Covered)

LEMMA IdleNotOwing == ~Owing(Idle) /\ Idle.pc # "zero"
  BY IdleFields DEF Owing, Opened, Saving

\* A request that owes something already did so before, unless it has just
\* taken its slot.
LEMMA OwingStep ==
  ASSUME IndInv, StageInv, Clean', NEW r \in Requests, NEW o \in Outcomes,
         HandlerStep(r, o), ~InitiateIncrement(r, o)
  PROVE  Owing(req'[r]) => Owing(req[r]) /\ req'[r].sid = req[r].sid
<1> DEFINE h == req[r]
<1>0. req \in [Requests -> Handler]
  BY DEF IndInv, TypeOK
<1>1. PICK g : Become(r, g) /\ Onward(g, h)
  BY StepsOnward
<1>2. req'[r] = g
  BY <1>0, <1>1 DEF Become
<1>3. Owing(g) => g.pc # "idle" /\ g.sid = h.sid
  BY <1>1 DEF Owing, Opened, Saving, Onward
<1>4. CASE Owing(h)
  BY <1>2, <1>3, <1>4
<1>5. CASE ~Owing(h)
  <2>1. \/ UpdateProbe(r, o) \/ UpdateHset(r, o) \/ DecrementZero(r, o)
        \/ RegisterFile(r, o) \/ CleanupChunk(r, o)
    BY <1>5 DEF HandlerStep, Owing, Opened, InitiateCreate, ChunkSet, DeleteSession,
                DecrementHincrby, RetrieveChunk, CheckFileExists, AssembleFile, DeleteCorrupt,
                CheckDuplicate, PublishEvent
  <2>2. CASE UpdateProbe(r, o) \/ UpdateHset(r, o)
    <3>1. h.pc \in Saving /\ h.pc # "idle" /\ Spend(o)
      BY <2>2 DEF UpdateProbe, UpdateHset, Saving
    <3>2. h \in Handler /\ GoodSession(h.loc)
      BY <3>1, Running
    <3>3. h.caller \in {"dup", "pubfail", "failed"}
      <4>1. StageOK(h, hash[h.sid]) /\ h.caller \in Callers
        BY <3>1, <3>2, StageNow DEF Handler
      <4> QED
        BY <1>5, <3>1, <4>1 DEF StageOK, SavingOK, Owing, Callers
    <3> DEFINE f == [h EXCEPT !.pc = "hset"]
    <3>4. f.pc = "hset" /\ f.caller = h.caller
      BY <3>2, PcFields DEF PCs
    <3>5. g = f \/ \E result : g = AfterUpdate(h, result)
      <4>1. req' = [req EXCEPT ![r] = f] \/ \E result : req' = [req EXCEPT ![r] = AfterUpdate(h, result)]
        BY <2>2 DEF UpdateProbe, UpdateHset, Become
      <4> HIDE DEF f
      <4> QED
        BY <1>0, <1>2, <4>1
    <3> HIDE DEF f
    <3>6. ASSUME NEW result PROVE AfterUpdate(h, result) \in {Idle, Fail(h)}
      BY <3>3 DEF AfterUpdate
    <3>7. ~Owing(Idle) /\ ~Owing(Fail(h)) /\ ~Owing(f)
      BY <3>2, <3>3, <3>4, FailFields, IdleNotOwing DEF Owing, Opened, Saving
    <3> QED
      BY <1>2, <3>5, <3>6, <3>7
  <2>3. CASE DecrementZero(r, o) \/ RegisterFile(r, o) \/ CleanupChunk(r, o)
    <3> DEFINE e == [h EXCEPT !.pc = "register"]
               f == [h EXCEPT !.pc = "cleanup", !.k = 1]
               k == [h EXCEPT !.k = h.k + 1]
    <3>1. e.pc = "register" /\ f.pc = "cleanup" /\ k.pc = h.pc
      BY <1>0 DEF Handler
    <3>2. \/ req' = [req EXCEPT ![r] = Idle] \/ req' = [req EXCEPT ![r] = e]
          \/ req' = [req EXCEPT ![r] = f] \/ (h.pc = "cleanup" /\ req' = [req EXCEPT ![r] = k])
      BY <2>3 DEF DecrementZero, RegisterFile, CleanupChunk, AfterDecrement, Become
    <3> HIDE DEF e, f, k
    <3>3. g \in {Idle, e, f} \/ (g = k /\ h.pc = "cleanup")
      BY <1>0, <1>2, <3>2
    <3>4. ~Owing(g)
      BY <3>1, <3>3, IdleNotOwing DEF Owing, Opened, Saving
    <3> QED
      BY <1>2, <3>4
  <2> QED
    BY <2>1, <2>2, <2>3
<1> QED
  BY <1>4, <1>5

\* Only a request that owes something makes a session active.
LEMMA ActiveStep ==
  ASSUME IndInv, StageInv, Clean', NEW r \in Requests, NEW o \in Outcomes, HandlerStep(r, o)
  PROVE  \A s \in Active' : s \in Active \/ (s = req[r].sid /\ Owing(req[r]))
<1> DEFINE h == req[r]
<1> SUFFICES ASSUME NEW s \in SessionIds, hash'[s] # Null, ~IsTerminal(hash'[s]),
                    hash'[s] # hash[s]
             PROVE  s = h.sid /\ Owing(h)
  BY DEF Active
<1>0. hash \in [SessionIds -> UploadSessions \cup {Null}]
  BY DEF IndInv, TypeOK
<1>1. hash' = [hash EXCEPT ![h.sid] = h.loc] /\ h.pc \in {"create", "hset"} /\ h.pc # "idle"
  BY <1>0, StoreEffect
<1>2. s = h.sid /\ hash'[s] = h.loc
  BY <1>0, <1>1
<1>3. CASE h.pc = "create"
  BY <1>2, <1>3 DEF Owing
<1>4. CASE h.pc = "hset"
  <2>1. Spend(o)
    BY <1>4 DEF HandlerStep, InitiateIncrement, InitiateCreate, ChunkSet, UpdateProbe, UpdateHset,
         DeleteSession, DecrementHincrby, DecrementZero, RetrieveChunk, CheckFileExists,
         AssembleFile, DeleteCorrupt, CheckDuplicate, PublishEvent, RegisterFile, CleanupChunk
  <2>2. StageOK(h, hash[h.sid])
    BY <1>1, <2>1, StageNow
  <2>3. h.loc.status = SavedStatus(h.caller)
    BY <1>4, <2>2 DEF StageOK, Saving, SavingOK
  <2> QED
    BY <1>2, <1>4, <2>3 DEF IsTerminal, Terminal, SavedStatus, Owing, Saving
<1> QED
  BY <1>1, <1>3, <1>4

\* How many elements a set has when it loses some, gains at most one, or
\* loses one it had.
LEMMA Fewer ==
  ASSUME NEW S, NEW T, IsFiniteSet(S), T \subseteq S
  PROVE  /\ IsFiniteSet(T) /\ Cardinality(S) \in Nat /\ Cardinality(T) \in Nat
         /\ Cardinality(T) <= Cardinality(S)
<1>1. IsFiniteSet(T) /\ Cardinality(T) <= Cardinality(S)
  BY FS_Subset
<1>2. Cardinality(S) \in Nat /\ Cardinality(T) \in Nat
  BY <1>1, FS_CardinalityType
<1> QED
  BY <1>1, <1>2

LEMMA OneMore ==
  ASSUME NEW S, NEW T, NEW x, IsFiniteSet(S), T \subseteq S \cup {x}
  PROVE  /\ IsFiniteSet(T) /\ Cardinality(S) \in Nat /\ Cardinality(T) \in Nat
         /\ Cardinality(T) <= Cardinality(S) + 1
<1>1. /\ IsFiniteSet(S \cup {x})
      /\ Cardinality(S \cup {x}) = IF x \in S THEN Cardinality(S) ELSE Cardinality(S) + 1
  BY FS_AddElement
<1>2. Cardinality(S) \in Nat
  BY FS_CardinalityType
<1>3. /\ IsFiniteSet(T) /\ Cardinality(T) \in Nat
      /\ Cardinality(T) <= Cardinality(S \cup {x})
  BY <1>1, Fewer
<1> QED
  BY <1>1, <1>2, <1>3

LEMMA OneLess ==
  ASSUME NEW S, NEW T, NEW x \in S, IsFiniteSet(S), T \subseteq S \ {x}
  PROVE  /\ IsFiniteSet(T) /\ Cardinality(S) \in Nat /\ Cardinality(T) \in Nat
         /\ Cardinality(T) <= Cardinality(S) - 1
<1>1. IsFiniteSet(S \ {x}) /\ Cardinality(S \ {x}) = Cardinality(S) - 1
  BY FS_RemoveElement
<1>2. Cardinality(S) \in Nat
  BY FS_CardinalityType
<1>3. /\ IsFiniteSet(T) /\ Cardinality(T) \in Nat
      /\ Cardinality(T) <= Cardinality(S \ {x})
  BY <1>1, Fewer
<1> QED
  BY <1>1, <1>2, <1>3

\* A step that adds nothing to cover.
LEMMA CoverShrinks ==
  ASSUME IndInv, CoverInv, Clean' => Clean, count' = count,
         \A r \in Requests : req'[r].pc # "zero",
         Clean' => Covered' \subseteq Covered
  PROVE  CoverInv'
<1> SUFFICES ASSUME Clean' PROVE IsFiniteSet(Covered') /\ count' >= Cardinality(Covered')
  BY DEF CoverInv
<1>1. IsFiniteSet(Covered) /\ count >= Cardinality(Covered) /\ count \in Int
  BY DEF CoverInv, IndInv, TypeOK
<1>2. /\ IsFiniteSet(Covered') /\ Cardinality(Covered') <= Cardinality(Covered)
      /\ Cardinality(Covered) \in Nat /\ Cardinality(Covered') \in Nat
  BY <1>1, Fewer
<1> QED
  BY <1>1, <1>2

\* With one handler, what is covered beside the active sessions is its own.
LEMMA CoveredSingle ==
  ASSUME Single, IndInv, NEW r \in Requests
  PROVE  /\ Covered = Active \cup {s \in SessionIds : req[r].sid = s /\ Owing(req[r])}
         /\ Covered' = Active' \cup {s \in SessionIds : req'[r].sid = s /\ Owing(req'[r])}
  BY Only DEF Covered

LEMMA CoverIncrement ==
  ASSUME Single, IndInv, StageInv, CoverInv, NEW r \in Requests, NEW o \in Outcomes,
         InitiateIncrement(r, o)
  PROVE  CoverInv'
<1> DEFINE h == req[r]
           g == [h EXCEPT !.pc = "create"]
<1>1. h.pc = "incr" /\ h.pc # "idle" /\ Spend(o) /\ hash' = hash
  BY DEF InitiateIncrement, store
<1>2. h \in Handler /\ h.sid \in SessionIds
  BY <1>1, Running
<1>3. g.pc = "create" /\ g.sid = h.sid
  BY <1>2, PcFields DEF PCs
<1>4. Clean' => Clean /\ (o = "ok" \/ o = "error")
  BY <1>1, CleanBack
<1>5. Active' = Active
  BY <1>1 DEF Active
<1> HIDE DEF g
<1>6. ASSUME Clean', o = "ok" PROVE CoverInv'
  <2>1. Become(r, g) /\ count' = count + 1
    BY <1>6 DEF InitiateIncrement, Raises, Applied, g
  <2>2. \A q \in Requests : q = r /\ req'[q] = g
    BY <2>1, Moves
  <2>3. Covered' \subseteq Covered \cup {h.sid}
    BY <1>3, <1>5, <2>2, CoveredSingle
  <2>4. IsFiniteSet(Covered) /\ count >= Cardinality(Covered) /\ count \in Int
    BY <1>4, <1>6 DEF CoverInv, IndInv, TypeOK
  <2>6. /\ IsFiniteSet(Covered') /\ Cardinality(Covered') <= Cardinality(Covered) + 1
        /\ Cardinality(Covered) \in Nat /\ Cardinality(Covered') \in Nat
    BY <2>3, <2>4, OneMore
  <2>8. count' >= Cardinality(Covered')
    BY <2>1, <2>4, <2>6
  <2> QED
    BY <1>3, <2>2, <2>6, <2>8 DEF CoverInv
<1>7. ASSUME Clean', o = "error" PROVE CoverInv'
  <2>1. Become(r, Idle) /\ count' = count
    BY <1>7 DEF InitiateIncrement, Raises, Applied
  <2>2. \A q \in Requests : q = r /\ req'[q] = Idle
    BY <2>1, Moves
  <2>3. Covered' \subseteq Covered
    BY <1>5, <2>2, CoveredSingle, IdleNotOwing
  <2> QED
    BY <1>4, <2>1, <2>2, <2>3, CoverShrinks, IdleNotOwing
<1> QED
  BY <1>4, <1>6, <1>7 DEF CoverInv

LEMMA CoverDecrement ==
  ASSUME Single, IndInv, StageInv, CoverInv, NEW r \in Requests, NEW o \in Outcomes,
         DecrementHincrby(r, o)
  PROVE  CoverInv'
<1> DEFINE h == req[r]
<1>1. h.pc = "decr" /\ h.pc # "idle" /\ Spend(o) /\ hash' = hash
  BY DEF DecrementHincrby, store
<1>2. h \in Handler /\ h.sid \in SessionIds
  BY <1>1, Running
<1>3. Clean' => Clean /\ (o = "ok" \/ o = "error") /\ StageOK(h, hash[h.sid])
  BY <1>1, CleanBack, StageNow
<1>4. Active' = Active
  BY <1>1 DEF Active
<1>5. Clean' => h.sid \notin Active
  BY <1>1, <1>3 DEF StageOK, Active, IsTerminal, Terminal
<1>6. Owing(h) /\ h.sid \in Covered
  BY <1>1, <1>2, CoveredSingle DEF Owing
<1>7. AfterDecrement(h).pc # "zero" /\ ~Owing(AfterDecrement(h))
  BY <1>2, PcFields, IdleNotOwing DEF AfterDecrement, PCs, Owing, Opened, Saving
<1>8. ASSUME Clean' PROVE CoverInv'
  <2>1. IsFiniteSet(Covered) /\ count >= Cardinality(Covered) /\ count \in Int
    BY <1>3, <1>8 DEF CoverInv, IndInv, TypeOK
  <2>2. Cardinality(Covered) \in Nat /\ 0 <= Cardinality(Covered) - 1
    <3>1. /\ Cardinality(Covered) \in Nat /\ Cardinality({}) \in Nat
          /\ Cardinality({}) <= Cardinality(Covered) - 1
      BY <1>6, <2>1, OneLess
    <3> QED
      BY <3>1, FS_EmptySet
  <2>4. count' \in {count, count - 1} /\ Become(r, AfterDecrement(h))
    BY <2>1, <2>2 DEF DecrementHincrby
  <2> DEFINE g == AfterDecrement(h)
  <2> HIDE DEF g
  <2>5. \A q \in Requests : q = r /\ req'[q] = g
    BY <2>4, Moves DEF g
  <2>6. Covered' \subseteq Covered \ {h.sid}
    BY <1>4, <1>5, <1>7, <1>8, <2>5, CoveredSingle DEF g
  <2>7. /\ IsFiniteSet(Covered') /\ Cardinality(Covered') \in Nat
        /\ Cardinality(Covered') <= Cardinality(Covered) - 1
    BY <1>6, <2>1, <2>6, OneLess
  <2>9. count' >= Cardinality(Covered')
    BY <2>1, <2>2, <2>4, <2>7
  <2> QED
    BY <1>7, <2>5, <2>7, <2>9 DEF CoverInv, g
<1> QED
  BY <1>8 DEF CoverInv

\* The other steps of a handler leave the counter alone.
LEMMA CoverHandler ==
  ASSUME Single, IndInv, StageInv, CoverInv, NEW r \in Requests, NEW o \in Outcomes,
         HandlerStep(r, o)
  PROVE  CoverInv'
<1> DEFINE h == req[r]
<1>1. Spend(o)
  BY DEF HandlerStep, InitiateIncrement, InitiateCreate, ChunkSet, UpdateProbe, UpdateHset,
         DeleteSession, DecrementHincrby, DecrementZero, RetrieveChunk, CheckFileExists,
         AssembleFile, DeleteCorrupt, CheckDuplicate, PublishEvent, RegisterFile, CleanupChunk
<1>2. CASE InitiateIncrement(r, o) \/ DecrementHincrby(r, o)
  BY <1>2, CoverIncrement, CoverDecrement
<1>3. CASE ~InitiateIncrement(r, o) /\ ~DecrementHincrby(r, o)
  <2> SUFFICES ASSUME Clean' PROVE CoverInv'
    BY DEF CoverInv
  <2>1. Clean
    BY <1>1, CleanBack
  <2>2. ~DecrementZero(r, o)
    BY <2>1 DEF CoverInv, DecrementZero
  <2>3. h.pc # "idle" /\ count' = count
    BY <1>3, <2>2 DEF HandlerStep, InitiateIncrement, InitiateCreate, ChunkSet, UpdateProbe,
         UpdateHset, DeleteSession, DecrementHincrby, DecrementZero, RetrieveChunk,
         CheckFileExists, AssembleFile, DeleteCorrupt, CheckDuplicate, PublishEvent,
         RegisterFile, CleanupChunk, redis, store
  <2>4. Covered' \subseteq Covered
    <3>1. /\ Owing(req'[r]) => Owing(h) /\ req'[r].sid = h.sid
          /\ \A s \in Active' : s \in Active \/ (s = h.sid /\ Owing(h))
      BY <1>3, OwingStep, ActiveStep
    <3>2. Active' \subseteq SessionIds
      BY DEF Active
    <3> QED
      BY <3>1, <3>2, CoveredSingle
  <2>5. \A q \in Requests : req'[q].pc # "zero"
    <3>1. Outside(req[r])
      BY <1>3, <2>2, <2>1 DEF HandlerStep, CoverInv, Outside, InitiateIncrement, InitiateCreate,
         ChunkSet, UpdateProbe,
         UpdateHset, DeleteSession, RetrieveChunk,
         CheckFileExists, AssembleFile, DeleteCorrupt, CheckDuplicate, PublishEvent,
         RegisterFile, CleanupChunk
    <3>2. UNCHANGED <<count, Place>>
      BY <1>3, <2>2, NoLimiterCall DEF HandlerStep
    <3>3. LimiterPc(req'[r]) = LimiterPc(req[r])
      BY <3>2 DEF Place
    <3>4. req'[r].pc # "zero"
      BY <3>1, <3>3 DEF Outside, LimiterPc
    <3> QED
      BY <3>4, Only
  <2> QED
    BY <2>1, <2>3, <2>4, <2>5, CoverShrinks
<1> QED
  BY <1>2, <1>3

LEMMA CoverArrive ==
  ASSUME Single, IndInv, CoverInv, NEW r \in Requests, Arrive(r)
  PROVE  CoverInv'
<1>0. Idle.pc # "zero" /\ Active \subseteq SessionIds
  BY IdleFields DEF Active
<1>1. ASSUME NEW s \in SessionIds, NEW g, Become(r, g), g.sid = s, g.pc # "zero",
             Owing(g) => s \in Active, UNCHANGED <<hash, count, faults>>
      PROVE  CoverInv'
  <2>1. \A q \in Requests : q = r /\ req'[q] = g
    BY <1>1, Moves
  <2>2. Active' = Active /\ (Clean' => Clean)
    BY <1>1 DEF Active, Clean
  <2>3. Covered' \subseteq Covered
    BY <1>1, <2>1, <2>2, CoveredSingle
  <2> QED
    BY <1>1, <2>1, <2>2, <2>3, CoverShrinks
<1>2. ASSUME NEW s \in SessionIds, NEW d \in Declarations, InitiateCheck(r, s, d)
      PROVE  CoverInv'
  <2> DEFINE g == [Idle EXCEPT !.pc = "incr", !.sid = s, !.loc = NewSession(d.size, d.sha256)]
  <2>1. g.pc = "incr" /\ g.sid = s
    BY DEF Idle
  <2>2. Become(r, g) /\ UNCHANGED <<hash, count, faults>>
    BY <1>2 DEF InitiateCheck, redis
  <2> HIDE DEF g
  <2> QED
    BY <1>1, <2>1, <2>2 DEF Owing, Opened, Saving
<1>3. ASSUME NEW s \in SessionIds, NEW p \in Patches[s], ChunkGet(r, s, p)
      PROVE  CoverInv'
  <2> DEFINE g == [Idle EXCEPT !.pc = "set", !.sid = s, !.loc = hash[s], !.data = p.data]
  <2>1. g.pc = "set" /\ g.sid = s
    BY DEF Idle
  <2>2. Become(r, g) /\ s \in Active /\ UNCHANGED <<hash, count, faults>>
    BY <1>3 DEF ChunkGet, redis, Found, AcceptsChunk, VerifyChunk, Active
  <2> HIDE DEF g
  <2> QED
    BY <1>1, <2>1, <2>2
<1>4. ASSUME NEW s \in SessionIds, AbortGet(r, s) PROVE CoverInv'
  <2> DEFINE g == [Save(Idle, MarkAborted(hash[s]), "abort") EXCEPT !.sid = s]
  <2>1. g.pc = "probe" /\ g.sid = s
    BY DEF Idle, Save
  <2>2. Become(r, g) /\ s \in Active /\ UNCHANGED <<hash, count, faults>>
    BY <1>4 DEF AbortGet, redis, Found, Abortable, Active
  <2> HIDE DEF g
  <2> QED
    BY <1>1, <2>1, <2>2
<1>5. ASSUME NEW s \in SessionIds, CompleteGet(r, s) PROVE CoverInv'
  <2> DEFINE g == [Idle EXCEPT !.pc = "get", !.sid = s, !.loc = hash[s]]
  <2>1. g.pc = "get" /\ g.sid = s
    BY DEF Idle
  <2>2. Become(r, g) /\ s \in Active /\ UNCHANGED <<hash, count, faults>>
    BY <1>5 DEF CompleteGet, redis, Found, Completable, Active, IsTerminal, Terminal
  <2> HIDE DEF g
  <2> QED
    BY <1>1, <2>1, <2>2
<1> QED
  BY <1>2, <1>3, <1>4, <1>5 DEF Arrive, PostUploads, PatchUpload, DeleteUpload

LEMMA CoverEnvironment ==
  ASSUME Single, IndInv, CoverInv, Environment
  PROVE  CoverInv'
<1>0. hash \in [SessionIds -> UploadSessions \cup {Null}] /\ faults \in Nat
  BY ServiceAssumption DEF IndInv, TypeOK
<1>1. ASSUME NEW r \in Requests, Crash(r) PROVE CoverInv'
  <2>1. Become(r, Idle) /\ UNCHANGED <<hash, count>> /\ faults' = faults + 1
    BY <1>1 DEF Crash, redis
  <2>2. \A q \in Requests : q = r /\ req'[q] = Idle
    BY <2>1, Moves
  <2>3. Active' = Active /\ (Clean' => Clean)
    BY <1>0, <2>1 DEF Active, Clean
  <2>4. Covered' \subseteq Covered
    BY <2>2, <2>3, CoveredSingle, IdleNotOwing
  <2> QED
    BY <2>1, <2>2, <2>3, <2>4, CoverShrinks, IdleNotOwing
<1>2. ASSUME NEW s \in SessionIds,
             \/ QueryOffset(s) \/ SessionLapses(s) \/ MetaLapses(s)
             \/ \E i \in Indices : ChunkLapses(s, i)
      PROVE  CoverInv'
  <2>1. /\ UNCHANGED <<req, faults, count>>
        /\ hash' = hash \/ hash' = [hash EXCEPT ![s] = Null]
    BY <1>2 DEF QueryOffset, SessionLapses, MetaLapses, ChunkLapses, store, redis
  <2>2. Active' \subseteq Active
    BY <1>0, <2>1 DEF Active
  <2>3. Covered' \subseteq Covered
    BY <2>1, <2>2 DEF Covered
  <2> SUFFICES ASSUME Clean' PROVE CoverInv'
    BY DEF CoverInv
  <2>4. \A r \in Requests : req'[r].pc # "zero"
    BY <2>1 DEF CoverInv, Clean
  <2> QED
    BY <2>1, <2>3, <2>4, CoverShrinks DEF Clean
<1> QED
  BY <1>1, <1>2 DEF Environment

LEMMA CoverInductive ==
  ASSUME Single
  PROVE  Spec => []CoverInv
<1>1. Init => CoverInv
  <2> SUFFICES ASSUME Init PROVE CoverInv
    OBVIOUS
  <2>1. Covered = {} /\ count = 0
    BY IdleNotOwing DEF Init, Covered, Active
  <2>2. \A r \in Requests : req[r].pc # "zero"
    BY IdleNotOwing DEF Init
  <2> QED
    BY <2>1, <2>2, FS_EmptySet DEF CoverInv
<1>2. IndInv /\ StageInv /\ CoverInv /\ [Next]_vars => CoverInv'
  <2>1. CASE UNCHANGED vars
    BY <2>1 DEF vars, CoverInv, Covered, Active, Clean
  <2> QED
    BY <2>1, CoverArrive, CoverHandler, CoverEnvironment DEF Next
<1> QED
  BY <1>1, <1>2, Inductive, StageInductive, PTL DEF Spec

\* When requests do not overlap, the counter never falls below the number
\* of active sessions, whatever calls fail or workers die, and also when an
\* expired session comes back with a late write: uploads are never let in
\* because an active one is not counted.  A lost reply is left out: after
\* one, initiation gives back the slot of a session that was stored.
THEOREM CoversTheorem ==
  ASSUME Single, "lost" \notin FaultKinds
  PROVE  Spec => []CounterCoversActive
<1>1. ASSUME IndInv, CoverInv PROVE CounterCoversActive
  <2>1. IsFiniteSet(Covered) /\ count >= Cardinality(Covered) /\ count \in Int
    BY <1>1 DEF CoverInv, Clean, IndInv, TypeOK
  <2>2. /\ Cardinality(Active) <= Cardinality(Covered)
        /\ Cardinality(Covered) \in Nat /\ Cardinality(Active) \in Nat
    BY <2>1, Fewer DEF Covered
  <2> QED
    BY <2>1, <2>2 DEF CounterCoversActive
<1> QED
  BY <1>1, Inductive, CoverInductive, PTL

----------------------------------------------------------------------------
(* What the counter counts *)

\* A stored session that has not given its slot back.
Holding(u) == u # Null /\ u.status \notin {"COMPLETE", "ABORTED"}

\* A request that has taken a slot for a session not stored yet, or has still
\* to give one back.
Takes(h) == h.pc \in {"create", "del", "decr"}

Counted ==
  {s \in SessionIds : \/ Holding(hash[s])
                      \/ \E r \in Requests : req[r].sid = s /\ Takes(req[r])}

\* The inductive invariant: the counter is exact at every step.
AccountInv == faults = 0 => IsFiniteSet(Counted) /\ count = Cardinality(Counted)

LEMMA SpendBack ==
  ASSUME IndInv, NEW o \in Outcomes, Spend(o), faults' = 0
  PROVE  faults = 0 /\ o = "ok" /\ Clean /\ Clean'
<1>1. faults \in Nat
  BY ServiceAssumption DEF IndInv, TypeOK
<1> QED
  BY <1>1 DEF Spend, Raises, Clean

LEMMA CountedSingle ==
  ASSUME Single, IndInv, NEW r \in Requests
  PROVE  /\ Counted = {s \in SessionIds : Holding(hash[s]) \/ (req[r].sid = s /\ Takes(req[r]))}
         /\ Counted' = {s \in SessionIds : Holding(hash'[s]) \/ (req'[r].sid = s /\ Takes(req'[r]))}
  BY Only DEF Counted, Holding, Takes

\* A step of the handler of session s that neither takes nor gives back.
LEMMA AccountSame ==
  ASSUME Single, IndInv, AccountInv, NEW r \in Requests, NEW g, Become(r, g), NEW s \in SessionIds,
         faults' = 0 =>
           /\ faults = 0 /\ count' = count
           /\ \A t \in SessionIds : t # s => hash'[t] = hash[t]
           /\ Takes(req[r]) => req[r].sid = s
           /\ Takes(g) => g.sid = s
           /\ Holding(hash'[s]) \/ Takes(g) <=> Holding(hash[s]) \/ Takes(req[r])
  PROVE  AccountInv'
<1>1. \A q \in Requests : q = r /\ req'[q] = g
  BY Moves
<1>2. faults' = 0 => Counted' = Counted
  BY <1>1, CountedSingle
<1> QED
  BY <1>2 DEF AccountInv

LEMMA AccountUpdate ==
  ASSUME Single, ~Expiry, IndInv, StageInv, AccountInv, NEW r \in Requests, NEW o \in Outcomes,
         UpdateHset(r, o)
  PROVE  AccountInv'
<1> DEFINE h == req[r]
           s == h.sid
           g == AfterUpdate(h, "ok")
<1>1. h.pc = "hset" /\ h.pc # "idle" /\ Spend(o) /\ count' = count
  BY DEF UpdateHset
<1>2. h \in Handler /\ s \in SessionIds /\ GoodSession(h.loc) /\ h.loc \in UploadSessions
  BY <1>1, Running
<1> SUFFICES ASSUME faults' = 0 PROVE AccountInv'
  BY DEF AccountInv
<1>3. faults = 0 /\ o = "ok" /\ StageOK(h, hash[s])
  BY <1>1, SpendBack, StageNow
<1>4. hash' = [hash EXCEPT ![s] = h.loc] /\ Become(r, g)
  BY <1>3 DEF UpdateHset, Raises, Applied
<1>5. (\A t \in SessionIds : t # s => hash'[t] = hash[t]) /\ hash'[s] = h.loc
  BY <1>2, <1>4 DEF IndInv, TypeOK
<1>6. /\ SavingOK(h, hash[s]) /\ hash[s] # Null /\ h.loc.status = SavedStatus(h.caller)
      /\ h.caller \in Callers
  BY <1>1, <1>2, <1>3 DEF StageOK, SavingOK, Keeps, Saving, Early, Handler
<1>7. Holding(hash[s])
  BY <1>6 DEF SavingOK, Replaces, Holding, Callers
<1>8. Takes(g) <=> h.caller \in {"abort", "complete"}
  <2>1. [h EXCEPT !.pc = "del"].pc = "del" /\ [h EXCEPT !.pc = "decr"].pc = "decr"
    BY <1>2, PcFields DEF PCs
  <2>2. ~Takes(Fail(h)) /\ ~Takes(Idle)
    BY <1>2, FailFields, IdleFields DEF Takes
  <2> QED
    BY <2>1, <2>2 DEF AfterUpdate, Takes
<1>9. Takes(g) => g.sid = s
  BY <1>2, OnwardTargets DEF Onward, Takes
<1>10. Holding(hash'[s]) \/ Takes(g)
  BY <1>2, <1>5, <1>6, <1>8, ServiceAssumption DEF Holding, SavedStatus
<1> HIDE DEF g
<1> QED
  BY <1>1, <1>2, <1>3, <1>4, <1>5, <1>7, <1>9, <1>10, AccountSame

LEMMA AccountCreateDelete ==
  ASSUME Single, IndInv, StageInv, AccountInv, NEW r \in Requests, NEW o \in Outcomes,
         InitiateCreate(r, o) \/ DeleteSession(r, o)
  PROVE  AccountInv'
<1> DEFINE h == req[r]
           s == h.sid
           g == [h EXCEPT !.pc = "decr"]
<1>1. h.pc \in {"create", "del"} /\ h.pc # "idle" /\ Spend(o) /\ count' = count
  BY DEF InitiateCreate, DeleteSession
<1>2. h \in Handler /\ s \in SessionIds /\ h.loc \in UploadSessions
  BY <1>1, Running
<1> SUFFICES ASSUME faults' = 0 PROVE AccountInv'
  BY DEF AccountInv
<1>3. faults = 0 /\ o = "ok" /\ StageOK(h, hash[s])
  BY <1>1, SpendBack, StageNow
<1>4. Takes(h) /\ ~Takes(Idle) /\ Takes(g) /\ g.sid = s
  BY <1>1, <1>2, IdleFields, PcFields DEF Takes, PCs
<1>5. CASE InitiateCreate(r, o)
  <2>1. hash' = [hash EXCEPT ![s] = h.loc] /\ Become(r, Idle)
    BY <1>3, <1>5 DEF InitiateCreate, Raises, Applied
  <2>2. (\A t \in SessionIds : t # s => hash'[t] = hash[t]) /\ hash'[s] = h.loc
    BY <1>2, <2>1 DEF IndInv, TypeOK
  <2>3. h.pc = "create" /\ h.loc.status = "PENDING" /\ h.loc # Null
    BY <1>2, <1>3, <1>5, ServiceAssumption DEF InitiateCreate, StageOK, Early
  <2>4. Holding(hash'[s])
    BY <2>2, <2>3 DEF Holding
  <2> QED
    BY <1>1, <1>2, <1>3, <1>4, <2>1, <2>2, <2>4, AccountSame
<1>6. CASE DeleteSession(r, o)
  <2>1. hash' = [hash EXCEPT ![s] = Null] /\ Become(r, g)
    BY <1>3, <1>6 DEF DeleteSession, Raises, Applied
  <2>2. \A t \in SessionIds : t # s => hash'[t] = hash[t]
    BY <1>2, <2>1 DEF IndInv, TypeOK
  <2> HIDE DEF g
  <2> QED
    BY <1>1, <1>2, <1>3, <1>4, <2>1, <2>2, AccountSame
<1> QED
  BY <1>5, <1>6

\* A step between two points where nothing is owed, with Redis left alone.
LEMMA AccountQuiet ==
  ASSUME Single, IndInv, AccountInv, NEW r \in Requests, NEW g, Become(r, g),
         ~Takes(req[r]), ~Takes(g), faults' = 0 => faults = 0, UNCHANGED <<hash, count>>
  PROVE  AccountInv'
<1>1. \A q \in Requests : q = r /\ req'[q] = g
  BY Moves
<1>2. Counted' = Counted
  BY <1>1, CountedSingle
<1> QED
  BY <1>2 DEF AccountInv

LEMMA AccountRead ==
  ASSUME Single, IndInv, StageInv, AccountInv, NEW r \in Requests, NEW o \in Outcomes,
         \/ ChunkSet(r, o) \/ UpdateProbe(r, o) \/ RegisterFile(r, o) \/ CleanupChunk(r, o)
         \/ RetrieveChunk(r, o) \/ CheckFileExists(r, o) \/ AssembleFile(r, o)
         \/ DeleteCorrupt(r, o) \/ CheckDuplicate(r, o) \/ PublishEvent(r, o)
  PROVE  AccountInv'
<1> DEFINE h == req[r]
<1>1. /\ h.pc \in Opened \cup {"set", "probe", "register", "cleanup"} /\ h.pc # "idle"
      /\ Spend(o) /\ UNCHANGED <<hash, count>>
  BY DEF ChunkSet, UpdateProbe, RegisterFile, CleanupChunk, RetrieveChunk, CheckFileExists,
         AssembleFile, DeleteCorrupt, CheckDuplicate, PublishEvent, Opened, redis, store
<1>2. h \in Handler /\ GoodSession(h.loc)
  BY <1>1, Running
<1>3. ~Takes(h)
  BY <1>1 DEF Takes, Opened
<1> SUFFICES ASSUME faults' = 0 PROVE AccountInv'
  BY DEF AccountInv
<1>4. faults = 0 /\ o = "ok"
  BY <1>1, SpendBack
<1>5. ~Takes(Idle) /\ ~Takes(Fail(h))
  BY <1>2, IdleFields, FailFields DEF Takes
<1>6. ASSUME NEW u, NEW c PROVE ~Takes(Save(h, u, c))
  BY <1>2 DEF Takes, Save, Handler
<1>7. CASE ChunkSet(r, o)
  <2>1. Become(r, Idle) \/ \E u : Become(r, Save(h, u, "chunk"))
    BY <1>7 DEF ChunkSet
  <2> QED
    BY <1>1, <1>3, <1>4, <1>5, <1>6, <2>1, AccountQuiet
<1>8. CASE UpdateProbe(r, o)
  <2> DEFINE g == [h EXCEPT !.pc = "hset"]
  <2>1. ~Takes(g)
    BY <1>2, PcFields DEF PCs, Takes
  <2>2. AfterUpdate(h, "notfound") \in {Idle, Fail(h)}
    BY DEF AfterUpdate
  <2>3. Become(r, g) \/ Become(r, AfterUpdate(h, "notfound"))
    BY <1>4, <1>8 DEF UpdateProbe, Raises
  <2> HIDE DEF g
  <2> QED
    BY <1>1, <1>3, <1>4, <1>5, <2>1, <2>2, <2>3, AccountQuiet
<1>9. CASE RegisterFile(r, o) \/ CleanupChunk(r, o)
  <2> DEFINE f == [h EXCEPT !.pc = "cleanup", !.k = 1]
             k == [h EXCEPT !.k = h.k + 1]
  <2>1. ~Takes(f) /\ ~Takes(k)
    BY <1>2, <1>3 DEF Handler, Takes
  <2>2. Become(r, Idle) \/ Become(r, f) \/ Become(r, k)
    BY <1>9 DEF RegisterFile, CleanupChunk
  <2> HIDE DEF f, k
  <2> QED
    BY <1>1, <1>3, <1>4, <1>5, <2>1, <2>2, AccountQuiet
<1>10. CASE \/ RetrieveChunk(r, o) \/ CheckFileExists(r, o) \/ AssembleFile(r, o)
            \/ DeleteCorrupt(r, o) \/ CheckDuplicate(r, o) \/ PublishEvent(r, o)
  <2>1. \E g : Become(r, g) /\ ~Takes(g)
    <3>1. ASSUME NEW g, g.pc \in Opened PROVE ~Takes(g)
      BY <3>1 DEF Takes, Opened
    <3> QED
      BY <1>5, <1>6, <1>10, <3>1, OpenedTargets
  <2> QED
    BY <1>1, <1>3, <1>4, <2>1, AccountQuiet
<1> QED
  BY <1>7, <1>8, <1>9, <1>10

LEMMA AccountCounter ==
  ASSUME Single, IndInv, StageInv, CoverInv, AccountInv, NEW r \in Requests, NEW o \in Outcomes,
         InitiateIncrement(r, o) \/ DecrementHincrby(r, o)
  PROVE  AccountInv'
<1> DEFINE h == req[r]
           s == h.sid
<1>1. h.pc \in {"incr", "decr"} /\ h.pc # "idle" /\ Spend(o) /\ hash' = hash
  BY DEF InitiateIncrement, DecrementHincrby, store
<1>2. h \in Handler /\ s \in SessionIds
  BY <1>1, Running
<1> SUFFICES ASSUME faults' = 0 PROVE AccountInv'
  BY DEF AccountInv
<1>3. faults = 0 /\ o = "ok" /\ StageOK(h, hash[s])
  BY <1>1, SpendBack, StageNow
<1>4. IsFiniteSet(Counted) /\ count = Cardinality(Counted)
  BY <1>3 DEF AccountInv
<1>5. CASE InitiateIncrement(r, o)
  <2> DEFINE g == [h EXCEPT !.pc = "create"]
  <2>1. g.pc = "create" /\ g.sid = s /\ h.pc = "incr" /\ hash[s] = Null
    BY <1>2, <1>3, <1>5, PcFields DEF PCs, InitiateIncrement, StageOK, Early
  <2>2. Become(r, g) /\ count' = count + 1
    BY <1>3, <1>5 DEF InitiateIncrement, Raises, Applied
  <2> HIDE DEF g
  <2>3. \A q \in Requests : q = r /\ req'[q] = g
    BY <2>2, Moves
  <2>4. Counted' = Counted \cup {s} /\ s \notin Counted
    BY <1>1, <1>2, <2>1, <2>3, CountedSingle DEF Takes, Holding
  <2>5. IsFiniteSet(Counted \cup {s}) /\ Cardinality(Counted \cup {s}) = Cardinality(Counted) + 1
    BY <1>4, <2>4, FS_AddElement
  <2> QED
    BY <1>4, <2>2, <2>4, <2>5 DEF AccountInv
<1>6. CASE DecrementHincrby(r, o)
  <2> DEFINE z == [h EXCEPT !.pc = "zero"]
             g == IF count' < 0 THEN z ELSE AfterDecrement(h)
  <2>1. h.pc = "decr" /\ count' = count - 1 /\ Become(r, g)
    BY <1>3, <1>6 DEF DecrementHincrby, Raises, Applied
  <2>2. ~Takes(g)
    <3>1. z.pc = "zero" /\ [h EXCEPT !.pc = "register"].pc = "register"
      BY <1>2, PcFields DEF PCs
    <3> HIDE DEF z
    <3> QED
      BY <3>1, IdleFields DEF Takes, AfterDecrement
  <2> HIDE DEF g
  <2>3. \A q \in Requests : q = r /\ req'[q] = g
    BY <2>1, Moves
  <2>4. ~Holding(hash[s])
    BY <1>3, <2>1 DEF StageOK, Holding
  <2>5. Counted' = Counted \ {s} /\ s \in Counted
    BY <1>1, <1>2, <2>1, <2>2, <2>3, <2>4, CountedSingle DEF Takes
  <2>6. IsFiniteSet(Counted \ {s}) /\ Cardinality(Counted \ {s}) = Cardinality(Counted) - 1
    BY <1>4, <2>5, FS_RemoveElement
  <2> QED
    BY <1>4, <2>1, <2>5, <2>6 DEF AccountInv
<1> QED
  BY <1>5, <1>6

LEMMA AccountHandler ==
  ASSUME Single, ~Expiry, IndInv, StageInv, CoverInv, AccountInv,
         NEW r \in Requests, NEW o \in Outcomes, HandlerStep(r, o)
  PROVE  AccountInv'
<1>1. CASE DecrementZero(r, o)
  <2>1. Spend(o) /\ req[r].pc = "zero"
    BY <1>1 DEF DecrementZero
  <2>2. faults' # 0
    BY <2>1, SpendBack DEF CoverInv
  <2> QED
    BY <2>2 DEF AccountInv
<1> QED
  BY <1>1, AccountUpdate, AccountCreateDelete, AccountRead, AccountCounter DEF HandlerStep

\* Where a request starts: from nothing, for a new session or for one that
\* was found.
Starts(r, g) ==
  /\ Become(r, g) /\ g.sid \in SessionIds /\ g.caller \in {"none", "abort"}
  /\ \/ g.pc = "incr" /\ g.sid \notin used /\ used' = used \cup {g.sid}
     \/ g.pc \in {"set", "probe", "get"} /\ hash[g.sid] # Null /\ used' = used

LEMMA ArriveTargets ==
  ASSUME NEW r \in Requests, Arrive(r)
  PROVE  /\ req[r] = Idle
         /\ UNCHANGED <<redis, object, published, lapsed, told, faults>>
         /\ \E g : Starts(r, g)
<1>1. ASSUME NEW s \in SessionIds, NEW d \in Declarations, InitiateCheck(r, s, d)
      PROVE  \E g : Starts(r, g)
  <2> DEFINE g == [Idle EXCEPT !.pc = "incr", !.sid = s, !.loc = NewSession(d.size, d.sha256)]
  <2>1. g.pc = "incr" /\ g.sid = s /\ g.caller = "none"
    BY DEF Idle
  <2>2. Become(r, g) /\ s \notin used /\ used' = used \cup {s}
    BY <1>1 DEF InitiateCheck
  <2> HIDE DEF g
  <2> QED
    BY <2>1, <2>2 DEF Starts
<1>2. ASSUME NEW s \in SessionIds, NEW p \in Patches[s], ChunkGet(r, s, p)
      PROVE  \E g : Starts(r, g)
  <2> DEFINE g == [Idle EXCEPT !.pc = "set", !.sid = s, !.loc = hash[s], !.data = p.data]
  <2>1. g.pc = "set" /\ g.sid = s /\ g.caller = "none"
    BY DEF Idle
  <2>2. Become(r, g) /\ hash[s] # Null /\ used' = used
    BY <1>2 DEF ChunkGet, Found
  <2> HIDE DEF g
  <2> QED
    BY <2>1, <2>2 DEF Starts
<1>3. ASSUME NEW s \in SessionIds, AbortGet(r, s) PROVE \E g : Starts(r, g)
  <2> DEFINE g == [Save(Idle, MarkAborted(hash[s]), "abort") EXCEPT !.sid = s]
  <2>1. g.pc = "probe" /\ g.sid = s /\ g.caller = "abort"
    BY DEF Idle, Save
  <2>2. Become(r, g) /\ hash[s] # Null /\ used' = used
    BY <1>3 DEF AbortGet, Found
  <2> HIDE DEF g
  <2> QED
    BY <2>1, <2>2 DEF Starts
<1>4. ASSUME NEW s \in SessionIds, CompleteGet(r, s) PROVE \E g : Starts(r, g)
  <2> DEFINE g == [Idle EXCEPT !.pc = "get", !.sid = s, !.loc = hash[s]]
  <2>1. g.pc = "get" /\ g.sid = s /\ g.caller = "none"
    BY DEF Idle
  <2>2. Become(r, g) /\ hash[s] # Null /\ used' = used
    BY <1>4 DEF CompleteGet, Found
  <2> HIDE DEF g
  <2> QED
    BY <2>1, <2>2 DEF Starts
<1>5. req[r] = Idle /\ UNCHANGED <<redis, object, published, lapsed, told, faults>>
  BY DEF Arrive, PostUploads, PatchUpload, DeleteUpload, InitiateCheck, ChunkGet, AbortGet,
         CompleteGet
<1> QED
  BY <1>1, <1>2, <1>3, <1>4, <1>5 DEF Arrive, PostUploads, PatchUpload, DeleteUpload

LEMMA AccountArrive ==
  ASSUME Single, IndInv, AccountInv, NEW r \in Requests, Arrive(r)
  PROVE  AccountInv'
<1>1. PICK g : Starts(r, g)
  BY ArriveTargets
<1>2. req[r] = Idle /\ UNCHANGED <<hash, count, faults>>
  BY ArriveTargets DEF redis
<1>3. Become(r, g) /\ ~Takes(g) /\ ~Takes(req[r])
  BY <1>1, <1>2, IdleFields DEF Starts, Takes
<1> QED
  BY <1>2, <1>3, AccountQuiet

LEMMA AccountEnvironment ==
  ASSUME ~Expiry, IndInv, AccountInv, Environment
  PROVE  AccountInv'
<1>1. ASSUME NEW r \in Requests, Crash(r) PROVE faults' # 0
  BY <1>1, ServiceAssumption DEF Crash, IndInv, TypeOK
<1>2. ASSUME NEW s \in SessionIds,
             \/ QueryOffset(s) \/ SessionLapses(s) \/ MetaLapses(s)
             \/ \E i \in Indices : ChunkLapses(s, i)
      PROVE  UNCHANGED <<hash, count, req, faults>>
  BY <1>2 DEF QueryOffset, SessionLapses, MetaLapses, ChunkLapses, store, redis
<1> QED
  BY <1>1, <1>2 DEF Environment, AccountInv, Counted

LEMMA AccountInductive ==
  ASSUME Single, ~Expiry
  PROVE  Spec => []AccountInv
<1>1. Init => AccountInv
  <2> SUFFICES ASSUME Init PROVE AccountInv
    OBVIOUS
  <2>1. Counted = {} /\ count = 0
    BY IdleFields DEF Init, Counted, Holding, Takes
  <2> QED
    BY <2>1, FS_EmptySet DEF AccountInv
<1>2. IndInv /\ StageInv /\ CoverInv /\ AccountInv /\ [Next]_vars => AccountInv'
  <2>1. CASE UNCHANGED vars
    BY <2>1 DEF vars, AccountInv, Counted
  <2> QED
    BY <2>1, AccountArrive, AccountHandler, AccountEnvironment DEF Next
<1> QED
  BY <1>1, <1>2, Inductive, StageInductive, CoverInductive, PTL DEF Spec

\* As long as no call has failed and no session has expired, requests that
\* do not overlap leave the counter at the number of active and FAILED
\* sessions: initiation, abort and completion balance, failure keeps a slot.
THEOREM AccountsTheorem ==
  ASSUME Single, ~Expiry
  PROVE  Spec => []CounterAccounts
<1>1. ASSUME IndInv, AccountInv PROVE CounterAccounts
  <2> SUFFICES ASSUME Quiescent, faults = 0
               PROVE  Counted = Active \cup
                        {s \in SessionIds : hash[s] # Null /\ hash[s].status = "FAILED"}
    BY <1>1 DEF CounterAccounts, AccountInv
  <2>1. \A s \in SessionIds : hash[s] # Null => hash[s].status \in Status
    BY <1>1, FieldTypes DEF IndInv, TypeOK
  <2>2. \A r \in Requests : ~Takes(req[r])
    BY IdleFields DEF Quiescent, Takes
  <2> QED
    BY <2>1, <2>2 DEF Counted, Holding, Active, IsTerminal, Terminal, Status
<1> QED
  BY <1>1, Inductive, AccountInductive, PTL

----------------------------------------------------------------------------
(* One file per content *)

\* A completion whose event is out and whose file is not registered yet.
InFlight(h) ==
  h.caller = "complete" /\ h.pc \in {"probe", "hset", "decr", "zero", "register"}

\* A completion that has found no file with its content, or is in flight.
Unregistered(h) == h.pc = "publish" \/ InFlight(h)

Announced(h) == [file |-> h.sid, sha256 |-> h.loc.sha256]

\* The inductive invariant: every announced file is registered, or is the
\* one in flight, and then nothing is registered for its content.
DedupInv ==
  faults = 0 =>
    /\ \A r \in Requests : Unregistered(req[r]) => dedup[req[r].loc.sha256] = Null
    /\ \A e \in published : \/ dedup[e.sha256] = e.file
                            \/ \E r \in Requests : InFlight(req[r]) /\ e = Announced(req[r])

\* A step that neither announces nor registers a file.
LEMMA DedupKeeps ==
  ASSUME Single, IndInv, DedupInv, NEW r \in Requests, NEW g, Become(r, g),
         UNCHANGED <<dedup, published>>, faults' = 0 => faults = 0,
         faults' = 0 /\ Unregistered(g) => dedup[g.loc.sha256] = Null,
         faults' = 0 /\ InFlight(req[r]) => /\ InFlight(g) /\ g.sid = req[r].sid
                                            /\ g.loc.sha256 = req[r].loc.sha256
  PROVE  DedupInv'
<1>1. \A q \in Requests : q = r /\ req'[q] = g
  BY Moves
<1> SUFFICES ASSUME faults' = 0 PROVE DedupInv'
  BY DEF DedupInv
<1>2. \A q \in Requests : Unregistered(req'[q]) => dedup'[req'[q].loc.sha256] = Null
  BY <1>1
<1>3. ASSUME NEW e \in published, e = Announced(req[r]), InFlight(req[r])
      PROVE  InFlight(req'[r]) /\ e = Announced(req'[r])
  BY <1>1, <1>3 DEF Announced
<1>4. \A e \in published' : \/ dedup'[e.sha256] = e.file
                            \/ \E q \in Requests : InFlight(req'[q]) /\ e = Announced(req'[q])
  BY <1>1, <1>3 DEF DedupInv
<1> QED
  BY <1>2, <1>4 DEF DedupInv

\* The steps of a completion in flight, up to the registration.
LEMMA DedupFlight ==
  ASSUME Single, ~Expiry, IndInv, StageInv, DedupInv, NEW r \in Requests, NEW o \in Outcomes,
         \/ UpdateProbe(r, o) \/ UpdateHset(r, o)
         \/ DecrementHincrby(r, o) \/ DecrementZero(r, o),
         InFlight(req[r])
  PROVE  DedupInv'
<1> DEFINE h == req[r]
<1>1. /\ h.pc \in {"probe", "hset", "decr", "zero"} /\ h.pc # "idle" /\ Spend(o)
      /\ UNCHANGED <<dedup, published>>
  BY DEF UpdateProbe, UpdateHset, DecrementHincrby, DecrementZero, redis
<1>2. h \in Handler /\ h.caller = "complete"
  BY <1>1, Running DEF InFlight
<1> SUFFICES ASSUME faults' = 0 PROVE DedupInv'
  BY DEF DedupInv
<1>3. faults = 0 /\ o = "ok" /\ StageOK(h, hash[h.sid])
  BY <1>1, SpendBack, StageNow
<1>4. dedup[h.loc.sha256] = Null
  BY <1>3 DEF DedupInv, Unregistered
<1>5. \E p \in {"hset", "decr", "zero", "register"} : Become(r, [h EXCEPT !.pc = p])
  <2>1. CASE UpdateProbe(r, o)
    <3>1. hash[h.sid] # Null
      BY <1>3, <2>1 DEF UpdateProbe, StageOK, Keeps, Early
    <3> QED
      BY <1>3, <2>1, <3>1 DEF UpdateProbe, Raises
  <2>2. CASE UpdateHset(r, o)
    BY <1>2, <1>3, <2>2 DEF UpdateHset, Raises, AfterUpdate
  <2>3. CASE DecrementHincrby(r, o) \/ DecrementZero(r, o)
    BY <1>2, <2>3 DEF DecrementHincrby, DecrementZero, AfterDecrement
  <2> QED
    BY <2>1, <2>2, <2>3
<1>6. PICK p \in {"hset", "decr", "zero", "register"} : Become(r, [h EXCEPT !.pc = p])
  BY <1>5
<1> DEFINE g == [h EXCEPT !.pc = p]
<1>7. g.pc = p /\ g.sid = h.sid /\ g.loc = h.loc /\ g.caller = "complete"
  BY <1>2, PcFields DEF PCs
<1>8. Become(r, g)
  BY <1>6
<1> HIDE DEF g
<1>9. InFlight(g)
  BY <1>6, <1>7 DEF InFlight
<1> QED
  BY <1>1, <1>3, <1>4, <1>7, <1>8, <1>9, DedupKeeps

LEMMA DedupRegister ==
  ASSUME Single, IndInv, DedupInv, NEW r \in Requests, NEW o \in Outcomes, RegisterFile(r, o)
  PROVE  DedupInv'
<1> DEFINE h == req[r]
           c == h.loc.sha256
           g == [h EXCEPT !.pc = "cleanup", !.k = 1]
<1>1. h.pc = "register" /\ h.pc # "idle" /\ Spend(o) /\ published' = published /\ Become(r, g)
  BY DEF RegisterFile
<1>2. h \in Handler /\ HandlerOK(h, published) /\ c \in Shas /\ h.sid \in SessionIds
  BY <1>1, Running
<1> SUFFICES ASSUME faults' = 0 PROVE DedupInv'
  BY DEF DedupInv
<1>3. faults = 0 /\ o = "ok"
  BY <1>1, SpendBack
<1>4. InFlight(h)
  BY <1>1, <1>2 DEF HandlerOK, InFlight
<1>5. dedup[c] = Null
  BY <1>3, <1>4 DEF DedupInv, Unregistered
<1>6. dedup' = [dedup EXCEPT ![c] = h.sid]
  BY <1>3 DEF RegisterFile, Applied
<1>7. dedup'[c] = h.sid /\ \A d \in Shas : d # c => dedup'[d] = dedup[d]
  BY <1>2, <1>6 DEF IndInv, TypeOK
<1>8. ~Unregistered(g)
  BY <1>2 DEF Unregistered, InFlight, Handler
<1> HIDE DEF g
<1>9. \A q \in Requests : q = r /\ req'[q] = g
  BY <1>1, Moves
<1>10. ASSUME NEW e \in published PROVE dedup'[e.sha256] = e.file
  <2>1. e.sha256 \in Shas /\ e.file \in SessionIds /\ e.file # Null
    BY ServiceAssumption DEF IndInv, TypeOK, Event
  <2>2. CASE e = Announced(h)
    BY <1>7, <2>2 DEF Announced
  <2>3. CASE e # Announced(h)
    <3>1. dedup[e.sha256] = e.file
      BY <1>3, <1>9, <2>3 DEF DedupInv
    <3> QED
      BY <1>5, <1>7, <2>1, <3>1
  <2> QED
    BY <2>2, <2>3
<1> QED
  BY <1>1, <1>8, <1>9, <1>10 DEF DedupInv

LEMMA DedupPublish ==
  ASSUME Single, IndInv, DedupInv, NEW r \in Requests, NEW o \in Outcomes, PublishEvent(r, o)
  PROVE  DedupInv'
<1> DEFINE h == req[r]
           u == MarkComplete(h.loc)
           g == Save(h, u, "complete")
<1>1. h.pc = "publish" /\ h.pc # "idle" /\ Spend(o) /\ dedup' = dedup
  BY DEF PublishEvent, redis
<1>2. h \in Handler /\ GoodSession(h.loc)
  BY <1>1, Running
<1> SUFFICES ASSUME faults' = 0 PROVE DedupInv'
  BY DEF DedupInv
<1>3. faults = 0 /\ o = "ok"
  BY <1>1, SpendBack
<1>4. dedup[h.loc.sha256] = Null
  BY <1>1, <1>3 DEF DedupInv, Unregistered
<1>5. Become(r, g) /\ published' = published \cup {Announced(h)}
  BY <1>3 DEF PublishEvent, AfterPublish, Raises, Applied, Announced
<1>6. u \in UploadSessions /\ u.sha256 = h.loc.sha256
  BY <1>2, StatusGood DEF MarkComplete, Status, GoodSession
<1> HIDE DEF u
<1>7. g.pc = "probe" /\ g.sid = h.sid /\ g.loc = u /\ g.caller = "complete"
  <2>1. "complete" \in Callers
    BY DEF Callers
  <2> HIDE DEF h
  <2> QED
    BY <1>2, <1>6, <2>1, SaveFields
<1> HIDE DEF g
<1>8. InFlight(g) /\ Announced(g) = Announced(h) /\ dedup[g.loc.sha256] = Null
  BY <1>4, <1>6, <1>7 DEF InFlight, Announced
<1>9. ~InFlight(h)
  BY <1>1 DEF InFlight
<1>10. \A q \in Requests : q = r /\ req'[q] = g
  BY <1>5, Moves
<1>11. \A e \in published : dedup[e.sha256] = e.file
  BY <1>3, <1>9, <1>10 DEF DedupInv
<1>12. \A q \in Requests : Unregistered(req'[q]) => dedup'[req'[q].loc.sha256] = Null
  BY <1>1, <1>8, <1>10
<1>13. \A e \in published' :
         \/ dedup'[e.sha256] = e.file
         \/ \E q \in Requests : InFlight(req'[q]) /\ e = Announced(req'[q])
  <2>1. InFlight(req'[r]) /\ Announced(req'[r]) = Announced(h)
    BY <1>8, <1>10 DEF Announced
  <2> HIDE DEF h
  <2> QED
    BY <1>1, <1>5, <1>11, <2>1
<1> QED
  BY <1>12, <1>13 DEF DedupInv

\* No other step puts a completion in flight.
LEMMA DedupOther ==
  ASSUME Single, IndInv, StageInv, DedupInv, NEW r \in Requests, NEW o \in Outcomes,
         HandlerStep(r, o), ~InFlight(req[r]), ~PublishEvent(r, o)
  PROVE  DedupInv'
<1> DEFINE h == req[r]
<1>1. h.pc # "idle" /\ Spend(o)
  BY DEF HandlerStep, InitiateIncrement, InitiateCreate, ChunkSet, UpdateProbe, UpdateHset,
         DeleteSession, DecrementHincrby, DecrementZero, RetrieveChunk, CheckFileExists,
         AssembleFile, DeleteCorrupt, CheckDuplicate, PublishEvent, RegisterFile, CleanupChunk
<1>2. h \in Handler /\ GoodSession(h.loc) /\ HandlerOK(h, published)
  BY <1>1, Running
<1> SUFFICES ASSUME faults' = 0 PROVE DedupInv'
  BY DEF DedupInv
<1>3. faults = 0 /\ o = "ok" /\ StageOK(h, hash[h.sid])
  BY <1>1, SpendBack, StageNow
<1>4. ~RegisterFile(r, o)
  BY <1>2 DEF RegisterFile, HandlerOK, InFlight
<1>5. UNCHANGED <<dedup, published>>
  BY <1>4 DEF HandlerStep, InitiateIncrement, InitiateCreate, ChunkSet, UpdateProbe, UpdateHset,
         DeleteSession, DecrementHincrby, DecrementZero, RetrieveChunk, CheckFileExists,
         AssembleFile, DeleteCorrupt, CheckDuplicate, CleanupChunk, redis
<1>6. ASSUME NEW g, Become(r, g), Unregistered(g) => dedup[g.loc.sha256] = Null
      PROVE  DedupInv'
  BY <1>3, <1>5, <1>6, DedupKeeps
<1>7. ~Unregistered(Idle) /\ ~Unregistered(Fail(h))
  BY <1>2, IdleFields, FailFields DEF Unregistered, InFlight
<1>8. ASSUME NEW p \in PCs, p # "publish",
             p \in {"hset", "decr", "zero", "register"} => h.caller # "complete"
      PROVE  ~Unregistered([h EXCEPT !.pc = p]) \/ p = "probe"
  BY <1>2, <1>8, PcFields DEF Unregistered, InFlight
<1>9. CASE InitiateIncrement(r, o) \/ InitiateCreate(r, o)
  <2>1. Become(r, Idle) \/ Become(r, [h EXCEPT !.pc = "create"])
    BY <1>3, <1>9 DEF InitiateIncrement, InitiateCreate, Raises
  <2>2. ~Unregistered([h EXCEPT !.pc = "create"])
    BY <1>8 DEF PCs
  <2> QED
    BY <1>6, <1>7, <2>1, <2>2
<1>10. CASE ChunkSet(r, o)
  <2>1. Become(r, Idle) \/ \E u : Become(r, Save(h, u, "chunk"))
    BY <1>10 DEF ChunkSet
  <2>2. ASSUME NEW u PROVE ~Unregistered(Save(h, u, "chunk"))
    BY <1>2 DEF Save, Unregistered, InFlight, Handler
  <2> QED
    BY <1>6, <1>7, <2>1, <2>2
<1>11. CASE UpdateProbe(r, o) \/ UpdateHset(r, o)
  <2>1. h.caller # "complete"
    BY <1>11 DEF UpdateProbe, UpdateHset, InFlight
  <2>2. ~Unregistered([h EXCEPT !.pc = "hset"]) /\ ~Unregistered([h EXCEPT !.pc = "del"])
    BY <1>8, <2>1 DEF PCs
  <2>3. \/ Become(r, Idle) \/ Become(r, Fail(h)) \/ Become(r, [h EXCEPT !.pc = "hset"])
        \/ Become(r, [h EXCEPT !.pc = "del"])
    BY <1>11, <2>1 DEF UpdateProbe, UpdateHset, AfterUpdate
  <2> QED
    BY <1>6, <1>7, <2>2, <2>3
<1>12. CASE DeleteSession(r, o) \/ DecrementHincrby(r, o) \/ DecrementZero(r, o)
  <2>1. h.caller # "complete"
    BY <1>3, <1>12 DEF DeleteSession, DecrementHincrby, DecrementZero, InFlight, StageOK
  <2>2. ~Unregistered([h EXCEPT !.pc = "decr"]) /\ ~Unregistered([h EXCEPT !.pc = "zero"])
    BY <1>8, <2>1 DEF PCs
  <2>3. \/ Become(r, Idle) \/ Become(r, [h EXCEPT !.pc = "decr"])
        \/ Become(r, [h EXCEPT !.pc = "zero"])
    BY <1>12, <2>1 DEF DeleteSession, DecrementHincrby, DecrementZero, AfterDecrement
  <2> QED
    BY <1>6, <1>7, <2>2, <2>3
<1>13. CASE RetrieveChunk(r, o)
  <2> DEFINE got == Append(h.got, blob[h.sid][Len(h.got)])
             next == IF Len(got) = Len(h.loc.manifest) THEN "head" ELSE "get"
             g == [h EXCEPT !.got = got, !.pc = next]
  <2>1. g.pc \in {"head", "get"}
    BY <1>2 DEF Handler
  <2>2. Become(r, g) \/ Become(r, Idle) \/ Become(r, Fail(h))
    BY <1>13 DEF RetrieveChunk
  <2> HIDE DEF g
  <2>3. ~Unregistered(g)
    BY <2>1 DEF Unregistered, InFlight
  <2> QED
    BY <1>6, <1>7, <2>2, <2>3
<1>14. CASE CheckFileExists(r, o) \/ AssembleFile(r, o) \/ DeleteCorrupt(r, o)
  <2>1. \A p \in {"assemble", "dedup", "s3del"} : ~Unregistered([h EXCEPT !.pc = p])
    BY <1>8 DEF PCs
  <2>2. \/ Become(r, Idle) \/ Become(r, Fail(h))
        \/ \E p \in {"assemble", "dedup", "s3del"} : Become(r, [h EXCEPT !.pc = p])
    BY <1>14 DEF CheckFileExists, AssembleFile, DeleteCorrupt
  <2> QED
    BY <1>6, <1>7, <2>1, <2>2
<1>15. CASE CheckDuplicate(r, o)
  <2> DEFINE g == [h EXCEPT !.pc = "publish"]
             f == Save(h, MarkFailed(h.loc), "dup")
  <2>1. Become(r, f) \/ (Become(r, g) /\ dedup[h.loc.sha256] = Null)
    BY <1>3, <1>15 DEF CheckDuplicate, IsDuplicate, Raises
  <2>2. g.loc = h.loc
    BY <1>2, PcFields DEF PCs
  <2>3. ~Unregistered(f)
    BY <1>2 DEF Save, Unregistered, InFlight, Handler
  <2> HIDE DEF f, g
  <2> QED
    BY <1>6, <2>1, <2>2, <2>3
<1>16. CASE CleanupChunk(r, o)
  <2> DEFINE k == [h EXCEPT !.k = h.k + 1]
  <2>1. k.pc = h.pc /\ h.pc = "cleanup"
    BY <1>2, <1>16 DEF Handler, CleanupChunk
  <2>2. Become(r, Idle) \/ Become(r, k)
    BY <1>16 DEF CleanupChunk
  <2> HIDE DEF k
  <2>3. ~Unregistered(k)
    BY <2>1 DEF Unregistered, InFlight
  <2> QED
    BY <1>6, <1>7, <2>2, <2>3
<1> QED
  BY <1>4, <1>9, <1>10, <1>11, <1>12, <1>13, <1>14, <1>15, <1>16 DEF HandlerStep

LEMMA DedupInductive ==
  ASSUME Single, ~Expiry
  PROVE  Spec => []DedupInv
<1>1. Init => DedupInv
  BY IdleFields DEF Init, DedupInv, Unregistered, InFlight
<1>2. ASSUME IndInv, StageInv, DedupInv, [Next]_vars PROVE DedupInv'
  <2>1. ASSUME NEW r \in Requests, NEW o \in Outcomes, HandlerStep(r, o) PROVE DedupInv'
    <3>1. CASE InFlight(req[r])
      <4>1. \/ UpdateProbe(r, o) \/ UpdateHset(r, o) \/ DecrementHincrby(r, o)
            \/ DecrementZero(r, o) \/ RegisterFile(r, o)
        BY <2>1, <3>1 DEF InFlight, HandlerStep, InitiateIncrement, InitiateCreate, ChunkSet,
             DeleteSession, RetrieveChunk, CheckFileExists, AssembleFile, DeleteCorrupt,
             CheckDuplicate, PublishEvent, CleanupChunk
      <4> QED
        BY <1>2, <3>1, <4>1, DedupFlight, DedupRegister
    <3>2. CASE ~InFlight(req[r])
      BY <1>2, <2>1, <3>2, DedupPublish, DedupOther
    <3> QED
      BY <3>1, <3>2
  <2>2. ASSUME NEW r \in Requests, Arrive(r) PROVE DedupInv'
    <3>1. PICK g : Starts(r, g)
      BY <2>2, ArriveTargets
    <3>2. req[r] = Idle /\ UNCHANGED <<dedup, published, faults>>
      BY <2>2, ArriveTargets DEF redis
    <3>3. Become(r, g) /\ ~Unregistered(g) /\ ~InFlight(req[r])
      BY <3>1, <3>2, IdleFields DEF Starts, Unregistered, InFlight
    <3> QED
      BY <1>2, <3>2, <3>3, DedupKeeps
  <2>3. CASE Environment
    <3>1. ASSUME NEW r \in Requests, Crash(r) PROVE faults' # 0
      BY <1>2, <3>1, ServiceAssumption DEF Crash, IndInv, TypeOK
    <3>2. ASSUME NEW s \in SessionIds,
                 \/ QueryOffset(s) \/ SessionLapses(s) \/ MetaLapses(s)
                 \/ \E i \in Indices : ChunkLapses(s, i)
          PROVE  UNCHANGED <<dedup, published, req, faults>>
      BY <3>2 DEF QueryOffset, SessionLapses, MetaLapses, ChunkLapses, store, redis
    <3> QED
      BY <1>2, <2>3, <3>1, <3>2 DEF Environment, DedupInv
  <2>4. CASE UNCHANGED vars
    BY <1>2, <2>4 DEF vars, DedupInv
  <2> QED
    BY <1>2, <2>1, <2>2, <2>3, <2>4 DEF Next
<1> QED
  BY <1>1, <1>2, Inductive, StageInductive, PTL DEF Spec

\* Requests that do not overlap announce at most one file per content, as
\* long as no call has failed and no session expires: an expiry between the
\* event and the update of the session keeps the file from being registered.
THEOREM OneFileTheorem ==
  ASSUME Single, ~Expiry
  PROVE  Spec => []OneFilePerContent
<1>1. ASSUME IndInv, DedupInv PROVE OneFilePerContent
  <2> SUFFICES ASSUME faults = 0, NEW e \in published, NEW f \in published,
                      e.sha256 = f.sha256
               PROVE  e.file = f.file
    BY DEF OneFilePerContent
  <2>1. e.file # Null /\ f.file # Null
    BY <1>1, ServiceAssumption DEF IndInv, TypeOK, Event
  <2>2. ASSUME NEW r \in Requests, InFlight(req[r]), NEW d \in published, d = Announced(req[r])
        PROVE  dedup[d.sha256] = Null /\ d.file = req[r].sid
    BY <1>1, <2>2 DEF DedupInv, Unregistered, Announced
  <2> QED
    BY <1>1, <2>1, <2>2, Only DEF DedupInv
<1> QED
  BY <1>1, Inductive, DedupInductive, PTL

----------------------------------------------------------------------------
(* The life cycle of a session *)

\* The session in Redis as the life cycle sees it.
LStatus == [s \in SessionIds |->
              IF hash[s] # Null THEN hash[s].status
              ELSE IF Initiating(s) THEN "NONE" ELSE "GONE"]
LOffset == [s \in SessionIds |-> IF hash[s] # Null THEN hash[s].offset ELSE 0]
LSize == [s \in SessionIds |-> IF hash[s] # Null THEN hash[s].size ELSE 0]

Alike(s) == hash'[s] = hash[s] /\ (Initiating(s)' <=> Initiating(s))

\* A step of the life cycle, or none.
LifeStep == Lifecycle!Next \/ UNCHANGED <<LStatus, LOffset, LSize>>

LEMMA LifeStay ==
  ASSUME \A s \in SessionIds : Alike(s)
  PROVE  LifeStep
  BY DEF LifeStep, LStatus, LOffset, LSize, Alike

LEMMA LifeRemove ==
  ASSUME IndInv, NEW s \in SessionIds, \A t \in SessionIds : t # s => Alike(t),
         hash'[s] = Null, ~Initiating(s)', hash[s] # Null \/ Initiating(s)
  PROVE  LifeStep
<1>1. LStatus[s] # "GONE"
  <2>1. hash[s] # Null => hash[s].status \in Status
    BY FieldTypes DEF IndInv, TypeOK
  <2> QED
    BY <2>1 DEF LStatus, Status
<1>2. /\ LStatus' = [LStatus EXCEPT ![s] = "GONE"]
      /\ LOffset' = [LOffset EXCEPT ![s] = 0]
      /\ LSize' = [LSize EXCEPT ![s] = 0]
  BY DEF LStatus, LOffset, LSize, Alike
<1>3. Lifecycle!Remove(s)
  BY <1>1, <1>2 DEF Lifecycle!Remove, LStatus, LOffset, LSize
<1> QED
  BY <1>3 DEF LifeStep, Lifecycle!Next

\* Session s is stored as v.
LEMMA LifeWrite ==
  ASSUME NEW s \in SessionIds, \A t \in SessionIds : t # s => Alike(t),
         hash'[s] # Null
  PROVE  /\ LStatus' = [LStatus EXCEPT ![s] = hash'[s].status]
         /\ LOffset' = [LOffset EXCEPT ![s] = hash'[s].offset]
         /\ LSize' = [LSize EXCEPT ![s] = hash'[s].size]
  BY DEF LStatus, LOffset, LSize, Alike

LEMMA LifeCreate ==
  ASSUME NEW s \in SessionIds, NEW n \in Sizes, \A t \in SessionIds : t # s => Alike(t),
         hash[s] = Null, Initiating(s), hash'[s] # Null, hash'[s].status = "PENDING",
         hash'[s].offset = 0, hash'[s].size = n
  PROVE  LifeStep
<1>1. /\ LStatus' = [LStatus EXCEPT ![s] = "PENDING"]
      /\ LOffset' = [LOffset EXCEPT ![s] = 0]
      /\ LSize' = [LSize EXCEPT ![s] = n]
  BY LifeWrite
<1>2. LStatus[s] = "NONE" /\ LOffset' = LOffset
  BY <1>1 DEF LStatus, LOffset
<1>3. Lifecycle!Create(s, n)
  BY <1>1, <1>2 DEF Lifecycle!Create, LStatus, LOffset, LSize
<1>4. \E m \in {d.size : d \in Declarations} : Lifecycle!Create(s, m)
  BY <1>3 DEF Sizes
<1> QED
  BY <1>4 DEF LifeStep, Lifecycle!Next

LEMMA InitiatingSingle ==
  ASSUME Single, NEW r \in Requests, NEW s
  PROVE  /\ Initiating(s) <=> s \notin used \/ (req[r].sid = s /\ req[r].pc \in Early)
         /\ Initiating(s)' <=> s \notin used' \/ (req'[r].sid = s /\ req'[r].pc \in Early)
  BY Only DEF Initiating, Early

LEMMA LifeInitiate ==
  ASSUME Single, IndInv, AheadInv, StageInv, Clean', NEW r \in Requests, NEW o \in Outcomes,
         InitiateIncrement(r, o) \/ InitiateCreate(r, o)
  PROVE  LifeStep
<1> DEFINE h == req[r]
           s == h.sid
<1>1. h.pc \in Early /\ h.pc # "idle" /\ Spend(o) /\ used' = used
  BY DEF InitiateIncrement, InitiateCreate, Early
<1>2. h \in Handler /\ s \in SessionIds /\ h.loc \in UploadSessions /\ s \in used
  BY <1>1, Running DEF AheadInv
<1>3. StageOK(h, hash[s]) /\ (o = "ok" \/ o = "error")
  BY <1>1, StageNow
<1>4. hash[s] = Null /\ h.loc.status = "PENDING" /\ h.loc.offset = 0 /\ h.loc.size \in Sizes
  BY <1>1, <1>3 DEF StageOK
<1>5. Initiating(s) /\ \A t \in SessionIds : t # s => (Initiating(t) <=> t \notin used)
  BY <1>1, InitiatingSingle
<1>6. ASSUME NEW g, Become(r, g), hash' = hash, g.pc \notin Early PROVE LifeStep
  <2>1. req'[r] = g
    BY <1>6, Moves
  <2>2. \A t \in SessionIds : Initiating(t)' <=> t \notin used
    BY <1>1, <1>6, <2>1, InitiatingSingle
  <2> QED
    BY <1>2, <1>4, <1>5, <1>6, <2>2, LifeRemove DEF Alike
<1>7. CASE InitiateIncrement(r, o)
  <2> DEFINE g == [h EXCEPT !.pc = "create"]
  <2>1. g.pc = "create" /\ g.sid = s
    BY <1>2, PcFields DEF PCs
  <2>2. (Become(r, g) \/ Become(r, Idle)) /\ hash' = hash
    BY <1>7 DEF InitiateIncrement, store
  <2> HIDE DEF g
  <2>3. ASSUME Become(r, g) PROVE LifeStep
    <3>1. req'[r] = g
      BY <2>3, Moves
    <3>2. \A t \in SessionIds : Initiating(t)' <=> Initiating(t)
      BY <1>1, <2>1, <3>1, InitiatingSingle DEF Early
    <3> QED
      BY <2>2, <3>2, LifeStay DEF Alike
  <2> QED
    BY <1>6, <2>2, <2>3, IdleFields DEF Early
<1>8. CASE InitiateCreate(r, o)
  <2>1. CASE o = "error"
    <3> DEFINE g == [h EXCEPT !.pc = "decr", !.caller = "initfail"]
    <3>1. g.pc = "decr"
      BY <1>2 DEF Handler
    <3>2. Become(r, g) /\ hash' = hash
      BY <1>8, <2>1 DEF InitiateCreate, Raises, Applied, store
    <3> HIDE DEF g
    <3> QED
      BY <1>6, <3>1, <3>2 DEF Early
  <2>2. CASE o = "ok"
    <3>1. Become(r, Idle) /\ hash' = [hash EXCEPT ![s] = h.loc]
      BY <1>8, <2>2 DEF InitiateCreate, Raises, Applied
    <3>2. /\ hash'[s] = h.loc /\ h.loc # Null
          /\ \A t \in SessionIds : t # s => hash'[t] = hash[t]
      BY <1>2, <3>1, ServiceAssumption DEF IndInv, TypeOK
    <3>3. req'[r] = Idle
      BY <3>1, Moves
    <3>4. \A t \in SessionIds : t # s => Alike(t)
      BY <1>1, <1>5, <3>2, <3>3, InitiatingSingle, IdleFields DEF Alike, Early
    <3> DEFINE n == h.loc.size
    <3>5. /\ hash'[s] # Null /\ hash'[s].status = "PENDING" /\ hash'[s].offset = 0
          /\ hash'[s].size = n /\ n \in Sizes
      BY <1>4, <3>2
    <3> HIDE DEF s, n
    <3> QED
      BY <1>2, <1>4, <1>5, <3>4, <3>5, LifeCreate
  <2> QED
    BY <1>3, <2>1, <2>2
<1> QED
  BY <1>7, <1>8

\* update_session takes the session one step further, or repeats FAILED.
LEMMA LifeUpdate ==
  ASSUME NEW s \in SessionIds, NEW u \in UploadSessions, NEW v \in UploadSessions,
         NEW c \in Callers, c \notin {"none", "initfail"}, hash[s] = u, hash'[s] = v,
         \A t \in SessionIds : t # s => Alike(t),
         Replaces(v, c, u), v.status = SavedStatus(c), c = "complete" => v.offset = v.size
  PROVE  LifeStep
<1>0. u # Null /\ v # Null
  BY ServiceAssumption
<1>1. /\ LStatus' = [LStatus EXCEPT ![s] = v.status]
      /\ LOffset' = [LOffset EXCEPT ![s] = v.offset]
      /\ LSize' = [LSize EXCEPT ![s] = v.size]
  BY <1>0, LifeWrite
<1>2. LStatus[s] = u.status /\ LOffset[s] = u.offset /\ LSize[s] = u.size
  BY <1>0 DEF LStatus, LOffset, LSize
<1>3. LSize' = LSize
  BY <1>1, <1>2 DEF Replaces, LSize
<1>4. u.offset \in Nat /\ v.offset \in Nat /\ v.size \in Nat /\ v.offset <= v.size
  BY FieldTypes, MaxSizeAssumption
<1>5. CASE c = "chunk"
  <2>1. /\ u.status \in {"PENDING", "IN_PROGRESS"} /\ v.status = "IN_PROGRESS"
        /\ v.offset \in u.offset + 1 .. u.size
    BY <1>4, <1>5 DEF Replaces, SavedStatus
  <2>2. Lifecycle!Receive(s)
    BY <1>1, <1>2, <1>3, <2>1 DEF Lifecycle!Receive, LStatus, LOffset, LSize
  <2> QED
    BY <2>2 DEF LifeStep, Lifecycle!Next
<1>6. CASE c # "chunk"
  <2>1. LOffset' = LOffset
    BY <1>1, <1>2, <1>6 DEF Replaces, LOffset
  <2>2. CASE c = "abort"
    <3>1. Lifecycle!Abort(s)
      BY <1>1, <1>2, <1>3, <2>1, <2>2
         DEF Lifecycle!Abort, LStatus, LOffset, LSize, Replaces, SavedStatus
    <3> QED
      BY <3>1 DEF LifeStep, Lifecycle!Next
  <2>3. CASE c = "complete"
    <3>1. Lifecycle!Complete(s)
      BY <1>1, <1>2, <1>3, <2>1, <2>3
         DEF Lifecycle!Complete, LStatus, LOffset, LSize, Replaces, SavedStatus
    <3> QED
      BY <3>1 DEF LifeStep, Lifecycle!Next
  <2>4. CASE c \notin {"abort", "complete"}
    <3>1. v.status = "FAILED" /\ u.status \in {"IN_PROGRESS", "FAILED"}
      BY <1>6, <2>4 DEF Callers, Replaces, SavedStatus
    <3>2. CASE u.status = "FAILED"
      <4>1. LStatus' = LStatus
        BY <1>1, <1>2, <3>1, <3>2 DEF LStatus
      <4> QED
        BY <1>3, <2>1, <4>1 DEF LifeStep
    <3>3. CASE u.status = "IN_PROGRESS"
      <4>1. Lifecycle!FailUpload(s)
        BY <1>1, <1>2, <1>3, <2>1, <3>1, <3>3
           DEF Lifecycle!FailUpload, LStatus, LOffset, LSize
      <4> QED
        BY <4>1 DEF LifeStep, Lifecycle!Next
    <3> QED
      BY <3>1, <3>2, <3>3
  <2> QED
    BY <2>2, <2>3, <2>4
<1> QED
  BY <1>5, <1>6

\* The steps after an initiation.
LEMMA LifeHandler ==
  ASSUME Single, ~Expiry, IndInv, AheadInv, StageInv, Clean',
         NEW r \in Requests, NEW o \in Outcomes, HandlerStep(r, o),
         ~InitiateIncrement(r, o), ~InitiateCreate(r, o)
  PROVE  LifeStep
<1> DEFINE h == req[r]
           s == h.sid
           u == hash[s]
<1>1. h.pc # "idle" /\ h.pc \notin Early /\ Spend(o)
  BY DEF HandlerStep, Early, ChunkSet, UpdateProbe, UpdateHset,
         DeleteSession, DecrementHincrby, DecrementZero, RetrieveChunk, CheckFileExists,
         AssembleFile, DeleteCorrupt, CheckDuplicate, PublishEvent, RegisterFile, CleanupChunk
<1>2. h \in Handler /\ s \in SessionIds /\ h.loc \in UploadSessions /\ s \in used
  BY <1>1, Running DEF AheadInv
<1>3. StageOK(h, u) /\ (o = "ok" \/ o = "error")
  BY <1>1, StageNow
<1>4. /\ used' = used
      /\ \A t \in SessionIds : (Initiating(t) <=> t \notin used) /\ (Initiating(t)' <=> t \notin used)
  <2>1. PICK g : Become(r, g) /\ Onward(g, h)
    BY StepsOnward
  <2>2. req'[r] = g /\ g.pc \notin Early
    BY <2>1, Moves DEF Onward, Early
  <2>3. used' = used
    BY StoreEffect
  <2> QED
    BY <1>1, <2>2, <2>3, InitiatingSingle
<1>5. CASE hash' = hash
  BY <1>4, <1>5, LifeStay DEF Alike
<1>6. CASE hash' = [hash EXCEPT ![s] = h.loc] /\ h.pc \in {"create", "hset"}
  <2>1. hash'[s] = h.loc /\ \A t \in SessionIds : t # s => Alike(t)
    BY <1>2, <1>4, <1>6 DEF IndInv, TypeOK, Alike
  <2>2. SavingOK(h, u) /\ u # Null /\ h.caller \in Callers
    BY <1>1, <1>2, <1>3, <1>6 DEF StageOK, Saving, Keeps, Early, Handler
  <2>3. u \in UploadSessions
    BY <1>2, <2>2 DEF IndInv, TypeOK
  <2> DEFINE c == h.caller
             v == h.loc
  <2>4. /\ c \in Callers /\ c \notin {"none", "initfail"} /\ v \in UploadSessions
        /\ Replaces(v, c, u) /\ v.status = SavedStatus(c) /\ (c = "complete" => v.offset = v.size)
    BY <1>2, <2>2 DEF SavingOK
  <2>5. hash[s] = u /\ hash'[s] = v
    BY <2>1
  <2> HIDE DEF c, v, u, s
  <2> QED
    BY <1>2, <2>1, <2>3, <2>4, <2>5, LifeUpdate DEF s
<1>7. CASE hash' = [hash EXCEPT ![s] = Null] /\ h.pc = "del"
  <2>1. hash'[s] = Null /\ \A t \in SessionIds : t # s => Alike(t)
    BY <1>2, <1>4, <1>7 DEF IndInv, TypeOK, Alike
  <2>2. u # Null
    BY <1>3, <1>7 DEF StageOK, Keeps, Early
  <2> QED
    BY <1>2, <1>4, <2>1, <2>2, LifeRemove
<1> QED
  BY <1>5, <1>6, <1>7, StoreEffect

LEMMA LifeArrive ==
  ASSUME Single, IndInv, NEW r \in Requests, Arrive(r)
  PROVE  LifeStep
<1>1. PICK g : Starts(r, g)
  BY ArriveTargets
<1>2. req[r] = Idle /\ hash' = hash
  BY ArriveTargets DEF redis
<1>3. req'[r] = g
  BY <1>1, Moves DEF Starts
<1>4. \A t \in SessionIds : Initiating(t)' <=> Initiating(t)
  BY <1>1, <1>2, <1>3, InitiatingSingle, IdleFields DEF Starts, Early
<1> QED
  BY <1>2, <1>4, LifeStay DEF Alike

LEMMA LifeEnvironment ==
  ASSUME Single, ~Expiry, IndInv, AheadInv, StageInv, Clean, Environment
  PROVE  LifeStep
<1>1. ASSUME NEW r \in Requests, Crash(r) PROVE LifeStep
  <2> DEFINE h == req[r]
             s == h.sid
  <2>1. Become(r, Idle) /\ UNCHANGED <<hash, used>> /\ h # Idle
    BY <1>1 DEF Crash, redis
  <2>2. h.pc # "idle"
    BY <2>1 DEF IndInv, HandlerOK
  <2>3. req'[r] = Idle /\ s \in SessionIds /\ s \in used
    BY <2>1, <2>2, Moves, Running DEF AheadInv
  <2>4. \A t \in SessionIds : Initiating(t)' <=> t \notin used
    BY <2>1, <2>3, InitiatingSingle, IdleFields DEF Early
  <2>5. CASE h.pc \in Early
    <3>1. hash[s] = Null
      BY <2>2, <2>5 DEF StageInv, StageOK
    <3>2. Initiating(s) /\ \A t \in SessionIds : t # s => (Initiating(t) <=> t \notin used)
      BY <2>5, InitiatingSingle
    <3> QED
      BY <2>1, <2>3, <2>4, <3>1, <3>2, LifeRemove DEF Alike
  <2>6. CASE h.pc \notin Early
    <3>1. \A t \in SessionIds : Initiating(t) <=> t \notin used
      BY <2>6, InitiatingSingle
    <3> QED
      BY <2>1, <2>4, <3>1, LifeStay DEF Alike
  <2> QED
    BY <2>5, <2>6
<1>2. ASSUME NEW s \in SessionIds,
             \/ QueryOffset(s) \/ SessionLapses(s) \/ MetaLapses(s)
             \/ \E i \in Indices : ChunkLapses(s, i)
      PROVE  LifeStep
  <2>1. UNCHANGED <<hash, req, used>>
    BY <1>2 DEF QueryOffset, SessionLapses, MetaLapses, ChunkLapses, store, redis
  <2> QED
    BY <2>1, LifeStay DEF Alike, Initiating
<1> QED
  BY <1>1, <1>2 DEF Environment

\* Requests that do not overlap take a session through the documented life
\* cycle, whatever calls fail or workers die between two steps, as long as
\* no session expires (a late write brings an expired session back) and a
\* call that fails has had no effect.
THEOREM LifecycleTheorem ==
  ASSUME Single, ~Expiry, "lost" \notin FaultKinds
  PROVE  Spec => LifecycleSpec
<1>1. Init => Lifecycle!Init
  BY DEF Init, Lifecycle!Init, Initiating
<1>2. IndInv /\ AheadInv /\ StageInv /\ [Next]_vars => [Lifecycle!Next]_Lifecycle!lifecycleVars
  <2> SUFFICES ASSUME IndInv, AheadInv, StageInv, [Next]_vars PROVE LifeStep
    BY DEF LifeStep, Lifecycle!lifecycleVars, LStatus, LOffset, LSize
  <2>1. Clean /\ Clean'
    BY DEF Clean
  <2>2. CASE UNCHANGED vars
    BY <2>2, LifeStay DEF vars, Alike, Initiating
  <2>3. ASSUME NEW r \in Requests, NEW o \in Outcomes, HandlerStep(r, o) PROVE LifeStep
    BY <2>1, <2>3, LifeInitiate, LifeHandler
  <2> QED
    BY <2>1, <2>2, <2>3, LifeArrive, LifeEnvironment DEF Next
<1> QED
  BY <1>1, <1>2, Inductive, AheadInductive, StageInductive, PTL
     DEF Spec, LifecycleSpec, Lifecycle!Spec
============================================================================
