----------------------------- MODULE FileProofs -----------------------------
(***************************************************************************)
(* The bytes of a file, from the PATCH to the event, for any number of     *)
(* handlers, sessions, chunks and faults: as long as a client cuts its     *)
(* file in the same way every time, the chunks in Redis are those of the   *)
(* manifest, and an announced file is in S3 with the announced content.    *)
(***************************************************************************)
EXTENDS UploadServiceProofs

\* A PATCH that passes the checks on its body.
Sound(p) == Len(p.data) > 0 /\ p.data = p.checksum

\* A client that repeats a PATCH, or resumes at an offset, sends the same
\* bytes again.  Sessions may have different clients and files.
CutsAlike ==
  \A s \in SessionIds : \A p, q \in Patches[s] :
    Sound(p) /\ Sound(q) /\ p.offset = q.offset => p.data = q.data

----------------------------------------------------------------------------
(* The file of a session *)

\* What all copies of a session have in common: the declared size and
\* checksum, and the chunks sent so far with the offsets they start at.
Cut == [size : Nat, sha : Content, len : Nat,
        at : [Nat -> Nat], data : [Nat -> Content]]

CutOK(s, w) ==
  /\ w \in Cut
  /\ w.at[0] = 0
  /\ \A i \in 0 .. w.len - 1 :
       /\ w.at[i + 1] = w.at[i] + Len(w.data[i])
       /\ \A p \in Patches[s] : Sound(p) /\ p.offset = w.at[i] => p.data = w.data[i]
  /\ \A i, j \in 0 .. w.len : i < j => w.at[i] < w.at[j]

\* Session u has received an initial part of the chunks.
Follows(w, u) ==
  /\ u.sha256 = w.sha /\ u.size = w.size
  /\ Len(u.manifest) <= w.len
  /\ u.offset = w.at[Len(u.manifest)]
  /\ \A i \in 1 .. Len(u.manifest) : u.manifest[i].checksum = w.data[i - 1]

\* Chunks in order, and all chunks of a file of the declared size.
Prefix(w, x) == Len(x) <= w.len /\ \A i \in 1 .. Len(x) : x[i] = w.data[i - 1]

IsFile(w, x) == Prefix(w, x) /\ w.at[Len(x)] = w.size

Assembled == {"head", "assemble", "s3del", "dedup", "publish"}
Verified == {"dedup", "publish"}

\* What holds of a running handler of the session whose object is x.
HandlerFileOK(h, w, x) ==
  /\ Follows(w, h.loc)
  /\ h.pc = "set" => /\ Len(h.loc.manifest) < w.len
                     /\ h.data = w.data[Len(h.loc.manifest)]
  /\ h.pc = "get" => h.loc.offset = h.loc.size /\ Prefix(w, h.got)
  /\ h.pc \in Assembled => IsFile(w, h.got)
  /\ h.pc = "s3del" => Concat(h.got) # w.sha
  /\ h.pc \in Verified => x # Null /\ Concat(h.got) = w.sha

\* Nothing is known of a session id before it is drawn.
Fresh(s) ==
  /\ hash[s] = Null /\ object[s] = Null
  /\ \A i \in Indices : blob[s][i] = Null
  /\ \A e \in published : e.file # s

StoredFileOK(s, w) ==
  /\ s \notin used => Fresh(s)
  /\ hash[s] # Null => Follows(w, hash[s])
  /\ \A i \in Indices : blob[s][i] # Null => i < w.len /\ blob[s][i] = w.data[i]
  /\ object[s] # Null => IsFile(w, object[s])
  /\ \A e \in published :
       e.file = s => object[s] # Null /\ e.sha256 = w.sha /\ Concat(object[s]) = w.sha

HandledFileOK(r, s, w) ==
  req[r].pc # "idle" /\ req[r].sid = s => s \in used /\ HandlerFileOK(req[r], w, object[s])

FileOK(s, w) ==
  /\ CutOK(s, w)
  /\ StoredFileOK(s, w)
  /\ \A r \in Requests : HandledFileOK(r, s, w)

\* The inductive invariant: every session has a file.
FileInv == \A s \in SessionIds : \E w : FileOK(s, w)

----------------------------------------------------------------------------
(* Cuts *)

\* A file is determined by its size: the offsets grow with the chunks.
LEMMA OneFile ==
  ASSUME NEW s, NEW w, CutOK(s, w), NEW x \in Seq(Content), NEW y \in Seq(Content),
         IsFile(w, x), IsFile(w, y)
  PROVE  x = y
<1> DEFINE m == Len(x)
           n == Len(y)
<1>1. w.at \in [Nat -> Nat] /\ w.len \in Nat /\ m \in Nat /\ n \in Nat
  <2>1. w \in Cut
    BY DEF CutOK
  <2>2. w.at \in [Nat -> Nat] /\ w.len \in Nat
    BY <2>1 DEF Cut
  <2>3. m \in Nat /\ n \in Nat
    OBVIOUS
  <2> QED
    BY <2>2, <2>3
<1>2. m <= w.len /\ n <= w.len /\ w.at[m] = w.at[n]
  BY DEF IsFile, Prefix
<1>3. m = n
  <2>1. \A i, j \in 0 .. w.len : i < j => w.at[i] < w.at[j]
    BY DEF CutOK
  <2> HIDE DEF m, n
  <2>2. m \in 0 .. w.len /\ n \in 0 .. w.len /\ w.at[m] \in Nat
    BY <1>1, <1>2
  <2>3. ~(m < n)
    BY <1>2, <2>1, <2>2
  <2>4. ~(n < m)
    BY <1>2, <2>1, <2>2
  <2> QED
    BY <1>1, <2>3, <2>4
<1>4. \A i \in 1 .. Len(x) : x[i] = y[i]
  BY <1>3 DEF IsFile, Prefix
<1> QED
  BY <1>3, <1>4

\* A change of status leaves a session with its file.
LEMMA FollowsStatus ==
  ASSUME NEW w, NEW u, GoodSession(u), Follows(w, u), NEW t \in Status
  PROVE  Follows(w, [u EXCEPT !.status = t])
<1> DEFINE v == [u EXCEPT !.status = t]
<1>1. /\ v.sha256 = u.sha256 /\ v.size = u.size
      /\ v.manifest = u.manifest /\ v.offset = u.offset
  BY StatusGood
<1> HIDE DEF v
<1>2. Follows(w, v)
  BY <1>1 DEF Follows
<1> QED
  BY <1>2 DEF v

\* The same for the operations that do nothing else.
LEMMA FollowsMarks ==
  ASSUME NEW w, NEW u, GoodSession(u), Follows(w, u)
  PROVE  /\ Follows(w, MarkFailed(u))
         /\ Follows(w, MarkComplete(u))
         /\ Follows(w, MarkAborted(u))
  BY FollowsStatus DEF MarkFailed, MarkComplete, MarkAborted, Status

\* A cut that grows at its end keeps what was said of it.
Extends(w, v) ==
  /\ v.sha = w.sha /\ v.size = w.size /\ w.len <= v.len
  /\ \A i \in 0 .. w.len : v.at[i] = w.at[i]
  /\ \A i \in 0 .. w.len - 1 : v.data[i] = w.data[i]

LEMMA PrefixExtends ==
  ASSUME NEW w \in Cut, NEW v \in Cut, Extends(w, v), NEW x \in Seq(Content)
  PROVE  /\ Prefix(w, x) => Prefix(v, x)
         /\ IsFile(w, x) => IsFile(v, x)
<1>1. w.len \in Nat /\ v.len \in Nat /\ Len(x) \in Nat
  BY DEF Cut
<1>2. ASSUME Prefix(w, x) PROVE Prefix(v, x)
  BY <1>1, <1>2 DEF Prefix, Extends
<1>3. ASSUME IsFile(w, x) PROVE v.at[Len(x)] = v.size
  BY <1>1, <1>3 DEF IsFile, Prefix, Extends
<1> QED
  BY <1>2, <1>3 DEF IsFile

LEMMA FollowsExtends ==
  ASSUME NEW w \in Cut, NEW v \in Cut, Extends(w, v), NEW u \in UploadSessions, Follows(w, u)
  PROVE  Follows(v, u)
<1>1. w.len \in Nat /\ v.len \in Nat /\ Len(u.manifest) \in Nat
  BY FieldTypes DEF Cut
<1>2. v.at[Len(u.manifest)] = w.at[Len(u.manifest)] /\ Len(u.manifest) <= v.len
  BY <1>1 DEF Follows, Extends
<1>3. \A i \in 1 .. Len(u.manifest) : v.data[i - 1] = w.data[i - 1]
  BY <1>1 DEF Follows, Extends
<1> QED
  BY <1>2, <1>3 DEF Follows, Extends

\* So the invariant of a session survives the extension of its cut.
LEMMA FileExtends ==
  ASSUME IndInv, NEW s \in SessionIds, NEW w, FileOK(s, w), NEW v, CutOK(s, v), Extends(w, v)
  PROVE  FileOK(s, v)
<1>1. w \in Cut /\ v \in Cut /\ w.len \in Nat /\ v.len \in Nat
  BY DEF FileOK, CutOK, Cut
<1>2. StoredFileOK(s, v)
  <2>1. hash[s] # Null => Follows(v, hash[s])
    <3> SUFFICES ASSUME hash[s] # Null PROVE Follows(v, hash[s])
      OBVIOUS
    <3>1. hash[s] \in UploadSessions /\ Follows(w, hash[s])
      BY DEF IndInv, TypeOK, FileOK, StoredFileOK
    <3> QED
      BY <1>1, <3>1, FollowsExtends
  <2>2. ASSUME NEW i \in Indices, blob[s][i] # Null
        PROVE  i < v.len /\ blob[s][i] = v.data[i]
    <3>1. i < w.len /\ blob[s][i] = w.data[i] /\ i \in Nat
      BY <2>2, MaxSizeAssumption DEF FileOK, StoredFileOK, Indices
    <3> QED
      BY <1>1, <3>1 DEF Extends
  <2>3. object[s] # Null => IsFile(v, object[s])
    <3> SUFFICES ASSUME object[s] # Null PROVE IsFile(v, object[s])
      OBVIOUS
    <3>1. object[s] \in Seq(Content) /\ IsFile(w, object[s])
      BY DEF IndInv, TypeOK, FileOK, StoredFileOK
    <3> QED
      BY <1>1, <3>1, PrefixExtends
  <2> QED
    BY <2>1, <2>2, <2>3 DEF FileOK, StoredFileOK, Extends
<1>3. ASSUME NEW r \in Requests PROVE HandledFileOK(r, s, v)
  <2> SUFFICES ASSUME req[r].pc # "idle", req[r].sid = s
               PROVE  s \in used /\ HandlerFileOK(req[r], v, object[s])
    BY DEF HandledFileOK
  <2> DEFINE h == req[r]
  <2>1. s \in used /\ HandlerFileOK(h, w, object[s])
    BY DEF FileOK, HandledFileOK
  <2>2. h \in Handler /\ h.loc \in UploadSessions
    BY Running
  <2>3. h.got \in Seq(Content) /\ Len(h.loc.manifest) \in Nat
    BY <2>2, FieldTypes DEF Handler
  <2> HIDE DEF h
  <2>4. Follows(v, h.loc)
    BY <1>1, <2>1, <2>2, FollowsExtends DEF HandlerFileOK
  <2>5. h.pc = "set" => /\ Len(h.loc.manifest) < v.len
                        /\ h.data = v.data[Len(h.loc.manifest)]
    BY <1>1, <2>1, <2>3 DEF HandlerFileOK, Extends
  <2>6. (Prefix(w, h.got) => Prefix(v, h.got)) /\ (IsFile(w, h.got) => IsFile(v, h.got))
    BY <1>1, <2>3, PrefixExtends
  <2> QED
    BY <2>1, <2>4, <2>5, <2>6 DEF HandlerFileOK, Extends, h
<1> QED
  BY <1>2, <1>3 DEF FileOK

----------------------------------------------------------------------------
(* Parts of a step *)

\* A step that adds no object and no event to session s.
LEMMA FileStep ==
  ASSUME NEW s \in SessionIds, NEW w, FileOK(s, w), used \subseteq used',
         \A q \in Requests :
           \/ req'[q] = req[q]
           \/ req'[q].pc # "idle" /\ req'[q].sid = s =>
                s \in used' /\ HandlerFileOK(req'[q], w, object[s]),
         s \in used' \/ (hash'[s] = hash[s] /\ blob'[s] = blob[s]),
         hash'[s] # Null => hash'[s] = hash[s] \/ Follows(w, hash'[s]),
         \A i \in Indices :
           blob'[s][i] # Null =>
             blob'[s][i] = blob[s][i] \/ (i < w.len /\ blob'[s][i] = w.data[i]),
         object'[s] = object[s],
         \A e \in published' : e.file = s => e \in published
  PROVE  FileOK(s, w)'
<1>1. CutOK(s, w) /\ StoredFileOK(s, w) /\ \A q \in Requests : HandledFileOK(q, s, w)
  BY DEF FileOK
<1>2. StoredFileOK(s, w)'
  <2>1. s \notin used' => Fresh(s)'
    BY <1>1 DEF StoredFileOK, Fresh
  <2>2. hash'[s] # Null => Follows(w, hash'[s])
    BY <1>1 DEF StoredFileOK
  <2>3. \A i \in Indices : blob'[s][i] # Null => i < w.len /\ blob'[s][i] = w.data[i]
    BY <1>1 DEF StoredFileOK
  <2> QED
    BY <1>1, <2>1, <2>2, <2>3 DEF StoredFileOK
<1>3. \A q \in Requests : HandledFileOK(q, s, w)'
  BY <1>1 DEF HandledFileOK
<1> QED
  BY <1>1, <1>2, <1>3 DEF FileOK

\* The same when one handler moves.
LEMMA FileMove ==
  ASSUME IndInv, NEW s \in SessionIds, NEW w, FileOK(s, w), NEW r \in Requests,
         NEW h, Become(r, h),
         h.pc # "idle" /\ h.sid = s => s \in used' /\ HandlerFileOK(h, w, object[s]),
         used \subseteq used',
         s \in used' \/ (hash'[s] = hash[s] /\ blob'[s] = blob[s]),
         hash'[s] # Null => hash'[s] = hash[s] \/ Follows(w, hash'[s]),
         \A i \in Indices :
           blob'[s][i] # Null =>
             blob'[s][i] = blob[s][i] \/ (i < w.len /\ blob'[s][i] = w.data[i]),
         object'[s] = object[s],
         \A e \in published' : e.file = s => e \in published
  PROVE  FileOK(s, w)'
<1>1. req \in [Requests -> Handler]
  BY DEF IndInv, TypeOK
<1>2. \A q \in Requests : req'[q] = req[q] \/ req'[q] = h
  BY <1>1 DEF Become
<1>3. \A q \in Requests :
        \/ req'[q] = req[q]
        \/ req'[q].pc # "idle" /\ req'[q].sid = s =>
             s \in used' /\ HandlerFileOK(req'[q], w, object[s])
  BY <1>2
<1> QED
  BY <1>3, FileStep

\* Chunks of session s may come from the file and may go.
ChunksKept(s, w) ==
  /\ s \in used \/ blob'[s] = blob[s]
  /\ \A i \in Indices :
       blob'[s][i] # Null =>
         blob'[s][i] = blob[s][i] \/ (i < w.len /\ blob'[s][i] = w.data[i])

LEMMA FileMoveChunks ==
  ASSUME IndInv, NEW s \in SessionIds, NEW w, FileOK(s, w), NEW r \in Requests,
         NEW h, Become(r, h),
         h.pc # "idle" /\ h.sid = s => s \in used /\ HandlerFileOK(h, w, object[s]),
         UNCHANGED <<hash, object, published, used>>, ChunksKept(s, w)
  PROVE  FileOK(s, w)'
<1>1. s \in used' \/ (hash'[s] = hash[s] /\ blob'[s] = blob[s])
  BY DEF ChunksKept
<1>2. \A i \in Indices :
        blob'[s][i] # Null =>
          blob'[s][i] = blob[s][i] \/ (i < w.len /\ blob'[s][i] = w.data[i])
  BY DEF ChunksKept
<1>3. req \in [Requests -> Handler]
  BY DEF IndInv, TypeOK
<1>4. \A q \in Requests : req'[q] = req[q] \/ req'[q] = h
  BY <1>3 DEF Become
<1>5. CutOK(s, w) /\ StoredFileOK(s, w) /\ \A q \in Requests : HandledFileOK(q, s, w)
  BY DEF FileOK
<1>6. \A q \in Requests : HandledFileOK(q, s, w)'
  BY <1>4, <1>5 DEF HandledFileOK
<1>7. StoredFileOK(s, w)'
  <2>1. s \notin used' => Fresh(s)'
    BY <1>1, <1>5 DEF StoredFileOK, Fresh
  <2>2. \A i \in Indices : blob'[s][i] # Null => i < w.len /\ blob'[s][i] = w.data[i]
    BY <1>2, <1>5 DEF StoredFileOK
  <2> QED
    BY <1>5, <2>1, <2>2 DEF StoredFileOK
<1> QED
  BY <1>5, <1>6, <1>7 DEF FileOK

\* What the invariant says of the running handlers of a session.
LEMMA RunningFile ==
  ASSUME NEW s, NEW w, FileOK(s, w), NEW r \in Requests, req[r].pc # "idle", req[r].sid = s
  PROVE  s \in used /\ HandlerFileOK(req[r], w, object[s]) /\ Follows(w, req[r].loc)
  BY DEF FileOK, HandledFileOK, HandlerFileOK

\* Points where a handler needs no more than its session.
Calm == PCs \ (Assembled \cup {"set", "get"})

LEMMA CalmOK ==
  ASSUME NEW g, NEW w, NEW x, g.pc \in Calm, Follows(w, g.loc)
  PROVE  HandlerFileOK(g, w, x)
  BY DEF HandlerFileOK, Calm, Assembled, Verified

\* A handler that reaches such a point with its own session, or ends.
Leaves(g, h, w) ==
  g.pc # "idle" => g.sid = h.sid /\ g.pc \in Calm /\ (Follows(w, h.loc) => Follows(w, g.loc))

LEMMA LeavesTargets ==
  ASSUME NEW h \in Handler, GoodSession(h.loc), NEW w, NEW result
  PROVE  /\ Leaves(Idle, h, w)
         /\ Leaves(Fail(h), h, w)
         /\ Leaves(AfterUpdate(h, result), h, w)
         /\ Leaves(AfterDecrement(h), h, w)
         /\ \A p \in Calm : Leaves([h EXCEPT !.pc = p], h, w)
         /\ \A c \in Callers : Leaves(Save(h, MarkFailed(h.loc), c), h, w)
         /\ \A c \in Callers : Leaves(Save(h, MarkComplete(h.loc), c), h, w)
<1>0. {"probe", "hset", "del", "decr", "zero", "register"} \subseteq Calm
  BY DEF Calm, PCs, Assembled
<1>1. Leaves(Idle, h, w)
  BY IdleFields DEF Leaves
<1>2. \A p \in Calm : Leaves([h EXCEPT !.pc = p], h, w)
  BY PcFields DEF Leaves, Calm
<1>3. ASSUME NEW u \in UploadSessions, NEW c \in Callers, Follows(w, h.loc) => Follows(w, u)
      PROVE  Leaves(Save(h, u, c), h, w)
  BY <1>0, <1>3, SaveFields DEF Leaves
<1>4. MarkFailed(h.loc) \in UploadSessions /\ MarkComplete(h.loc) \in UploadSessions
  BY StatusGood DEF MarkFailed, MarkComplete, Status, GoodSession
<1>5. Follows(w, h.loc) => Follows(w, MarkFailed(h.loc)) /\ Follows(w, MarkComplete(h.loc))
  BY FollowsMarks
<1>6. \A c \in Callers : /\ Leaves(Save(h, MarkFailed(h.loc), c), h, w)
                         /\ Leaves(Save(h, MarkComplete(h.loc), c), h, w)
  BY <1>3, <1>4, <1>5
<1>7. Leaves(Fail(h), h, w)
  BY <1>6 DEF Fail, Callers
<1>8. Leaves(AfterUpdate(h, result), h, w)
  BY <1>0, <1>1, <1>2, <1>7 DEF AfterUpdate
<1>9. Leaves(AfterDecrement(h), h, w)
  BY <1>0, <1>1, <1>2 DEF AfterDecrement
<1> QED
  BY <1>1, <1>2, <1>6, <1>7, <1>8, <1>9

\* Handler r leaves and changes nothing that concerns files.
LEMMA FileLeave ==
  ASSUME IndInv, NEW s \in SessionIds, NEW w, FileOK(s, w), NEW r \in Requests,
         req[r].pc # "idle", NEW g, Become(r, g), Leaves(g, req[r], w),
         UNCHANGED <<hash, blob, object, published, used>>
  PROVE  FileOK(s, w)'
<1>1. ASSUME g.pc # "idle", g.sid = s
      PROVE  s \in used /\ HandlerFileOK(g, w, object[s])
  <2>1. req[r].sid = s /\ g.pc \in Calm /\ (Follows(w, req[r].loc) => Follows(w, g.loc))
    BY <1>1 DEF Leaves
  <2> QED
    BY <2>1, RunningFile, CalmOK
<1> QED
  BY <1>1, FileMove

----------------------------------------------------------------------------
(* Steps that leave chunks, objects and events alone *)

\* The limiter, the probe of update_session, the registration.
LEMMA PlainStepsFile ==
  ASSUME IndInv, NEW s \in SessionIds, NEW w, FileOK(s, w), NEW r \in Requests,
         NEW o \in Outcomes,
         \/ InitiateIncrement(r, o) \/ UpdateProbe(r, o)
         \/ DecrementHincrby(r, o) \/ DecrementZero(r, o)
         \/ RegisterFile(r, o)
  PROVE  FileOK(s, w)'
<1>1. req[r].pc # "idle"
  BY DEF InitiateIncrement, UpdateProbe, DecrementHincrby, DecrementZero,
         RegisterFile
<1>2. req[r] \in Handler /\ GoodSession(req[r].loc)
  BY <1>1, Running
<1>3. UNCHANGED <<hash, blob, object, published, used>>
  BY DEF InitiateIncrement, UpdateProbe, DecrementHincrby, DecrementZero,
         RegisterFile, redis, store
<1>4. {"create", "hset", "zero"} \subseteq Calm
  BY DEF Calm, PCs, Assembled
<1>5. \E g : Become(r, g) /\ Leaves(g, req[r], w)
  <2>1. CASE InitiateIncrement(r, o)
    BY <1>2, <1>4, <2>1, LeavesTargets DEF InitiateIncrement
  <2>2. CASE UpdateProbe(r, o)
    BY <1>2, <1>4, <2>2, LeavesTargets DEF UpdateProbe
  <2>3. CASE DecrementHincrby(r, o)
    BY <1>2, <1>4, <2>3, LeavesTargets DEF DecrementHincrby
  <2>4. CASE DecrementZero(r, o)
    BY <1>2, <2>4, LeavesTargets DEF DecrementZero
  <2>5. CASE RegisterFile(r, o)
    <3> DEFINE g == [req[r] EXCEPT !.pc = "cleanup", !.k = 1]
    <3>1. g.pc = "cleanup" /\ g.sid = req[r].sid /\ g.loc = req[r].loc
      BY <1>2 DEF Handler
    <3>2. Become(r, g)
      BY <2>5 DEF RegisterFile
    <3> HIDE DEF g
    <3> QED
      BY <3>1, <3>2 DEF Leaves, Calm, PCs, Assembled
  <2> QED
    BY <2>1, <2>2, <2>3, <2>4, <2>5
<1> QED
  BY <1>1, <1>3, <1>5, FileLeave

\* A worker dies.
LEMMA CrashFile ==
  ASSUME IndInv, NEW s \in SessionIds, NEW w, FileOK(s, w), NEW r \in Requests, Crash(r)
  PROVE  FileOK(s, w)'
<1>1. Become(r, Idle) /\ UNCHANGED <<hash, blob, object, published, used>>
  BY DEF Crash, redis
<1> QED
  BY <1>1, IdleFields, FileMove

\* head_object and the duplicate check: a handler that goes on keeps what it
\* has put together.
LEMMA CheckStepsFile ==
  ASSUME IndInv, NEW s \in SessionIds, NEW w, FileOK(s, w), NEW r \in Requests,
         NEW o \in Outcomes, CheckFileExists(r, o) \/ CheckDuplicate(r, o)
  PROVE  FileOK(s, w)'
<1> DEFINE h == req[r]
<1>1. h.pc \in {"head", "dedup"} /\ h.pc # "idle"
  BY DEF CheckFileExists, CheckDuplicate
<1>2. h \in Handler /\ GoodSession(h.loc)
  BY <1>1, Running
<1>3. UNCHANGED <<hash, blob, object, published, used>>
  BY DEF CheckFileExists, CheckDuplicate, redis
<1>4. \/ Become(r, Fail(h))
      \/ Become(r, Save(h, MarkFailed(h.loc), "dup"))
      \/ h.pc = "head" /\ Become(r, [h EXCEPT !.pc = "assemble"])
      \/ h.pc = "dedup" /\ Become(r, [h EXCEPT !.pc = "publish"])
  BY DEF CheckFileExists, CheckDuplicate
<1>5. CASE Become(r, Fail(h)) \/ Become(r, Save(h, MarkFailed(h.loc), "dup"))
  <2>1. Leaves(Fail(h), h, w) /\ Leaves(Save(h, MarkFailed(h.loc), "dup"), h, w)
    BY <1>2, LeavesTargets DEF Callers
  <2> QED
    BY <1>1, <1>3, <1>5, <2>1, FileLeave
<1>6. ASSUME NEW p \in {"assemble", "publish"}, Become(r, [h EXCEPT !.pc = p]),
             p = "assemble" => h.pc = "head", p = "publish" => h.pc = "dedup"
      PROVE  FileOK(s, w)'
  <2> DEFINE g == [h EXCEPT !.pc = p]
  <2>1. g.pc = p /\ g.sid = h.sid /\ g.loc = h.loc /\ g.got = h.got
    BY <1>2, PcFields DEF PCs
  <2> HIDE DEF g
  <2>2. ASSUME g.sid = s PROVE s \in used /\ HandlerFileOK(g, w, object[s])
    <3>1. s \in used /\ HandlerFileOK(h, w, object[s])
      BY <1>1, <2>1, <2>2, RunningFile
    <3> QED
      BY <1>1, <1>6, <2>1, <3>1 DEF HandlerFileOK, Assembled, Verified
  <2>3. Become(r, g)
    BY <1>6 DEF g
  <2> QED
    BY <1>3, <2>2, <2>3, FileMove
<1> QED
  BY <1>4, <1>5, <1>6

\* A chunk read from Redis is the next one of the file.
LEMMA RetrieveChunkFile ==
  ASSUME IndInv, NEW s \in SessionIds, NEW w, FileOK(s, w), NEW r \in Requests,
         NEW o \in Outcomes, RetrieveChunk(r, o)
  PROVE  FileOK(s, w)'
<1> DEFINE h == req[r]
           n == Len(h.got)
           chunk == blob[h.sid][n]
           got == Append(h.got, chunk)
           next == IF Len(got) = Len(h.loc.manifest) THEN "head" ELSE "get"
           f == [h EXCEPT !.got = got, !.pc = next]
<1>1. h.pc = "get" /\ h.pc # "idle"
  BY DEF RetrieveChunk
<1>2. /\ h \in Handler /\ GoodSession(h.loc) /\ h.sid \in SessionIds
      /\ HandlerOK(h, published) /\ h.loc \in UploadSessions
  BY <1>1, Running
<1>3. UNCHANGED <<hash, blob, object, published, used>>
  BY DEF RetrieveChunk, redis
<1>4. \/ Become(r, Fail(h)) \/ Become(r, Idle)
      \/ chunk # Null /\ Become(r, f)
  BY DEF RetrieveChunk
<1>5. CASE Become(r, Fail(h)) \/ Become(r, Idle)
  <2>1. Leaves(Fail(h), h, w) /\ Leaves(Idle, h, w)
    BY <1>2, LeavesTargets
  <2> QED
    BY <1>1, <1>3, <1>5, <2>1, FileLeave
<1>6. CASE chunk # Null /\ Become(r, f)
  <2>1. /\ n \in Nat /\ n < Len(h.loc.manifest) /\ Len(h.loc.manifest) \in Nat
        /\ h.got \in Seq(Content) /\ Len(h.loc.manifest) <= MaxSize /\ MaxSize \in Nat
    BY <1>1, <1>2, FieldTypes, MaxSizeAssumption DEF HandlerOK, GoodSession, Handler
  <2>2. n \in Indices
    BY <2>1 DEF Indices
  <2>3. chunk \in Content
    BY <1>2, <1>6, <2>2 DEF IndInv, TypeOK
  <2>4. /\ got \in Seq(Content) /\ Len(got) = n + 1
        /\ \A i \in 1 .. n : got[i] = h.got[i]
        /\ got[n + 1] = chunk
    BY <2>1, <2>3
  <2>5. next \in PCs /\ next \in {"head", "get"}
        /\ (next = "head" => Len(got) = Len(h.loc.manifest))
    BY DEF PCs
  <2> HIDE DEF got, next
  <2>6. f.pc = next /\ f.sid = h.sid /\ f.loc = h.loc /\ f.got = got
    BY <1>2 DEF Handler
  <2> HIDE DEF f
  <2>7. ASSUME f.sid = s PROVE s \in used /\ HandlerFileOK(f, w, object[s])
    <3>1. s \in used /\ HandlerFileOK(h, w, object[s]) /\ h.sid = s
      BY <1>1, <2>6, <2>7, RunningFile
    <3>2. /\ Follows(w, h.loc) /\ h.loc.offset = h.loc.size
          /\ n <= w.len /\ \A i \in 1 .. n : h.got[i] = w.data[i - 1]
      BY <1>1, <3>1 DEF HandlerFileOK, Prefix
    <3>3. n < w.len /\ chunk = w.data[n]
      BY <1>6, <2>2, <3>1 DEF FileOK, StoredFileOK
    <3>4. w.len \in Nat
      BY DEF FileOK, CutOK, Cut
    <3> HIDE DEF n, chunk
    <3>5. ASSUME NEW i \in 1 .. n + 1 PROVE got[i] = w.data[i - 1]
      <4>1. CASE i \in 1 .. n
        BY <2>4, <3>2, <4>1
      <4>2. CASE i = n + 1
        BY <2>1, <2>4, <3>3, <4>2
      <4> QED
        BY <2>1, <4>1, <4>2
    <3>6. Prefix(w, got)
      BY <2>1, <2>4, <3>3, <3>4, <3>5 DEF Prefix
    <3>7. next = "head" => w.at[Len(got)] = w.size
      BY <2>5, <3>2 DEF Follows
    <3>8. next = "head" => IsFile(w, got)
      BY <3>6, <3>7 DEF IsFile
    <3> QED
      BY <2>5, <2>6, <3>1, <3>2, <3>6, <3>8 DEF HandlerFileOK, Assembled, Verified
  <2> QED
    BY <1>3, <1>6, <2>7, FileMove
<1> QED
  BY <1>4, <1>5, <1>6

\* AbortUpload and CompleteUpload take the stored session over.
LEMMA AbortGetFile ==
  ASSUME IndInv, NEW s \in SessionIds, NEW w, FileOK(s, w), NEW r \in Requests,
         NEW t \in SessionIds, AbortGet(r, t)
  PROVE  FileOK(s, w)'
<1> DEFINE u == MarkAborted(hash[t])
           h == [Save(Idle, u, "abort") EXCEPT !.sid = t]
<1>1. hash[t] # Null /\ Become(r, h) /\ UNCHANGED <<hash, blob, object, published, used>>
  BY DEF AbortGet, Found, redis
<1>2. h.pc = "probe" /\ h.sid = t /\ h.loc = u
  BY DEF Save, Idle
<1> HIDE DEF h
<1>3. ASSUME t = s PROVE s \in used /\ HandlerFileOK(h, w, object[s])
  <2>1. GoodSession(hash[s]) /\ Follows(w, hash[s]) /\ s \in used
    BY <1>1, <1>3 DEF IndInv, StoredOK, FileOK, StoredFileOK, Fresh
  <2>2. Follows(w, u)
    BY <1>3, <2>1, FollowsMarks
  <2> QED
    BY <1>2, <2>1, <2>2, CalmOK DEF Calm, PCs, Assembled
<1> QED
  BY <1>1, <1>2, <1>3, FileMove

LEMMA CompleteGetFile ==
  ASSUME IndInv, NEW s \in SessionIds, NEW w, FileOK(s, w), NEW r \in Requests,
         NEW t \in SessionIds, CompleteGet(r, t)
  PROVE  FileOK(s, w)'
<1> DEFINE h == [Idle EXCEPT !.pc = "get", !.sid = t, !.loc = hash[t]]
<1>1. /\ hash[t] # Null /\ Become(r, h)
      /\ UNCHANGED <<hash, blob, object, published, used>>
      /\ hash[t].offset = hash[t].size
  BY DEF CompleteGet, Found, Completable, redis
<1>2. h.pc = "get" /\ h.sid = t /\ h.loc = hash[t] /\ h.got = <<>>
  BY DEF Idle
<1> HIDE DEF h
<1>3. ASSUME t = s PROVE s \in used /\ HandlerFileOK(h, w, object[s])
  <2>1. Follows(w, hash[s]) /\ s \in used /\ w \in Cut
    BY <1>1, <1>3 DEF FileOK, CutOK, StoredFileOK, Fresh
  <2>2. Prefix(w, h.got)
    BY <1>2, <2>1 DEF Prefix, Cut
  <2> QED
    BY <1>1, <1>2, <1>3, <2>1, <2>2 DEF HandlerFileOK, Assembled, Verified
<1> QED
  BY <1>1, <1>2, <1>3, FileMove

----------------------------------------------------------------------------
(* The stored session *)

\* create_session and update_session store the handler's copy, and
\* delete_session removes it.
LEMMA StoreStepsFile ==
  ASSUME IndInv, NEW s \in SessionIds, NEW w, FileOK(s, w), NEW r \in Requests,
         NEW o \in Outcomes,
         InitiateCreate(r, o) \/ UpdateHset(r, o) \/ DeleteSession(r, o)
  PROVE  FileOK(s, w)'
<1> DEFINE h == req[r]
<1>1. h.pc # "idle"
  BY DEF InitiateCreate, UpdateHset, DeleteSession
<1>2. h \in Handler /\ GoodSession(h.loc) /\ h.sid \in SessionIds
  BY <1>1, Running
<1>3. UNCHANGED <<blob, object, published, used>>
  BY DEF InitiateCreate, UpdateHset, DeleteSession
<1>4. hash \in [SessionIds -> UploadSessions \cup {Null}]
  BY DEF IndInv, TypeOK
<1>5. \/ hash' = hash
      \/ hash' = [hash EXCEPT ![h.sid] = h.loc]
      \/ hash' = [hash EXCEPT ![h.sid] = Null]
  BY DEF InitiateCreate, UpdateHset, DeleteSession, store
<1>6. \E g : Become(r, g) /\ Leaves(g, h, w)
  <2>1. CASE InitiateCreate(r, o)
    <3> DEFINE g == [h EXCEPT !.pc = "decr", !.caller = "initfail"]
    <3>1. g.pc = "decr" /\ g.sid = h.sid /\ g.loc = h.loc
      BY <1>2 DEF Handler
    <3>2. Become(r, g) \/ Become(r, Idle)
      BY <2>1 DEF InitiateCreate
    <3> HIDE DEF g
    <3>3. Leaves(g, h, w)
      BY <3>1 DEF Leaves, Calm, PCs, Assembled
    <3> QED
      BY <1>2, <3>2, <3>3, LeavesTargets
  <2>2. CASE UpdateHset(r, o)
    BY <1>2, <2>2, LeavesTargets DEF UpdateHset
  <2>3. CASE DeleteSession(r, o)
    <3>1. "decr" \in Calm
      BY DEF Calm, PCs, Assembled
    <3> QED
      BY <1>2, <2>3, <3>1, LeavesTargets DEF DeleteSession
  <2> QED
    BY <2>1, <2>2, <2>3
<1>7. PICK g : Become(r, g) /\ Leaves(g, h, w)
  BY <1>6
<1>8. h.sid = s => s \in used /\ Follows(w, h.loc)
  BY <1>1, RunningFile
<1>9. g.pc # "idle" /\ g.sid = s => s \in used /\ HandlerFileOK(g, w, object[s])
  BY <1>7, <1>8, CalmOK DEF Leaves
<1> HIDE DEF h
<1>10. h.sid # s => hash'[s] = hash[s]
  BY <1>4, <1>5
<1>11. hash'[s] # Null => hash'[s] = hash[s] \/ Follows(w, hash'[s])
  BY <1>2, <1>4, <1>5, <1>8, <1>10
<1> QED
  BY <1>3, <1>7, <1>8, <1>9, <1>10, <1>11, FileMove

\* Keys expire; HEAD reads.
LEMMA LapsesFile ==
  ASSUME IndInv, NEW s \in SessionIds, NEW w, FileOK(s, w), NEW t \in SessionIds,
         \/ SessionLapses(t) \/ MetaLapses(t) \/ QueryOffset(t)
         \/ \E i \in Indices : ChunkLapses(t, i)
  PROVE  FileOK(s, w)'
<1>1. UNCHANGED <<object, published, req, used>>
  BY DEF SessionLapses, MetaLapses, QueryOffset, ChunkLapses
<1>2. /\ hash \in [SessionIds -> UploadSessions \cup {Null}]
      /\ blob \in [SessionIds -> [Indices -> Content \cup {Null}]]
  BY DEF IndInv, TypeOK
<1>3. CASE SessionLapses(t)
  <2>1. blob' = blob /\ t \in used /\ hash'[s] \in {hash[s], Null} /\ (t # s => hash'[s] = hash[s])
    BY <1>2, <1>3 DEF SessionLapses
  <2> QED
    BY <1>1, <2>1, FileStep
<1>4. CASE MetaLapses(t) \/ QueryOffset(t)
  <2>1. blob' = blob /\ hash' = hash
    BY <1>4 DEF MetaLapses, QueryOffset, redis
  <2> QED
    BY <1>1, <2>1, FileStep
<1>5. ASSUME NEW i \in Indices, ChunkLapses(t, i) PROVE FileOK(s, w)'
  <2>1. /\ hash' = hash /\ blob[t][i] # Null
        /\ blob' = [blob EXCEPT ![t][i] = Null]
    BY <1>5 DEF ChunkLapses, store
  <2>2. t # s => blob'[s] = blob[s]
    BY <1>2, <2>1
  <2>3. \A j \in Indices : blob'[s][j] \in {blob[s][j], Null}
    BY <1>2, <2>1
  <2>4. t = s => s \in used
    BY <2>1 DEF FileOK, StoredFileOK, Fresh
  <2>5. s \in used' \/ (hash'[s] = hash[s] /\ blob'[s] = blob[s])
    BY <1>1, <2>1, <2>2, <2>4
  <2>6. \A j \in Indices : blob'[s][j] # Null => blob'[s][j] = blob[s][j]
    BY <2>3
  <2>7. hash' = hash
    BY <2>1
  <2>8. CutOK(s, w) /\ StoredFileOK(s, w) /\ \A q \in Requests : HandledFileOK(q, s, w)
    BY DEF FileOK
  <2>9. StoredFileOK(s, w)'
    <3>1. s \notin used => Fresh(s)'
      BY <1>1, <2>5, <2>7, <2>8 DEF StoredFileOK, Fresh
    <3>2. \A j \in Indices : blob'[s][j] # Null => j < w.len /\ blob'[s][j] = w.data[j]
      BY <2>6, <2>8 DEF StoredFileOK
    <3> QED
      BY <1>1, <2>7, <2>8, <3>1, <3>2 DEF StoredFileOK
  <2>10. \A q \in Requests : HandledFileOK(q, s, w)'
    BY <1>1, <2>8 DEF HandledFileOK
  <2> QED
    BY <2>8, <2>9, <2>10 DEF FileOK
<1> QED
  BY <1>3, <1>4, <1>5

----------------------------------------------------------------------------
(* The chunks in Redis *)

\* The chunk of a handler goes under its own index, and the session that the
\* handler then saves has one chunk more of the file.
LEMMA ChunkSetFile ==
  ASSUME IndInv, NEW s \in SessionIds, NEW w, FileOK(s, w), NEW r \in Requests,
         NEW o \in Outcomes, ChunkSet(r, o)
  PROVE  FileOK(s, w)'
<1> DEFINE h == req[r]
           n == Len(h.loc.manifest)
           off == h.loc.offset + Len(h.data)
           v == UpdateOffset(AddChunk(h.loc, n, Len(h.data), h.data), off)
           u == MarkInProgress(v)
<1>1. h.pc = "set" /\ h.pc # "idle"
  BY DEF ChunkSet
<1>2. /\ h \in Handler /\ GoodSession(h.loc) /\ h.sid \in SessionIds
      /\ h.loc \in UploadSessions /\ h.data \in Content /\ n \in Nat
      /\ Len(h.data) > 0 /\ Len(h.data) \in Nat
  <2>1. h \in Handler /\ GoodSession(h.loc) /\ h.sid \in SessionIds /\ HandlerOK(h, published)
    BY <1>1, Running
  <2>2. h.data \in Content /\ Len(h.data) > 0
    BY <1>1, <2>1 DEF HandlerOK, Handler
  <2>3. h.loc \in UploadSessions
    BY <2>1 DEF GoodSession
  <2>4. n \in Nat /\ Len(h.data) \in Nat
    BY <2>2, <2>3, FieldTypes DEF Content
  <2> QED
    BY <2>1, <2>2, <2>3, <2>4
<1>3. /\ UNCHANGED <<hash, object, published, used>>
      /\ blob' = blob \/ blob' = [blob EXCEPT ![h.sid][n] = h.data]
      /\ \/ Become(r, Idle)
         \/ CanUpdateOffset(h.loc, off) /\ Become(r, Save(h, u, "chunk"))
  BY DEF ChunkSet, store
<1>4. blob \in [SessionIds -> [Indices -> Content \cup {Null}]]
  BY DEF IndInv, TypeOK
<1>5. h.sid = s => /\ s \in used /\ Follows(w, h.loc)
                   /\ n < w.len /\ h.data = w.data[n]
  <2> SUFFICES ASSUME h.sid = s
               PROVE  /\ s \in used /\ Follows(w, h.loc)
                      /\ n < w.len /\ h.data = w.data[n]
    OBVIOUS
  <2>1. s \in used /\ HandlerFileOK(h, w, object[s])
    BY <1>1, RunningFile
  <2> QED
    BY <1>1, <2>1 DEF HandlerFileOK
<1>6. \A i \in Indices :
        blob'[s][i] # Null =>
          blob'[s][i] = blob[s][i] \/ (i < w.len /\ blob'[s][i] = w.data[i])
  <2> HIDE DEF h, n
  <2>1. CASE h.sid = s
    BY <1>3, <1>4, <1>5, <2>1
  <2>2. CASE h.sid # s
    BY <1>3, <1>4, <2>2
  <2> QED
    BY <2>1, <2>2
<1>7. ChunksKept(s, w)
  <2> HIDE DEF h, n
  <2>1. s \in used \/ blob'[s] = blob[s]
    BY <1>3, <1>4, <1>5
  <2> QED
    BY <1>6, <2>1 DEF ChunksKept
<1>8. CASE Become(r, Idle)
  <2>1. Idle.pc = "idle"
    BY IdleFields
  <2> HIDE DEF h, n, off, v, u
  <2> QED
    BY <1>3, <1>7, <1>8, <2>1, FileMoveChunks
<1>9. CASE CanUpdateOffset(h.loc, off) /\ Become(r, Save(h, u, "chunk"))
  <2>1. /\ GoodSession(v) /\ v.sha256 = h.loc.sha256 /\ v.size = h.loc.size
        /\ v.offset = off
        /\ v.manifest = Append(h.loc.manifest,
                               [index |-> n, size |-> Len(h.data), checksum |-> h.data])
    BY <1>2, <1>9, ReceiveGood
  <2> HIDE DEF v
  <2>2. ASSUME h.sid = s PROVE Follows(w, v)
    <3>1. Len(v.manifest) = n + 1 /\ v.manifest[n + 1].checksum = h.data
          /\ \A i \in 1 .. n : v.manifest[i] = h.loc.manifest[i]
      BY <1>2, <2>1, FieldTypes
    <3>2. w \in Cut /\ \A i \in 0 .. w.len - 1 : w.at[i + 1] = w.at[i] + Len(w.data[i])
      BY DEF FileOK, CutOK
    <3>3. w.len \in Nat
      BY <3>2 DEF Cut
    <3>4. h.loc.offset = w.at[n] /\ \A i \in 1 .. n : h.loc.manifest[i].checksum = w.data[i - 1]
      BY <1>5, <2>2 DEF Follows
    <3> HIDE DEF n
    <3>5. v.offset = w.at[n + 1]
      BY <1>2, <1>5, <2>1, <2>2, <3>2, <3>3, <3>4
    <3>6. ASSUME NEW i \in 1 .. n + 1 PROVE v.manifest[i].checksum = w.data[i - 1]
      <4>1. CASE i \in 1 .. n
        BY <3>1, <3>4, <4>1
      <4>2. CASE i = n + 1
        BY <1>2, <1>5, <2>2, <3>1, <4>2
      <4> QED
        BY <1>2, <4>1, <4>2
    <3>7. n + 1 <= w.len
      BY <1>2, <1>5, <2>2, <3>3
    <3>8. v.sha256 = w.sha /\ v.size = w.size
      BY <1>5, <2>1, <2>2 DEF Follows
    <3> QED
      BY <3>1, <3>5, <3>6, <3>7, <3>8 DEF Follows
  <2>3. u \in UploadSessions /\ (Follows(w, v) => Follows(w, u))
    <3> DEFINE t == IF v.status = "PENDING" THEN "IN_PROGRESS" ELSE v.status
    <3>1. t \in Status /\ u = [v EXCEPT !.status = t]
      BY <2>1, FieldTypes DEF MarkInProgress, Status, GoodSession
    <3> HIDE DEF t, u
    <3> QED
      BY <2>1, <3>1, StatusGood, FollowsStatus DEF GoodSession
  <2> HIDE DEF u
  <2> DEFINE g == Save(h, u, "chunk")
  <2>4. g.pc = "probe" /\ g.sid = h.sid /\ g.loc = u
    <3>1. "chunk" \in Callers
      BY DEF Callers
    <3> HIDE DEF h
    <3> QED
      BY <1>2, <2>3, <3>1, SaveFields
  <2>5. Become(r, g)
    BY <1>9
  <2> HIDE DEF g
  <2>6. ASSUME g.sid = s PROVE s \in used /\ HandlerFileOK(g, w, object[s])
    <3>1. Follows(w, g.loc) /\ s \in used
      BY <1>5, <2>2, <2>3, <2>4, <2>6
    <3>2. g.pc \in Calm
      BY <2>4 DEF Calm, PCs, Assembled
    <3> QED
      BY <3>1, <3>2, CalmOK
  <2> HIDE DEF h, n, off
  <2> QED
    BY <1>3, <1>7, <2>5, <2>6, FileMoveChunks
<1> QED
  BY <1>3, <1>8, <1>9

\* _cleanup_chunks only removes.
LEMMA CleanupChunkFile ==
  ASSUME IndInv, NEW s \in SessionIds, NEW w, FileOK(s, w), NEW r \in Requests,
         NEW o \in Outcomes, CleanupChunk(r, o)
  PROVE  FileOK(s, w)'
<1> DEFINE h == req[r]
           index == h.loc.manifest[h.k].index
           f == [h EXCEPT !.k = h.k + 1]
<1>1. h.pc = "cleanup" /\ h.pc # "idle"
  BY DEF CleanupChunk
<1>2. h \in Handler /\ GoodSession(h.loc) /\ h.sid \in SessionIds
  BY <1>1, Running
<1>3. /\ UNCHANGED <<hash, object, published, used>>
      /\ blob' = blob \/ blob' = [blob EXCEPT ![h.sid][index] = Null]
      /\ Become(r, Idle) \/ Become(r, f)
  BY DEF CleanupChunk, store
<1>4. blob \in [SessionIds -> [Indices -> Content \cup {Null}]]
  BY DEF IndInv, TypeOK
<1>5. f.pc = "cleanup" /\ f.sid = h.sid /\ f.loc = h.loc
  BY <1>1, <1>2 DEF Handler
<1>6. Leaves(f, h, w) /\ Leaves(Idle, h, w)
  <2> HIDE DEF f
  <2>1. Leaves(f, h, w)
    BY <1>5 DEF Leaves, Calm, PCs, Assembled
  <2> QED
    BY <1>2, <2>1, LeavesTargets
<1> HIDE DEF f, index
<1>7. PICK g : Become(r, g) /\ Leaves(g, h, w)
  BY <1>3, <1>6
<1>8. h.sid = s => s \in used /\ Follows(w, h.loc)
  BY <1>1, RunningFile
<1>9. g.pc # "idle" /\ g.sid = s => s \in used /\ HandlerFileOK(g, w, object[s])
  BY <1>7, <1>8, CalmOK DEF Leaves
<1> HIDE DEF h
<1>10. \A i \in Indices : blob'[s][i] # Null => blob'[s][i] = blob[s][i]
  BY <1>3, <1>4
<1>11. ChunksKept(s, w)
  <2>1. s \in used \/ blob'[s] = blob[s]
    BY <1>3, <1>4, <1>8
  <2> QED
    BY <1>10, <2>1 DEF ChunksKept
<1>12. UNCHANGED <<hash, object, published, used>>
  BY <1>3
<1> QED
  BY <1>7, <1>9, <1>11, <1>12, FileMoveChunks

----------------------------------------------------------------------------
(* The object in S3 *)

\* An object that appears is the whole file.
LEMMA ObjectAppears ==
  ASSUME IndInv, NEW s \in SessionIds, NEW w, FileOK(s, w), NEW r \in Requests,
         NEW g, Become(r, g), UNCHANGED <<hash, blob, published, used>>,
         object'[s] = object[s] \/ (object[s] = Null /\ IsFile(w, object'[s])),
         g.pc # "idle" /\ g.sid = s => s \in used /\ HandlerFileOK(g, w, object'[s]),
         s \notin used => object'[s] = object[s]
  PROVE  FileOK(s, w)'
<1>1. CutOK(s, w) /\ StoredFileOK(s, w) /\ \A q \in Requests : HandledFileOK(q, s, w)
  BY DEF FileOK
<1>2. StoredFileOK(s, w)'
  BY <1>1 DEF StoredFileOK, Fresh
<1>3. req \in [Requests -> Handler]
  BY DEF IndInv, TypeOK
<1>4. \A q \in Requests : req'[q] = req[q] \/ req'[q] = g
  BY <1>3 DEF Become
<1>5. ASSUME NEW h, HandlerFileOK(h, w, object[s]) PROVE HandlerFileOK(h, w, object'[s])
  BY <1>5 DEF HandlerFileOK
<1>6. ASSUME NEW q \in Requests PROVE HandledFileOK(q, s, w)'
  <2>1. CASE req'[q] = req[q]
    BY <1>1, <1>5, <2>1 DEF HandledFileOK
  <2>2. CASE req'[q] = g
    BY <2>2 DEF HandledFileOK
  <2> QED
    BY <1>4, <2>1, <2>2
<1> QED
  BY <1>1, <1>2, <1>6 DEF FileOK

LEMMA AssembleFileFile ==
  ASSUME IndInv, NEW s \in SessionIds, NEW w, FileOK(s, w), NEW r \in Requests,
         NEW o \in Outcomes, AssembleFile(r, o)
  PROVE  FileOK(s, w)'
<1> DEFINE h == req[r]
<1>1. h.pc = "assemble" /\ h.pc # "idle"
  BY DEF AssembleFile
<1>2. h \in Handler /\ GoodSession(h.loc) /\ h.sid \in SessionIds /\ h.got \in Seq(Content)
  BY <1>1, Running DEF Handler
<1>3. /\ UNCHANGED <<hash, blob, published, used>>
      /\ object' = object \/ object' = [object EXCEPT ![h.sid] = h.got]
  BY DEF AssembleFile, redis
<1>4. \/ Become(r, Fail(h))
      \/ /\ Become(r, [h EXCEPT !.pc = "dedup"]) /\ Concat(h.got) = h.loc.sha256
         /\ object' = [object EXCEPT ![h.sid] = h.got]
      \/ Become(r, [h EXCEPT !.pc = "s3del"]) /\ Concat(h.got) # h.loc.sha256
  BY DEF AssembleFile, Applied, Raises
<1>5. object \in [SessionIds -> Seq(Content) \cup {Null}]
  BY DEF IndInv, TypeOK
<1>6. h.sid = s => /\ s \in used /\ Follows(w, h.loc) /\ IsFile(w, h.got)
                   /\ h.loc.sha256 = w.sha
  <2> SUFFICES ASSUME h.sid = s
               PROVE  /\ s \in used /\ Follows(w, h.loc) /\ IsFile(w, h.got)
                      /\ h.loc.sha256 = w.sha
    OBVIOUS
  <2>1. s \in used /\ HandlerFileOK(h, w, object[s])
    BY <1>1, RunningFile
  <2> QED
    BY <1>1, <2>1 DEF HandlerFileOK, Assembled, Follows
<1>7. /\ object'[s] = object[s] \/ (object[s] = Null /\ IsFile(w, object'[s]))
      /\ s \notin used => object'[s] = object[s]
  <2>1. CASE h.sid # s
    BY <1>3, <1>5, <2>1
  <2>2. CASE h.sid = s
    <3>1. object'[s] = object[s] \/ object'[s] = h.got
      BY <1>3, <1>5, <2>2
    <3>2. object[s] # Null => object[s] = h.got
      <4> SUFFICES ASSUME object[s] # Null PROVE object[s] = h.got
        OBVIOUS
      <4>1. object[s] \in Seq(Content) /\ IsFile(w, object[s]) /\ CutOK(s, w)
        BY <1>5 DEF FileOK, StoredFileOK
      <4> QED
        BY <1>2, <1>6, <2>2, <4>1, OneFile
    <3> QED
      BY <1>6, <2>2, <3>1, <3>2
  <2> QED
    BY <2>1, <2>2
<1>8. CASE Become(r, Fail(h))
  <2>1. Leaves(Fail(h), h, w)
    BY <1>2, LeavesTargets
  <2> DEFINE g == Fail(h)
  <2>2. Become(r, g) /\ Leaves(g, h, w)
    BY <1>8, <2>1
  <2> HIDE DEF g
  <2>3. g.pc # "idle" /\ g.sid = s => s \in used /\ HandlerFileOK(g, w, object'[s])
    BY <1>6, <2>2, CalmOK DEF Leaves
  <2> HIDE DEF h
  <2> QED
    BY <1>3, <1>7, <2>2, <2>3, ObjectAppears
<1>9. CASE /\ Become(r, [h EXCEPT !.pc = "dedup"]) /\ Concat(h.got) = h.loc.sha256
           /\ object' = [object EXCEPT ![h.sid] = h.got]
  <2> DEFINE g == [h EXCEPT !.pc = "dedup"]
  <2>1. g.pc = "dedup" /\ g.sid = h.sid /\ g.loc = h.loc /\ g.got = h.got
    BY <1>2, PcFields DEF PCs
  <2>2. Become(r, g)
    BY <1>9
  <2> HIDE DEF g
  <2>3. ASSUME g.sid = s PROVE s \in used /\ HandlerFileOK(g, w, object'[s])
    <3>1. h.sid = s
      BY <2>1, <2>3
    <3>2. object'[s] = h.got /\ h.got # Null
      BY <1>2, <1>5, <1>9, <3>1, ServiceAssumption
    <3> QED
      BY <1>6, <1>9, <2>1, <3>1, <3>2 DEF HandlerFileOK, Assembled, Verified
  <2> HIDE DEF h
  <2> QED
    BY <1>3, <1>7, <2>2, <2>3, ObjectAppears
<1>10. CASE Become(r, [h EXCEPT !.pc = "s3del"]) /\ Concat(h.got) # h.loc.sha256
  <2> DEFINE g == [h EXCEPT !.pc = "s3del"]
  <2>1. g.pc = "s3del" /\ g.sid = h.sid /\ g.loc = h.loc /\ g.got = h.got
    BY <1>2, PcFields DEF PCs
  <2>2. Become(r, g)
    BY <1>10
  <2> HIDE DEF g
  <2>3. ASSUME g.sid = s PROVE s \in used /\ HandlerFileOK(g, w, object'[s])
    BY <1>6, <1>10, <2>1, <2>3 DEF HandlerFileOK, Assembled, Verified
  <2> HIDE DEF h
  <2> QED
    BY <1>3, <1>7, <2>2, <2>3, ObjectAppears
<1> QED
  BY <1>4, <1>8, <1>9, <1>10

\* An object is deleted only when its checksum is wrong, and then no handler
\* has verified it and no event has announced it.
LEMMA DeleteCorruptFile ==
  ASSUME IndInv, NEW s \in SessionIds, NEW w, FileOK(s, w), NEW r \in Requests,
         NEW o \in Outcomes, DeleteCorrupt(r, o)
  PROVE  FileOK(s, w)'
<1> DEFINE h == req[r]
           g == Fail(h)
<1>1. h.pc = "s3del" /\ h.pc # "idle"
  BY DEF DeleteCorrupt
<1>2. h \in Handler /\ GoodSession(h.loc) /\ h.sid \in SessionIds /\ h.got \in Seq(Content)
  BY <1>1, Running DEF Handler
<1>3. /\ UNCHANGED <<hash, blob, published, used>> /\ Become(r, g)
      /\ object' = object \/ object' = [object EXCEPT ![h.sid] = Null]
  BY DEF DeleteCorrupt, redis
<1>4. object \in [SessionIds -> Seq(Content) \cup {Null}]
  BY DEF IndInv, TypeOK
<1>5. Leaves(g, h, w)
  BY <1>2, LeavesTargets
<1> HIDE DEF g
<1>6. h.sid = s => s \in used /\ Follows(w, h.loc)
  BY <1>1, RunningFile
<1>7. g.pc # "idle" /\ g.sid = s => s \in used /\ \A x : HandlerFileOK(g, w, x)
  BY <1>5, <1>6, CalmOK DEF Leaves
<1>8. CASE object'[s] = object[s]
  <2> HIDE DEF h
  <2> QED
    BY <1>3, <1>7, <1>8, FileMove
<1>9. CASE object'[s] # object[s]
  <2>1. h.sid = s /\ object'[s] = Null
    BY <1>3, <1>4, <1>9
  <2>2. IsFile(w, h.got) /\ Concat(h.got) # w.sha /\ s \in used
    <3>1. s \in used /\ HandlerFileOK(h, w, object[s])
      BY <1>1, <2>1, RunningFile
    <3> QED
      BY <1>1, <3>1 DEF HandlerFileOK, Assembled
  <2>3. CutOK(s, w) /\ StoredFileOK(s, w) /\ \A q \in Requests : HandledFileOK(q, s, w)
    BY DEF FileOK
  <2>4. ASSUME NEW x \in Seq(Content), IsFile(w, x) PROVE Concat(x) # w.sha
    BY <1>2, <2>2, <2>3, <2>4, OneFile
  <2>5. ASSUME NEW e \in published PROVE e.file # s
    <3> SUFFICES ASSUME e.file = s PROVE FALSE
      OBVIOUS
    <3>1. object[s] # Null /\ IsFile(w, object[s]) /\ Concat(object[s]) = w.sha
      BY <2>3 DEF StoredFileOK
    <3> QED
      BY <1>4, <2>4, <3>1
  <2>6. StoredFileOK(s, w)'
    BY <1>3, <2>1, <2>2, <2>3, <2>5 DEF StoredFileOK, Fresh
  <2>7. req \in [Requests -> Handler]
    BY DEF IndInv, TypeOK
  <2>8. \A q \in Requests : req'[q] = req[q] \/ req'[q] = g
    BY <1>3, <2>7 DEF Become
  <2>9. ASSUME NEW q \in Requests PROVE HandledFileOK(q, s, w)'
    <3>1. CASE req'[q] = g
      BY <1>3, <1>7, <3>1 DEF HandledFileOK
    <3>2. CASE req'[q] = req[q]
      <4> SUFFICES ASSUME req[q].pc # "idle", req[q].sid = s
                   PROVE  HandlerFileOK(req[q], w, Null)
        BY <1>3, <2>1, <2>2, <3>2 DEF HandledFileOK
      <4>1. HandlerFileOK(req[q], w, object[s])
        BY <2>3 DEF HandledFileOK
      <4>2. req[q].got \in Seq(Content)
        BY <2>7 DEF Handler
      <4>3. req[q].pc \notin Verified
        BY <2>4, <4>1, <4>2 DEF HandlerFileOK, Assembled, Verified
      <4> QED
        BY <4>1, <4>3 DEF HandlerFileOK
    <3> QED
      BY <2>8, <3>1, <3>2
  <2> QED
    BY <2>3, <2>6, <2>9 DEF FileOK
<1> QED
  BY <1>8, <1>9

\* The announced file is the one in S3, whoever put it there.
LEMMA PublishEventFile ==
  ASSUME IndInv, NEW s \in SessionIds, NEW w, FileOK(s, w), NEW r \in Requests,
         NEW o \in Outcomes, PublishEvent(r, o)
  PROVE  FileOK(s, w)'
<1> DEFINE h == req[r]
           g == AfterPublish(h, o)
           e == [file |-> h.sid, sha256 |-> h.loc.sha256]
<1>1. h.pc = "publish" /\ h.pc # "idle"
  BY DEF PublishEvent
<1>2. h \in Handler /\ GoodSession(h.loc) /\ h.sid \in SessionIds /\ h.got \in Seq(Content)
  BY <1>1, Running DEF Handler
<1>3. /\ UNCHANGED <<hash, blob, object, used>> /\ Become(r, g)
      /\ published' = published \/ published' = published \cup {e}
  BY DEF PublishEvent, redis
<1>4. Leaves(g, h, w)
  <2>1. "pubfail" \in Callers /\ "complete" \in Callers
    BY DEF Callers
  <2> QED
    BY <1>2, <2>1, LeavesTargets DEF AfterPublish
<1> HIDE DEF g
<1>5. h.sid = s => s \in used /\ Follows(w, h.loc)
  BY <1>1, RunningFile
<1>6. g.pc # "idle" /\ g.sid = s => s \in used /\ HandlerFileOK(g, w, object[s])
  BY <1>4, <1>5, CalmOK DEF Leaves
<1>7. CASE h.sid # s
  <2>1. \A f \in published' : f.file = s => f \in published
    BY <1>3, <1>7
  <2> HIDE DEF h, e
  <2> QED
    BY <1>3, <1>6, <2>1, FileMove
<1>8. CASE h.sid = s
  <2>1. /\ object[s] # Null /\ IsFile(w, h.got) /\ Concat(h.got) = w.sha
        /\ s \in used /\ h.loc.sha256 = w.sha
    <3>1. s \in used /\ HandlerFileOK(h, w, object[s])
      BY <1>1, <1>8, RunningFile
    <3> QED
      BY <1>1, <3>1 DEF HandlerFileOK, Assembled, Verified, Follows
  <2>2. CutOK(s, w) /\ StoredFileOK(s, w) /\ \A q \in Requests : HandledFileOK(q, s, w)
    BY DEF FileOK
  <2>3. object[s] \in Seq(Content) /\ IsFile(w, object[s])
    BY <2>1, <2>2 DEF IndInv, TypeOK, StoredFileOK
  <2>4. object[s] = h.got
    BY <1>2, <2>1, <2>2, <2>3, OneFile
  <2>5. Concat(object[s]) = w.sha
    BY <2>1, <2>4
  <2>6. \A f \in published' :
          f.file = s => object[s] # Null /\ f.sha256 = w.sha /\ Concat(object[s]) = w.sha
    <3>1. \A f \in published' : f.file = s => f.sha256 = w.sha
      BY <1>3, <2>1, <2>2 DEF StoredFileOK
    <3> QED
      BY <2>1, <2>5, <3>1
  <2>7. StoredFileOK(s, w)'
    BY <1>3, <2>1, <2>2, <2>6 DEF StoredFileOK
  <2>8. req \in [Requests -> Handler]
    BY DEF IndInv, TypeOK
  <2>9. \A q \in Requests : req'[q] = req[q] \/ req'[q] = g
    BY <1>3, <2>8 DEF Become
  <2>10. \A q \in Requests : HandledFileOK(q, s, w)'
    BY <1>3, <1>6, <2>2, <2>9 DEF HandledFileOK
  <2> QED
    BY <2>2, <2>7, <2>10 DEF FileOK
<1> QED
  BY <1>7, <1>8

----------------------------------------------------------------------------
(* Steps that extend the file, or start one *)

\* A chunk longer than nothing extends the cut.
LEMMA CutGrows ==
  ASSUME CutsAlike, NEW s \in SessionIds, NEW w, CutOK(s, w),
         NEW p \in Patches[s], Sound(p), p.offset = w.at[w.len]
  PROVE  \E v : CutOK(s, v) /\ Extends(w, v) /\ v.len = w.len + 1 /\ v.data[w.len] = p.data
<1> DEFINE n == w.len
           a == w.at
           b == w.data
           c == p.data
           k == Len(c)
           m == a[n] + k
           at == [a EXCEPT ![n + 1] = m]
           data == [b EXCEPT ![n] = c]
           v == [size |-> w.size, sha |-> w.sha, len |-> n + 1, at |-> at, data |-> data]
<1>0. w \in Cut
  BY DEF CutOK
<1>1. /\ n \in Nat /\ a \in [Nat -> Nat] /\ b \in [Nat -> Content]
      /\ w.size \in Nat /\ w.sha \in Content
  BY <1>0 DEF Cut
<1>2. c \in Content /\ k \in Nat /\ k > 0
  <2>1. p \in [offset : Nat, data : Content, checksum : Content]
    BY ServiceAssumption
  <2>2. c \in Content
    BY <2>1
  <2> QED
    BY <2>2 DEF Content, Sound
<1>3. /\ a[0] = 0
      /\ \A i \in 0 .. n - 1 :
           /\ a[i + 1] = a[i] + Len(b[i])
           /\ \A q \in Patches[s] : Sound(q) /\ q.offset = a[i] => q.data = b[i]
      /\ \A i, j \in 0 .. n : i < j => a[i] < a[j]
  BY DEF CutOK
<1>4. \A q \in Patches[s] : Sound(q) /\ q.offset = a[n] => q.data = c
  BY DEF CutsAlike
<1>5. /\ v.len = n + 1 /\ v.at = at /\ v.data = data
      /\ v.size = w.size /\ v.sha = w.sha
  OBVIOUS
<1> HIDE DEF n, a, b, c, k
<1>6. a[n] \in Nat /\ m \in Nat /\ m > a[n]
  <2>1. a[n] \in Nat
    BY <1>1
  <2> QED
    BY <1>2, <2>1
<1> HIDE DEF m
<1>7. at \in [Nat -> Nat] /\ at[n + 1] = m /\ \A i \in 0 .. n : at[i] = a[i]
  BY <1>1, <1>6
<1>8. data \in [Nat -> Content] /\ data[n] = c /\ \A i \in 0 .. n - 1 : data[i] = b[i]
  <2>1. \A i \in 0 .. n - 1 : i \in Nat /\ i # n
    BY <1>1
  <2>2. data[n] = c /\ \A i \in Nat : i # n => data[i] = b[i]
    BY <1>1
  <2>3. data \in [Nat -> Content]
    BY <1>1, <1>2
  <2> QED
    BY <2>1, <2>2, <2>3
<1> HIDE DEF at, data
<1>9. v \in Cut
  <2>1. n + 1 \in Nat
    BY <1>1
  <2> QED
    BY <1>1, <1>7, <1>8, <2>1 DEF Cut
<1> HIDE DEF v
<1>10. ASSUME NEW i \in 0 .. n
       PROVE  /\ at[i + 1] = at[i] + Len(data[i])
              /\ \A q \in Patches[s] : Sound(q) /\ q.offset = at[i] => q.data = data[i]
  <2>1. CASE i \in 0 .. n - 1
    <3>1. i + 1 \in 0 .. n /\ i \in 0 .. n
      BY <1>1, <2>1
    <3>2. at[i + 1] = a[i + 1] /\ at[i] = a[i] /\ data[i] = b[i]
      BY <1>7, <1>8, <2>1, <3>1
    <3> QED
      BY <1>3, <2>1, <3>2
  <2>2. CASE i = n
    <3>1. at[i] = a[n] /\ data[i] = c /\ at[i + 1] = m
      BY <1>7, <1>8, <2>2
    <3> QED
      BY <1>4, <3>1 DEF m, k
  <2> QED
    BY <1>1, <2>1, <2>2
<1>11. ASSUME NEW i \in 0 .. n + 1, NEW j \in 0 .. n + 1, i < j PROVE at[i] < at[j]
  <2>0. i \in 0 .. n /\ (j \in 0 .. n \/ j = n + 1)
    BY <1>1, <1>11
  <2>1. at[i] = a[i] /\ a[i] \in Nat
    BY <1>1, <1>7, <2>0
  <2>2. CASE j \in 0 .. n
    BY <1>3, <1>7, <1>11, <2>0, <2>1, <2>2
  <2>3. CASE j = n + 1
    <3>1. CASE i = n
      BY <1>6, <1>7, <2>1, <2>3, <3>1
    <3>2. CASE i # n
      <4>1. i < n /\ n \in 0 .. n
        BY <1>1, <2>0, <3>2
      <4>2. a[i] < a[n]
        BY <1>3, <2>0, <4>1
      <4> QED
        BY <1>6, <1>7, <2>1, <2>3, <4>2
    <3> QED
      BY <3>1, <3>2
  <2> QED
    BY <2>0, <2>2, <2>3
<1>12. v.at[0] = 0
  BY <1>1, <1>3, <1>5, <1>7
<1>13. CutOK(s, v)
  <2>1. 0 .. v.len - 1 = 0 .. n
    BY <1>1, <1>5
  <2> QED
    BY <1>5, <1>9, <1>10, <1>11, <1>12, <2>1 DEF CutOK
<1>14. Extends(w, v)
  BY <1>1, <1>5, <1>7, <1>8 DEF Extends, n, a, b
<1> QED
  BY <1>5, <1>8, <1>13, <1>14 DEF n, c

\* A chunk that is accepted at the end of what was ever sent extends the
\* file; any other one repeats it.
LEMMA ChunkGetFile ==
  ASSUME CutsAlike, IndInv, NEW s \in SessionIds, NEW w, FileOK(s, w), NEW r \in Requests,
         NEW t \in SessionIds, NEW p \in Patches[t], ChunkGet(r, t, p)
  PROVE  \E v : FileOK(s, v)'
<1> DEFINE h == [Idle EXCEPT !.pc = "set", !.sid = t, !.loc = hash[t], !.data = p.data]
           n == Len(hash[t].manifest)
<1>1. /\ hash[t] # Null /\ Become(r, h) /\ AcceptsChunk(hash[t], p)
      /\ UNCHANGED <<hash, blob, object, published, used>>
  BY DEF ChunkGet, Found, redis
<1>2. h.pc = "set" /\ h.sid = t /\ h.loc = hash[t] /\ h.data = p.data
  BY DEF Idle
<1> HIDE DEF h
<1>3. Sound(p) /\ p.offset = hash[t].offset
  BY <1>1, ServiceAssumption DEF AcceptsChunk, VerifyChunk, Sound
<1>4. CASE t # s
  BY <1>1, <1>2, <1>4, FileMove
<1>5. CASE t = s
  <2>1. Follows(w, hash[s]) /\ s \in used /\ CutOK(s, w)
    BY <1>1, <1>5 DEF FileOK, StoredFileOK, Fresh
  <2>2. n \in Nat /\ n <= w.len /\ w.len \in Nat /\ p.offset = w.at[n]
    <3>1. n \in Nat
      BY <1>1, FieldTypes DEF IndInv, TypeOK
    <3>2. w.len \in Nat
      BY <2>1 DEF CutOK, Cut
    <3> QED
      BY <1>3, <1>5, <2>1, <3>1, <3>2 DEF Follows
  <2>3. ASSUME NEW v, FileOK(s, v), n < v.len, p.data = v.data[n]
        PROVE  FileOK(s, v)'
    <3>1. Follows(v, h.loc)
      BY <1>1, <1>2, <1>5, <2>3 DEF FileOK, StoredFileOK
    <3>2. HandlerFileOK(h, v, object[s])
      BY <1>2, <2>3, <3>1 DEF HandlerFileOK, Assembled, Verified
    <3> HIDE DEF n
    <3> QED
      BY <1>1, <2>1, <2>3, <3>2, FileMove
  <2>4. CASE n < w.len
    <3>1. p.data = w.data[n]
      BY <1>3, <1>5, <2>1, <2>2, <2>4 DEF CutOK
    <3> QED
      BY <2>3, <2>4, <3>1
  <2>5. CASE n = w.len
    <3>1. PICK v : /\ CutOK(s, v) /\ Extends(w, v)
                   /\ v.len = w.len + 1 /\ v.data[w.len] = p.data
      BY <1>3, <1>5, <2>1, <2>2, <2>5, CutGrows
    <3>2. FileOK(s, v)
      BY <3>1, FileExtends
    <3> QED
      BY <2>2, <2>3, <2>5, <3>1, <3>2
  <2> QED
    BY <2>2, <2>4, <2>5
<1> QED
  BY <1>4, <1>5

\* The file of a new session has no chunk yet.
LEMMA InitiateCheckFile ==
  ASSUME IndInv, NEW s \in SessionIds, NEW w, FileOK(s, w), NEW r \in Requests,
         NEW t \in SessionIds, NEW d \in Declarations, InitiateCheck(r, t, d)
  PROVE  \E v : FileOK(s, v)'
<1> DEFINE h == [Idle EXCEPT !.pc = "incr", !.sid = t, !.loc = NewSession(d.size, d.sha256)]
<1>1. /\ t \notin used /\ used' = used \cup {t} /\ Become(r, h)
      /\ UNCHANGED <<hash, blob, object, published>>
  BY DEF InitiateCheck, redis
<1>2. h.pc = "incr" /\ h.sid = t /\ h.loc = NewSession(d.size, d.sha256)
  BY DEF Idle
<1> HIDE DEF h
<1>3. CASE t # s
  <2>1. used \subseteq used' /\ UNCHANGED <<hash, blob, object, published>>
    BY <1>1
  <2> QED
    BY <1>1, <1>2, <1>3, <2>1, FileMove
<1>4. CASE t = s
  <2> DEFINE v == [size |-> d.size, sha |-> d.sha256, len |-> 0,
                   at |-> [i \in Nat |-> 0], data |-> [i \in Nat |-> <<>>]]
  <2>1. d.size \in Nat /\ d.sha256 \in Content
    <3>1. d \in [size : Nat, sha256 : Content]
      BY ServiceAssumption
    <3> QED
      BY <3>1
  <2>2. v.len = 0 /\ v.at[0] = 0 /\ v.size = d.size /\ v.sha = d.sha256
    OBVIOUS
  <2>3. v \in Cut
    <3>1. [i \in Nat |-> <<>>] \in [Nat -> Content] /\ [i \in Nat |-> 0] \in [Nat -> Nat]
      BY DEF Content
    <3> QED
      BY <2>1, <3>1 DEF Cut
  <2> HIDE DEF v
  <2>4. CutOK(s, v)
    BY <2>2, <2>3 DEF CutOK
  <2>5. Fresh(s)
    BY <1>1, <1>4 DEF FileOK, StoredFileOK
  <2>6. StoredFileOK(s, v)'
    BY <1>1, <1>4, <2>5 DEF StoredFileOK, Fresh
  <2>7. req \in [Requests -> Handler]
    BY DEF IndInv, TypeOK
  <2>8. \A q \in Requests : req'[q] = req[q] \/ req'[q] = h
    BY <1>1, <2>7 DEF Become
  <2>9. Follows(v, h.loc)
    <3> DEFINE u == NewSession(d.size, d.sha256)
    <3>1. u.sha256 = d.sha256 /\ u.size = d.size /\ u.offset = 0 /\ u.manifest = <<>>
      BY DEF NewSession
    <3>2. Len(u.manifest) = 0
      BY <3>1
    <3> HIDE DEF u
    <3>3. Follows(v, u)
      BY <2>2, <3>1, <3>2 DEF Follows
    <3> QED
      BY <1>2, <3>3 DEF u
  <2>10. HandlerFileOK(h, v, object'[s])
    BY <1>2, <2>9, CalmOK DEF Calm, PCs, Assembled
  <2>11. ASSUME NEW q \in Requests PROVE HandledFileOK(q, s, v)'
    <3>1. CASE req'[q] = h
      BY <1>1, <1>4, <2>10, <3>1 DEF HandledFileOK
    <3>2. CASE req'[q] = req[q]
      <4>1. ~(req[q].pc # "idle" /\ req[q].sid = s)
        BY <1>1, <1>4 DEF FileOK, HandledFileOK
      <4> QED
        BY <3>2, <4>1 DEF HandledFileOK
    <3> QED
      BY <2>8, <3>1, <3>2
  <2>12. FileOK(s, v)'
    BY <2>4, <2>6, <2>11 DEF FileOK
  <2> QED
    BY <2>12
<1> QED
  BY <1>3, <1>4

----------------------------------------------------------------------------
(* The theorems *)

LEMMA FileInit == Init => FileInv
<1> SUFFICES ASSUME Init, NEW s \in SessionIds PROVE \E w : FileOK(s, w)
  BY DEF FileInv
<1> DEFINE w == [size |-> 0, sha |-> <<>>, len |-> 0,
                 at |-> [i \in Nat |-> 0], data |-> [i \in Nat |-> <<>>]]
<1>1. w.len = 0 /\ w.at[0] = 0
  OBVIOUS
<1>2. w \in Cut
  <2>1. [i \in Nat |-> <<>>] \in [Nat -> Content] /\ [i \in Nat |-> 0] \in [Nat -> Nat]
        /\ <<>> \in Content
    BY DEF Content
  <2> QED
    BY <2>1 DEF Cut
<1> HIDE DEF w
<1>3. CutOK(s, w)
  BY <1>1, <1>2 DEF CutOK
<1>4. StoredFileOK(s, w)
  BY DEF StoredFileOK, Fresh, Init
<1>5. \A r \in Requests : HandledFileOK(r, s, w)
  BY IdleFields DEF HandledFileOK, Init
<1> QED
  BY <1>3, <1>4, <1>5 DEF FileOK

LEMMA FileNext ==
  ASSUME CutsAlike, IndInv, FileInv, [Next]_vars
  PROVE  FileInv'
<1> SUFFICES ASSUME NEW s \in SessionIds PROVE \E v : FileOK(s, v)'
  BY DEF FileInv
<1>0. PICK w : FileOK(s, w)
  BY DEF FileInv
<1>1. ASSUME NEW r \in Requests, Arrive(r) PROVE \E v : FileOK(s, v)'
  BY <1>0, <1>1, InitiateCheckFile, ChunkGetFile, AbortGetFile, CompleteGetFile
     DEF Arrive, PostUploads, PatchUpload, DeleteUpload
<1>2. ASSUME NEW r \in Requests, NEW o \in Outcomes, HandlerStep(r, o)
      PROVE  FileOK(s, w)'
  <2>1. CASE \/ InitiateIncrement(r, o) \/ UpdateProbe(r, o)
             \/ DecrementHincrby(r, o) \/ DecrementZero(r, o)
             \/ RegisterFile(r, o)
    BY <1>0, <2>1, PlainStepsFile
  <2>2. CASE InitiateCreate(r, o) \/ UpdateHset(r, o) \/ DeleteSession(r, o)
    BY <1>0, <2>2, StoreStepsFile
  <2>3. CASE ChunkSet(r, o) \/ CleanupChunk(r, o) \/ RetrieveChunk(r, o)
    BY <1>0, <2>3, ChunkSetFile, CleanupChunkFile, RetrieveChunkFile
  <2>4. CASE CheckFileExists(r, o) \/ CheckDuplicate(r, o)
    BY <1>0, <2>4, CheckStepsFile
  <2>5. CASE AssembleFile(r, o) \/ DeleteCorrupt(r, o) \/ PublishEvent(r, o)
    BY <1>0, <2>5, AssembleFileFile, DeleteCorruptFile, PublishEventFile
  <2> QED
    BY <1>2, <2>1, <2>2, <2>3, <2>4, <2>5 DEF HandlerStep
<1>3. CASE Environment
  BY <1>0, <1>3, CrashFile, LapsesFile DEF Environment
<1>4. CASE UNCHANGED vars
  BY <1>0, <1>4 DEF vars, FileOK, CutOK, StoredFileOK, Fresh, HandledFileOK
<1> QED
  BY <1>0, <1>1, <1>2, <1>3, <1>4 DEF Next

LEMMA FileInductive ==
  ASSUME CutsAlike
  PROVE  Spec => []FileInv
<1>1. IndInv /\ FileInv /\ [Next]_vars => FileInv'
  BY FileNext
<1> QED
  BY <1>1, FileInit, Inductive, PTL DEF Spec

\* Clients that cut their file in the same way every time: whatever PATCHes
\* are repeated, race or fail half-way, the chunk bytes in Redis are those
\* the stored manifest vouches for.
THEOREM ChunksTheorem ==
  ASSUME CutsAlike
  PROVE  Spec => []ChunksMatchManifest
<1>1. ASSUME IndInv, FileInv PROVE ChunksMatchManifest
  <2> SUFFICES ASSUME NEW s \in SessionIds, hash[s] # Null,
                      NEW i \in 1 .. Len(hash[s].manifest), blob[s][i - 1] # Null
               PROVE  blob[s][i - 1] = hash[s].manifest[i].checksum
    BY DEF ChunksMatchManifest
  <2>1. PICK w : FileOK(s, w)
    BY <1>1 DEF FileInv
  <2>2. hash[s].manifest[i].checksum = w.data[i - 1]
    BY <2>1 DEF FileOK, StoredFileOK, Follows
  <2>3. i - 1 \in Indices
    <3>1. GoodSession(hash[s])
      BY <1>1 DEF IndInv, StoredOK
    <3>2. Len(hash[s].manifest) <= hash[s].offset /\ hash[s] \in UploadSessions
      BY <3>1 DEF GoodSession
    <3> QED
      BY <3>2, FieldTypes, MaxSizeAssumption DEF Indices
  <2> QED
    BY <2>1, <2>2, <2>3 DEF FileOK, StoredFileOK
<1> QED
  BY <1>1, FileInductive, Inductive, PTL

\* Under the same condition an announced file stays in S3 with the announced
\* content: completions that race, are repeated after a crash or find an
\* object already there never overwrite it with other bytes, and the removal
\* of a corrupt object never takes an announced one.
THEOREM FileTheorem ==
  ASSUME CutsAlike
  PROVE  Spec => []PublishedFileIntact
<1>1. ASSUME IndInv, FileInv PROVE PublishedFileIntact
  <2> SUFFICES ASSUME NEW e \in published
               PROVE  object[e.file] # Null /\ Concat(object[e.file]) = e.sha256
    BY DEF PublishedFileIntact
  <2>1. e.file \in SessionIds
    BY <1>1 DEF IndInv, TypeOK, Event
  <2>2. PICK w : FileOK(e.file, w)
    BY <1>1, <2>1 DEF FileInv
  <2> QED
    BY <2>2 DEF FileOK, StoredFileOK
<1> QED
  BY <1>1, FileInductive, Inductive, PTL
============================================================================
