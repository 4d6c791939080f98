--------------------------- MODULE UploadSession ---------------------------
(***************************************************************************)
(* The domain entity UploadSession (domain/entities/upload_session.py) and *)
(* the status life cycle (domain/value_objects/session_status.py), as      *)
(* operators on a session record.  Identity fields the service never       *)
(* branches on (file name, MIME type, time stamps) are left out.           *)
(*                                                                         *)
(* SHA-256 is taken to be injective: the checksum of some bytes is         *)
(* modelled by the bytes themselves, a sequence over Bytes.                *)
(***************************************************************************)
EXTENDS Naturals, Sequences
SeqExt == INSTANCE SequencesExt

CONSTANTS
  Bytes,     \* the alphabet file contents are written in
  MaxSize    \* MAX_FILE_SIZE_BYTES, 1 GB in the code

ASSUME MaxSizeAssumption == MaxSize \in Nat \ {0}

Content == Seq(Bytes)

\* ChunkVerifier.verify_chunk: the checksum of the bytes is the expected one.
VerifyChunk(data, expected) == data = expected

\* The members of SessionStatus.
Status == {"PENDING", "IN_PROGRESS", "COMPLETE", "FAILED", "ABORTED"}

\* The statuses the use cases treat as terminal.
Terminal == {"COMPLETE", "FAILED", "ABORTED"}

\* One entry of chunk_manifest.
ManifestEntry == [index : Nat, size : Nat, checksum : Content]

\* A session as the dataclass holds it; __post_init__ bounds size and offset.
SessionFields ==
  [status : Status, offset : Nat, size : 1 .. MaxSize,
   sha256 : Content, manifest : Seq(ManifestEntry)]

UploadSessions == {u \in SessionFields : u.offset <= u.size}

\* A new session: PENDING, nothing received.
NewSession(size, sha256) ==
  [status |-> "PENDING", offset |-> 0, size |-> size,
   sha256 |-> sha256, manifest |-> <<>>]

IsTerminal(u) == u.status \in Terminal

\* add_chunk: an index already in the manifest is refused.
CanAddChunk(u, index) ==
  \A i \in DOMAIN u.manifest : u.manifest[i].index # index

AddChunk(u, index, size, checksum) ==
  [u EXCEPT !.manifest =
     Append(@, [index |-> index, size |-> size, checksum |-> checksum])]

\* Mutants of CanUpdateOffset: the bound by the size is missing; it is
\* strict, so that the last byte is refused.
MutantNoSizeBound(u, newOffset) == u.offset <= newOffset

MutantStrictBound(u, newOffset) == u.offset <= newOffset /\ newOffset < u.size

\* update_offset: never backwards, never beyond the declared size.
CanUpdateOffset(u, newOffset) ==
  u.offset <= newOffset /\ newOffset <= u.size

\* Mutant of UpdateOffset: the new offset is not recorded.
MutantKeepOffset(u, newOffset) == u

UpdateOffset(u, newOffset) == [u EXCEPT !.offset = newOffset]

\* mark_in_progress as ProcessChunk calls it: only a PENDING session moves.
MarkInProgress(u) ==
  [u EXCEPT !.status = IF @ = "PENDING" THEN "IN_PROGRESS" ELSE @]

\* mark_complete; CompleteUpload has checked its guards (not terminal, offset
\* at the size) on the same local copy.
MarkComplete(u) == [u EXCEPT !.status = "COMPLETE"]

\* mark_failed and mark_aborted have no guard.
MarkFailed(u) == [u EXCEPT !.status = "FAILED"]

MarkAborted(u) == [u EXCEPT !.status = "ABORTED"]

TotalSize(manifest) == SeqExt!FoldLeft(LAMBDA sum, c : sum + c.size, 0, manifest)

\* CompleteUpload._validate_chunk_manifest: entries 0 .. n-1, all bytes there.
ManifestComplete(u) ==
  /\ u.manifest # <<>>
  /\ {u.manifest[i].index : i \in DOMAIN u.manifest} = 0 .. Len(u.manifest) - 1
  /\ TotalSize(u.manifest) = u.size

\* The bytes of an object put together from parts, in part order.
Concat(parts) == SeqExt!FlattenSeq(parts)

(***************************************************************************)
(* A session is consistent when its manifest lists chunks 0 .. n-1 without *)
(* gap or repetition and start, the running total of the chunk sizes,      *)
(* ends at the offset.                                                     *)
(***************************************************************************)
RunningTotal(start, manifest) ==
  /\ start[0] = 0
  /\ \A i \in 1 .. Len(manifest) : start[i] = start[i - 1] + manifest[i].size

Consistent(u) ==
  /\ \A i \in 1 .. Len(u.manifest) :
        /\ u.manifest[i].index = i - 1
        /\ u.manifest[i].size = Len(u.manifest[i].checksum)
        /\ u.manifest[i].size > 0
  /\ \E start \in [0 .. Len(u.manifest) -> 0 .. u.size] :
        /\ RunningTotal(start, u.manifest)
        /\ start[Len(u.manifest)] = u.offset

\* A well-formed session: types, consistency, and no more chunks than bytes.
GoodSession(u) ==
  /\ u \in UploadSessions
  /\ Consistent(u)
  /\ Len(u.manifest) <= u.offset
============================================================================
