------------------------------ MODULE StubKeys ------------------------------
(***************************************************************************)
(* RSAKeyManager of the stub auth service: a key pair kept in two files    *)
(* and reused across restarts.  A pair is one model value; private and     *)
(* public hold the halves found on disk.  initialize is a sequence of      *)
(* file operations, and the process can stop between any two of them or    *)
(* in the middle of a write, which leaves a file that does not parse.  A   *)
(* read error is handled like such a file: the pair is replaced, although  *)
(* nothing is wrong with it.                                               *)
(***************************************************************************)
EXTENDS Naturals

CONSTANTS
  Keys,        \* the key pairs that can be generated
  MaxFaults,   \* how often the process stops, a file is damaged or a read
               \* fails, at most
  Torn,        \* a PEM file that does not parse
  Null         \* no file, or no key loaded

ASSUME KeysAssumption ==
  /\ MaxFaults \in Nat
  /\ Torn \notin Keys
  /\ Null \notin Keys
  /\ Torn # Null

VARIABLES
  stub,       \* where the process is
  private,    \* private.pem
  public,     \* public.pem
  pair,       \* _private_key and _public_key
  drawn,      \* pairs generated, or brought in, so far
  faults,     \* faults so far
  damaged,    \* history: a key file was changed from outside
  lost        \* history: pairs given up after a read error

keyVars == <<stub, private, public, pair, drawn, faults, damaged, lost>>

File == Keys \cup {Torn, Null}
StubPCs == {"down", "check", "load", "unlink_private", "unlink_public",
            "generate", "write_private", "write_public", "serving"}
NoPair == [private |-> Null, public |-> Null]

KeyInit ==
  /\ stub = "down"
  /\ private = Null
  /\ public = Null
  /\ pair = NoPair
  /\ drawn = {}
  /\ faults = 0
  /\ damaged = FALSE
  /\ lost = {}

\* The container starts (restart: unless-stopped) and lifespan creates the
\* key manager.
Start ==
  /\ stub = "down"
  /\ stub' = "check"
  /\ UNCHANGED <<private, public, pair, drawn, faults, damaged, lost>>

\* Mutant of BothExist: the keys are never reused.
MutantNeverLoad == FALSE

\* A torn file exists.
BothExist == private # Null /\ public # Null

CheckFiles ==
  /\ stub = "check"
  /\ stub' = IF BothExist THEN "load" ELSE "unlink_private"
  /\ UNCHANGED <<private, public, pair, drawn, faults, damaged, lost>>

\* _load_keys: private key first; the first file that cannot be read or does
\* not parse raises.  unread is the file whose read_bytes fails with an
\* OSError, if any.
LoadedPair(unread) ==
  LET first == private \in Keys /\ unread # "private"
      second == first /\ public \in Keys /\ unread # "public"
  IN [private |-> IF first THEN private ELSE Null,
      public |-> IF second THEN public ELSE Null]

\* Mutant of ValidPair: the sign-and-verify test is left out.
MutantBothLoaded(p) == p.private # Null /\ p.public # Null

\* _validate_key_pair: what the private key signs the public key verifies.
ValidPair(p) == p.private # Null /\ p.public = p.private

\* Mutant of AfterLoad: the exception ends the process.
MutantNoRecovery(p) == IF ValidPair(p) THEN "serving" ELSE "down"

\* Any exception of the two leads to a new pair, an OSError as well.
AfterLoad(p) == IF ValidPair(p) THEN "serving" ELSE "unlink_private"

LoadKeys(unread) ==
  /\ stub = "load"
  /\ IF unread = "none" THEN UNCHANGED faults
     ELSE faults < MaxFaults /\ faults' = faults + 1
  /\ pair' = LoadedPair(unread)
  /\ stub' = AfterLoad(LoadedPair(unread))
  /\ lost' = IF unread = "none" THEN lost \ {public}
             ELSE lost \cup (Keys \cap {public})
  /\ UNCHANGED <<private, public, drawn, damaged>>

UnlinkPrivate ==
  /\ stub = "unlink_private"
  /\ private' = Null
  /\ stub' = "unlink_public"
  /\ UNCHANGED <<public, pair, drawn, faults, damaged, lost>>

UnlinkPublic ==
  /\ stub = "unlink_public"
  /\ public' = Null
  /\ stub' = "generate"
  /\ UNCHANGED <<private, pair, drawn, faults, damaged, lost>>

GenerateKeys(k) ==
  /\ stub = "generate"
  /\ k \notin drawn
  /\ drawn' = drawn \cup {k}
  /\ pair' = [private |-> k, public |-> k]
  /\ stub' = "write_private"
  /\ UNCHANGED <<private, public, faults, damaged, lost>>

\* Mutant of WritePrivate: public.pem is written before private.pem.
MutantPublicFirst ==
  /\ stub = "write_private"
  /\ public' = pair.public
  /\ stub' = "write_public"
  /\ UNCHANGED <<private, pair, drawn, faults, damaged, lost>>

WritePrivate ==
  /\ stub = "write_private"
  /\ private' = pair.private
  /\ stub' = "write_public"
  /\ UNCHANGED <<public, pair, drawn, faults, damaged, lost>>

WritePublic ==
  /\ stub = "write_public"
  /\ public' = pair.public
  /\ stub' = "serving"
  /\ UNCHANGED <<private, pair, drawn, faults, damaged, lost>>

\* The process is killed, or an OSError leaves initialize: one of exists,
\* unlink or write_bytes.  (Those of read_bytes are caught, see LoadKeys.)
Stop ==
  /\ stub # "down"
  /\ faults < MaxFaults
  /\ faults' = faults + 1
  /\ stub' = "down"
  /\ pair' = NoPair
  /\ UNCHANGED <<private, public, drawn, damaged, lost>>

\* The same in the middle of a write_bytes.
StopInWrite ==
  /\ stub \in {"write_private", "write_public"}
  /\ faults < MaxFaults
  /\ faults' = faults + 1
  /\ private' = IF stub = "write_private" THEN Torn ELSE private
  /\ public' = IF stub = "write_public" THEN Torn ELSE public
  /\ stub' = "down"
  /\ pair' = NoPair
  /\ UNCHANGED <<drawn, damaged, lost>>

\* A file on the volume is lost, corrupted or replaced by that of a pair from
\* elsewhere.
DamageFile(v) ==
  /\ faults < MaxFaults
  /\ faults' = faults + 1
  /\ \/ private' = v /\ UNCHANGED public
     \/ public' = v /\ UNCHANGED private
  /\ drawn' = drawn \cup ({v} \cap Keys)
  /\ damaged' = TRUE
  /\ UNCHANGED <<stub, pair, lost>>

\* A step of initialize.
InitializeStep ==
  \/ CheckFiles
  \/ \E unread \in {"none", "private", "public"} : LoadKeys(unread)
  \/ UnlinkPrivate
  \/ UnlinkPublic
  \/ \E k \in Keys : GenerateKeys(k)
  \/ WritePrivate
  \/ WritePublic

KeyNext ==
  \/ Start
  \/ InitializeStep
  \/ Stop
  \/ StopInWrite
  \/ \E v \in File : DamageFile(v)

KeyTypeOK ==
  /\ stub \in StubPCs
  /\ private \in File
  /\ public \in File
  /\ pair \in [private : Keys \cup {Null}, public : Keys \cup {Null}]
  /\ drawn \subseteq Keys
  /\ faults \in 0 .. MaxFaults
  /\ damaged \in BOOLEAN
  /\ lost \subseteq Keys
============================================================================
