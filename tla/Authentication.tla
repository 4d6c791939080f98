--------------------------- MODULE Authentication ---------------------------
(***************************************************************************)
(* Authentication of API requests, from the key pair of the stub auth      *)
(* service to the claims a route receives: tokens are signed with the      *)
(* stub's private key, the upload service is configured by hand with the   *)
(* public key and caches it, and every /v1 request is checked twice, by    *)
(* the middleware and by the route's dependency, with time passing in      *)
(* between.                                                                *)
(***************************************************************************)
EXTENDS StubKeys

CONSTANTS
  Clients,     \* each makes one request at a time with one token
  MaxTime,     \* bound on the clock
  Lifetime,    \* of a token: timedelta(hours=1)
  MaxShared,   \* most shared file ids a token request may carry (1000)
  MaxFit       \* most shared file ids of a token of MAX_TOKEN_SIZE bytes

ASSUME AuthAssumption ==
  /\ MaxTime \in Nat
  /\ Lifetime \in Nat \ {0}
  /\ MaxShared \in Nat
  /\ MaxFit \in Nat
  /\ Null \notin Nat

VARIABLES
  clock,      \* seconds
  config,     \* JWT_PUBLIC_KEY of the running upload service
  token,      \* the token each client holds
  req         \* the request each client has made

serviceVars == <<clock, config, token, req>>
vars == <<keyVars, serviceVars>>

Roles == {"owner", "collaborator"}
Methods == {"POST", "PATCH", "DELETE", "HEAD"}

\* Claims of a token; shared is the number of shared file ids, Null when the
\* claim is absent.
Token == [key : Keys, iat : Nat, exp : Nat, role : Roles,
          shared : Nat \cup {Null}]

\* "inner": past the middleware; at: when the request was admitted or refused.
Request == [pc : {"none", "inner", "admitted", "401", "403"},
            method : Methods \cup {Null}, at : Nat]

NoRequest == [pc |-> "none", method |-> Null, at |-> 0]

Init ==
  /\ KeyInit
  /\ clock = 0
  /\ config = Null
  /\ token = [c \in Clients |-> Null]
  /\ req = [c \in Clients |-> NoRequest]

----------------------------------------------------------------------------
(* The stub auth service issues a token *)

\* Mutant of ExpiryOf: the hour is not added.
MutantExpiresNow(now) == now

ExpiryOf(now) == now + Lifetime

\* generate_token: an empty list of shared files is left out of the claims.
\* lifespan has run, so the key manager is there; a request with another role
\* or more than MaxShared ids is a 422.
GenerateToken(c, role, n) ==
  /\ stub = "serving"
  /\ req[c] = NoRequest
  /\ token' = [token EXCEPT ![c] =
                 [key |-> pair.private, iat |-> clock, exp |-> ExpiryOf(clock),
                  role |-> role, shared |-> IF n = 0 THEN Null ELSE n]]
  /\ UNCHANGED <<keyVars, clock, config, req>>

----------------------------------------------------------------------------
(* The upload service checks it *)

\* jwt.decode with verify_exp.
Expired(t) == clock >= t.exp

\* JWTClaims.__post_init__.
ClaimsOK(role, shared) == (role = "owner") <=> (shared = Null)

\* JWTValidator.validate with the cached key.  Settings with a key that does
\* not parse, and a missing header, are a 401 as well.
Validates(t) ==
  /\ t # Null
  /\ config \in Keys
  /\ t.key = config
  /\ ~Expired(t)
  /\ t.shared # Null => t.shared <= MaxShared
  /\ ClaimsOK(t.role, t.shared)

\* get_current_user refuses a token longer than MAX_TOKEN_SIZE.
Fits(t) == t.shared # Null => t.shared <= MaxFit

Answer(c, pc) == req' = [req EXCEPT ![c].pc = pc, ![c].at = clock]

\* jwt_validation_middleware.
Middleware(c, method) ==
  /\ req[c] = NoRequest
  /\ req' = [req EXCEPT ![c] =
               [pc |-> IF Validates(token[c]) THEN "inner" ELSE "401",
                method |-> method, at |-> clock]]
  /\ UNCHANGED <<keyVars, clock, config, token>>

\* Mutant of CurrentUser: the dependency trusts the middleware.
MutantTrustMiddleware(t) == Fits(t)

\* get_current_user validates the token once more.
CurrentUser(t) == Fits(t) /\ Validates(t)

\* POST, PATCH and DELETE depend on require_owner, HEAD on get_current_user.
RoleSuffices(t, method) == t.role = "owner" \/ method = "HEAD"

\* The route's dependency.
Dependency(c) ==
  /\ req[c].pc = "inner"
  /\ Answer(c, IF ~CurrentUser(token[c]) THEN "401"
               ELSE IF ~RoleSuffices(token[c], req[c].method) THEN "403"
               ELSE "admitted")
  /\ UNCHANGED <<keyVars, clock, config, token>>

\* The reply has reached the client.
Finish(c) ==
  /\ req[c].pc \in {"admitted", "401", "403"}
  /\ req' = [req EXCEPT ![c] = NoRequest]
  /\ UNCHANGED <<keyVars, clock, config, token>>

----------------------------------------------------------------------------
(* The environment *)

\* Somebody copies public.pem, at whatever moment, or the key served as JWKS
\* into JWT_PUBLIC_KEY and restarts the upload service.
Configure(key) ==
  /\ key = public \/ (stub = "serving" /\ key = pair.public)
  /\ config' = key
  /\ req' = [c \in Clients |-> NoRequest]
  /\ UNCHANGED <<keyVars, clock, token>>

Tick ==
  /\ clock < MaxTime
  /\ clock' = clock + 1
  /\ UNCHANGED <<keyVars, config, token, req>>

ClientStep(c) ==
  \/ \E role \in Roles, n \in 0 .. MaxShared : GenerateToken(c, role, n)
  \/ \E method \in Methods : Middleware(c, method)
  \/ Dependency(c)
  \/ Finish(c)

Next ==
  \/ KeyNext /\ UNCHANGED serviceVars
  \/ \E c \in Clients : ClientStep(c)
  \/ \E key \in File : Configure(key)
  \/ Tick

Spec == Init /\ [][Next]_vars

\* Docker restarts the container and initialize runs to its end.
Fairness ==
  /\ WF_vars(Start /\ UNCHANGED serviceVars)
  /\ WF_vars(InitializeStep /\ UNCHANGED serviceVars)

FairSpec == Spec /\ Fairness

----------------------------------------------------------------------------
(* Properties *)

TypeOK ==
  /\ KeyTypeOK
  /\ clock \in 0 .. MaxTime
  /\ config \in File
  /\ token \in [Clients -> Token \cup {Null}]
  /\ req \in [Clients -> Request]

\* Whatever a crash or a damaged volume left on disk, the service signs with
\* the private half of the public key it hands out.
ServedPairMatches ==
  stub = "serving" => pair.private \in Keys /\ pair.public = pair.private

\* A public key that was readable once, on disk or as JWKS, stays the key in
\* use over every crash and restart: JWT_PUBLIC_KEY need not be configured
\* again unless the volume was damaged or the load of that very pair failed
\* with a read error.
ConfiguredKeyIsServed ==
  ~damaged /\ config \in Keys \ lost /\ stub = "serving" => pair.public = config

\* The inductive invariant: on a volume nobody touched, a public.pem that was
\* not given up is readable only beside its own private.pem and outside of the
\* steps that replace it; one that was given up stays until it is unlinked, or
\* until a restart loads it after all.  Everything derived from a pair that
\* was not given up agrees with the files.
Rewriting == {"unlink_private", "unlink_public", "generate",
              "write_private", "write_public"}

FilesOK ==
  ~damaged =>
    /\ public \in Keys \ lost => private = public /\ stub \notin Rewriting
    /\ public \in lost => /\ private \in {public, Null}
                          /\ stub \notin {"generate", "write_private", "write_public"}
    /\ stub = "load" => private # Null
    /\ stub = "write_public" => private = pair.private
    /\ stub = "serving" => public = pair.public

DerivedOK ==
  ~damaged =>
    /\ config \in Keys \ lost => config = public
    /\ \A c \in Clients :
         token[c] # Null => token[c].key \in lost \/ token[c].key = public

PairOK ==
  stub \in {"write_private", "write_public", "serving"} => ValidPair(pair)

IssuedOK ==
  \A c \in Clients :
    token[c] # Null =>
      /\ token[c].exp = ExpiryOf(token[c].iat)
      /\ token[c].shared # Null => token[c].shared <= MaxShared

InnerOK == \A c \in Clients : req[c].pc \in {"inner", "admitted"} => token[c] # Null

AuthInv == TypeOK /\ FilesOK /\ DerivedOK /\ PairOK /\ IssuedOK /\ InnerOK

\* A token for a client that asked for claims the service knows is good for
\* its whole hour: a configured service answers 401 only to a client without
\* a token, after the hour, for a role and shared files that do not go
\* together, for a token that is too long, or when token and configuration
\* are of two pairs, one of which was given up after a read error.
RefusalJustified ==
  \A c \in Clients :
    req[c].pc = "401" /\ ~damaged /\ config \in Keys =>
      \/ token[c] = Null
      \/ req[c].at >= token[c].iat + Lifetime
      \/ ~ClaimsOK(token[c].role, token[c].shared)
      \/ ~Fits(token[c])
      \/ token[c].key # config /\ {token[c].key, config} \cap lost # {}

\* A route runs only with a token that was not yet an hour old when the
\* route got its claims, however long the request waited after the
\* middleware had checked it.
AdmittedInTime ==
  \A c \in Clients :
    req[c].pc = "admitted" =>
      /\ req[c].at < token[c].iat + Lifetime
      /\ token[c].role = "owner" \/ req[c].method = "HEAD"

\* Whatever state the files are in, the stub comes up again.
StubRecovers == []<>(stub = "serving")
============================================================================
