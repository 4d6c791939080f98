------------------------ MODULE AuthenticationProofs ------------------------
(***************************************************************************)
(* Proofs about Authentication for any number of key pairs, clients and    *)
(* faults.                                                                 *)
(***************************************************************************)
EXTENDS Authentication, TLAPS

USE DEF File, StubPCs, Rewriting, NoPair, NoRequest, Roles, Methods,
        keyVars, serviceVars, vars

\* Nothing is on disk before the first start of the stub.
LEMMA InitAuthInv == Init => AuthInv
<1> SUFFICES ASSUME Init PROVE AuthInv
  OBVIOUS
<1> USE KeysAssumption, AuthAssumption DEF Init, KeyInit
<1>1. KeyTypeOK
  <2>1. damaged \in BOOLEAN OBVIOUS
  <2>2. stub \in StubPCs /\ private \in File /\ public \in File
        /\ drawn \subseteq Keys /\ faults \in 0 .. MaxFaults
    OBVIOUS
  <2>3. pair \in [private : Keys \cup {Null}, public : Keys \cup {Null}] OBVIOUS
  <2> QED BY <2>1, <2>2, <2>3 DEF KeyTypeOK
<1>2. TypeOK
  <2>1. NoRequest \in Request BY DEF Request
  <2> QED BY <1>1, <2>1 DEF TypeOK
<1>3. FilesOK /\ DerivedOK /\ PairOK BY DEF FilesOK, DerivedOK, PairOK
<1>4. IssuedOK /\ InnerOK BY DEF IssuedOK, InnerOK
<1> QED BY <1>2, <1>3, <1>4 DEF AuthInv

\* A step of the key manager keeps the types of its variables.
LEMMA KeyTypes == KeyTypeOK /\ KeyNext => KeyTypeOK'
<1> SUFFICES ASSUME KeyTypeOK, KeyNext PROVE KeyTypeOK'
  OBVIOUS
<1> USE KeysAssumption DEF KeyTypeOK
<1>1. CASE Start BY <1>1 DEF Start
<1>2. CASE CheckFiles BY <1>2 DEF CheckFiles
<1>3. ASSUME NEW unread \in {"none", "private", "public"}, LoadKeys(unread)
      PROVE KeyTypeOK'
  BY <1>3 DEF LoadKeys, LoadedPair, AfterLoad
<1>4. CASE UnlinkPrivate BY <1>4 DEF UnlinkPrivate
<1>5. CASE UnlinkPublic BY <1>5 DEF UnlinkPublic
<1>6. ASSUME NEW k \in Keys, GenerateKeys(k) PROVE KeyTypeOK'
  BY <1>6 DEF GenerateKeys
<1>7. CASE WritePrivate BY <1>7 DEF WritePrivate
<1>8. CASE WritePublic BY <1>8 DEF WritePublic
<1>9. CASE Stop BY <1>9 DEF Stop
<1>10. CASE StopInWrite BY <1>10 DEF StopInWrite
<1>11. ASSUME NEW v \in File, DamageFile(v) PROVE KeyTypeOK'
  BY <1>11 DEF DamageFile
<1> QED
  BY <1>1, <1>2, <1>3, <1>4, <1>5, <1>6, <1>7, <1>8, <1>9, <1>10, <1>11
  DEF KeyNext, InitializeStep

\* On an untouched volume no step of the key manager lets go of a public.pem
\* that was not given up, and a pair is taken back only when it is loaded.
Keeps ==
  ~damaged' =>
    /\ public \in Keys => public' = public \/ public \in lost'
    /\ lost \subseteq lost' \cup {public'}

LEMMA KeyFiles ==
  KeyTypeOK /\ FilesOK /\ PairOK /\ KeyNext => FilesOK' /\ PairOK' /\ Keeps
<1> SUFFICES ASSUME KeyTypeOK, FilesOK, PairOK, KeyNext
             PROVE FilesOK' /\ PairOK' /\ Keeps
  OBVIOUS
<1> USE KeysAssumption DEF KeyTypeOK, FilesOK, PairOK, ValidPair, Keeps
<1>1. CASE Start BY <1>1 DEF Start
<1>2. CASE CheckFiles BY <1>2 DEF CheckFiles, BothExist
<1>3. ASSUME NEW unread \in {"none", "private", "public"}, LoadKeys(unread)
      PROVE FilesOK' /\ PairOK' /\ Keeps
  <2>1. CASE unread = "none"
    BY <1>3, <2>1 DEF LoadKeys, LoadedPair, AfterLoad
  <2>2. CASE unread # "none"
    <3>1. stub' = "unlink_private"
      BY <1>3, <2>2 DEF LoadKeys, LoadedPair, AfterLoad
    <3> QED BY <1>3, <2>2, <3>1 DEF LoadKeys
  <2> QED BY <2>1, <2>2
<1>4. CASE UnlinkPrivate BY <1>4 DEF UnlinkPrivate
<1>5. CASE UnlinkPublic BY <1>5 DEF UnlinkPublic
<1>6. ASSUME NEW k \in Keys, GenerateKeys(k)
      PROVE FilesOK' /\ PairOK' /\ Keeps
  BY <1>6 DEF GenerateKeys
<1>7. CASE WritePrivate BY <1>7 DEF WritePrivate
<1>8. CASE WritePublic BY <1>8 DEF WritePublic
<1>9. CASE Stop BY <1>9 DEF Stop
<1>10. CASE StopInWrite BY <1>10 DEF StopInWrite
<1>11. ASSUME NEW v \in File, DamageFile(v)
       PROVE FilesOK' /\ PairOK' /\ Keeps
  BY <1>11 DEF DamageFile
<1> QED
  BY <1>1, <1>2, <1>3, <1>4, <1>5, <1>6, <1>7, <1>8, <1>9, <1>10, <1>11
  DEF KeyNext, InitializeStep

\* Damage is never undone, and only DamageFile causes it.
LEMMA DamageStays == KeyNext /\ damaged \in BOOLEAN => (damaged => damaged')
  BY DEF KeyNext, InitializeStep, Start, CheckFiles, LoadKeys, UnlinkPrivate,
         UnlinkPublic, GenerateKeys, WritePrivate, WritePublic, Stop,
         StopInWrite, DamageFile

\* Every step of the system keeps the inductive invariant.
LEMMA NextAuthInv == AuthInv /\ [Next]_vars => AuthInv'
<1> SUFFICES ASSUME AuthInv, [Next]_vars PROVE AuthInv'
  OBVIOUS
<1> USE KeysAssumption, AuthAssumption DEF AuthInv
<1>1. CASE KeyNext /\ UNCHANGED serviceVars
  <2>1. KeyTypeOK' BY <1>1, KeyTypes DEF TypeOK
  <2>2. FilesOK' /\ PairOK' /\ Keeps
    BY <1>1, KeyFiles DEF TypeOK
  <2>3. ~damaged' => ~damaged BY <1>1, DamageStays DEF TypeOK, KeyTypeOK
  <2>4. DerivedOK'
    BY <1>1, <2>2, <2>3 DEF DerivedOK, Keeps, TypeOK, Token
  <2> QED BY <1>1, <2>1, <2>2, <2>4 DEF TypeOK, IssuedOK, InnerOK
<1>2. ASSUME NEW c \in Clients, NEW role \in Roles, NEW n \in 0 .. MaxShared,
             GenerateToken(c, role, n)
      PROVE AuthInv'
  <2> DEFINE t == [key |-> pair.private, iat |-> clock, exp |-> ExpiryOf(clock),
                   role |-> role, shared |-> IF n = 0 THEN Null ELSE n]
  <2>1. t \in Token /\ t.key = pair.public /\ t.exp = ExpiryOf(t.iat)
        /\ (t.shared # Null => t.shared <= MaxShared)
    BY <1>2 DEF GenerateToken, TypeOK, KeyTypeOK, PairOK, ValidPair, Token, ExpiryOf
  <2>2. token' = [token EXCEPT ![c] = t] /\ UNCHANGED <<keyVars, clock, config, req>>
        /\ stub = "serving" /\ req[c] = NoRequest
    BY <1>2 DEF GenerateToken
  <2> HIDE DEF t
  <2>3. TypeOK' BY <2>1, <2>2 DEF TypeOK, KeyTypeOK
  <2>4. FilesOK' /\ PairOK' BY <2>2 DEF FilesOK, PairOK
  <2>5. DerivedOK' BY <2>1, <2>2 DEF DerivedOK, FilesOK, TypeOK
  <2>6. IssuedOK' BY <2>1, <2>2 DEF IssuedOK, TypeOK
  <2>7. InnerOK' BY <2>1, <2>2 DEF InnerOK, TypeOK
  <2> QED BY <2>3, <2>4, <2>5, <2>6, <2>7
<1>3. ASSUME NEW c \in Clients, NEW method \in Methods, Middleware(c, method)
      PROVE AuthInv'
  <2> DEFINE q == [pc |-> IF Validates(token[c]) THEN "inner" ELSE "401",
                   method |-> method, at |-> clock]
  <2>1. q \in Request /\ (q.pc \in {"inner", "admitted"} => token[c] # Null)
    BY DEF TypeOK, Request, Validates
  <2>2. req' = [req EXCEPT ![c] = q] /\ UNCHANGED <<keyVars, clock, config, token>>
    BY <1>3 DEF Middleware
  <2> HIDE DEF q
  <2>3. TypeOK' BY <2>1, <2>2 DEF TypeOK, KeyTypeOK
  <2>4. InnerOK' BY <2>1, <2>2 DEF InnerOK, TypeOK
  <2> QED BY <2>2, <2>3, <2>4 DEF FilesOK, DerivedOK, PairOK, IssuedOK
<1>4. ASSUME NEW c \in Clients, Dependency(c) PROVE AuthInv'
  <2>1. PICK pc \in {"401", "403", "admitted"} :
          req' = [req EXCEPT ![c].pc = pc, ![c].at = clock]
    BY <1>4 DEF Dependency, Answer
  <2>2. req[c].pc = "inner" /\ UNCHANGED <<keyVars, clock, config, token>>
    BY <1>4 DEF Dependency
  <2>3. TypeOK'
    <3> DEFINE q == [req[c] EXCEPT !.pc = pc, !.at = clock]
    <3>a. req[c] \in Request /\ clock \in Nat BY DEF TypeOK
    <3>b. q \in Request BY <3>a DEF Request
    <3>c. req' = [req EXCEPT ![c] = q] BY <2>1, <3>a
    <3> HIDE DEF q
    <3>1. req' \in [Clients -> Request] BY <3>b, <3>c DEF TypeOK
    <3> QED BY <2>2, <3>1 DEF TypeOK, KeyTypeOK
  <2>4. InnerOK' BY <2>1, <2>2 DEF InnerOK, TypeOK, Request
  <2> QED BY <2>2, <2>3, <2>4 DEF FilesOK, DerivedOK, PairOK, IssuedOK
<1>5. ASSUME NEW c \in Clients, Finish(c) PROVE AuthInv'
  <2>1. TypeOK' /\ InnerOK'
    BY <1>5 DEF Finish, TypeOK, KeyTypeOK, InnerOK, Request
  <2> QED BY <1>5, <2>1 DEF Finish, FilesOK, DerivedOK, PairOK, IssuedOK
<1>6. ASSUME NEW key \in File, Configure(key) PROVE AuthInv'
  <2>1. TypeOK' /\ InnerOK'
    BY <1>6 DEF Configure, TypeOK, KeyTypeOK, InnerOK, Request
  <2> QED BY <1>6, <2>1 DEF Configure, FilesOK, DerivedOK, PairOK, IssuedOK
<1>7. CASE Tick
  BY <1>7 DEF Tick, TypeOK, KeyTypeOK, FilesOK, DerivedOK, PairOK, IssuedOK, InnerOK
<1>8. CASE UNCHANGED vars
  BY <1>8 DEF TypeOK, KeyTypeOK, FilesOK, DerivedOK, PairOK, IssuedOK, InnerOK
<1> QED BY <1>1, <1>2, <1>3, <1>4, <1>5, <1>6, <1>7, <1>8 DEF Next, ClientStep

\* The key files agree with the configured key and the outstanding tokens of
\* every pair that was not given up, for any number of restarts, crashes inside
\* initialize, read errors and clients.
THEOREM Inductive == Spec => []AuthInv
  BY InitAuthInv, NextAuthInv, PTL DEF Spec

\* The stub signs with the private half of the key it publishes.
THEOREM ServedTheorem == Spec => []ServedPairMatches
<1>1. AuthInv => ServedPairMatches
  BY DEF AuthInv, TypeOK, KeyTypeOK, PairOK, ValidPair, ServedPairMatches
<1> QED BY <1>1, Inductive, PTL

\* JWT_PUBLIC_KEY stays the key in use over every crash and restart, unless
\* its pair was given up after a read error.
THEOREM ConfiguredTheorem == Spec => []ConfiguredKeyIsServed
<1>1. AuthInv => ConfiguredKeyIsServed
  BY DEF AuthInv, FilesOK, DerivedOK, ConfiguredKeyIsServed
<1> QED BY <1>1, Inductive, PTL

\* Steps of the stub and of the clock touch neither the requests nor the
\* tokens.
LEMMA OtherSteps ==
  Next => \/ \E c \in Clients : ClientStep(c)
          \/ \E key \in File : Configure(key)
          \/ UNCHANGED <<config, token, req>>
  BY DEF Next, Tick

\* A step of client c leaves the other clients, the stub and the
\* configuration alone.
LEMMA ClientFrame ==
  ASSUME AuthInv, NEW c \in Clients, ClientStep(c)
  PROVE /\ UNCHANGED <<keyVars, clock, config>>
        /\ \A d \in Clients \ {c} : token'[d] = token[d] /\ req'[d] = req[d]
  BY DEF ClientStep, GenerateToken, Middleware, Dependency, Answer, Finish, AuthInv, TypeOK

\* What a refusal says about the token and the configuration, whatever
\* happened to the files.
Reason(c) ==
  \/ token[c] = Null
  \/ req[c].at >= token[c].iat + Lifetime
  \/ ~ClaimsOK(token[c].role, token[c].shared)
  \/ ~Fits(token[c])
  \/ token[c].key # config

RefusedForReason ==
  \A c \in Clients : req[c].pc = "401" /\ config \in Keys => Reason(c)

\* A token the configured service refuses has reached the end of its hour,
\* never had acceptable claims, or is of another pair.
LEMMA RefusedToken ==
  ASSUME AuthInv, NEW c \in Clients, config \in Keys,
         token[c] # Null, ~(Fits(token[c]) /\ Validates(token[c]))
  PROVE \/ clock >= token[c].iat + Lifetime
        \/ ~ClaimsOK(token[c].role, token[c].shared)
        \/ ~Fits(token[c])
        \/ token[c].key # config
  BY DEF AuthInv, IssuedOK, Validates, Expired, ExpiryOf

\* Answers are given at the current time, for the token at hand.
LEMMA NextRefusal == AuthInv /\ RefusedForReason /\ [Next]_vars => RefusedForReason'
<1> SUFFICES ASSUME AuthInv, RefusedForReason, [Next]_vars,
                    NEW d \in Clients, req'[d].pc = "401", config' \in Keys
             PROVE Reason(d)'
  BY DEF RefusedForReason
<1> USE DEF Reason
<1>1. ASSUME NEW c \in Clients, ClientStep(c) PROVE Reason(d)'
  <2>1. UNCHANGED <<keyVars, clock, config>>
        /\ \A e \in Clients \ {c} : token'[e] = token[e] /\ req'[e] = req[e]
    BY <1>1, ClientFrame
  <2>2. CASE d # c BY <2>1, <2>2 DEF RefusedForReason, ClaimsOK, Fits
  <2>3. CASE d = c
    <3>1. config \in Keys BY <2>1
    <3>2. req[c] \in Request BY DEF AuthInv, TypeOK
    <3>3. ASSUME NEW role \in Roles, NEW n \in 0 .. MaxShared, GenerateToken(c, role, n)
          PROVE FALSE
      BY <2>3, <3>3 DEF GenerateToken
    <3>4. ASSUME NEW method \in Methods, Middleware(c, method), token[c] # Null
          PROVE token'[c] = token[c] /\ ~Validates(token[c]) /\ req'[c].at = clock
      BY <2>3, <3>4 DEF Middleware, AuthInv, TypeOK
    <3>5. ASSUME Dependency(c)
          PROVE token'[c] = token[c] /\ ~CurrentUser(token[c]) /\ req'[c].at = clock
      BY <2>3, <3>2, <3>5 DEF Dependency, Answer, AuthInv, TypeOK, Request
    <3>6. ASSUME Finish(c) PROVE FALSE
      BY <2>3, <3>6 DEF Finish, AuthInv, TypeOK
    <3>7. token'[c] = token[c]
      BY <1>1, <3>3 DEF ClientStep, Middleware, Dependency, Finish
    <3>8. CASE token[c] = Null BY <2>3, <3>7, <3>8
    <3>9. CASE token[c] # Null
      <4>1. ~(Fits(token[c]) /\ Validates(token[c])) /\ req'[c].at = clock
        BY <1>1, <3>3, <3>4, <3>5, <3>6, <3>9 DEF ClientStep, CurrentUser
      <4>2. \/ clock >= token[c].iat + Lifetime
            \/ ~ClaimsOK(token[c].role, token[c].shared)
            \/ ~Fits(token[c])
            \/ token[c].key # config
        BY <3>1, <3>9, <4>1, RefusedToken
      <4> QED BY <2>1, <2>3, <3>7, <4>1, <4>2 DEF ClaimsOK, Fits
    <3> QED BY <3>8, <3>9
  <2> QED BY <2>2, <2>3
<1>2. ASSUME NEW key \in File, Configure(key) PROVE FALSE
  BY <1>2 DEF Configure
<1>3. CASE UNCHANGED <<config, token, req>>
  BY <1>3 DEF RefusedForReason, ClaimsOK, Fits
<1> QED BY <1>1, <1>2, <1>3, OtherSteps

\* A token is good for its whole hour, over restarts of the stub and for any
\* number of clients: on an untouched volume two pairs are about only when
\* one of them was given up.
THEOREM RefusalTheorem == Spec => []RefusalJustified
<1>1. Init => RefusedForReason BY DEF Init, RefusedForReason
<1>2. AuthInv /\ RefusedForReason => RefusalJustified
  <2> SUFFICES ASSUME AuthInv, NEW c \in Clients, Reason(c), ~damaged, config \in Keys,
                      token[c] # Null, token[c].key # config
               PROVE {token[c].key, config} \cap lost # {}
    BY DEF RefusalJustified, RefusedForReason, Reason
  <2>1. token[c].key \in lost \/ config \in lost
    BY DEF AuthInv, DerivedOK
  <2> QED BY <2>1
<1> QED BY <1>1, <1>2, Inductive, NextRefusal, PTL DEF Spec

\* Time may pass between the two checks; the second one decides.
LEMMA NextAdmitted == AuthInv /\ AdmittedInTime /\ [Next]_vars => AdmittedInTime'
<1> SUFFICES ASSUME AuthInv, AdmittedInTime, [Next]_vars,
                    NEW d \in Clients, req'[d].pc = "admitted"
             PROVE /\ req'[d].at < token'[d].iat + Lifetime
                   /\ token'[d].role = "owner" \/ req'[d].method = "HEAD"
  BY DEF AdmittedInTime
<1>1. ASSUME NEW c \in Clients, ClientStep(c)
      PROVE /\ req'[d].at < token'[d].iat + Lifetime
            /\ token'[d].role = "owner" \/ req'[d].method = "HEAD"
  <2>1. UNCHANGED <<keyVars, clock, config>>
        /\ \A e \in Clients \ {c} : token'[e] = token[e] /\ req'[e] = req[e]
    BY <1>1, ClientFrame
  <2>2. CASE d # c BY <2>1, <2>2 DEF AdmittedInTime
  <2>3. CASE d = c
    <3>1. req[c] \in Request /\ token[c] \in Token \cup {Null} /\ clock \in Nat
      BY DEF AuthInv, TypeOK
    <3>2. ASSUME NEW role \in Roles, NEW n \in 0 .. MaxShared, GenerateToken(c, role, n)
          PROVE FALSE
      BY <2>3, <3>2 DEF GenerateToken
    <3>3. ASSUME NEW method \in Methods, Middleware(c, method) PROVE FALSE
      BY <2>3, <3>3 DEF Middleware, AuthInv, TypeOK
    <3>4. ASSUME Finish(c) PROVE FALSE
      BY <2>3, <3>4 DEF Finish, AuthInv, TypeOK
    <3>5. Dependency(c) BY <1>1, <3>2, <3>3, <3>4 DEF ClientStep
    <3>6. /\ token'[c] = token[c] /\ req'[c].at = clock
          /\ req'[c].method = req[c].method
          /\ CurrentUser(token[c]) /\ RoleSuffices(token[c], req[c].method)
      BY <2>3, <3>1, <3>5 DEF Dependency, Answer, Request, AuthInv, TypeOK
    <3>7. token[c] # Null /\ clock < token[c].exp
      BY <3>1, <3>6, AuthAssumption DEF CurrentUser, Validates, Expired, Token
    <3>8. token[c].exp = token[c].iat + Lifetime
      BY <3>7 DEF AuthInv, IssuedOK, ExpiryOf
    <3> QED BY <2>3, <3>6, <3>7, <3>8 DEF RoleSuffices
  <2> QED BY <2>2, <2>3
<1>2. ASSUME NEW key \in File, Configure(key) PROVE FALSE
  BY <1>2 DEF Configure
<1>3. CASE UNCHANGED <<config, token, req>> BY <1>3 DEF AdmittedInTime
<1>4. CASE UNCHANGED vars BY <1>4 DEF AdmittedInTime
<1> QED BY <1>1, <1>2, <1>3, <1>4, OtherSteps

\* A route's claims come from a token that was less than an hour old.
THEOREM AdmittedTheorem == Spec => []AdmittedInTime
<1>1. Init => AdmittedInTime BY DEF Init, AdmittedInTime
<1> QED BY <1>1, Inductive, NextAdmitted, PTL DEF Spec
============================================================================
