------------------------ MODULE EventPublisherProofs ------------------------
(***************************************************************************)
(* For any number of calls, any assignment of files to them and any        *)
(* max_retry_attempts: PublisherInv is inductive, a call that ends is      *)
(* accounted for, an event is delivered at most max_retry_attempts times   *)
(* per call, the pauses of a call are bounded, and the retry loop          *)
(* implements EventDelivery.                                               *)
(***************************************************************************)
EXTENDS EventPublisher, FiniteSetTheorems, TLAPS

LEMMA FileOfCall == ASSUME NEW c \in Calls PROVE FileOf[c] \in Files
  BY DEF Files

\* The initial state satisfies the invariant.
LEMMA InitOK == Init => PublisherInv
  BY DEF Init, PublisherInv, CallOK, Stages, Running, Links

\* One attempt: the failures stay in step with the loop variable.
LEMMA AttemptOK ==
  ASSUME PublisherInv, NEW c \in Calls, NEW o \in Outcomes, Attempt(c, o)
  PROVE  PublisherInv'
<1>1. /\ FileOf[c] \in Files
      /\ CallOK(c)
  BY FileOfCall DEF PublisherInv
<1>2. copies' \in [Files -> Nat] /\ \A f \in Files : copies'[f] >= copies[f]
  BY <1>1 DEF PublisherInv, Attempt
<1>3. Applied(o) => copies'[FileOf[c]] > 0
  BY <1>1 DEF PublisherInv, Attempt
<1>4. CallOK(c)'
  BY <1>1, <1>3, AttemptsAssumption
  DEF PublisherInv, Attempt, Goto, CountFailure, AfterAttempt, LastAttempt, CallOK,
      Stages, Running, DlqAttempts, Raises, Applied
<1>5. ASSUME NEW d \in Calls, d # c PROVE CallOK(d)'
  <2>1. /\ stage'[d] = stage[d]
        /\ attempt'[d] = attempt[d]
        /\ failed'[d] = failed[d]
    BY <1>5 DEF PublisherInv, Attempt, Goto, CountFailure
  <2>2. copies'[FileOf[d]] >= copies[FileOf[d]] /\ copies[FileOf[d]] \in Nat
        /\ copies'[FileOf[d]] \in Nat
    BY <1>2, FileOfCall DEF PublisherInv
  <2>3. CallOK(d)
    BY DEF PublisherInv
  <2> QED
    BY <2>1, <2>2, <2>3 DEF CallOK
<1>6. /\ stage' \in [Calls -> Stages]
      /\ attempt' \in [Calls -> Nat]
      /\ failed' \in [Calls -> Nat]
  BY DEF PublisherInv, Attempt, Goto, CountFailure, AfterAttempt, Stages, Running
<1> QED
  BY <1>2, <1>4, <1>5, <1>6 DEF PublisherInv, Attempt

\* One write to the dead letter queue.
LEMMA WriteToDlqOK ==
  ASSUME PublisherInv, NEW c \in Calls, NEW o \in Outcomes, WriteToDlq(c, o)
  PROVE  PublisherInv'
<1>1. /\ FileOf[c] \in Files
      /\ CallOK(c)
  BY FileOfCall DEF PublisherInv
<1>2. CallOK(c)'
  BY <1>1, AttemptsAssumption
  DEF PublisherInv, WriteToDlq, Goto, CountFailure, CallOK, Stages, Running, DlqAttempts, Raises
<1>3. ASSUME NEW d \in Calls, d # c PROVE CallOK(d)'
  BY <1>3 DEF PublisherInv, WriteToDlq, Goto, CountFailure, CallOK
<1>4. /\ stage' \in [Calls -> Stages]
      /\ attempt' \in [Calls -> Nat]
      /\ failed' \in [Calls -> Nat]
      /\ dlq' \subseteq Files
  BY <1>1 DEF PublisherInv, WriteToDlq, Goto, CountFailure, Stages, Running
<1> QED
  BY <1>2, <1>3, <1>4 DEF PublisherInv, WriteToDlq

\* Steps that only move one call: the start and the two pauses.
LEMMA MoveOK ==
  ASSUME PublisherInv, NEW c \in Calls, Publish(c) \/ Backoff(c) \/ DlqBackoff(c)
  PROVE  PublisherInv'
<1>1. CallOK(c)
  BY DEF PublisherInv
<1>2. CASE Publish(c)
  BY <1>1, <1>2, AttemptsAssumption DEF PublisherInv, Publish, Goto, CallOK, Stages, Running
<1>3. CASE Backoff(c)
  BY <1>1, <1>3, AttemptsAssumption DEF PublisherInv, Backoff, Goto, CallOK, Stages, Running
<1>4. CASE DlqBackoff(c)
  BY <1>1, <1>4, AttemptsAssumption DEF PublisherInv, DlqBackoff, Goto, CallOK, Stages, Running, DlqAttempts
<1> QED
  BY <1>2, <1>3, <1>4

\* Cancellation, which may add a copy or a dead letter.
LEMMA CancelOK ==
  ASSUME PublisherInv, NEW c \in Calls, Cancel(c)
  PROVE  PublisherInv'
<1>1. FileOf[c] \in Files
  BY FileOfCall
<1>2. copies' \in [Files -> Nat] /\ \A f \in Files : copies'[f] >= copies[f]
  BY <1>1 DEF PublisherInv, Cancel
<1>3. CallOK(c)'
  BY DEF PublisherInv, Cancel, Goto, CallOK, Stages, Running
<1>4. ASSUME NEW d \in Calls, d # c PROVE CallOK(d)'
  <2>1. copies'[FileOf[d]] >= copies[FileOf[d]] /\ copies[FileOf[d]] \in Nat
        /\ copies'[FileOf[d]] \in Nat
    BY <1>2, FileOfCall DEF PublisherInv
  <2> QED
    BY <1>4, <2>1 DEF PublisherInv, Cancel, Goto, CallOK
<1>5. /\ stage' \in [Calls -> Stages]
      /\ attempt' \in [Calls -> Nat]
      /\ failed' \in [Calls -> Nat]
      /\ dlq' \subseteq Files
      /\ link' \in Links
  BY <1>1 DEF PublisherInv, Cancel, Goto, Stages, Running
<1> QED
  BY <1>2, <1>3, <1>4, <1>5 DEF PublisherInv

\* Every step preserves the invariant.
LEMMA NextOK == PublisherInv /\ [Next]_vars => PublisherInv'
<1> SUFFICES ASSUME PublisherInv, [Next]_vars PROVE PublisherInv'
  OBVIOUS
<1>1. ASSUME NEW c \in Calls, Publish(c) \/ Step(c) \/ Cancel(c) PROVE PublisherInv'
  BY <1>1, AttemptOK, WriteToDlqOK, MoveOK, CancelOK DEF Step
<1>2. CASE LinkChanges
  BY <1>2 DEF LinkChanges, Connect, Connected, Disconnect, Disconnected, ClientDies,
       CloseClient, LinkStep, PublisherInv, CallOK, Links
<1>3. ASSUME NEW f \in Files, DeadLetterLapses(f) PROVE PublisherInv'
  BY <1>3 DEF DeadLetterLapses, PublisherInv, CallOK
<1>4. CASE UNCHANGED vars
  BY <1>4 DEF vars, PublisherInv, CallOK
<1> QED
  BY <1>1, <1>2, <1>3, <1>4 DEF Next

\* EventPublisherWithRetry keeps count: in every reachable state the calls
\* that failed account for the loop it is in, whatever other calls do.
THEOREM Inductive == Spec => []PublisherInv
<1>1. Init => PublisherInv
  BY InitOK
<1>2. PublisherInv /\ [Next]_vars => PublisherInv'
  BY NextOK
<1> QED
  BY <1>1, <1>2, PTL DEF Spec

----------------------------------------------------------------------------
(* At-least-once *)

\* Where a running call can be after a step.
LEMMA Moves ==
  ASSUME PublisherInv, [Next]_vars, NEW c \in Calls, stage[c] \in Running,
         stage'[c] \notin Running \cup {"cancelled"}
  PROVE  \/ stage'[c] \in {"returned", "lost"}
         \/ stage'[c] = "dead" /\ FileOf[c] \in dlq'
<1>1. stage \in [Calls -> Stages]
  BY DEF PublisherInv
<1>2. ASSUME NEW d \in Calls, Publish(d) \/ Step(d) \/ Cancel(d)
      PROVE  \/ stage'[c] \in {"returned", "lost"}
             \/ stage'[c] = "dead" /\ FileOf[c] \in dlq'
  <2>1. CASE d # c
    <3>1. stage'[c] = stage[c]
      BY <1>1, <1>2, <2>1
      DEF Publish, Step, Cancel, Attempt, WriteToDlq, Backoff, DlqBackoff, Goto
    <3> QED
      BY <3>1
  <2>2. CASE d = c
    <3>1. CASE Publish(c)
      BY <3>1 DEF Publish, Running
    <3>2. CASE \E o \in Outcomes : Attempt(c, o)
      BY <1>1, <3>2 DEF Attempt, Goto, AfterAttempt, Running
    <3>3. CASE \E o \in Outcomes : WriteToDlq(c, o)
      BY <1>1, <3>3 DEF WriteToDlq, Goto, Applied, Raises, Running, Outcomes
    <3>4. CASE Backoff(c) \/ DlqBackoff(c) \/ Cancel(c)
      BY <1>1, <3>4 DEF Backoff, DlqBackoff, Cancel, Goto, Running
    <3> QED
      BY <1>2, <2>2, <3>1, <3>2, <3>3, <3>4 DEF Step
  <2> QED
    BY <2>1, <2>2
<1>3. CASE LinkChanges \/ (\E f \in Files : DeadLetterLapses(f)) \/ UNCHANGED vars
  BY <1>3 DEF LinkChanges, Connect, Connected, Disconnect, Disconnected, ClientDies,
       CloseClient, LinkStep, DeadLetterLapses, vars
<1> QED
  BY <1>2, <1>3 DEF Next

\* An event is lost only when all MaxAttempts publishes and all DlqAttempts
\* writes of its call have failed.
THEOREM AtLeastOnce == Spec => EndsAccounted
<1> DEFINE Accounted ==
      \A c \in Calls :
        stage[c] \in Running /\ stage'[c] \notin Running \cup {"cancelled"} =>
          \/ copies'[FileOf[c]] > 0
          \/ FileOf[c] \in dlq'
          \/ failed'[c] >= MaxAttempts + DlqAttempts
<1>1. ASSUME PublisherInv, PublisherInv', [Next]_vars PROVE [Accounted]_vars
  <2> SUFFICES ASSUME NEW c \in Calls, stage[c] \in Running,
                      stage'[c] \notin Running \cup {"cancelled"}
               PROVE  \/ copies'[FileOf[c]] > 0
                      \/ FileOf[c] \in dlq'
                      \/ failed'[c] >= MaxAttempts + DlqAttempts
    OBVIOUS
  <2>1. \/ stage'[c] \in {"returned", "lost"}
        \/ stage'[c] = "dead" /\ FileOf[c] \in dlq'
    BY <1>1, Moves
  <2>2. stage'[c] = "returned" => copies'[FileOf[c]] > 0
    BY <1>1 DEF PublisherInv, CallOK
  <2>3. stage'[c] = "lost" => failed'[c] >= MaxAttempts + DlqAttempts
    BY <1>1, AttemptsAssumption DEF PublisherInv, CallOK, DlqAttempts
  <2> QED
    BY <2>1, <2>2, <2>3
<1> QED
  BY <1>1, Inductive, PTL DEF Spec, EndsAccounted

----------------------------------------------------------------------------
(* Duplicates *)

\* A publish of a call by the number of its attempt.
Tries == Calls \X (1 .. MaxAttempts)

TriesFor(f, D) == {d \in D : FileOf[d[1]] = f}

\* The copies of every event are those of the tries in D, and a call has
\* no try in D that it has not made.
Sent(D) ==
  /\ \A f \in Files : copies[f] = Cardinality(TriesFor(f, D))
  /\ \A c \in Calls, n \in 1 .. MaxAttempts :
       <<c, n>> \in D =>
         /\ stage[c] # "new"
         /\ stage[c] = "try" => n < attempt[c]
         /\ stage[c] = "sleep" => n <= attempt[c]

\* copies counts deliveries, not the tries they came from; some set of
\* distinct tries accounts for them.
SentInv == \E D \in SUBSET Tries : Sent(D)

\* There are finitely many tries.
LEMMA TriesFinite ==
  ASSUME NEW D \in SUBSET Tries, NEW f
  PROVE  IsFiniteSet(TriesFor(f, D))
<1>1. IsFiniteSet(1 .. MaxAttempts)
  BY FS_Interval, AttemptsAssumption
<1>2. IsFiniteSet(Tries)
  BY <1>1, FS_Product, CallsAssumption DEF Tries
<1>3. TriesFor(f, D) \in SUBSET Tries
  BY DEF TriesFor
<1> QED
  BY <1>2, <1>3, FS_Subset

\* A try that was not counted yet adds one to its own file.
LEMMA OneMoreTry ==
  ASSUME NEW D \in SUBSET Tries, NEW c \in Calls, NEW n \in 1 .. MaxAttempts,
         <<c, n>> \notin D, NEW f \in Files
  PROVE  Cardinality(TriesFor(f, D \cup {<<c, n>>})) =
           Cardinality(TriesFor(f, D)) + (IF f = FileOf[c] THEN 1 ELSE 0)
<1> DEFINE T == TriesFor(f, D)
<1>1. IsFiniteSet(T) /\ Cardinality(T) \in Nat
  BY TriesFinite, FS_CardinalityType
<1>2. <<c, n>> \notin T
  BY DEF TriesFor
<1>3. CASE f = FileOf[c]
  <2>1. TriesFor(f, D \cup {<<c, n>>}) = T \cup {<<c, n>>}
    BY <1>3 DEF TriesFor
  <2> HIDE DEF T
  <2>2. Cardinality(T \cup {<<c, n>>}) = Cardinality(T) + 1
    BY <1>1, <1>2, FS_AddElement
  <2> QED
    BY <1>3, <2>1, <2>2 DEF T
<1>4. CASE f # FileOf[c]
  <2>1. TriesFor(f, D \cup {<<c, n>>}) = T
    BY <1>4 DEF TriesFor
  <2> QED
    BY <1>1, <1>4, <2>1
<1> QED
  BY <1>3, <1>4

\* A call leaves its attempt behind, with or without a copy of its own.
LEMMA TryEnds ==
  ASSUME PublisherInv, SentInv, NEW c \in Calls, stage[c] = "try",
         NEW s \in Stages \ {"new", "try"}, stage' = [stage EXCEPT ![c] = s],
         NEW n \in Nat, attempt' = [attempt EXCEPT ![c] = n],
         s = "sleep" => n = attempt[c],
         copies' = copies \/ copies' = [copies EXCEPT ![FileOf[c]] = @ + 1]
  PROVE  SentInv'
<1>1. PICK D \in SUBSET Tries : Sent(D)
  BY DEF SentInv
<1>2. /\ attempt[c] \in 1 .. MaxAttempts
      /\ stage \in [Calls -> Stages]
      /\ attempt \in [Calls -> Nat]
      /\ copies \in [Files -> Nat]
      /\ FileOf[c] \in Files
  BY FileOfCall DEF PublisherInv, CallOK
<1>k. PICK k \in 1 .. MaxAttempts : k = attempt[c]
  BY <1>2
<1> DEFINE E == D \cup {<<c, k>>}
<1>3. E \in SUBSET Tries /\ <<c, k>> \notin D
  BY <1>1, <1>2, <1>k DEF Tries, Sent
<1>4. ASSUME NEW d \in Calls, NEW m \in 1 .. MaxAttempts, <<d, m>> \in E
      PROVE  /\ stage'[d] # "new"
             /\ stage'[d] = "try" => m < attempt'[d]
             /\ stage'[d] = "sleep" => m <= attempt'[d]
  <2>1. CASE d = c
    <3>1. m <= attempt[c]
      BY <1>1, <1>2, <1>k, <1>4, <2>1 DEF Sent
    <3> QED
      BY <1>2, <2>1, <3>1
  <2>2. CASE d # c
    BY <1>1, <1>2, <1>4, <2>2 DEF Sent
  <2> QED
    BY <2>1, <2>2
<1>5. CASE copies' = copies
  <2>1. Sent(D)'
    BY <1>1, <1>4, <1>5 DEF Sent
  <2> QED
    BY <2>1 DEF SentInv
<1>6. CASE copies' = [copies EXCEPT ![FileOf[c]] = @ + 1]
  <2>1. ASSUME NEW f \in Files PROVE copies'[f] = Cardinality(TriesFor(f, E))
    <3>1. Cardinality(TriesFor(f, E)) =
            Cardinality(TriesFor(f, D)) + (IF f = FileOf[c] THEN 1 ELSE 0)
      BY <1>3, OneMoreTry
    <3>2. copies[f] = Cardinality(TriesFor(f, D))
      BY <1>1 DEF Sent
    <3> HIDE DEF E
    <3> QED
      BY <1>2, <1>6, <3>1, <3>2
  <2> HIDE DEF E
  <2>2. Sent(E)'
    BY <1>4, <2>1 DEF Sent
  <2> QED
    BY <1>3, <2>2 DEF SentInv
<1> QED
  BY <1>5, <1>6

\* Every step keeps a witness.
LEMMA SentNext == PublisherInv /\ SentInv /\ [Next]_vars => SentInv'
<1> SUFFICES ASSUME PublisherInv, SentInv, [Next]_vars PROVE SentInv'
  OBVIOUS
<1>1. PICK D \in SUBSET Tries : Sent(D)
  BY DEF SentInv
<1>2. /\ stage \in [Calls -> Stages]
      /\ attempt \in [Calls -> Nat]
  BY DEF PublisherInv
<1>3. ASSUME NEW c \in Calls, NEW o \in Outcomes, Attempt(c, o) PROVE SentInv'
  <2> DEFINE s == AfterAttempt(attempt[c], o)
             n == IF s = "setex" THEN 1 ELSE attempt[c]
  <2>1. s \in Stages \ {"new", "try"} /\ n \in Nat /\ (s = "sleep" => n = attempt[c])
    BY <1>2 DEF AfterAttempt, Stages, Running
  <2>2. /\ stage[c] = "try"
        /\ stage' = [stage EXCEPT ![c] = s]
        /\ attempt' = [attempt EXCEPT ![c] = n]
        /\ copies' = copies \/ copies' = [copies EXCEPT ![FileOf[c]] = @ + 1]
    BY <1>3 DEF Attempt, Goto
  <2> HIDE DEF s, n
  <2> QED
    BY <2>1, <2>2, TryEnds
<1>4. ASSUME NEW c \in Calls, Cancel(c) PROVE SentInv'
  <2>1. /\ stage' = [stage EXCEPT ![c] = "cancelled"]
        /\ attempt' = [attempt EXCEPT ![c] = attempt[c]]
        /\ \/ copies' = copies
           \/ stage[c] = "try" /\ copies' = [copies EXCEPT ![FileOf[c]] = @ + 1]
    BY <1>4 DEF Cancel, Goto
  <2>2. CASE stage[c] = "try"
    <3>1. "cancelled" \in Stages \ {"new", "try"} /\ attempt[c] \in Nat
      BY <1>2 DEF Stages, Running
    <3> QED
      BY <2>1, <2>2, <3>1, TryEnds
  <2>3. CASE stage[c] # "try"
    <3>1. Sent(D)'
      BY <1>1, <1>2, <2>1, <2>3 DEF Sent
    <3> QED
      BY <3>1 DEF SentInv
  <2> QED
    BY <2>2, <2>3
<1>5. ASSUME NEW c \in Calls,
             Publish(c) \/ Backoff(c) \/ DlqBackoff(c) \/ \E o \in Outcomes : WriteToDlq(c, o)
      PROVE SentInv'
  <2>1. copies' = copies
    BY <1>5 DEF Publish, Backoff, DlqBackoff, WriteToDlq
  <2>2. ASSUME NEW d \in Calls, NEW m \in 1 .. MaxAttempts, <<d, m>> \in D
        PROVE  /\ stage'[d] # "new"
               /\ stage'[d] = "try" => m < attempt'[d]
               /\ stage'[d] = "sleep" => m <= attempt'[d]
    <3>1. /\ stage[d] # "new"
          /\ stage[d] = "try" => m < attempt[d]
          /\ stage[d] = "sleep" => m <= attempt[d]
      BY <1>1, <2>2 DEF Sent
    <3> QED
      BY <1>2, <1>5, <3>1 DEF Publish, Backoff, DlqBackoff, WriteToDlq, Goto
  <2>3. Sent(D)'
    BY <1>1, <2>1, <2>2 DEF Sent
  <2> QED
    BY <2>3 DEF SentInv
<1>6. CASE LinkChanges \/ (\E f \in Files : DeadLetterLapses(f)) \/ UNCHANGED vars
  <2>1. UNCHANGED <<stage, attempt, copies>>
    BY <1>6 DEF LinkChanges, Connect, Connected, Disconnect, Disconnected, ClientDies,
         CloseClient, LinkStep, DeadLetterLapses, vars
  <2>2. Sent(D)'
    BY <1>1, <2>1 DEF Sent
  <2> QED
    BY <2>2 DEF SentInv
<1> QED
  BY <1>3, <1>4, <1>5, <1>6 DEF Next, Step

\* However calls for one file race, are cancelled and lose their
\* acknowledgements, its event arrives at most max_retry_attempts times per
\* call.
THEOREM DuplicatesTheorem == Spec => []DuplicatesBounded
<1>1. Init => SentInv
  <2> SUFFICES ASSUME Init PROVE SentInv
    OBVIOUS
  <2>1. \A f : TriesFor(f, {}) = {}
    BY DEF TriesFor
  <2>2. Sent({})
    BY <2>1, FS_EmptySet DEF Init, Sent
  <2> QED
    BY <2>2 DEF SentInv
<1>2. SentInv => DuplicatesBounded
  <2> SUFFICES ASSUME NEW D \in SUBSET Tries, Sent(D), NEW f \in Files
               PROVE  copies[f] <= MaxAttempts * Cardinality({c \in Calls : FileOf[c] = f})
    BY DEF SentInv, DuplicatesBounded
  <2> DEFINE C == {c \in Calls : FileOf[c] = f}
             A == 1 .. MaxAttempts
  <2>1. IsFiniteSet(C) /\ IsFiniteSet(A) /\ Cardinality(A) = MaxAttempts
    <3>1. IsFiniteSet(C)
      BY CallsAssumption, FS_Subset
    <3>2. Cardinality(A) = IF 1 > MaxAttempts THEN 0 ELSE MaxAttempts - 1 + 1
      BY AttemptsAssumption, FS_Interval
    <3>3. IsFiniteSet(A)
      BY AttemptsAssumption, FS_Interval
    <3> QED
      BY <3>1, <3>2, <3>3, AttemptsAssumption
  <2>2. Cardinality(C) \in Nat
    BY <2>1, FS_CardinalityType
  <2>3. TriesFor(f, D) \in SUBSET (C \X A)
    BY DEF TriesFor, Tries
  <2> HIDE DEF C, A
  <2>4. IsFiniteSet(C \X A) /\ Cardinality(C \X A) = Cardinality(C) * Cardinality(A)
    BY <2>1, FS_Product
  <2>5. Cardinality(TriesFor(f, D)) <= Cardinality(C) * MaxAttempts
    BY <2>1, <2>3, <2>4, FS_Subset
  <2>6. Cardinality(C) * MaxAttempts = MaxAttempts * Cardinality(C)
    BY <2>2, AttemptsAssumption
  <2>7. copies[f] <= MaxAttempts * Cardinality(C)
    BY <2>5, <2>6 DEF Sent
  <2> QED
    BY <2>7 DEF C
<1> QED
  BY <1>1, <1>2, SentNext, Inductive, PTL DEF Spec

----------------------------------------------------------------------------
(* Pauses *)

\* Powers of two, counted as subsets.
LEMMA PowerCounts ==
  ASSUME NEW n \in Nat
  PROVE  /\ IsFiniteSet(SUBSET (1 .. n))
         /\ Cardinality(SUBSET (1 .. n)) = 2 ^ n
         /\ 2 ^ n \in Nat
<1>1. IsFiniteSet(1 .. n)
  BY FS_Interval
<1>2. Cardinality(1 .. n) = IF 1 > n THEN 0 ELSE n - 1 + 1
  BY FS_Interval
<1>3. Cardinality(1 .. n) = n
  BY <1>2
<1>4. IsFiniteSet(SUBSET (1 .. n)) /\ Cardinality(SUBSET (1 .. n)) = 2 ^ n
  BY <1>1, <1>3, FS_SUBSET
<1> QED
  BY <1>4, FS_CardinalityType

\* The subsets with and without the last element are equally many.
LEMMA PowerDoubles ==
  ASSUME NEW n \in Nat
  PROVE  2 ^ (n + 1) = 2 ^ n + 2 ^ n
<1> DEFINE A == SUBSET (1 .. n)
           B == {T \in SUBSET (1 .. n + 1) : n + 1 \in T}
           f == [T \in A |-> T \cup {n + 1}]
<1>1. IsFiniteSet(A) /\ Cardinality(A) = 2 ^ n /\ 2 ^ n \in Nat
  BY PowerCounts
<1>2. f \in Bijection(A, B)
  <2>1. f \in [A -> B]
    BY DEF A, B
  <2>2. ASSUME NEW S \in A, NEW T \in A, f[S] = f[T] PROVE S = T
    <3>1. n + 1 \notin S /\ n + 1 \notin T
      OBVIOUS
    <3> QED
      BY <2>2, <3>1
  <2>3. ASSUME NEW T \in B PROVE \E S \in A : f[S] = T
    <3>1. T \ {n + 1} \in A
      OBVIOUS
    <3>2. f[T \ {n + 1}] = T
      BY <3>1
    <3> QED
      BY <3>1, <3>2
  <2>4. DOMAIN f = A
    OBVIOUS
  <2> HIDE DEF A, B, f
  <2> QED
    BY <2>1, <2>2, <2>3, <2>4 DEF Bijection, Injection, Surjection, IsInjective
<1>3. IsFiniteSet(B) /\ Cardinality(B) = Cardinality(A)
  BY <1>1, <1>2, FS_Bijection DEF ExistsBijection
<1>4. A \cap B = {}
  OBVIOUS
<1>5. A \cup B = SUBSET (1 .. n + 1)
  <2>1. ASSUME NEW T \in SUBSET (1 .. n + 1), n + 1 \notin T PROVE T \in A
    BY <2>1
  <2>2. A \subseteq SUBSET (1 .. n + 1)
    OBVIOUS
  <2> QED
    BY <2>1, <2>2
<1>6. Cardinality(SUBSET (1 .. n + 1)) = 2 ^ (n + 1)
  BY PowerCounts
<1> HIDE DEF A, B, f
<1>7. Cardinality(A \cup B) = Cardinality(A) + Cardinality(B) - Cardinality(A \cap B)
  BY <1>1, <1>3, FS_Union
<1>8. Cardinality(A \cap B) = 0
  BY <1>4, FS_EmptySet
<1>9. 2 ^ (n + 1) = Cardinality(A \cup B)
  BY <1>5, <1>6, Zenon
<1> QED
  BY <1>1, <1>3, <1>7, <1>8, <1>9

\* Powers grow with the exponent.
LEMMA PowerGrows ==
  ASSUME NEW m \in Nat, NEW n \in Nat, m <= n
  PROVE  2 ^ m <= 2 ^ n
<1>1. SUBSET (1 .. m) \in SUBSET (SUBSET (1 .. n))
  OBVIOUS
<1>2. Cardinality(SUBSET (1 .. m)) <= Cardinality(SUBSET (1 .. n))
  BY <1>1, PowerCounts, FS_Subset
<1> QED
  BY <1>2, PowerCounts

\* The pauses before attempt n add up to 2^(n-1) - 1 seconds.
Pauses(n) == 2 ^ (n - 1) - 1

LEMMA PausesFacts ==
  ASSUME NEW n \in 1 .. MaxAttempts
  PROVE  /\ Pauses(n) \in Nat
         /\ Pauses(n) <= Pauses(MaxAttempts)
         /\ Pauses(1) = 0
         /\ 2 ^ (n - 1) \in Nat
         /\ n < MaxAttempts => Pauses(n + 1) = Pauses(n) + 2 ^ (n - 1)
<1>1. n - 1 \in Nat /\ MaxAttempts - 1 \in Nat /\ n - 1 <= MaxAttempts - 1
  BY AttemptsAssumption
<1>2. 2 ^ (n - 1) \in Nat /\ 2 ^ (MaxAttempts - 1) \in Nat
  BY <1>1, PowerCounts
<1>3. 2 ^ (n - 1) <= 2 ^ (MaxAttempts - 1)
  BY <1>1, PowerGrows
<1>4. 2 ^ 0 = 1
  OBVIOUS
<1>5. 1 <= 2 ^ (n - 1)
  <2>1. IsFiniteSet(SUBSET (1 .. n - 1)) /\ Cardinality(SUBSET (1 .. n - 1)) = 2 ^ (n - 1)
    BY <1>1, PowerCounts
  <2>2. SUBSET (1 .. n - 1) # {}
    OBVIOUS
  <2>3. 2 ^ (n - 1) # 0
    BY <2>1, <2>2, FS_EmptySet
  <2> QED
    BY <1>2, <2>3
<1>6. 2 ^ (n - 1 + 1) = 2 ^ (n - 1) + 2 ^ (n - 1)
  BY <1>1, PowerDoubles
<1>7. n + 1 - 1 = n - 1 + 1 /\ 1 - 1 = 0
  OBVIOUS
<1>8. Pauses(n + 1) = 2 ^ (n - 1) + 2 ^ (n - 1) - 1 /\ Pauses(1) = 0
  BY <1>4, <1>6, <1>7 DEF Pauses
<1> QED
  BY <1>2, <1>3, <1>4, <1>5, <1>8 DEF Pauses

\* What a call has slept, by its stage.
SleptOK(c) ==
  /\ slept[c] \in Nat
  /\ slept[c] <= Pauses(MaxAttempts)
  /\ stage[c] = "new" => slept[c] = 0
  /\ stage[c] \in {"try", "sleep"} => slept[c] = Pauses(attempt[c])

SleptInv ==
  /\ slept \in [Calls -> Nat]
  /\ \A c \in Calls : SleptOK(c)

\* Every step keeps it.
LEMMA SleptNext == PublisherInv /\ SleptInv /\ [Next]_vars => SleptInv'
<1> SUFFICES ASSUME PublisherInv, SleptInv, [Next]_vars PROVE SleptInv'
  OBVIOUS
<1>1. /\ stage \in [Calls -> Stages]
      /\ attempt \in [Calls -> Nat]
      /\ slept \in [Calls -> Nat]
  BY DEF PublisherInv, SleptInv
<1>2. ASSUME NEW c \in Calls, Backoff(c) PROVE SleptInv'
  <2> DEFINE n == attempt[c]
  <2>1. n \in 1 .. MaxAttempts /\ n < MaxAttempts /\ n + 1 \in 1 .. MaxAttempts
        /\ slept[c] = Pauses(n)
    BY <1>2, AttemptsAssumption DEF Backoff, PublisherInv, CallOK, SleptInv, SleptOK
  <2>2. /\ Pauses(n + 1) = Pauses(n) + 2 ^ (n - 1)
        /\ 2 ^ (n - 1) \in Nat
        /\ Pauses(n + 1) \in Nat
        /\ Pauses(n + 1) <= Pauses(MaxAttempts)
    BY <2>1, PausesFacts
  <2>3. /\ slept' = [slept EXCEPT ![c] = Pauses(n + 1)]
        /\ stage' = [stage EXCEPT ![c] = "try"]
        /\ attempt' = [attempt EXCEPT ![c] = n + 1]
    BY <1>1, <1>2, <2>1, <2>2 DEF Backoff, Goto
  <2> HIDE DEF n
  <2>4. ASSUME NEW d \in Calls PROVE SleptOK(d)'
    <3>1. CASE d = c
      BY <1>1, <2>2, <2>3, <3>1 DEF SleptOK
    <3>2. CASE d # c
      BY <1>1, <2>3, <3>2 DEF SleptInv, SleptOK
    <3> QED
      BY <3>1, <3>2
  <2> QED
    BY <1>1, <2>2, <2>3, <2>4 DEF SleptInv
<1>3. ASSUME slept' = slept, NEW c \in Calls, NEW s \in Stages, NEW n,
             stage' = [stage EXCEPT ![c] = s], attempt' = [attempt EXCEPT ![c] = n],
             s \in {"new", "try", "sleep"} =>
               \/ s = "try" /\ n = 1 /\ stage[c] = "new"
               \/ s = "sleep" /\ n = attempt[c] /\ stage[c] = "try"
      PROVE  SleptInv'
  <2>1. Pauses(1) = 0
    BY PausesFacts, AttemptsAssumption
  <2>2. ASSUME NEW d \in Calls PROVE SleptOK(d)'
    BY <1>1, <1>3, <2>1 DEF SleptInv, SleptOK
  <2> QED
    BY <1>1, <1>3, <2>2 DEF SleptInv
<1>4. ASSUME NEW c \in Calls, Publish(c) \/ DlqBackoff(c) \/ Cancel(c) PROVE SleptInv'
  BY <1>3, <1>4 DEF Publish, DlqBackoff, Cancel, Goto, Stages, Running
<1>5. ASSUME NEW c \in Calls, NEW o \in Outcomes, Attempt(c, o) \/ WriteToDlq(c, o)
      PROVE SleptInv'
  BY <1>3, <1>5 DEF Attempt, WriteToDlq, AfterAttempt, Goto, Stages, Running
<1>6. CASE LinkChanges \/ (\E f \in Files : DeadLetterLapses(f)) \/ UNCHANGED vars
  <2>1. UNCHANGED <<stage, attempt, slept>>
    BY <1>6 DEF LinkChanges, Connect, Connected, Disconnect, Disconnected, ClientDies,
         CloseClient, LinkStep, DeadLetterLapses, vars
  <2> QED
    BY <2>1 DEF SleptInv, SleptOK
<1> QED
  BY <1>2, <1>4, <1>5, <1>6 DEF Next, Step

\* A publish call holds its caller up for 2^(MaxAttempts-1) - 1 seconds of
\* pauses at most, however its attempts end.
THEOREM BackoffTheorem == Spec => []BackoffBounded
<1>1. Init => SleptInv
  <2>1. Pauses(MaxAttempts) \in Nat
    BY PausesFacts, AttemptsAssumption
  <2> QED
    BY <2>1 DEF Init, SleptInv, SleptOK
<1>2. SleptInv => BackoffBounded
  BY DEF SleptInv, SleptOK, BackoffBounded, Pauses
<1> QED
  BY <1>1, <1>2, SleptNext, Inductive, PTL DEF Spec

----------------------------------------------------------------------------
(* Refinement *)

\* The retry loop, with any number of concurrent calls, implements the
\* publish that CompleteUpload is written against.
THEOREM DeliveryTheorem == Spec => DeliverySpec
<1> DEFINE bus == {f \in Files : copies[f] > 0}
           result == [c \in Calls |-> Result(stage[c])]
<1>1. Init => Delivery!Init
  BY DEF Init, Delivery!Init, Result
<1>2. ASSUME PublisherInv, [Next]_vars PROVE [Delivery!Next]_(Delivery!deliveryVars)
  <2>1. /\ stage \in [Calls -> Stages]
        /\ copies \in [Files -> Nat]
    BY <1>2 DEF PublisherInv
  <2>2. ASSUME UNCHANGED <<stage, copies>> PROVE UNCHANGED Delivery!deliveryVars
    BY <2>2 DEF Delivery!deliveryVars
  <2>3. ASSUME NEW c \in Calls, NEW s \in Stages, stage' = [stage EXCEPT ![c] = s]
        PROVE  result' = [result EXCEPT ![c] = Result(s)]
    BY <2>1, <2>3
  <2>4. ASSUME NEW c \in Calls, copies' = [copies EXCEPT ![FileOf[c]] = @ + 1]
        PROVE  bus' = bus \cup {FileOf[c]}
    BY <2>1, <2>4, FileOfCall
  <2>5. ASSUME copies' = copies PROVE bus' = bus
    BY <2>5
  <2>6. ASSUME NEW c \in Calls, Publish(c) \/ Backoff(c) \/ DlqBackoff(c)
        PROVE  UNCHANGED <<bus, result>>
    BY <2>1, <2>6 DEF Publish, Backoff, DlqBackoff, Goto, Result
  <2>7. ASSUME NEW c \in Calls, NEW o \in Outcomes, Attempt(c, o)
        PROVE  [Delivery!Next]_<<bus, result>>
    <3>1. PICK s \in Stages : stage' = [stage EXCEPT ![c] = s] /\ s = AfterAttempt(attempt[c], o)
      BY <2>7 DEF Attempt, Goto, AfterAttempt, Stages, Running
    <3>2. result' = [result EXCEPT ![c] = Result(s)] /\ result[c] = "pending"
      BY <2>3, <2>7, <3>1 DEF Attempt, Result
    <3>3. CASE o = "ok"
      <4>1. bus' = bus \cup {FileOf[c]}
        BY <2>4, <2>7, <3>3 DEF Attempt, Applied
      <4>2. result' = [result EXCEPT ![c] = "ok"]
        BY <3>1, <3>2, <3>3 DEF AfterAttempt, Raises, Result
      <4> QED
        BY <3>2, <4>1, <4>2 DEF Delivery!Next, Delivery!Return
    <3>4. CASE o # "ok"
      <4>1. UNCHANGED result
        BY <3>1, <3>2, <3>4 DEF AfterAttempt, Raises, Result
      <4>2. bus' \in {bus, bus \cup {FileOf[c]}}
        BY <2>4, <2>5, <2>7 DEF Attempt
      <4> QED
        BY <3>2, <4>1, <4>2 DEF Delivery!Next, Delivery!Deliver
    <3> QED
      BY <3>3, <3>4
  <2>8. ASSUME NEW c \in Calls, NEW o \in Outcomes, WriteToDlq(c, o)
        PROVE  [Delivery!Next]_<<bus, result>>
    <3>1. PICK s \in {"dead", "dlqsleep", "lost"} : stage' = [stage EXCEPT ![c] = s]
      BY <2>8 DEF WriteToDlq, Goto
    <3>2. result' = [result EXCEPT ![c] = Result(s)] /\ result[c] = "pending"
      BY <2>3, <2>8, <3>1 DEF WriteToDlq, Result, Stages, Running
    <3>3. UNCHANGED bus
      BY <2>5, <2>8 DEF WriteToDlq
    <3>4. Result(s) = "pending" => UNCHANGED result
      BY <3>2
    <3>5. Result(s) \in {"pending", "raised"}
      BY <3>1 DEF Result
    <3> QED
      BY <3>2, <3>3, <3>4, <3>5 DEF Delivery!Next, Delivery!Raise
  <2>9. ASSUME NEW c \in Calls, Cancel(c) PROVE Delivery!Next
    <3>1. result' = [result EXCEPT ![c] = "raised"] /\ result[c] = "pending"
      BY <2>1, <2>9 DEF Cancel, Goto, Result, Running
    <3>2. bus' \in {bus, bus \cup {FileOf[c]}}
      BY <2>4, <2>5, <2>9 DEF Cancel
    <3> QED
      BY <3>1, <3>2 DEF Delivery!Next, Delivery!Raise
  <2>10. CASE LinkChanges \/ (\E f \in Files : DeadLetterLapses(f)) \/ UNCHANGED vars
    BY <2>2, <2>10 DEF LinkChanges, Connect, Connected, Disconnect, Disconnected, ClientDies,
       CloseClient, LinkStep, DeadLetterLapses, vars
  <2> QED
    BY <1>2, <2>6, <2>7, <2>8, <2>9, <2>10 DEF Next, Step, Delivery!deliveryVars
<1> QED
  BY <1>1, <1>2, Inductive, PTL DEF Spec, DeliverySpec, Delivery!Spec
============================================================================
