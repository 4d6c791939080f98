------------------------- MODULE RateLimiterProofs -------------------------
(***************************************************************************)
(* Proof that n concurrent callers can pass the limit by at most n - 1.    *)
(***************************************************************************)
EXTENDS RateLimiter, FiniteSetTheorems, TLAPS

N == Cardinality(Callers)

\* The inductive invariant: types, and the callers that have passed the
\* check counted as if they had incremented already.
IndInv == TypeOK /\ CommittedBounded

\* The callers between check and increment are a finite set, at most n.
LEMMA IncrementingFinite ==
  ASSUME NEW S, S \subseteq Callers
  PROVE  /\ IsFiniteSet(S)
         /\ Cardinality(S) \in Nat
         /\ Cardinality(S) <= N
         /\ N \in Nat
  BY LimiterAssumption, FS_Subset, FS_CardinalityType DEF N

\* If some caller is not between check and increment, at most n - 1 are.
LEMMA OneOutside ==
  ASSUME NEW S, S \subseteq Callers, NEW p \in Callers, p \notin S
  PROVE  Cardinality(S) <= N - 1
<1>1. S \subseteq Callers \ {p}
  OBVIOUS
<1>2. /\ IsFiniteSet(Callers \ {p})
      /\ Cardinality(Callers \ {p}) = N - 1
  BY LimiterAssumption, FS_RemoveElement DEF N
<1> QED
  BY <1>1, <1>2, FS_Subset

\* A caller that leaves the set makes it smaller by one.
LEMMA LeaveSet ==
  ASSUME NEW S, S \subseteq Callers, NEW p \in S
  PROVE  Cardinality(S \ {p}) = Cardinality(S) - 1
  BY IncrementingFinite, FS_RemoveElement

\* Types and the strengthened bound hold of every reachable state.
THEOREM Inductive == Spec => []IndInv
<1>1. Init => IndInv
  <2> SUFFICES ASSUME Init PROVE IndInv
    OBVIOUS
  <2>1. Incrementing = {}
    BY DEF Init, Incrementing
  <2>2. Cardinality(Incrementing) = 0
    BY <2>1, FS_EmptySet
  <2>3. N \in Nat
    BY IncrementingFinite
  <2> QED
    BY <2>2, <2>3, LimiterAssumption DEF Init, IndInv, TypeOK, CommittedBounded, N
<1>2. IndInv /\ [Next]_vars => IndInv'
  <2> SUFFICES ASSUME IndInv, [Next]_vars
               PROVE  IndInv'
    OBVIOUS
  <2> DEFINE c == Cardinality(Incrementing)
             c2 == Cardinality(Incrementing')
             B == MaxConcurrent + N - 1
  <2>0. /\ N \in Nat
        /\ c \in Nat /\ c <= N
        /\ c2 \in Nat /\ c2 <= N
        /\ MaxConcurrent \in Nat \ {0}
        /\ count \in Int
        /\ pc \in [Callers -> {"idle", "incr", "zero"}]
        /\ count + c <= B
    BY IncrementingFinite, LimiterAssumption
       DEF IndInv, TypeOK, CommittedBounded, Incrementing, N
  <2> SUFFICES /\ count' \in Int
               /\ pc' \in [Callers -> {"idle", "incr", "zero"}]
               /\ count' + c2 <= B
    BY DEF IndInv, TypeOK, CommittedBounded, N, Incrementing
  <2>1. ASSUME NEW p \in Callers, Check(p)
        PROVE  /\ count' \in Int
               /\ pc' \in [Callers -> {"idle", "incr", "zero"}]
               /\ count' + c2 <= B
    BY <2>0, <2>1 DEF Check, BelowLimit
  <2>2. ASSUME NEW p \in Callers, NEW o \in Outcomes, Increment(p, o)
        PROVE  /\ count' \in Int
               /\ pc' \in [Callers -> {"idle", "incr", "zero"}]
               /\ count' + c2 <= B
    <3>1. p \in Incrementing /\ Incrementing' = Incrementing \ {p}
      BY <2>0, <2>2 DEF Increment, Incrementing
    <3>2. c2 = c - 1
      BY <3>1, LeaveSet DEF Incrementing
    <3> QED
      BY <2>0, <2>2, <3>2 DEF Increment
  <2>3. ASSUME NEW p \in Callers, pc[p] # "incr", Incrementing' \subseteq Incrementing,
               count' \in Int, pc' \in [Callers -> {"idle", "incr", "zero"}],
               count' <= count \/ count' = 0
        PROVE  count' + c2 <= B
    <3>1. c2 <= c /\ c <= N - 1
      BY <2>0, <2>3, FS_Subset, IncrementingFinite, OneOutside DEF Incrementing
    <3> QED
      BY <2>0, <2>3, <3>1
  <2>4. ASSUME NEW p \in Callers, NEW o \in Outcomes,
               Decrement(p, o) \/ Zero(p, o) \/ Reset(p, o)
        PROVE  /\ count' \in Int
               /\ pc' \in [Callers -> {"idle", "incr", "zero"}]
               /\ count' + c2 <= B
    <3>1. /\ pc[p] # "incr"
          /\ count' \in Int
          /\ pc' \in [Callers -> {"idle", "incr", "zero"}]
          /\ count' <= count \/ count' = 0
      BY <2>0, <2>4 DEF Decrement, Zero, Reset
    <3>2. Incrementing' \subseteq Incrementing
      BY <2>0, <2>4 DEF Decrement, Zero, Reset, Incrementing
    <3> QED
      BY <2>3, <3>1, <3>2
  <2>5. ASSUME NEW p \in Callers, GetCurrentCount(p)
        PROVE  /\ count' \in Int
               /\ pc' \in [Callers -> {"idle", "incr", "zero"}]
               /\ count' + c2 <= B
    <3>1. Incrementing' = Incrementing
      BY <2>0, <2>5 DEF GetCurrentCount, Incrementing
    <3> QED
      BY <2>0, <2>5, <3>1 DEF GetCurrentCount
  <2>6. ASSUME NEW p \in Callers, Crash(p)
        PROVE  /\ count' \in Int
               /\ pc' \in [Callers -> {"idle", "incr", "zero"}]
               /\ count' + c2 <= B
    <3>1. Incrementing' \subseteq Incrementing
      BY <2>0, <2>6 DEF Crash, Incrementing
    <3>2. c2 <= c
      BY <3>1, FS_Subset, IncrementingFinite DEF Incrementing
    <3> QED
      BY <2>0, <2>6, <3>2 DEF Crash
  <2>7. CASE UNCHANGED vars
    <3>1. Incrementing' = Incrementing
      BY <2>7 DEF vars, Incrementing
    <3> QED
      BY <2>0, <2>7, <3>1 DEF vars
  <2> QED
    BY <2>1, <2>2, <2>4, <2>5, <2>6, <2>7 DEF Next
<1> QED
  BY <1>1, <1>2, PTL DEF Spec

\* n concurrent callers pass max_concurrent_uploads by at most n - 1.
THEOREM OvershootTheorem == Spec => []OvershootBounded
<1>1. IndInv => OvershootBounded
  BY IncrementingFinite, LimiterAssumption
     DEF IndInv, TypeOK, CommittedBounded, OvershootBounded, Incrementing, N
<1> QED
  BY <1>1, Inductive, PTL
\* The same counting the callers that have passed the check but not yet
\* incremented: no schedule of their increments can lift the bound later.
THEOREM CommittedTheorem == Spec => []CommittedBounded
<1>1. IndInv => CommittedBounded
  BY DEF IndInv
<1> QED
  BY <1>1, Inductive, PTL
============================================================================
