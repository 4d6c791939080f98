---------------------------- MODULE RateLimiter ----------------------------
(***************************************************************************)
(* RedisRateLimiter (application/services/rate_limiter.py): the counter of *)
(* active uploads of one workspace, kept in a Redis hash field and used by *)
(* concurrent callers.  check_and_increment is an HGET followed by an      *)
(* HINCRBY; decrement is an HINCRBY followed, when the result is negative, *)
(* by an HSET to zero: other callers run in between.                       *)
(*                                                                         *)
(* A Redis call ends "ok", raises without effect ("error"), or takes       *)
(* effect and raises because the reply was lost ("lost").                  *)
(***************************************************************************)
EXTENDS Integers, FiniteSets

CONSTANTS
  Callers,        \* coroutines that use the limiter at the same time
  MaxConcurrent,  \* settings.max_concurrent_uploads
  FaultKinds      \* the faults that may happen: "error", "lost", "crash"

ASSUME LimiterAssumption ==
  /\ IsFiniteSet(Callers)
  /\ MaxConcurrent \in Nat \ {0}

VARIABLES
  count,  \* hash field active_uploads; a missing field reads as zero
  pc      \* what each caller is about to do

vars == <<count, pc>>

Outcomes == {"ok"} \cup (FaultKinds \ {"crash"})
Applied(o) == o # "error"
Raises(o) == o # "ok"

Init ==
  /\ count = 0
  /\ pc = [p \in Callers |-> "idle"]

\* Mutant of BelowLimit: off by one.
MutantAtLimit(n) == n <= MaxConcurrent

BelowLimit(n) == n < MaxConcurrent

\* check_and_increment, HGET: at the limit it raises RateLimitExceededError
\* and changes nothing.
Check(p) ==
  /\ pc[p] = "idle"
  /\ BelowLimit(count)
  /\ pc' = [pc EXCEPT ![p] = "incr"]
  /\ UNCHANGED count

\* check_and_increment, HINCRBY +1.
Increment(p, o) ==
  /\ pc[p] = "incr"
  /\ count' = IF Applied(o) THEN count + 1 ELSE count
  /\ pc' = [pc EXCEPT ![p] = "idle"]

\* The result of a decrement or a read that has to be set back to zero.
NeedsRepair(n) == n < 0

\* decrement, HINCRBY -1; a negative result is repaired by a second call.
Decrement(p, o) ==
  /\ pc[p] = "idle"
  /\ count' = IF Applied(o) THEN count - 1 ELSE count
  /\ pc' = [pc EXCEPT ![p] = IF ~Raises(o) /\ NeedsRepair(count') THEN "zero" ELSE "idle"]

\* get_current_count, HGET: a negative value is going to be repaired.
GetCurrentCount(p) ==
  /\ pc[p] = "idle"
  /\ NeedsRepair(count)
  /\ pc' = [pc EXCEPT ![p] = "zero"]
  /\ UNCHANGED count

\* The HSET to "0" of decrement and of get_current_count.
Zero(p, o) ==
  /\ pc[p] = "zero"
  /\ count' = IF Applied(o) THEN 0 ELSE count
  /\ pc' = [pc EXCEPT ![p] = "idle"]

\* reset, the administrative HSET to "0".
Reset(p, o) ==
  /\ pc[p] = "idle"
  /\ count' = IF Applied(o) THEN 0 ELSE count
  /\ UNCHANGED pc

Crash(p) ==
  /\ "crash" \in FaultKinds
  /\ pc[p] # "idle"
  /\ pc' = [pc EXCEPT ![p] = "idle"]
  /\ UNCHANGED count

Next ==
  \E p \in Callers :
    \/ Check(p)
    \/ GetCurrentCount(p)
    \/ Crash(p)
    \/ \E o \in Outcomes :
         Increment(p, o) \/ Decrement(p, o) \/ Zero(p, o) \/ Reset(p, o)

Spec == Init /\ [][Next]_vars

----------------------------------------------------------------------------
(* Properties *)

TypeOK ==
  /\ count \in Int
  /\ pc \in [Callers -> {"idle", "incr", "zero"}]

\* check_and_increment is not atomic, but the excess is bounded: n callers
\* can pass the limit by at most n - 1, whatever decrements, resets to zero,
\* lost replies and crashes they are mixed with.
OvershootBounded == count <= MaxConcurrent + Cardinality(Callers) - 1

Incrementing == {p \in Callers : pc[p] = "incr"}

\* The strengthening: callers that have passed the check count already.
CommittedBounded ==
  count + Cardinality(Incrementing) <= MaxConcurrent + Cardinality(Callers) - 1
============================================================================
