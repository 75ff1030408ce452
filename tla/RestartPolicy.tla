--------------------------- MODULE RestartPolicy ---------------------------
(***************************************************************************)
(* The restart policy of a stream: what validateRestart accepts            *)
(* (internal/server/validate.go) and what restartPolicyFor makes of it     *)
(* (internal/server/restart.go).                                           *)
(*                                                                         *)
(* A field of the block is what time.ParseDuration or the JSON decoder     *)
(* makes of it: Omitted, Malformed or a number.  A factor is a whole       *)
(* number here; 0 is how the code reads an omitted one, and the negative   *)
(* numbers stand for every factor below 1.                                 *)
(***************************************************************************)
EXTENDS Integers

CONSTANTS
  DefaultInitial,       \* defaultInitialBackoff, in clock ticks
  DefaultMax,           \* defaultMaxBackoff
  DefaultFactor,        \* defaultBackoffFactor
  DefaultReset,         \* defaultResetAfter
  DefaultPushAttempts,  \* defaultPushAttempts
  Omitted,              \* a field, or a block, that is not in the document
  Malformed             \* a duration time.ParseDuration does not understand

ASSUME RestartPolicyAssumption ==
  /\ DefaultInitial \in Nat \ {0}
  /\ DefaultMax \in Nat /\ DefaultMax >= DefaultInitial
  /\ DefaultFactor \in Nat \ {0}
  /\ DefaultReset \in Nat \ {0}
  /\ DefaultPushAttempts \in Nat
  /\ Omitted \notin Int /\ Malformed \notin Int /\ Omitted # Malformed

Unlimited == -1

\* domain.RestartConfig.
Durations == Int \cup {Omitted, Malformed}

RestartBlocks ==
  [max_attempts : Int \cup {Omitted}, initial_backoff : Durations,
   max_backoff : Durations, factor : Int, reset_after : Durations]

\* validateRestartDuration takes the field.
ValidDuration(raw) == raw = Omitted \/ (raw # Malformed /\ raw > 0)

\* The value a duration has when the stream runs: what was written, or the default.
Effective(raw, default) == IF raw \in {Omitted, Malformed} THEN default ELSE raw

\* Mutant: only a block that states both ends of the ladder is compared.
validateRestartWritten(rc) ==
  rc # Omitted =>
    /\ rc.max_attempts # Omitted => rc.max_attempts >= 0
    /\ rc.factor # 0 => rc.factor >= 1
    /\ ValidDuration(rc.initial_backoff)
    /\ ValidDuration(rc.max_backoff)
    /\ ValidDuration(rc.reset_after)
    /\ Omitted \notin {rc.initial_backoff, rc.max_backoff}
         => rc.max_backoff >= rc.initial_backoff

\* validateRestart: the ladder the stream will run has to be one, defaults included.
validateRestart(rc) ==
  rc # Omitted =>
    /\ rc.max_attempts # Omitted => rc.max_attempts >= 0
    /\ rc.factor # 0 => rc.factor >= 1
    /\ ValidDuration(rc.initial_backoff)
    /\ ValidDuration(rc.max_backoff)
    /\ ValidDuration(rc.reset_after)
    /\ Effective(rc.max_backoff, DefaultMax) >= Effective(rc.initial_backoff, DefaultInitial)

pullKinds == {"websocket", "sse", "rest_poller"}
pushKinds == {"webhook", "grpc"}

\* The per-kind default, overridden field by field.
restartPolicyFor(kind, rc) ==
  LET attempts == IF kind \in pullKinds THEN Unlimited ELSE DefaultPushAttempts
  IN  IF rc = Omitted
      THEN [maxAttempts |-> attempts, initialBackoff |-> DefaultInitial,
            maxBackoff |-> DefaultMax, factor |-> DefaultFactor, resetAfter |-> DefaultReset]
      ELSE [maxAttempts    |-> IF rc.max_attempts = Omitted THEN attempts ELSE rc.max_attempts,
            initialBackoff |-> Effective(rc.initial_backoff, DefaultInitial),
            maxBackoff     |-> Effective(rc.max_backoff, DefaultMax),
            factor         |-> IF rc.factor > 0 THEN rc.factor ELSE DefaultFactor,
            resetAfter     |-> Effective(rc.reset_after, DefaultReset)]

\* math.Pow, on whole numbers.
Pow(factor) ==
  LET pow[n \in Nat] == IF n = 0 THEN 1 ELSE factor * pow[n - 1]
  IN  pow

\* restartPolicy.delay.
Delay(policy, a) ==
  LET grown == policy.initialBackoff * Pow(policy.factor)[a - 1]
  IN  IF a <= 1 THEN policy.initialBackoff
      ELSE IF grown < policy.maxBackoff THEN grown ELSE policy.maxBackoff

\* Mutant: the stream is given one attempt too many.
HasBudgetOffByOne(policy, a) == policy.maxAttempts = Unlimited \/ a <= policy.maxAttempts

\* restartPolicy.next: may the stream restart after attempt a?
HasBudget(policy, a) == policy.maxAttempts = Unlimited \/ a + 1 <= policy.maxAttempts

\* What the supervisor relies on: a budget, and a ladder that grows (the comment
\* at the end of restartPolicyFor).
WellFormed(policy) ==
  /\ policy.maxAttempts \in Nat \cup {Unlimited}
  /\ policy.initialBackoff \in Nat \ {0}
  /\ policy.maxBackoff \in Nat /\ policy.maxBackoff >= policy.initialBackoff
  /\ policy.factor \in Nat \ {0}
  /\ policy.resetAfter \in Nat \ {0}
============================================================================
