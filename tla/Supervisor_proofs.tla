------------------------- MODULE Supervisor_proofs -------------------------
(***************************************************************************)
(* Proofs about module Supervisor, for every restart policy.               *)
(***************************************************************************)
EXTENDS Supervisor, WellFoundedInduction, TLAPS

USE RestartPolicyAssumption, SupervisorAssumption

\* The properties are inductive together: a source is held exactly in the
\* control states of a session, the terminal states are reached with their
\* reason, and so an errored stream never moves its position in the budget.
IndInv == TypeOK /\ BudgetKept /\ OpenMatchesSession /\ TerminalIsExplained

\* Every restart block the validator lets through, on a stream of any kind and
\* with either end of the ladder left to its default, resolves to a policy whose
\* ladder grows: restartPolicyFor needs no clamp.
THEOREM ValidatedIsWellFormed ==
  ASSUME NEW kind, NEW rc \in RestartBlocks \cup {Omitted}, validateRestart(rc)
  PROVE  WellFormed(restartPolicyFor(kind, rc))
<1>1. CASE rc = Omitted
  BY <1>1 DEF restartPolicyFor, WellFormed, Unlimited
<1>2. CASE rc # Omitted
  <2>1. rc \in RestartBlocks
    BY <1>2
  <2>2. ASSUME NEW raw \in Durations, NEW default \in Nat \ {0}, ValidDuration(raw)
        PROVE  Effective(raw, default) \in Nat \ {0}
    BY <2>2 DEF Effective, ValidDuration, Durations
  <2>3. /\ Effective(rc.initial_backoff, DefaultInitial) \in Nat \ {0}
        /\ Effective(rc.max_backoff, DefaultMax) \in Nat \ {0}
        /\ Effective(rc.reset_after, DefaultReset) \in Nat \ {0}
    BY <1>2, <2>1, <2>2 DEF validateRestart, RestartBlocks
  <2>4. Effective(rc.max_backoff, DefaultMax) >= Effective(rc.initial_backoff, DefaultInitial)
    BY <1>2 DEF validateRestart
  <2>5. (IF rc.factor > 0 THEN rc.factor ELSE DefaultFactor) \in Nat \ {0}
    BY <2>1 DEF RestartBlocks
  <2>6. rc.max_attempts # Omitted => rc.max_attempts \in Nat
    BY <1>2, <2>1 DEF validateRestart, RestartBlocks
  <2>7. QED
    BY <1>2, <2>3, <2>4, <2>5, <2>6 DEF restartPolicyFor, WellFormed, Unlimited
<1>3. QED
  BY <1>1, <1>2

\* A registered stream starts with its whole budget and its source open.
LEMMA InitInd == Init => IndInv
<1>1. SUFFICES ASSUME Init PROVE IndInv
  OBVIOUS
<1>2. cancelled \in BOOLEAN /\ reason \in BOOLEAN /\ ready \in BOOLEAN
  BY <1>1, Zenon DEF Init
<1>3. TypeOK
  <2>1. WellFormed(policy)
    BY <1>1, ValidatedIsWellFormed DEF Init
  <2>2. 0 \in 0..policy.resetAfter
    BY <2>1 DEF WellFormed
  <2>3. QED
    BY <1>1, <1>2, <2>1, <2>2 DEF Init, TypeOK
<1>4. BudgetKept
  BY <1>1, <1>3 DEF Init, BudgetKept, TypeOK, WellFormed, Unlimited
<1>5. OpenMatchesSession /\ TerminalIsExplained
  BY <1>1 DEF Init, OpenMatchesSession, TerminalIsExplained
<1>6. QED
  BY <1>3, <1>4, <1>5 DEF IndInv

\* Beginning a session leaves the budget where it is.
LEMMA BeginSessionInd ==
  ASSUME IndInv, BeginSession, open' = 1, pc \in {"start", "open"},
         UNCHANGED <<policy, cancelled, attempt, restarts, reason>>
  PROVE  IndInv'
<1>1. ready' \in BOOLEAN
  BY Zenon DEF BeginSession
<1>2. TypeOK'
  BY <1>1 DEF IndInv, BeginSession, TypeOK, WellFormed
<1>3. BudgetKept'
  BY DEF IndInv, BeginSession, BudgetKept
<1>4. OpenMatchesSession' /\ TerminalIsExplained'
  BY DEF IndInv, BeginSession, OpenMatchesSession, TerminalIsExplained
<1>5. QED
  BY <1>2, <1>3, <1>4 DEF IndInv

\* Spending an attempt stays within the budget, and giving up has a reason.
LEMMA SpendInd == IndInv /\ Spend => IndInv'
<1>1. SUFFICES ASSUME IndInv, Spend PROVE IndInv'
  OBVIOUS
<1>2. /\ open = 0 /\ attempt \in 0..CounterCap /\ restarts \in 0..CounterCap
      /\ policy' = policy
  BY <1>1 DEF IndInv, TypeOK, Spend, OpenMatchesSession
<1>3. CASE /\ HasBudget(policy, attempt)
           /\ attempt' = Bump(attempt)
           /\ restarts' = Bump(restarts)
           /\ status' = "reconnecting"
           /\ pc' = "sleep"
           /\ reason' = TRUE
  <2>1. attempt' \in 0..CounterCap /\ restarts' \in 0..CounterCap
    BY <1>2, <1>3 DEF Bump
  <2>2. BudgetKept'
    BY <1>1, <1>2, <1>3 DEF Bump, HasBudget, BudgetKept, IndInv, Unlimited, TypeOK, WellFormed
  <2>3. TypeOK'
    BY <1>1, <1>3, <2>1 DEF IndInv, TypeOK, Spend
  <2>4. OpenMatchesSession' /\ TerminalIsExplained'
    BY <1>1, <1>2, <1>3 DEF Spend, OpenMatchesSession, TerminalIsExplained
  <2>5. QED
    BY <2>2, <2>3, <2>4 DEF IndInv
<1>4. CASE /\ ~HasBudget(policy, attempt)
           /\ status' = "error"
           /\ pc' = "returned"
           /\ reason' = TRUE
           /\ UNCHANGED <<attempt, restarts>>
  <2>1. BudgetKept'
    BY <1>1, <1>2, <1>4 DEF HasBudget, BudgetKept, IndInv, Unlimited, TypeOK, WellFormed
  <2>2. TypeOK'
    BY <1>1, <1>4 DEF IndInv, TypeOK, Spend
  <2>3. OpenMatchesSession' /\ TerminalIsExplained'
    BY <1>1, <1>2, <1>4 DEF Spend, OpenMatchesSession, TerminalIsExplained
  <2>4. QED
    BY <2>1, <2>2, <2>3 DEF IndInv
<1>5. QED
  BY <1>1, <1>3, <1>4 DEF Spend, FailOrRetry

\* Every step of the supervisor, of its source and of the clock keeps it.
LEMMA NextInd == IndInv /\ [Next]_vars => IndInv'
<1>1. SUFFICES ASSUME IndInv, [Next]_vars PROVE IndInv'
  OBVIOUS
<1> USE DEF IndInv
<1>2. CASE Cancel
  BY <1>1, <1>2 DEF Cancel, TypeOK, BudgetKept, OpenMatchesSession, TerminalIsExplained
<1>3. CASE Tick
  BY <1>1, <1>3 DEF Tick, TypeOK, BudgetKept, OpenMatchesSession, TerminalIsExplained, WellFormed
<1>4. CASE Ready
  BY <1>1, <1>4 DEF Ready, TypeOK, BudgetKept, OpenMatchesSession, TerminalIsExplained
<1>5. CASE RunReturns
  BY <1>1, <1>5 DEF RunReturns, TypeOK, BudgetKept, OpenMatchesSession, TerminalIsExplained
<1>6. CASE Start
  <2>1. open' = 1
    BY <1>1, <1>6 DEF Start, OpenMatchesSession
  <2>2. QED
    BY <1>1, <1>6, <2>1, BeginSessionInd DEF Start
<1>7. CASE Close
  BY <1>1, <1>7 DEF Close, TypeOK, BudgetKept, OpenMatchesSession, TerminalIsExplained
<1>8. ASSUME StopHere, pc \in {"decide", "sleep", "open"},
             UNCHANGED <<policy, cancelled, open, ready, uptime>>
      PROVE  IndInv'
  BY <1>1, <1>8 DEF StopHere, TypeOK, BudgetKept, OpenMatchesSession, TerminalIsExplained
<1>9. ASSUME GoSpend, pc \in {"decide", "open"}, attempt' \in {0, attempt},
             UNCHANGED <<policy, cancelled, open, ready, uptime>>
      PROVE  IndInv'
  <2>1. TypeOK' /\ BudgetKept'
    BY <1>1, <1>9 DEF GoSpend, TypeOK, BudgetKept, TerminalIsExplained, WellFormed, Unlimited
  <2>2. OpenMatchesSession' /\ TerminalIsExplained'
    BY <1>1, <1>9 DEF GoSpend, OpenMatchesSession, TerminalIsExplained
  <2>3. QED
    BY <2>1, <2>2
<1>10. CASE Decide
  BY <1>8, <1>9, <1>10 DEF Decide
<1>11. CASE Spend
  BY <1>1, <1>11, SpendInd
<1>12. CASE Wake
  BY <1>1, <1>12 DEF Wake, TypeOK, BudgetKept, OpenMatchesSession, TerminalIsExplained
<1>13. CASE SleepCancelled
  BY <1>8, <1>13 DEF SleepCancelled
<1>14. CASE OpenOk
  <2>1. open' = 1
    BY <1>1, <1>14 DEF OpenOk, OpenMatchesSession
  <2>2. QED
    BY <1>1, <1>14, <2>1, BeginSessionInd DEF OpenOk
<1>15. CASE OpenFails
  BY <1>8, <1>9, <1>15 DEF OpenFails
<1>16. CASE UNCHANGED vars
  BY <1>1, <1>16 DEF vars, TypeOK, BudgetKept, OpenMatchesSession, TerminalIsExplained
<1>17. QED
  BY <1>1, <1>2, <1>3, <1>4, <1>5, <1>6, <1>7, <1>10, <1>11, <1>12, <1>13, <1>14, <1>15, <1>16
     DEF Next, Step, Gone

\* The invariant holds of every supervisor.
THEOREM Inductive == Spec => []IndInv
  BY InitInd, NextInd, PTL DEF Spec

\* Whatever mix of failed Opens and ended sessions, the supervisor never spends
\* more than the policy's budget (restart.go, next).
THEOREM BudgetHolds == Spec => [](TypeOK /\ BudgetKept)
<1>1. IndInv => TypeOK /\ BudgetKept
  BY DEF IndInv
<1>2. QED
  BY <1>1, Inductive, PTL

\* Close is called once per Open that succeeded, and Run only in between.
THEOREM OpenClosePaired == Spec => []OpenMatchesSession
<1>1. IndInv => OpenMatchesSession
  BY DEF IndInv
<1>2. QED
  BY <1>1, Inductive, PTL

\* A failed stream has a reason and its supervisor is gone (markFailed).
THEOREM FailureExplained == Spec => []TerminalIsExplained
<1>1. IndInv => TerminalIsExplained
  BY DEF IndInv
<1>2. QED
  BY <1>1, Inductive, PTL

\* Cancellation, wherever it lands, is never counted as a failed attempt.
THEOREM CancelNeverSpends == Spec => CancelIsNotFailure
<1>1. [Next]_vars => [cancelled /\ pc # "spend"
                        => /\ pc' # "spend"
                           /\ UNCHANGED <<attempt, restarts, reason>>
                           /\ status' = "error" => status = "error"]_vars
  BY DEF Next, Step, Gone, Cancel, Tick, Ready, RunReturns, Start, BeginSession, Close,
         Decide, StopHere, GoSpend, Spend, Wake, SleepCancelled, OpenOk, OpenFails, vars
<1>2. QED
  BY <1>1, PTL DEF Spec, CancelIsNotFailure

\* The supervisor implements the state machine of module Lifecycle.
THEOREM Refinement == Spec => ImplementsLifecycle
<1>1. Init => L!LifeInit
  BY DEF Init, L!LifeInit, LifeNow
<1>2. IndInv /\ [Next]_vars
        => [L!Move \/ L!GiveUp \/ L!AskStop \/ L!Stopped]_<<LifeNow, cancelled>>
  <2>1. SUFFICES ASSUME IndInv, [Next]_vars
                 PROVE  [L!Move \/ L!GiveUp \/ L!AskStop \/ L!Stopped]_<<LifeNow, cancelled>>
    OBVIOUS
  <2>2. CASE Cancel
    BY <2>1, <2>2 DEF Cancel, LifeNow, L!AskStop, IndInv, TypeOK, TerminalIsExplained
  <2>3. CASE Tick \/ Start \/ Close \/ Wake \/ Gone \/ UNCHANGED vars
    <3>1. CASE Tick
      BY <3>1 DEF Tick, LifeNow
    <3>2. CASE Start \/ Close \/ Wake
      BY <3>2 DEF Start, BeginSession, Close, Wake, LifeNow
    <3>3. CASE Gone \/ UNCHANGED vars
      <4>1. UNCHANGED <<policy, pc, cancelled, attempt, status, ready>>
        BY <3>3 DEF Gone, vars
      <4>2. HasBudget(policy, attempt)' <=> HasBudget(policy, attempt)
        BY <4>1 DEF HasBudget
      <4>3. LifeNow' = LifeNow
        BY <4>1, <4>2 DEF LifeNow
      <4>4. QED
        BY <4>1, <4>3
    <3>4. QED
      BY <2>3, <3>1, <3>2, <3>3
  <2>4. CASE Ready
    BY <2>4 DEF Ready, LifeNow, L!Move, L!Edge
  <2>5. CASE RunReturns
    BY <2>1, <2>5 DEF RunReturns, LifeNow, L!Move, L!Edge
  <2>6. CASE OpenOk
    BY <2>6 DEF OpenOk, BeginSession, LifeNow, L!Move, L!Edge
  <2>7. ASSUME pc \in {"decide", "sleep", "open"}, StopHere, cancelled' = cancelled
        PROVE  L!Stopped
    BY <2>7 DEF StopHere, LifeNow, L!Stopped
  <2>8. ASSUME pc \in {"decide", "open"}, GoSpend, cancelled' = cancelled
        PROVE  L!GiveUp \/ UNCHANGED <<LifeNow, cancelled>>
    BY <2>8 DEF GoSpend, LifeNow, L!GiveUp
  <2>9. CASE Decide \/ SleepCancelled \/ OpenFails
    BY <2>7, <2>8, <2>9 DEF Decide, SleepCancelled, OpenFails
  <2>10. CASE Spend
    BY <2>1, <2>10 DEF Spend, FailOrRetry, LifeNow, IndInv, TypeOK, TerminalIsExplained
  <2>11. QED
    BY <2>1, <2>2, <2>3, <2>4, <2>5, <2>6, <2>9, <2>10 DEF Next, Step
<1>3. QED
  BY <1>1, <1>2, Inductive, PTL DEF Spec, ImplementsLifecycle, L!LifeSpec

---------------------------------------------------------------------------
(* The ladder of delays.                                                   *)

\* Numbers are well-founded: what induction over attempts rests on.
LEMMA Least ==
  ASSUME NEW T, T \subseteq Nat, T # {} PROVE \E x \in T : \A y \in T : x <= y
<1>1. \E x \in T : \A y \in T : ~ (<<y, x>> \in OpToRel(<, Nat))
  BY NatLessThanWellFounded, WFMin
<1>2. PICK x \in T : \A y \in T : ~ (<<y, x>> \in OpToRel(<, Nat))
  BY <1>1
<1>3. \A y \in T : ~ (y < x)
  BY <1>2 DEF OpToRel
<1>4. QED
  BY <1>3

\* g is the table of the first powers.
Upto(g, n, factor) == g = [k \in 0..n |-> IF k = 0 THEN 1 ELSE factor * g[k - 1]]

\* There is such a table of any length.
LEMMA UptoExists == ASSUME NEW f, NEW n \in Nat PROVE \E g : Upto(g, n, f)
<1>1. DEFINE T == {m \in Nat : ~ \E g : Upto(g, m, f)}
<1>2. SUFFICES ASSUME T # {} PROVE FALSE
  OBVIOUS
<1>3. PICK m \in T : \A y \in T : m <= y
  BY <1>2, Least
<1>4. CASE m = 0
  <2>1. Upto([k \in 0..0 |-> 1], m, f)
    BY <1>4 DEF Upto
  <2>2. QED
    BY <2>1
<1>5. CASE m # 0
  <2>1. m - 1 \in Nat /\ m - 1 \notin T
    BY <1>3, <1>5
  <2>2. PICK g : Upto(g, m - 1, f)
    BY <2>1
  <2>3. PICK h : h = [k \in 0..m |-> IF k = m THEN f * g[m - 1] ELSE g[k]]
    OBVIOUS
  <2>4. \A k \in 0..m : h[k] = IF k = 0 THEN 1 ELSE f * h[k - 1]
    BY <1>5, <2>1, <2>2, <2>3 DEF Upto
  <2>5. Upto(h, m, f)
    BY <2>3, <2>4 DEF Upto
  <2>6. QED
    BY <2>5
<1>6. QED
  BY <1>4, <1>5

\* Two of them agree where both are defined.
LEMMA UptoAgree ==
  ASSUME NEW f, NEW n \in Nat, NEW m \in Nat, NEW g, NEW h, Upto(g, n, f), Upto(h, m, f),
         NEW k \in Nat, k <= n, k <= m
  PROVE  g[k] = h[k]
<1>1. DEFINE T == {j \in Nat : j <= n /\ j <= m /\ g[j] # h[j]}
<1>2. SUFFICES ASSUME T # {} PROVE FALSE
  OBVIOUS
<1>3. PICK j \in T : \A y \in T : j <= y
  BY <1>2, Least
<1>4. CASE j = 0
  BY <1>4 DEF Upto
<1>5. CASE j # 0
  <2>1. j - 1 \in Nat /\ g[j - 1] = h[j - 1]
    BY <1>3, <1>5
  <2>2. g[j] = f * g[j - 1] /\ h[j] = f * h[j - 1]
    BY <1>5 DEF Upto
  <2>3. QED
    BY <2>1, <2>2
<1>6. QED
  BY <1>4, <1>5

\* So the recursive definition of math.Pow defines a function.
LEMMA PowUnfolds ==
  ASSUME NEW f
  PROVE  Pow(f) = [n \in Nat |-> IF n = 0 THEN 1 ELSE f * Pow(f)[n - 1]]
<1>1. DEFINE below(n) == CHOOSE g : Upto(g, n, f)
             G == [n \in Nat |-> below(n)[n]]
<1>2. \A n \in Nat : Upto(below(n), n, f)
  BY UptoExists
<1>3. HIDE DEF below
<1>4. \A n \in Nat : G[n] = IF n = 0 THEN 1 ELSE f * G[n - 1]
  <2>1. SUFFICES ASSUME NEW n \in Nat PROVE G[n] = IF n = 0 THEN 1 ELSE f * G[n - 1]
    OBVIOUS
  <2>2. CASE n = 0
    BY <1>2, <2>2 DEF Upto
  <2>3. CASE n # 0
    <3>1. n - 1 \in Nat /\ G[n - 1] = below(n - 1)[n - 1] /\ G[n] = below(n)[n]
      BY <2>3
    <3>2. below(n)[n] = f * below(n)[n - 1]
      BY <1>2, <2>3 DEF Upto
    <3>3. below(n)[n - 1] = below(n - 1)[n - 1]
      BY <1>2, <3>1, UptoAgree
    <3>4. QED
      BY <2>3, <3>1, <3>2, <3>3
  <2>4. QED
    BY <2>2, <2>3
<1>5. G = [n \in Nat |-> IF n = 0 THEN 1 ELSE f * G[n - 1]]
  BY <1>4
<1>6. HIDE DEF G
<1>7. \E g : g = [n \in Nat |-> IF n = 0 THEN 1 ELSE f * g[n - 1]]
  BY <1>5
<1>8. QED
  BY <1>7 DEF Pow

\* Powers of a factor of at least 1 are positive and do not fall.
LEMMA PowGrows ==
  ASSUME NEW f \in Nat \ {0}, NEW n \in Nat
  PROVE  Pow(f)[n] \in Nat \ {0} /\ Pow(f)[n] <= Pow(f)[n + 1]
<1>1. \A k \in Nat : Pow(f)[k] = IF k = 0 THEN 1 ELSE f * Pow(f)[k - 1]
  BY PowUnfolds
<1>2. ASSUME NEW x \in Nat \ {0} PROVE f * x \in Nat \ {0} /\ x <= f * x
  <2>1. PICK m \in Nat : f = m + 1
    OBVIOUS
  <2>2. m * x \in Nat /\ f * x = m * x + x
    BY <1>2, <2>1
  <2>3. QED
    BY <1>2, <2>2
<1>3. DEFINE T == {m \in Nat : Pow(f)[m] \notin Nat \ {0}}
<1>4. T = {}
  <2>1. SUFFICES ASSUME T # {} PROVE FALSE
    OBVIOUS
  <2>2. PICK m \in T : \A y \in T : m <= y
    BY <2>1, Least
  <2>3. CASE m = 0
    BY <1>1, <2>3
  <2>4. CASE m # 0
    <3>1. m - 1 \in Nat /\ Pow(f)[m - 1] \in Nat \ {0}
      BY <2>2, <2>4
    <3>2. Pow(f)[m] = f * Pow(f)[m - 1]
      BY <1>1, <2>4
    <3>3. QED
      BY <1>2, <3>1, <3>2
  <2>5. QED
    BY <2>3, <2>4
<1>5. Pow(f)[n] \in Nat \ {0}
  BY <1>4
<1>6. Pow(f)[n + 1] = f * Pow(f)[n]
  BY <1>1
<1>7. QED
  BY <1>2, <1>5, <1>6

\* A factor times the initial delay, with the cap on top.
LEMMA DelayBounds ==
  ASSUME NEW q, WellFormed(q), NEW a \in Int
  PROVE  /\ Delay(q, a) \in Nat
         /\ q.initialBackoff <= Delay(q, a) /\ Delay(q, a) <= q.maxBackoff
         /\ Delay(q, a - 1) <= Delay(q, a)
<1>1. PICK i, m, f : i = q.initialBackoff /\ m = q.maxBackoff /\ f = q.factor
  OBVIOUS
<1>2. i \in Nat \ {0} /\ m \in Nat /\ i <= m /\ f \in Nat \ {0}
  BY <1>1 DEF WellFormed
<1>3. PICK p : p = Pow(f)
  OBVIOUS
<1>4. \A n \in Nat : p[n] \in Nat \ {0} /\ p[n] <= p[n + 1]
  BY <1>2, <1>3, PowGrows
<1>5. ASSUME NEW x \in Nat \ {0}, NEW y \in Nat \ {0}, x <= y
      PROVE  i * x \in Nat /\ i * x <= i * y /\ i <= i * x
  <2>1. PICK z \in Nat : y = x + z
    BY <1>5
  <2>2. PICK w \in Nat : x = 1 + w
    BY <1>5
  <2>3. i * y = i * x + i * z /\ i * x = i + i * w /\ i * z \in Nat /\ i * w \in Nat
    BY <1>2, <2>1, <2>2
  <2>4. QED
    BY <1>2, <1>5, <2>3
<1>6. \A b \in Int : Delay(q, b) =
        IF b <= 1 THEN i ELSE IF i * p[b - 1] < m THEN i * p[b - 1] ELSE m
  BY <1>1, <1>3 DEF Delay
<1>7. CASE a <= 1
  BY <1>1, <1>2, <1>6, <1>7
<1>8. CASE a > 1
  <2>1. /\ p[a - 2] \in Nat \ {0} /\ p[a - 1] \in Nat \ {0} /\ p[a - 2] <= p[a - 1]
    BY <1>4, <1>8
  <2>2. /\ i * p[a - 2] \in Nat /\ i * p[a - 1] \in Nat
        /\ i * p[a - 2] <= i * p[a - 1] /\ i <= i * p[a - 2]
    BY <1>5, <2>1
  <2>3. PICK u, v : u = i * p[a - 2] /\ v = i * p[a - 1]
    OBVIOUS
  <2>4. u \in Nat /\ v \in Nat /\ u <= v /\ i <= u
    BY <2>2, <2>3
  <2>5. Delay(q, a) = IF v < m THEN v ELSE m
    BY <1>6, <1>8, <2>3
  <2>6. Delay(q, a - 1) = i \/ Delay(q, a - 1) = (IF u < m THEN u ELSE m)
    BY <1>6, <1>8, <2>3
  <2>7. QED
    BY <1>1, <1>2, <2>4, <2>5, <2>6
<1>9. QED
  BY <1>7, <1>8

\* The timer of a backoff never holds more than the delay of its attempt.
TimerOK == pc = "sleep" => timer \in 0..Delay(policy, attempt)

\* The timer is set in Spend alone, and policy and attempt do not move while it runs.
LEMMA TimerInd == IndInv /\ TimerOK /\ [Next]_vars => TimerOK'
<1>1. SUFFICES ASSUME IndInv, TimerOK, [Next]_vars, pc' = "sleep"
               PROVE  timer' \in 0..Delay(policy', attempt')
  BY DEF TimerOK
<1>2. policy' = policy /\ WellFormed(policy) /\ attempt \in Nat
  <2>1. policy' = policy
    BY <1>1 DEF Next, Step, vars, Cancel, Tick, Ready, RunReturns, Gone, Start, Close, Decide,
                Spend, Wake, SleepCancelled, OpenOk, OpenFails
  <2>2. QED
    BY <1>1, <2>1 DEF IndInv, TypeOK
<1>3. CASE Spend
  <2>1. timer' = Delay(policy, attempt') /\ attempt' \in Nat
    BY <1>1, <1>2, <1>3 DEF Spend, FailOrRetry, Bump
  <2>2. Delay(policy, attempt') \in Nat
    BY <1>2, <2>1, DelayBounds
  <2>3. QED
    BY <1>2, <2>1, <2>2
<1>4. CASE Tick
  BY <1>1, <1>2, <1>4, DelayBounds DEF Tick, TimerOK
<1>5. CASE ~Spend /\ ~Tick
  <2>1. pc = "sleep" /\ timer' = timer /\ attempt' = attempt
    BY <1>1, <1>5 DEF Next, Step, vars, Cancel, Ready, RunReturns, Gone, Start, Close, Decide,
                Wake, SleepCancelled, OpenOk, OpenFails, StopHere, GoSpend, BeginSession
  <2>2. QED
    BY <1>1, <1>2, <2>1 DEF TimerOK
<1>6. QED
  BY <1>3, <1>4, <1>5

\* Under every policy the validator lets through, and whatever the defaults are, the
\* delays start at the initial backoff, never fall from one attempt to the next and
\* never pass the cap, at any number of attempts.
THEOREM LadderHolds == Spec => []LadderGrows
<1>1. Init => TimerOK
  BY DEF Init, TimerOK
<1>2. IndInv /\ TimerOK => LadderGrows
  BY DelayBounds DEF IndInv, TypeOK, TimerOK, LadderGrows
<1>3. QED
  BY <1>1, <1>2, TimerInd, Inductive, PTL DEF Spec
============================================================================
