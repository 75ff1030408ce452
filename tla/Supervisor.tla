---------------------------- MODULE Supervisor ----------------------------
(***************************************************************************)
(* The supervisor of one stream: internal/server/manager.go (supervise,    *)
(* markFailed, sleepCtx) under the policy of internal/server/restart.go,   *)
(* against any source that honours internal/connector/source.go.  Remove   *)
(* and StopAll appear as Cancel, which may come between any two steps.     *)
(***************************************************************************)
EXTENDS RestartPolicy

CONSTANTS
  Blocks,          \* restart blocks a document may have, and Omitted
  CounterCap       \* where the model stops counting attempts and restarts

ASSUME SupervisorAssumption ==
  /\ Blocks \subseteq RestartBlocks \cup {Omitted}
  /\ CounterCap \in Nat

VARIABLES
  policy,     \* the resolved policy of the stream, fixed when it is admitted
  pc,         \* where the supervisor goroutine stands
  cancelled,  \* the stream's context is cancelled
  attempt,    \* position in the current budget
  restarts,   \* runtime.restarts
  status,     \* runtime.status
  reason,     \* runtime.lastError is set
  open,       \* Opens that returned nil minus Closes
  ready,      \* this session has called ready()
  uptime,     \* ticks since it did, counted up to resetAfter
  timer       \* ticks left of the backoff

vars == <<policy, pc, cancelled, attempt, restarts, status, reason, open, ready, uptime, timer>>

Bump(n) == IF n < CounterCap THEN n + 1 ELSE n

\* Register has validated the config, resolved its policy and opened the source.
Init ==
  /\ policy \in { restartPolicyFor(kind, rc) :
                    kind \in pullKinds \cup pushKinds, rc \in {b \in Blocks : validateRestart(b)} }
  /\ pc = "start"
  /\ cancelled = FALSE
  /\ attempt = 0
  /\ restarts = 0
  /\ status = "connecting"
  /\ reason = FALSE
  /\ open = 1
  /\ ready = FALSE
  /\ uptime = 0
  /\ timer = 0

---------------------------------------------------------------------------
\* Remove or StopAll cancels the stream's context.
Cancel ==
  /\ ~cancelled
  /\ pc # "returned" \/ status = "error"
  /\ cancelled' = TRUE
  /\ UNCHANGED <<policy, pc, attempt, restarts, status, reason, open, ready, uptime, timer>>

\* Time passes for the session's uptime and for the backoff timer.
Tick ==
  /\ \/ /\ pc = "run" /\ ready /\ uptime < policy.resetAfter
        /\ uptime' = uptime + 1
        /\ UNCHANGED timer
     \/ /\ pc = "sleep" /\ timer > 0
        /\ timer' = timer - 1
        /\ UNCHANGED uptime
  /\ UNCHANGED <<policy, pc, cancelled, attempt, restarts, status, reason, open, ready>>

\* A session begins: status connecting, then source.Run.
BeginSession ==
  /\ status' = "connecting"
  /\ ready' = FALSE
  /\ uptime' = 0
  /\ pc' = "run"

Start ==
  /\ pc = "start"
  /\ BeginSession
  /\ UNCHANGED <<policy, cancelled, attempt, restarts, reason, open, timer>>

\* The connector calls ready(): the readyAt stamp and status running.
Ready ==
  /\ pc = "run"
  /\ ~ready
  /\ ready' = TRUE
  /\ status' = "running"
  /\ UNCHANGED <<policy, pc, cancelled, attempt, restarts, reason, open, uptime, timer>>

\* source.Run returns, because the session ended or because of cancellation.
RunReturns ==
  /\ pc = "run"
  /\ pc' = "close"
  /\ UNCHANGED <<policy, cancelled, attempt, restarts, status, reason, open, ready, uptime, timer>>

\* Mutant: Close is only called on the way out.
CloseOnCancel ==
  /\ pc = "close"
  /\ open' = IF cancelled THEN open - 1 ELSE open
  /\ pc' = "decide"
  /\ UNCHANGED <<policy, cancelled, attempt, restarts, status, reason, ready, uptime, timer>>

\* source.Close.
Close ==
  /\ pc = "close"
  /\ open' = open - 1
  /\ pc' = "decide"
  /\ UNCHANGED <<policy, cancelled, attempt, restarts, status, reason, ready, uptime, timer>>

\* The stream was cancelled: it ends as stopped.
StopHere ==
  /\ cancelled
  /\ status' = "stopped"
  /\ pc' = "returned"
  /\ UNCHANGED <<attempt, restarts, reason, timer>>

\* recordFailure, then policy.next: either markFailed, or one more restart,
\* which begins by setting reconnecting and sleeping.
FailOrRetry ==
  /\ reason' = TRUE
  /\ \/ /\ HasBudget(policy, attempt)
        /\ attempt' = Bump(attempt)
        /\ restarts' = Bump(restarts)
        /\ status' = "reconnecting"
        /\ timer' = Delay(policy, attempt')
        /\ pc' = "sleep"
     \/ /\ ~HasBudget(policy, attempt)
        /\ status' = "error"
        /\ pc' = "returned"
        /\ UNCHANGED <<attempt, restarts, timer>>

\* The context was not cancelled when it was looked at.  It may be cancelled
\* before the attempt is spent.
GoSpend ==
  /\ ~cancelled
  /\ pc' = "spend"
  /\ UNCHANGED <<restarts, status, reason, timer>>

\* Mutant: connecting is enough to earn the budget back.
DecideResetsOnReady ==
  /\ pc = "decide"
  /\ \/ StopHere
     \/ GoSpend /\ attempt' = IF ready THEN 0 ELSE attempt
  /\ UNCHANGED <<policy, cancelled, open, ready, uptime>>

\* Mutant: the context is not looked at when a session ends.
DecideDeaf ==
  /\ pc = "decide"
  /\ pc' = "spend"
  /\ attempt' = IF ready /\ uptime >= policy.resetAfter THEN 0 ELSE attempt
  /\ UNCHANGED <<policy, cancelled, open, ready, uptime, restarts, status, reason, timer>>

\* After Close: cancelled, or on to the budget.  A session that stayed up for
\* resetAfter has earned the whole budget back.
Decide ==
  /\ pc = "decide"
  /\ \/ StopHere
     \/ GoSpend /\ attempt' = IF ready /\ uptime >= policy.resetAfter THEN 0 ELSE attempt
  /\ UNCHANGED <<policy, cancelled, open, ready, uptime>>

Spend ==
  /\ pc = "spend"
  /\ FailOrRetry
  /\ UNCHANGED <<policy, cancelled, open, ready, uptime>>

\* sleepCtx returns true.  When the timer and the cancellation are both ready
\* the select may choose either.
Wake ==
  /\ pc = "sleep"
  /\ timer = 0
  /\ pc' = "open"
  /\ UNCHANGED <<policy, cancelled, attempt, restarts, status, reason, open, ready, uptime, timer>>

\* sleepCtx returns false.
SleepCancelled ==
  /\ pc = "sleep"
  /\ StopHere
  /\ UNCHANGED <<policy, cancelled, open, ready, uptime>>

\* source.Open succeeds: binding a listener does not look at the context.
OpenOk ==
  /\ pc = "open"
  /\ open' = open + 1
  /\ BeginSession
  /\ UNCHANGED <<policy, cancelled, attempt, restarts, reason, timer>>

\* Mutant: a failed Open is an attempt even when the stream is being stopped.
OpenFailsBlindly ==
  /\ pc = "open"
  /\ pc' = "spend"
  /\ UNCHANGED <<policy, cancelled, attempt, restarts, status, reason, open, ready, uptime, timer>>

\* source.Open fails.
OpenFails ==
  /\ pc = "open"
  /\ StopHere \/ (GoSpend /\ UNCHANGED attempt)
  /\ UNCHANGED <<policy, cancelled, open, ready, uptime>>

\* The goroutine is gone.
Gone == pc = "returned" /\ cancelled /\ UNCHANGED vars

Step == \/ Start \/ Close \/ Decide \/ Spend \/ Wake \/ SleepCancelled \/ OpenOk \/ OpenFails

Next == Cancel \/ Tick \/ Ready \/ RunReturns \/ Step \/ Gone

Spec == Init /\ [][Next]_vars

(***************************************************************************)
(* The goroutine runs, the clock advances, and a source whose context is   *)
(* cancelled returns from Run, as source.go demands.  A session is not     *)
(* obliged to end otherwise, nor to become ready.                          *)
(***************************************************************************)
Fairness == WF_vars(Step) /\ WF_vars(Tick) /\ WF_vars(cancelled /\ RunReturns)

FairSpec == Spec /\ Fairness

---------------------------------------------------------------------------
(* Properties.                                                             *)

\* Types of the variables (the range of timer is part of LadderGrows).
TypeOK ==
  /\ WellFormed(policy)
  /\ pc \in {"start", "run", "close", "decide", "spend", "sleep", "open", "returned"}
  /\ cancelled \in BOOLEAN
  /\ attempt \in 0..CounterCap
  /\ restarts \in 0..CounterCap
  /\ status \in {"connecting", "running", "reconnecting", "stopped", "error"}
  /\ reason \in BOOLEAN
  /\ open \in 0..1
  /\ ready \in BOOLEAN
  /\ uptime \in 0..policy.resetAfter

\* Whatever mix of failed Opens and ended sessions spends it, the position in
\* the budget never passes the policy's bound, the cumulative count the API
\* serves never falls behind it, and a stream gives up only with the whole
\* budget spent, so never under the unlimited policy.
BudgetKept ==
  /\ policy.maxAttempts # -1 => attempt <= policy.maxAttempts
  /\ attempt <= restarts
  /\ status = "error" => attempt = policy.maxAttempts

\* LIFECYCLE.md section 7: Close once per Open that returned nil, Run only
\* after a successful Open.  So the source is held exactly while a session may
\* use it: never across a backoff, never after the supervisor has returned.
OpenMatchesSession ==
  open = (IF pc \in {"start", "run", "close"} THEN 1 ELSE 0)

\* A stream reported as failed is one whose supervisor gave up by itself, and
\* it can say why (recordFailure); a supervisor that returned says which.
TerminalIsExplained ==
  /\ status = "error" => pc = "returned" /\ reason
  /\ pc = "returned" => status \in {"error", "stopped"} /\ (status = "stopped" => cancelled)

\* Cancellation is not a failed attempt: wherever it lands, the supervisor does
\* not go on to spend an attempt it had not already decided to spend, and all
\* the other steps count no restart, record no failure and report no error.
CancelIsNotFailure ==
  [][cancelled /\ pc # "spend" => /\ pc' # "spend"
                                  /\ UNCHANGED <<attempt, restarts, reason>>
                                  /\ status' = "error" => status = "error"]_vars

\* The ladder of a running backoff, under every policy the validator lets through:
\* at least the initial delay, never above the cap, and no attempt waits less than
\* the one before it, so that "every config that reaches here has a ladder that grows"
\* (restartPolicyFor), which a written end against a default one could break.
LadderGrows ==
  pc = "sleep" =>
    /\ timer \in 0..Delay(policy, attempt)
    /\ policy.initialBackoff <= Delay(policy, attempt)
    /\ Delay(policy, attempt) <= policy.maxBackoff
    /\ Delay(policy, attempt - 1) <= Delay(policy, attempt)

\* The budget is earned by uptime, not by connecting: with a bounded budget a
\* stream whose sessions keep ending, none of them after resetAfter, does not
\* retry for ever.
FlappingGivesUp ==
  (policy.maxAttempts # -1 /\ <>[](uptime < policy.resetAfter) /\ []<>(pc # "run"))
    => <>(pc = "returned")

\* Remove and StopAll wait for the supervisor, so a cancelled one must return.
CancelledReturns == cancelled ~> pc = "returned"

\* The state of LIFECYCLE.md section 2 the supervisor is in.  The verdict on a
\* stream without budget falls when its context is looked at.
LifeNow ==
  CASE pc \in {"start", "run"} -> IF ready /\ pc = "run" THEN "running" ELSE "connecting"
    [] pc \in {"close", "decide", "sleep", "open"} -> "backoff"
    [] pc = "spend" -> IF HasBudget(policy, attempt) THEN "backoff" ELSE "failed"
    [] pc = "returned" -> IF status = "error" THEN "failed" ELSE "stopped"

L == INSTANCE Lifecycle WITH life <- LifeNow, stop <- cancelled

\* Every run of the supervisor is a run of that state machine.
ImplementsLifecycle == L!LifeSpec
============================================================================
