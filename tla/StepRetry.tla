----------------------------- MODULE StepRetry -----------------------------
(***************************************************************************)
(* The requests of one step: KimiSoul::chat_with_step_retry of             *)
(* src/src/agent/soul.cpp with StepRetryPolicy of agent/step_retry.cpp.    *)
(* A failed request is retried within a budget, and once more after each   *)
(* of the two recoveries: refreshing the credentials and re-arming the     *)
(* transport.  An empty response also raises the output budget of the      *)
(* backend, which outlives the step.                                       *)
(*                                                                         *)
(* What the backend answers, whether it can refresh its credentials, and   *)
(* when the user cancels are free choices.  How long a retry sleeps is left*)
(* out.                                                                    *)
(***************************************************************************)
EXTENDS Integers

CONSTANTS
    MaxRetriesPerStep,  \* loop_control.max_retries_per_step
    Statuses,           \* HTTP statuses a request may fail with
    OutputBudgets,      \* values of Config::max_tokens the backend may start with
    BaseBudget,         \* 8192
    IntSize,            \* 2^31, half the number of values of an int32_t
    MaxCalls            \* bound on the calls of chat_with_step_retry

ASSUME RetryAssumption ==
    /\ MaxRetriesPerStep \in Int
    /\ Statuses \subseteq Nat
    /\ IntSize \in Nat \ {0} /\ BaseBudget \in 0..(IntSize - 1)
    /\ OutputBudgets \subseteq 0..(IntSize - 1)
    /\ MaxCalls \in Nat

VARIABLES
    pc,                 \* where the call is; "idle" between two calls
    calls,              \* calls made so far
    attempt,            \* the loop's counter
    auth_retried,       \* the credentials have been refreshed in this call
    connection_retried, \* on_retryable_error has been called in this call
    res,                \* the last answer
    cancel,             \* the turn's CancelToken
    budget,             \* the backend's output_token_budget
    supports,           \* the backend's supports_retryable_recovery
    chats,              \* requests of this call                    (history)
    sleeps,             \* retries of this call paid by the budget  (history)
    late                \* requests of this call sent after cancel  (history)

flags == <<auth_retried, connection_retried>>
vars == <<pc, calls, attempt, flags, res, cancel, budget, supports, chats, sleeps, late>>

----------------------------------------------------------------------------
\* classify_step_error and is_retryable_step_error.

\* "ok" stands for res.ok, "none" for a failure without an error kind.
Results == {[kind |-> k, status |-> 0] :
               k \in {"ok", "none", "connection", "timeout", "empty_response",
                      "not_supported", "aborted"}}
           \union {[kind |-> "http", status |-> s] : s \in Statuses}

http_category(s) ==
    CASE s = 429             -> "rate_limit"
      [] s \in {401, 403}    -> "auth"
      [] s >= 500            -> "server_error"
      [] s \in 400..499 \ {401, 403, 429} -> "client_error"
      [] OTHER               -> "other"

classify_step_error(r) ==
    CASE r.kind = "http"       -> http_category(r.status)
      [] r.kind = "connection" -> "network"
      [] r.kind = "aborted"    -> "other"
      [] OTHER                 -> r.kind

is_retryable_step_error(r) ==
    \/ classify_step_error(r) \in {"network", "timeout", "empty_response", "rate_limit"}
    \/ /\ classify_step_error(r) = "server_error"
       /\ r.status \in {500, 502, 503, 504}

auth_failure(r) == classify_step_error(r) = "auth"

----------------------------------------------------------------------------
\* StepRetryPolicy and the output budget.

max_attempts == IF MaxRetriesPerStep > 0 THEN MaxRetriesPerStep ELSE 1

\* Mutant: the last attempt of the budget is not made.
can_retry_one_less(n) == n + 1 < max_attempts

can_retry(n) == n < max_attempts

\* The conversion of set_output_token_budget from int64_t to int32_t.
to_int32(n) == IF n < IntSize THEN n ELSE n - 2 * IntSize

current_budget(b) == IF b > 0 THEN b ELSE BaseBudget

\* Mutant: the result is not narrowed.
escalate_wide(b) == (current_budget(b) * 3) \div 2

\* Mutant: the product is computed in 32 bits.
escalate_narrow(b) ==
    LET n == (current_budget(b) * 3) % (2 * IntSize)
    IN  (IF n < IntSize THEN n ELSE n - 2 * IntSize) \div 2

escalate(b) == to_int32((current_budget(b) * 3) \div 2)

----------------------------------------------------------------------------

Init ==
    /\ pc = "idle" /\ calls = 0 /\ attempt = 1
    /\ auth_retried = FALSE /\ connection_retried = FALSE
    /\ res = [kind |-> "ok", status |-> 0]
    /\ cancel = FALSE
    /\ budget \in OutputBudgets
    /\ supports \in BOOLEAN
    /\ chats = 0 /\ sleeps = 0 /\ late = 0

\* A step calls chat_with_step_retry; its turn may have been cancelled since
\* the turn loop last looked at the token.
Enter ==
    /\ pc = "idle" /\ calls < MaxCalls
    /\ pc' = "request" /\ calls' = calls + 1 /\ attempt' = 1
    /\ auth_retried' = FALSE /\ connection_retried' = FALSE
    /\ cancel' \in BOOLEAN
    /\ chats' = 0 /\ sleeps' = 0 /\ late' = 0
    /\ UNCHANGED <<res, budget, supports>>

\* The request is recorded and sent.
Send ==
    /\ pc = "request"
    /\ pc' = "sent"
    /\ chats' = chats + 1
    /\ late' = IF cancel THEN late + 1 ELSE late
    /\ UNCHANGED <<calls, attempt, flags, res, cancel, budget, supports, sleeps>>

Answer ==
    /\ pc = "sent"
    /\ pc' = "answered"
    /\ res' \in Results
    /\ UNCHANGED <<calls, attempt, flags, cancel, budget, supports, chats, sleeps, late>>

\* Another thread cancels the turn.
Cancel ==
    /\ pc # "idle" /\ ~cancel
    /\ cancel' = TRUE
    /\ UNCHANGED <<pc, calls, attempt, flags, res, budget, supports, chats, sleeps, late>>

Return ==
    /\ pc' = "idle"
    /\ UNCHANGED <<calls, attempt, cancel, res, budget, supports, chats, sleeps, late>>

\* The loop's next iteration: every one of them counts an attempt.
Again ==
    /\ pc' = "request" /\ attempt' = attempt + 1
    /\ UNCHANGED <<calls, res, cancel, supports, chats, late>>

Succeed == pc = "answered" /\ res.kind = "ok" /\ Return /\ UNCHANGED flags

ReturnCancelled ==
    /\ pc = "answered" /\ res.kind # "ok" /\ cancel
    /\ Return /\ UNCHANGED flags

\* Mutant: the token is not looked at.
failed_unheeded(retryable) ==
    /\ pc = "answered" /\ res.kind # "ok"
    /\ retryable = is_retryable_step_error(res)

\* A failure the loop goes on with: not cancelled, retryable or of the credentials.
failed(retryable) ==
    /\ pc = "answered" /\ res.kind # "ok" /\ ~cancel
    /\ retryable = is_retryable_step_error(res)

NotRecoverable ==
    /\ failed(FALSE) /\ ~auth_failure(res)
    /\ Return /\ UNCHANGED flags

\* Raises the output budget after an empty response, and sleeps.
BudgetRetry ==
    /\ failed(TRUE) /\ can_retry(attempt)
    /\ pc' = "sleeping"
    /\ budget' = IF classify_step_error(res) = "empty_response"
                 THEN escalate(budget) ELSE budget
    /\ UNCHANGED <<calls, attempt, flags, res, cancel, supports, chats, sleeps, late>>

\* The sleep ends; it does not look at the token.
WakeUp ==
    /\ pc = "sleeping"
    /\ Again
    /\ sleeps' = sleeps + 1
    /\ UNCHANGED <<flags, budget>>

\* refresh_auth is called and answers true.
RefreshAuth ==
    /\ failed(FALSE) /\ auth_failure(res) /\ ~auth_retried
    /\ auth_retried' = TRUE
    /\ Again
    /\ UNCHANGED <<connection_retried, budget, sleeps>>

\* It has been called before, or answers false.
RefreshRefused ==
    /\ failed(FALSE) /\ auth_failure(res)
    /\ auth_retried' = TRUE
    /\ Return
    /\ UNCHANGED connection_retried

\* Mutant: it is not noted that the transport has been re-armed.
ReconnectForgetful ==
    /\ failed(TRUE) /\ ~can_retry(attempt) /\ ~connection_retried
    /\ supports
    /\ Again
    /\ UNCHANGED <<flags, budget, sleeps>>

\* The budget is spent: on_retryable_error is called, once, and a backend that
\* supports it gets one more attempt.
Reconnect ==
    /\ failed(TRUE) /\ ~can_retry(attempt) /\ ~connection_retried
    /\ connection_retried' = TRUE
    /\ supports
    /\ Again
    /\ UNCHANGED <<auth_retried, budget, sleeps>>

\* Mutant: the recovery counts as tried only when it succeeds.
ReconnectRefusedUntried ==
    /\ failed(TRUE) /\ ~can_retry(attempt)
    /\ ~supports
    /\ Return
    /\ UNCHANGED flags

\* It has been called before, or the backend does not support it.
ReconnectRefused ==
    /\ failed(TRUE) /\ ~can_retry(attempt)
    /\ connection_retried \/ ~supports
    /\ connection_retried' = TRUE
    /\ Return
    /\ UNCHANGED auth_retried

Next ==
    \/ Enter \/ Send \/ Answer \/ Cancel
    \/ Succeed \/ ReturnCancelled \/ NotRecoverable
    \/ BudgetRetry \/ WakeUp
    \/ RefreshAuth \/ RefreshRefused
    \/ Reconnect \/ ReconnectRefused

Spec == Init /\ [][Next]_vars

----------------------------------------------------------------------------

\* The budget stays an int32_t, whatever the escalations (soul.cpp:2379).
TypeOK ==
    /\ pc \in {"idle", "request", "sent", "answered", "sleeping"}
    /\ calls \in 0..MaxCalls
    /\ attempt \in Nat \ {0}
    /\ auth_retried \in BOOLEAN /\ connection_retried \in BOOLEAN
    /\ cancel \in BOOLEAN /\ supports \in BOOLEAN
    /\ res \in Results
    /\ budget \in (-IntSize)..(IntSize - 1)
    /\ chats \in Nat /\ sleeps \in Nat /\ late \in Nat

\* One step never sends more requests than its budget and one for each
\* recovery, in whatever order the backend fails with 401 and with transport
\* errors (the loop of soul.cpp:2341 has no bound of its own).
RequestsBounded == chats <= max_attempts + 2

\* A step whose credentials were not refreshed re-arms its transport only when
\* every retry of the budget has been made, and then at once (soul.cpp:2423).
BudgetSpentFirst ==
    connection_retried /\ ~auth_retried => sleeps = max_attempts - 1

\* What the comments say of the refresh: the credentials are refreshed "without
\* costing the retry budget" (soul.cpp:2410), "OUTSIDE the retry budget"
\* (soul.h:177), so a step that re-arms its transport has had every retry of the
\* budget, refreshed or not.  The code counts the refreshed attempt like any
\* other (soul.cpp:2341), and the step has one retry less.
RefreshOutsideBudget == connection_retried => sleeps >= max_attempts - 1

\* Once the turn is cancelled the step sends at most one more request: the one
\* whose backoff sleep was running (soul.cpp:2362, "a cancelled request is
\* never slept on or retried").
CancelStopsRetries == late <= 1

\* A step of an uncancelled turn that ends with a failure a recovery exists for
\* has tried that recovery (soul.cpp:2397-2430).
FailureStandsLast ==
    (pc = "idle" /\ ~cancel) =>
        /\ is_retryable_step_error(res) => connection_retried
        /\ auth_failure(res) => auth_retried

\* An escalation raises the output budget or, when it leaves the int32_t range,
\* makes it negative, so that the next one starts over from the base: it never
\* leaves a smaller positive budget (soul.cpp:2379, 612).
EscalationNeverShrinks == [][budget' # budget => (budget' > budget \/ budget' <= 0)]_vars
============================================================================
