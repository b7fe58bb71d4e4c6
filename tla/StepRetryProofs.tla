-------------------------- MODULE StepRetryProofs --------------------------
(***************************************************************************)
(* Proofs about StepRetry, for every retry budget, every set of statuses   *)
(* and every width of the output budget.                                   *)
(*                                                                         *)
(* None of the three invariants is inductive.  RequestsBounded needs the   *)
(* loop's counter to be the number of requests and to exceed the budget    *)
(* only by the recoveries made (Accounted); CancelStopsRetries needs to    *)
(* know that only a request already sent can be a late one (LateOnlySent). *)
(***************************************************************************)
EXTENDS StepRetry, TLAPS

One(b) == IF b THEN 1 ELSE 0

\* While a call runs, its attempts are the first one, the retries paid by the
\* budget and the recoveries; a retry is only slept for within the budget.
Accounted ==
    /\ attempt <= max_attempts + One(auth_retried) + One(connection_retried)
    /\ pc # "idle" => attempt = 1 + sleeps + One(auth_retried) + One(connection_retried)
    /\ pc \in {"sent", "answered", "sleeping"} => chats = attempt
    /\ pc = "request" => chats = attempt - 1
    /\ pc = "idle" => chats <= attempt
    /\ pc = "sleeping" => attempt < max_attempts

\* A request is late only when the turn is cancelled, and none is when the next
\* one is about to be sent.
LateOnlySent ==
    /\ late > 0 => cancel
    /\ pc \in {"request", "sleeping"} => late = 0

\* The inductive invariant.
IInv ==
    /\ TypeOK
    /\ Accounted /\ BudgetSpentFirst
    /\ LateOnlySent /\ CancelStopsRetries
    /\ FailureStandsLast

\* The Boolean conjuncts of TypeOK and the others.
BooleansOK ==
    /\ auth_retried \in BOOLEAN /\ connection_retried \in BOOLEAN
    /\ cancel \in BOOLEAN /\ supports \in BOOLEAN
RestOK ==
    /\ pc \in {"idle", "request", "sent", "answered", "sleeping"}
    /\ calls \in 0..MaxCalls
    /\ attempt \in Nat \ {0}
    /\ res \in Results
    /\ budget \in (-IntSize)..(IntSize - 1)
    /\ chats \in Nat /\ sleeps \in Nat /\ late \in Nat

\* Together they are TypeOK.
LEMMA TypeParts == TypeOK <=> BooleansOK /\ RestOK
  BY Zenon DEF TypeOK, BooleansOK, RestOK

\* The budget of StepRetryPolicy is at least one attempt.
LEMMA MaxAttemptsType == max_attempts \in Nat \ {0}
  BY RetryAssumption DEF max_attempts

\* set_output_token_budget keeps every int32_t an int32_t.
LEMMA EscalateType ==
    ASSUME NEW b \in (-IntSize)..(IntSize - 1)
    PROVE  escalate(b) \in (-IntSize)..(IntSize - 1)
<1>1. current_budget(b) \in 0..(IntSize - 1)
  BY RetryAssumption DEF current_budget
<1>2. (current_budget(b) * 3) \div 2 \in 0..(2 * IntSize)
  BY <1>1, RetryAssumption
<1>3. (current_budget(b) * 3) \div 2 < 2 * IntSize
  BY <1>1, RetryAssumption
<1> QED
  BY <1>2, <1>3, RetryAssumption DEF escalate, to_int32

\* An escalation gives a larger budget or a negative one: one and a half times
\* an int32_t never wraps all the way round.
LEMMA EscalateRaises ==
    ASSUME NEW b \in (-IntSize)..(IntSize - 1)
    PROVE  escalate(b) > b \/ escalate(b) <= 0 \/ escalate(b) = b
<1>1. current_budget(b) \in 0..(IntSize - 1) /\ current_budget(b) >= b
  BY RetryAssumption DEF current_budget
<1>2. /\ (current_budget(b) * 3) \div 2 \in Int
      /\ (current_budget(b) * 3) \div 2 >= current_budget(b)
      /\ (current_budget(b) * 3) \div 2 < 2 * IntSize
  BY <1>1, RetryAssumption
<1> QED
  BY <1>1, <1>2, RetryAssumption DEF escalate, to_int32

\* The loop's initial state: no call has been made.
LEMMA InitIInv == Init => IInv
<1> SUFFICES ASSUME Init PROVE IInv
  OBVIOUS
<1>1. TypeOK
  <2>1. res \in Results
    BY Zenon DEF Init, Results
  <2>2. budget \in (-IntSize)..(IntSize - 1)
    BY RetryAssumption DEF Init
  <2>3. BooleansOK
    BY Zenon DEF Init, BooleansOK
  <2>4. RestOK
    BY <2>1, <2>2, RetryAssumption DEF Init, RestOK
  <2> QED
    BY <2>3, <2>4, TypeParts
<1>2. FailureStandsLast
  BY DEF Init, FailureStandsLast, is_retryable_step_error, auth_failure, classify_step_error
<1>3. Accounted /\ BudgetSpentFirst
  BY MaxAttemptsType DEF Init, Accounted, BudgetSpentFirst, One
<1>4. LateOnlySent /\ CancelStopsRetries
  BY DEF Init, LateOnlySent, CancelStopsRetries
<1> QED
  BY <1>1, <1>2, <1>3, <1>4 DEF IInv

\* A failure of the credentials is never retryable.
LEMMA AuthNotRetryable ==
    ASSUME NEW r, auth_failure(r)
    PROVE  ~is_retryable_step_error(r)
  BY DEF auth_failure, is_retryable_step_error

\* Every step of chat_with_step_retry, of the backend and of the cancelling
\* thread keeps the invariant.
LEMMA NextIInv == IInv /\ [Next]_vars => IInv'
<1> SUFFICES ASSUME IInv, [Next]_vars PROVE IInv'
  OBVIOUS
<1> USE MaxAttemptsType DEF IInv
<1>B. BooleansOK'
  <2> USE DEF BooleansOK
  <2>1. BooleansOK
    BY TypeParts
  <2>2. CASE Enter
    BY <2>1, <2>2, Zenon DEF Enter
  <2>3. CASE Send \/ Answer \/ Cancel
    BY <2>1, <2>3, Zenon DEF Send, Answer, Cancel, flags
  <2>4. CASE Succeed \/ ReturnCancelled \/ NotRecoverable \/ RefreshRefused \/ ReconnectRefused
    BY <2>1, <2>4, Zenon DEF Succeed, ReturnCancelled, NotRecoverable, RefreshRefused,
                             ReconnectRefused, Return, flags
  <2>5. CASE BudgetRetry \/ WakeUp \/ RefreshAuth \/ Reconnect
    BY <2>1, <2>5, Zenon DEF BudgetRetry, WakeUp, RefreshAuth, Reconnect, Again, flags
  <2>6. CASE UNCHANGED vars
    BY <2>1, <2>6, Zenon DEF vars, flags
  <2> QED
    BY <2>2, <2>3, <2>4, <2>5, <2>6 DEF Next
<1>R. RestOK'
  <2>1. RestOK
    BY TypeParts
  <2> USE <2>1 DEF RestOK
  <2>2. CASE Enter
    BY <2>2, RetryAssumption DEF Enter
  <2>3. CASE BudgetRetry
    <3>1. budget' = budget \/ budget' = escalate(budget)
      BY <2>3 DEF BudgetRetry
    <3>2. budget' \in (-IntSize)..(IntSize - 1)
      BY <3>1, EscalateType
    <3> QED
      BY <2>3, <3>2 DEF BudgetRetry
  <2>4. CASE Send \/ Answer \/ Cancel
    BY <2>4 DEF Send, Answer, Cancel
  <2>5. CASE Succeed \/ ReturnCancelled \/ NotRecoverable \/ RefreshRefused \/ ReconnectRefused
    BY <2>5 DEF Succeed, ReturnCancelled, NotRecoverable, RefreshRefused,
                ReconnectRefused, Return
  <2>6. CASE WakeUp
    BY <2>6 DEF WakeUp, Again
  <2>7. CASE RefreshAuth \/ Reconnect
    <3>1. Again /\ UNCHANGED <<budget, sleeps>>
      BY <2>7, Zenon DEF RefreshAuth, Reconnect
    <3> QED
      BY <3>1 DEF Again
  <2>8. CASE UNCHANGED vars
    BY <2>8 DEF vars
  <2> QED
    BY <2>2, <2>3, <2>4, <2>5, <2>6, <2>7, <2>8 DEF Next
<1>T. TypeOK'
  BY <1>B, <1>R, Zenon DEF TypeOK, BooleansOK, RestOK
<1>A. (Accounted /\ BudgetSpentFirst)'
  <2> USE DEF Accounted, BudgetSpentFirst, TypeOK, One
  <2>1. CASE Enter
    BY <2>1 DEF Enter
  <2>2. CASE Send \/ Answer \/ Cancel
    BY <2>2 DEF Send, Answer, Cancel, flags
  <2>3. CASE Succeed \/ ReturnCancelled \/ NotRecoverable \/ RefreshRefused
    BY <2>3 DEF Succeed, ReturnCancelled, NotRecoverable, RefreshRefused,
                failed, Return, flags
  <2>4. CASE ReconnectRefused
    BY <2>4 DEF ReconnectRefused, failed, can_retry, Return
  <2>5. CASE BudgetRetry
    BY <2>5 DEF BudgetRetry, failed, can_retry, flags
  <2>6. CASE WakeUp
    BY <2>6 DEF WakeUp, Again, flags
  <2>7. CASE RefreshAuth
    BY <2>7 DEF RefreshAuth, failed, Again
  <2>8. CASE Reconnect
    BY <2>8 DEF Reconnect, failed, can_retry, Again
  <2>9. CASE UNCHANGED vars
    BY <2>9 DEF vars, flags
  <2> QED
    BY <2>1, <2>2, <2>3, <2>4, <2>5, <2>6, <2>7, <2>8, <2>9 DEF Next
<1>L. (LateOnlySent /\ CancelStopsRetries)'
  <2> USE DEF LateOnlySent, CancelStopsRetries, TypeOK
  <2>1. CASE Enter \/ Send \/ Answer \/ Cancel
    BY <2>1 DEF Enter, Send, Answer, Cancel
  <2>2. CASE Succeed \/ ReturnCancelled \/ NotRecoverable \/ RefreshRefused \/ ReconnectRefused
    BY <2>2 DEF Succeed, ReturnCancelled, NotRecoverable, RefreshRefused,
                ReconnectRefused, Return
  <2>3. CASE BudgetRetry \/ WakeUp \/ RefreshAuth \/ Reconnect
    BY <2>3 DEF BudgetRetry, WakeUp, RefreshAuth, Reconnect, failed, Again
  <2>4. CASE UNCHANGED vars
    BY <2>4 DEF vars
  <2> QED
    BY <2>1, <2>2, <2>3, <2>4 DEF Next
<1>F. FailureStandsLast'
  <2> USE DEF FailureStandsLast, TypeOK
  <2>1. CASE pc' # "idle"
    BY <2>1
  <2>2. CASE Succeed
    BY <2>2 DEF Succeed, Return, is_retryable_step_error, auth_failure, classify_step_error
  <2>3. CASE ReturnCancelled
    BY <2>3 DEF ReturnCancelled, Return
  <2>4. CASE NotRecoverable
    BY <2>4 DEF NotRecoverable, failed, Return
  <2>5. CASE RefreshRefused
    BY <2>5 DEF RefreshRefused, failed, Return
  <2>6. CASE ReconnectRefused
    BY <2>6, AuthNotRetryable DEF ReconnectRefused, failed, Return
  <2>7. CASE UNCHANGED vars
    BY <2>7 DEF vars, flags
  <2>8. CASE Enter \/ Send \/ Answer \/ Cancel \/ BudgetRetry \/ WakeUp \/ RefreshAuth \/ Reconnect
    BY <2>8, <2>1 DEF Enter, Send, Answer, Cancel, BudgetRetry, WakeUp, RefreshAuth,
                      Reconnect, Again
  <2> QED
    BY <2>1, <2>2, <2>3, <2>4, <2>5, <2>6, <2>7, <2>8 DEF Next
<1> QED
  BY <1>T, <1>A, <1>L, <1>F

\* The invariant in every state of the loop.
THEOREM Invariance == Spec => []IInv
  BY InitIInv, NextIInv, PTL DEF Spec

\* Every counter of the retry loop keeps its range, the output budget its width.
THEOREM RetryTypes == Spec => []TypeOK
  BY Invariance, PTL DEF IInv

\* One step sends at most max_attempts + 2 requests, for every budget.
THEOREM RequestsAreBounded == Spec => []RequestsBounded
<1>1. IInv => RequestsBounded
  BY MaxAttemptsType DEF IInv, TypeOK, Accounted, RequestsBounded, One
<1> QED
  BY <1>1, Invariance, PTL

\* After a cancellation at most one more request is sent.
THEOREM CancellationStopsRetries == Spec => []CancelStopsRetries
  BY Invariance, PTL DEF IInv

\* Without a refresh of the credentials the transport is re-armed exactly when
\* the budget is spent, for every budget.
THEOREM RearmedLast == Spec => []BudgetSpentFirst
  BY Invariance, PTL DEF IInv

\* A failure is final only when its recovery has been tried.
THEOREM RecoveryTried == Spec => []FailureStandsLast
  BY Invariance, PTL DEF IInv

\* No escalation leaves a smaller positive output budget.
THEOREM EscalationSafe == Spec => EscalationNeverShrinks
<1>1. IInv /\ [Next]_vars => [budget' # budget => (budget' > budget \/ budget' <= 0)]_vars
  <2> SUFFICES ASSUME IInv, Next, budget' # budget
               PROVE  budget' > budget \/ budget' <= 0
    OBVIOUS
  <2>1. BudgetRetry
    BY DEF Next, Enter, Send, Answer, Cancel, Succeed, ReturnCancelled, NotRecoverable,
           WakeUp, RefreshAuth, RefreshRefused, Reconnect, ReconnectRefused, Return
  <2>2. budget' = escalate(budget)
    BY <2>1 DEF BudgetRetry
  <2> QED
    BY <2>2, EscalateRaises DEF IInv, TypeOK
<1> QED
  BY <1>1, Invariance, PTL DEF Spec, EscalationNeverShrinks
============================================================================
