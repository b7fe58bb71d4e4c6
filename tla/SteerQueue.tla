----------------------------- MODULE SteerQueue -----------------------------
(***************************************************************************)
(* The queue through which other threads steer a running turn:             *)
(* src/src/agent/steer.{h,cpp}.  A step is one critical section of the     *)
(* queue's mutex, or one access to the atomic wake flag or to the soul's   *)
(* turn handle; what lies between two of them in one call is a state of    *)
(* the calling thread.                                                     *)
(*                                                                         *)
(* The turn's side of the queue (drain, clear, close, reopen, the wake     *)
(* flag) is a set of operators the module SoulTurn calls.                  *)
(***************************************************************************)
EXTENDS Naturals, Sequences

CONSTANTS
    Callers,    \* threads that steer
    MaxCalls,   \* calls each of them makes
    Ops         \* the operations they call

Direct == {"steer", "request", "sync"}      \* on the soul itself

ASSUME SteerAssumption ==
    /\ MaxCalls \in Nat
    /\ Ops \subseteq Direct \union {"push", "clear"}

VARIABLES
    queue,      \* _queue, oldest first
    wake,       \* _wake
    closed,     \* _closed
    running,    \* KimiSoul::is_running(): the turn handle is set
    caller,     \* what each calling thread is doing
    sent,       \* calls each thread has begun
    accepted,   \* every steer the queue took, in order          (history)
    told        \* what calls returned: <<steer, answer, operation>>  (history)

steerVars == <<queue, wake, closed, running, caller, sent, accepted, told>>

Steers == Callers \X (1..MaxCalls)

\* idle; checked: Steer::push() has read is_running(); enqueued: in request(),
\* before the wake flag is set; notified: in push_sync(), about to evaluate the
\* predicate of the wait; waiting: asleep on the condition variable; woken:
\* Steer::push_sync() is about to read is_running().
CallerStates == {"idle", "checked", "enqueued", "notified", "waiting", "woken"}
Idle == [at |-> "idle", op |-> "steer", says |-> FALSE, facade |-> FALSE]

SteerInit ==
    /\ queue = <<>>
    /\ wake = FALSE
    /\ closed = FALSE      \* open until the first turn has ended
    /\ running = FALSE
    /\ caller = [c \in Callers |-> Idle]
    /\ sent = [c \in Callers |-> 0]
    /\ accepted = <<>>
    /\ told = {}

Steer(c) == <<c, sent[c]>>
Return(c, s, op, answer) ==
    /\ caller' = [caller EXCEPT ![c] = Idle]
    /\ told' = told \union {<<s, answer, op>>}

\* SteerQueue::push under the mutex, for the call op of thread c with steer s:
\* a closed queue refuses, an open one takes the steer.  says is what the
\* facade Steer::push() returns whatever happens here.
EnqueueAs(c, s, op, facade, says) ==
    IF closed
    THEN /\ IF facade \/ op = "sync" THEN Return(c, s, op, facade /\ says)
            ELSE caller' = [caller EXCEPT ![c] = Idle] /\ UNCHANGED told
         /\ UNCHANGED <<queue, accepted>>
    ELSE /\ queue' = Append(queue, s)
         /\ accepted' = Append(accepted, s)
         /\ IF op # "steer"
            THEN /\ caller' = [caller EXCEPT ![c] =
                        [at |-> "enqueued", op |-> op, says |-> says, facade |-> facade]]
                 /\ UNCHANGED told
            ELSE IF facade THEN Return(c, s, op, says)
            ELSE caller' = [caller EXCEPT ![c] = Idle] /\ UNCHANGED told

\* KimiSoul::steer, request_steer and push_steer_sync.
Call(c, op) ==
    /\ caller[c].at = "idle"
    /\ sent[c] < MaxCalls
    /\ sent' = [sent EXCEPT ![c] = @ + 1]
    /\ EnqueueAs(c, <<c, sent[c] + 1>>, op, FALSE, FALSE)
    /\ UNCHANGED <<wake, closed, running>>

\* Steer::push: a running soul gets the interrupting delivery and the answer
\* true; otherwise the steer is only queued and the answer is false.
PushCheck(c) ==
    /\ "push" \in Ops
    /\ caller[c].at = "idle"
    /\ sent[c] < MaxCalls
    /\ sent' = [sent EXCEPT ![c] = @ + 1]
    /\ caller' = [caller EXCEPT ![c] =
                     [at |-> "checked", op |-> IF running THEN "request" ELSE "steer",
                      says |-> running, facade |-> TRUE]]
    /\ UNCHANGED <<queue, wake, closed, running, accepted, told>>

PushEnqueue(c) ==
    /\ caller[c].at = "checked"
    /\ EnqueueAs(c, Steer(c), caller[c].op, TRUE, caller[c].says)
    /\ UNCHANGED <<wake, closed, running, sent>>

\* The second half of SteerQueue::request.
RaiseWake(c) ==
    /\ caller[c].at = "enqueued"
    /\ wake' = TRUE
    /\ IF caller[c].op = "sync"
       THEN caller' = [caller EXCEPT ![c].at = "notified"] /\ UNCHANGED told
       ELSE IF caller[c].facade THEN Return(c, Steer(c), caller[c].op, caller[c].says)
       ELSE caller' = [caller EXCEPT ![c] = Idle] /\ UNCHANGED told
    /\ UNCHANGED <<queue, closed, running, sent, accepted>>

drained == queue = <<>> \/ closed

\* Mutant: whatever ends the wait counts as consumption.
SyncCheckClosed(c) ==
    /\ caller[c].at = "notified"
    /\ caller' = IF drained THEN [caller EXCEPT ![c].at = "woken", ![c].says = TRUE]
                 ELSE [caller EXCEPT ![c].at = "waiting"]
    /\ UNCHANGED <<queue, wake, closed, running, sent, accepted, told>>

\* The condition variable's predicate wait, the mutex held: the call goes on
\* when the predicate holds and sleeps (again) when it does not.
SyncCheck(c) ==
    /\ caller[c].at = "notified"
    /\ caller' = IF drained
                 THEN [caller EXCEPT ![c].at = "woken",
                                     ![c].says = queue = <<>> /\ ~closed]
                 ELSE [caller EXCEPT ![c].at = "waiting"]
    /\ UNCHANGED <<queue, wake, closed, running, sent, accepted, told>>

\* wait_for gives up; the answer still comes from the queue as it is then.
SyncTimeout(c) ==
    /\ caller[c].at = "waiting"
    /\ caller' = [caller EXCEPT ![c].at = "woken",
                                ![c].says = queue = <<>> /\ ~closed]
    /\ UNCHANGED <<queue, wake, closed, running, sent, accepted, told>>

\* Steer::push_sync: consumed && is_running().
SyncReturn(c) ==
    /\ caller[c].at = "woken"
    /\ Return(c, Steer(c), "sync", caller[c].says /\ running)
    /\ UNCHANGED <<queue, wake, closed, running, sent, accepted>>

\* Mutant: a waiter is not woken.
notify_nobody == UNCHANGED caller

\* _consumed.notify_all()
notify_all ==
    caller' = [c \in Callers |->
                 IF caller[c].at = "waiting"
                 THEN [caller[c] EXCEPT !.at = "notified"] ELSE caller[c]]

\* Steer::clear by an outside thread.
ClearCall(c) ==
    /\ "clear" \in Ops
    /\ caller[c].at = "idle"
    /\ sent[c] < MaxCalls
    /\ sent' = [sent EXCEPT ![c] = @ + 1]
    /\ queue' = <<>>
    /\ notify_all
    /\ UNCHANGED <<wake, closed, running, accepted, told>>

CallerNext(c) ==
    \/ \E op \in Ops \intersect Direct : Call(c, op)
    \/ PushCheck(c) \/ PushEnqueue(c)
    \/ RaiseWake(c)
    \/ SyncCheck(c) \/ SyncTimeout(c) \/ SyncReturn(c)
    \/ ClearCall(c)

----------------------------------------------------------------------------
\* The turn's side; each is one step of the thread that runs the turn.

\* Mutant: the drained steers stay in the queue.
drain_copy == UNCHANGED <<queue, wake, closed, running, sent, accepted, told>> /\ notify_all

drain == queue' = <<>> /\ notify_all /\ UNCHANGED <<wake, closed, running, sent, accepted, told>>

\* Mutant: the steers of the pause between two turns are kept.
clear_nothing == UNCHANGED <<queue, wake, closed, running, sent, accepted, told>> /\ notify_all

clear == queue' = <<>> /\ notify_all /\ UNCHANGED <<wake, closed, running, sent, accepted, told>>

reset_wake == wake' = FALSE /\ UNCHANGED <<queue, closed, running, caller, sent, accepted, told>>
\* Mutant: closing empties the queue.
close_emptied == closed' = TRUE /\ queue' = <<>> /\ notify_all /\ UNCHANGED <<wake, running, sent, accepted, told>>

close == closed' = TRUE /\ notify_all /\ UNCHANGED <<queue, wake, running, sent, accepted, told>>
reopen == closed' = FALSE /\ UNCHANGED <<queue, wake, running, caller, sent, accepted, told>>
set_running(b) == running' = b /\ UNCHANGED <<queue, wake, closed, caller, sent, accepted, told>>

SteerTypeOK ==
    /\ queue \in Seq(Steers)
    /\ wake \in BOOLEAN
    /\ closed \in BOOLEAN
    /\ running \in BOOLEAN
    /\ caller \in [Callers -> [at : CallerStates, op : Direct, says : BOOLEAN,
                               facade : BOOLEAN]]
    /\ sent \in [Callers -> 0..MaxCalls]
    /\ accepted \in Seq(Steers)
    /\ told \subseteq Steers \X BOOLEAN \X Direct
=============================================================================
