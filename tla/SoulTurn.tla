------------------------------ MODULE SoulTurn ------------------------------
(***************************************************************************)
(* One soul running turns: KimiSoul::turn of src/src/agent/soul.cpp, with  *)
(* the threads that steer it (SteerQueue), the thread that cancels it, and *)
(* the history a request carries (PreserveSplit).                          *)
(*                                                                         *)
(* The thread that runs the turn has one action per stretch of code        *)
(* between two accesses to state other threads share.  One request of the  *)
(* model is one call of chat_with_step_retry, whose own loop is the module *)
(* StepRetry.  Whether the loop guard trips, a tool call is rejected, the  *)
(* verification gate objects or a compaction is due depends on data the    *)
(* model leaves out: each is a free choice.                                *)
(***************************************************************************)
EXTENDS SteerQueue, PreserveSplit

CONSTANTS
    MaxTurns,       \* turns the soul is given
    MaxSteps,       \* max_steps_per_turn
    MaxRestarts,    \* max_session_restarts
    MaxOverflow,    \* context_overflow_retries
    MaxRecovery,    \* k_max_loop_recovery_rounds
    MaxNudges,      \* verification_gate_max_nudges
    MaxTools,       \* tool calls in one answer
    MaxExternal,    \* steers the parent of a sub-agent delivers at a time
    MaxNotices,     \* notices of settled sub-agents at the start of a turn
    Depths,         \* what adaptive_preserve_depth may return
    OverflowDepth,  \* context_overflow_preserve_depth
    AutoCompactAt,  \* the shortest history that is compacted (4)
    StablePrefix    \* prune_stable_prefix_messages

ASSUME TurnAssumption ==
    /\ {MaxTurns, MaxSteps, MaxRestarts, MaxOverflow, MaxRecovery, MaxNudges,
        MaxTools, MaxExternal, MaxNotices, OverflowDepth, AutoCompactAt,
        StablePrefix} \subseteq Nat
    /\ Depths \subseteq Nat

VARIABLES
    pc,         \* where the turn's thread is
    turn,       \* _turn_seq
    step,       \* the step loop's counter
    restarts,   \* out.session_restarts
    restarting, \* inside the session-restart loop
    overflow,   \* what is left of the step's OverflowRecoveryState
    recovery,   \* loop_recovery_rounds
    nudges,     \* _verification_gate's count
    cancel,     \* the turn's CancelToken, reset by its owner between turns
    res,        \* the ChatResult of the last request
    pending,    \* tool calls of it still to be dispatched
    trip,       \* _loop_guard.force_stop_turn()
    rejected,   \* step_pure_rejection
    history,    \* the session's history
    outcome,    \* how the last turn ended
    injected,   \* every steer that became a user message, in order  (history)
    mark,       \* Len(accepted) when this turn dropped stale steers  (history)
    early       \* cancelled before the answer was looked at          (history)

budgets == <<restarts, restarting, overflow, recovery, nudges>>
answer == <<res, pending, trip, rejected>>
ghosts == <<mark, early>>
turnVars == <<pc, turn, step, budgets, cancel, answer, history, outcome, injected, ghosts>>
vars == <<turnVars, steerVars>>

Outcomes == {"none", "ok", "cancelled", "max_steps_reached", "chat_failed",
             "session_restart_exhausted", "empty_response_exhausted"}
Labels == {"idle", "armed", "reopened", "cleared", "begin", "auto_compact",
           "inject", "request", "overflow_compact", "resolved", "reresolved",
           "interrupted", "failed", "accept", "dispatch", "stopping",
           "closing", "closed"}

Reply(calls, thinks) == [kind |-> "ok", calls |-> calls, thinks |-> thinks]
Failure(kind) == [kind |-> kind, calls |-> 0, thinks |-> FALSE]
\* Without a call nothing trips the loop guard, and thinking makes no difference.
Replies ==
    {r \in [kind : {"ok"}, calls : 0..MaxTools, thinks : BOOLEAN] : r.calls = 0 => ~r.thinks}
\* An empty response is recognised before restartable is looked at.
OwnFailures == {"empty", "restartable", "fatal"}

\* What is_system_reminder_message recognises: the injected reminders and the
\* verification nudges, which wear the same tag.
is_system_reminder_message(m) == m.role = "user" /\ m.text \in {"reminder", "nudge"}
strip_system_reminders(h) ==
    LET kept[i \in 0..Len(h)] ==
          IF i = 0 THEN <<>>
          ELSE IF is_system_reminder_message(h[i]) THEN kept[i - 1]
          ELSE Append(kept[i - 1], h[i])
    IN  kept[Len(h)]

\* The variables of one turn before it begins.
TurnLocals ==
    /\ step = 0
    /\ restarts = 0 /\ restarting = FALSE /\ overflow = 0 /\ recovery = 0 /\ nudges = 0
    /\ cancel = FALSE /\ early = FALSE
    /\ res = Reply(0, FALSE) /\ pending = 0 /\ trip = FALSE /\ rejected = FALSE
    /\ outcome = "none"

Init ==
    /\ SteerInit
    /\ pc = "idle" /\ turn = 0
    /\ TurnLocals
    /\ history = <<>> /\ injected = <<>> /\ mark = 0

\* Labels at which a cancellation comes before the answer is looked at.
BeforeAnswer == {"armed", "reopened", "cleared", "auto_compact", "inject",
                 "request", "overflow_compact", "resolved", "reresolved"}

Goto(from, to) == pc = from /\ pc' = to
Finish(why) == pc' = "closing" /\ outcome' = why

\* One user message for each steer of the queue and each of the n steers of
\* the parent agent.
consume_steers(n) ==
    /\ drain
    /\ injected' = injected \o queue
    /\ history' = history \o [i \in 1..(Len(queue) + n) |-> User("steer")]

----------------------------------------------------------------------------
\* Turn begin.

\* The turn handle is armed: from here on is_running() answers true.
Arm ==
    /\ Goto("idle", "armed")
    /\ turn < MaxTurns
    /\ turn' = turn + 1
    /\ set_running(TRUE)
    /\ UNCHANGED <<step, budgets, cancel, answer, history, outcome, injected, ghosts>>

Reopen ==
    /\ Goto("armed", "reopened")
    /\ reopen
    /\ UNCHANGED <<turn, step, budgets, cancel, answer, history, outcome, injected, ghosts>>

DropStale ==
    /\ Goto("reopened", "cleared")
    /\ clear
    /\ mark' = Len(accepted)
    /\ UNCHANGED <<turn, step, budgets, cancel, answer, history, outcome, injected, early>>

\* One user message for each background run that has settled.
drain_finished_subagent_notices ==
    {[i \in 1..n |-> User("notice")] : n \in 0..MaxNotices}

\* The wake flag is cleared, the notices of settled sub-agents and the user's
\* input are appended; every counter of the turn is at its initial value.
TurnBegin ==
    /\ Goto("cleared", "begin")
    /\ reset_wake
    /\ \E notices \in drain_finished_subagent_notices :
          history' = history \o notices \o <<User("input")>>
    /\ UNCHANGED <<turn, step, budgets, cancel, answer, outcome, injected, ghosts>>

----------------------------------------------------------------------------
\* The head of a step.

StepLimit ==
    /\ pc = "begin"
    /\ step >= MaxSteps
    /\ Finish("max_steps_reached")
    /\ UNCHANGED <<turn, step, budgets, cancel, answer, history, injected, ghosts, steerVars>>

CancelledAtBegin ==
    /\ pc = "begin"
    /\ step < MaxSteps
    /\ cancel
    /\ Finish("cancelled")
    /\ UNCHANGED <<turn, step, budgets, cancel, answer, history, injected, ghosts, steerVars>>

\* begin_step forgets the trip of the step before; a long history may be due
\* for compaction.
StepBegin ==
    /\ pc = "begin"
    /\ step < MaxSteps
    /\ ~cancel
    /\ trip' = FALSE
    /\ restarting' = FALSE
    /\ pc' \in {"inject"} \union IF Len(history) >= AutoCompactAt THEN {"auto_compact"} ELSE {}
    /\ UNCHANGED <<turn, step, restarts, overflow, recovery, nudges, cancel, res, pending,
                   rejected, history, outcome, injected, ghosts, steerVars>>

\* What a compaction that preserves one of the depths makes of the history: the
\* summary replaces the compacted region.
compact_context(depths) ==
    LET splits == {resolve_preserve_split(history, depth) : depth \in depths}
    IN  {soul_apply_preserve_split(history, split) : split \in {s \in splits : s.compact}}

\* Nothing to compact, an unbalanced history, or the summary request failed
\* (a steer or a cancellation aborts it too): the turn goes on as it was.
AutoCompactFails ==
    /\ Goto("auto_compact", "inject")
    /\ UNCHANGED <<turn, step, budgets, cancel, answer, history, outcome, injected, ghosts, steerVars>>

AutoCompact ==
    /\ Goto("auto_compact", "inject")
    /\ history' \in compact_context(Depths)
    /\ UNCHANGED <<turn, step, budgets, cancel, answer, outcome, injected, ghosts, steerVars>>

\* apply_dynamic_injections, then the wake flag is cleared and the request of
\* the step starts with a fresh overflow budget.
Inject ==
    /\ Goto("inject", "request")
    /\ \E fresh \in {<<>>, <<User("reminder")>>} :
          history' = strip_system_reminders(history) \o fresh
    /\ overflow' = MaxOverflow
    /\ reset_wake
    /\ UNCHANGED <<turn, step, restarts, restarting, recovery, nudges, cancel, answer, outcome,
                   injected, ghosts>>

----------------------------------------------------------------------------
\* run_step: the request, and the recovery from a context overflow.

Resolve(r) ==
    /\ res' = r
    /\ pc' = IF restarting THEN "reresolved" ELSE "resolved"

Chat ==
    /\ pc = "request"
    /\ \E r \in Replies : Resolve(r)
    /\ UNCHANGED <<turn, step, budgets, cancel, pending, trip, rejected, history, outcome, injected,
                   ghosts, steerVars>>

\* The request fails on its own; a failure that finds the abort check raised is
\* an aborted request.
ChatFails ==
    /\ pc = "request"
    /\ ~cancel /\ ~wake
    /\ \E kind \in OwnFailures : Resolve(Failure(kind))
    /\ UNCHANGED <<turn, step, budgets, cancel, pending, trip, rejected, history, outcome, injected,
                   ghosts, steerVars>>

\* The abort check stops the stream: an error of no category, which is not
\* retried, nor restarted unless a status received before says so.
ChatAborted ==
    /\ pc = "request"
    /\ cancel \/ wake
    /\ \E kind \in {"aborted", "restartable"} : Resolve(Failure(kind))
    /\ UNCHANGED <<turn, step, budgets, cancel, pending, trip, rejected, history, outcome, injected,
                   ghosts, steerVars>>

ChatOverflows ==
    /\ Goto("request", "overflow_compact")
    /\ overflow > 0
    /\ UNCHANGED <<turn, step, budgets, cancel, answer, history, outcome, injected, ghosts, steerVars>>

\* Mutant: the recovery does not use up the overflow budget.
OverflowCompactFree ==
    /\ Goto("overflow_compact", "request")
    /\ history' \in {history} \union compact_context({OverflowDepth})
    /\ UNCHANGED <<turn, step, budgets, cancel, answer, outcome, injected, ghosts, steerVars>>

\* The forced compaction, applied or discarded as no gain: the step is tried
\* again on what the history is now.
OverflowCompact ==
    /\ Goto("overflow_compact", "request")
    /\ history' \in {history} \union compact_context({OverflowDepth})
    /\ overflow' = overflow - 1
    /\ UNCHANGED <<turn, step, restarts, restarting, recovery, nudges, cancel, answer, outcome,
                   injected, ghosts, steerVars>>

\* The compaction fails: the overflow error stands, and is restartable.
OverflowCompactFails ==
    /\ pc = "overflow_compact"
    /\ Resolve(Failure("restartable"))
    /\ UNCHANGED <<turn, step, budgets, cancel, pending, trip, rejected, history, outcome, injected,
                   ghosts, steerVars>>

----------------------------------------------------------------------------
\* What becomes of the result.

\* Mutant: the flag is cleared before it is looked at.
ResolvedUnwoken ==
    /\ pc = "resolved"
    /\ IF cancel
       THEN Finish("cancelled") /\ UNCHANGED steerVars
       ELSE /\ reset_wake
            /\ IF res.kind = "ok" THEN pc' = "accept" /\ UNCHANGED outcome
               ELSE IF res.kind = "empty" THEN Finish("empty_response_exhausted")
               ELSE pc' = "failed" /\ UNCHANGED outcome
    /\ UNCHANGED <<turn, step, budgets, cancel, answer, history, injected, ghosts>>

\* Cancellation first; then the wake flag is taken, whatever the result; a
\* failure with the flag up is a steer's interruption.
Resolved ==
    /\ pc = "resolved"
    /\ IF cancel
       THEN Finish("cancelled") /\ UNCHANGED steerVars
       ELSE /\ reset_wake
            /\ IF res.kind = "ok" THEN pc' = "accept" /\ UNCHANGED outcome
               ELSE IF wake THEN pc' = "interrupted" /\ UNCHANGED outcome
               ELSE IF res.kind = "empty" THEN Finish("empty_response_exhausted")
               ELSE pc' = "failed" /\ UNCHANGED outcome
    /\ UNCHANGED <<turn, step, budgets, cancel, answer, history, injected, ghosts>>

\* The partial answer is dropped, the steers go into the history, and the
\* next step begins.
Interrupted ==
    /\ Goto("interrupted", "begin")
    /\ \E n \in 0..MaxExternal : consume_steers(n)
    /\ step' = step + 1
    /\ UNCHANGED <<turn, budgets, cancel, answer, outcome, ghosts>>

\* Mutant: one restart too many.
RestartOnceMore ==
    /\ Goto("failed", "request")
    /\ ~cancel /\ res.kind = "restartable" /\ restarts <= MaxRestarts
    /\ restarts' = restarts + 1
    /\ restarting' = TRUE
    /\ overflow' = MaxOverflow
    /\ UNCHANGED <<turn, step, recovery, nudges, cancel, answer, history, outcome, injected, ghosts,
                   steerVars>>

\* The session-restart loop.
Restart ==
    /\ Goto("failed", "request")
    /\ ~cancel /\ res.kind = "restartable" /\ restarts < MaxRestarts
    /\ restarts' = restarts + 1
    /\ restarting' = TRUE
    /\ overflow' = MaxOverflow
    /\ UNCHANGED <<turn, step, recovery, nudges, cancel, answer, history, outcome, injected, ghosts,
                   steerVars>>

GiveUp ==
    /\ pc = "failed"
    /\ cancel \/ res.kind # "restartable" \/ restarts >= MaxRestarts
    /\ Finish(IF cancel THEN "cancelled"
              ELSE IF res.kind = "restartable" THEN "session_restart_exhausted" ELSE "chat_failed")
    /\ UNCHANGED <<turn, step, budgets, cancel, answer, history, injected, ghosts, steerVars>>

\* Mutant: a cancellation during the restart attempts goes unnoticed.
ReresolvedBlind ==
    /\ pc = "reresolved"
    /\ IF res.kind = "ok" THEN pc' = "accept" /\ UNCHANGED outcome
       ELSE IF res.kind = "empty" THEN Finish("empty_response_exhausted")
       ELSE pc' = "failed" /\ UNCHANGED outcome
    /\ UNCHANGED <<turn, step, budgets, cancel, answer, history, injected, ghosts, steerVars>>

\* The result of a restart attempt: the wake flag is not looked at, and an
\* empty response ends the turn before cancellation is.
Reresolved ==
    /\ pc = "reresolved"
    /\ IF res.kind = "ok"
       THEN IF cancel THEN Finish("cancelled") ELSE pc' = "accept" /\ UNCHANGED outcome
       ELSE IF res.kind = "empty" THEN Finish("empty_response_exhausted")
       ELSE pc' = "failed" /\ UNCHANGED outcome
    /\ UNCHANGED <<turn, step, budgets, cancel, answer, history, injected, ghosts, steerVars>>

----------------------------------------------------------------------------
\* A successful step.

Accept ==
    /\ Goto("accept", "dispatch")
    /\ history' = Append(history, Assistant(res.calls))
    /\ pending' = res.calls
    /\ rejected' = FALSE
    /\ UNCHANGED <<turn, step, budgets, cancel, res, trip, outcome, injected, ghosts, steerVars>>

\* Every call of the answer gets its tool message, in the order of the calls, at
\* the end of what the history h is when the call returns.
append_result(h) ==
    /\ pc = "dispatch" /\ pending > 0
    /\ pending' = pending - 1
    /\ history' = Append(h, ToolResult)
    /\ UNCHANGED <<pc, turn, step, budgets, cancel, res, outcome, injected, ghosts, steerVars>>

\* The loop guard is told of every call that is not a copy; its counters, which
\* the model leaves out, decide whether it trips.
record_call == trip' \in {trip, TRUE}

\* prepare_tool_dispatch refuses: unusable arguments, an unknown or a disabled
\* tool.
DispatchRefused ==
    /\ append_result(history)
    /\ record_call
    /\ UNCHANGED rejected

\* The user rejects the call without a word, on a root soul.
DispatchRejected ==
    /\ append_result(history)
    /\ record_call
    /\ rejected' = TRUE

\* finish_tool_dispatch blocks the call or runs the tool: how it went shows only
\* in the text of the result.
DispatchRun ==
    /\ append_result(history)
    /\ record_call
    /\ UNCHANGED rejected

\* The histories a call of the context_prune tool may leave, in the middle of the
\* exchange that called it.  Mode "compact" compacts a history that is longer than
\* the stable prefix.  The other modes shorten texts in place and drop reminders
\* from before the current turn, which holds the only one there is.
context_prune ==
    IF Len(history) > StablePrefix THEN compact_context(Depths) ELSE {}

\* The result is appended to the compacted history, where its call is.
DispatchCompact ==
    /\ pc = "dispatch"
    /\ \E h \in context_prune : append_result(h)
    /\ record_call
    /\ UNCHANGED rejected

\* An equal call of this step has its result already.
DispatchCopied ==
    /\ append_result(history)
    /\ pending < res.calls
    /\ UNCHANGED <<trip, rejected>>

\* dispatch_tool_calls_parallel: nothing but the results, attached in the order
\* of the calls, the trip, a rejection and the compaction by one of the calls
\* leaves the workers' stretch; a call that a rejection kept from starting, and
\* a copy, have a result like any other.
DispatchParallel ==
    /\ Goto("dispatch", "dispatch")
    /\ pending = res.calls /\ res.calls > 1
    /\ pending' = 0
    /\ record_call
    /\ rejected' \in BOOLEAN
    /\ \E h \in {history} \union context_prune :
          history' = h \o [i \in 1..res.calls |-> ToolResult]
    /\ UNCHANGED <<turn, step, budgets, cancel, res, outcome, injected, ghosts, steerVars>>

\* A step that thought is progress: its trip does not count.
force_stop == trip /\ ~res.thinks
stop_reason ==
    CASE rejected -> "tool_rejected"
      [] ~rejected /\ force_stop -> "tool_call_repeat"
      [] ~rejected /\ ~force_stop /\ res.calls = 0 -> "no_tool_calls"
      [] OTHER -> "none"

\* The outcome of the step: the steers are taken, and any of them, like tool
\* results the model has to see, calls for another step.
StepEnd ==
    /\ pc = "dispatch" /\ pending = 0
    /\ trip' = force_stop
    /\ \E n \in 0..MaxExternal :
          /\ consume_steers(n)
          /\ IF stop_reason = "none" \/ Len(queue) + n > 0
             THEN pc' = "begin" /\ step' = step + 1
             ELSE pc' = "stopping" /\ UNCHANGED step
    /\ UNCHANGED <<turn, budgets, cancel, res, pending, rejected, outcome, ghosts>>

\* The verification gate keeps the turn going with a nudge.
Nudge ==
    /\ Goto("stopping", "begin")
    /\ stop_reason = "no_tool_calls"
    /\ nudges < MaxNudges
    /\ nudges' = nudges + 1
    /\ history' = Append(history, User("nudge"))
    /\ step' = step + 1
    /\ UNCHANGED <<turn, restarts, restarting, overflow, recovery, cancel, answer, outcome, injected,
                   ghosts, steerVars>>

LoopRecovery ==
    /\ Goto("stopping", "begin")
    /\ stop_reason = "tool_call_repeat"
    /\ recovery < MaxRecovery
    /\ recovery' = recovery + 1
    /\ history' = Append(history, User("recovery"))
    /\ step' = step + 1
    /\ UNCHANGED <<turn, restarts, restarting, overflow, nudges, cancel, answer, outcome, injected,
                   ghosts, steerVars>>

\* Mutant: the turn returns with no final text.
FallbackSilent ==
    /\ pc = "stopping"
    /\ stop_reason = "tool_call_repeat"
    /\ recovery >= MaxRecovery
    /\ Finish("ok")
    /\ UNCHANGED <<turn, step, budgets, cancel, answer, history, injected, ghosts, steerVars>>

\* Out of recovery rounds: a synthesized answer ends the turn.
Fallback ==
    /\ pc = "stopping"
    /\ stop_reason = "tool_call_repeat"
    /\ recovery >= MaxRecovery
    /\ history' = Append(history, Assistant(0))
    /\ Finish("ok")
    /\ UNCHANGED <<turn, step, budgets, cancel, answer, injected, ghosts, steerVars>>

Stop ==
    /\ pc = "stopping"
    /\ stop_reason # "tool_call_repeat"
    /\ Finish("ok")
    /\ UNCHANGED <<turn, step, budgets, cancel, answer, history, injected, ghosts, steerVars>>

----------------------------------------------------------------------------
\* turn_teardown, on every way out.

Close ==
    /\ Goto("closing", "closed")
    /\ close
    /\ UNCHANGED <<turn, step, budgets, cancel, answer, history, outcome, injected, ghosts>>

\* The turn returns; its variables are as they were before it.
Disarm ==
    /\ Goto("closed", "idle")
    /\ set_running(FALSE)
    /\ step' = 0
    /\ restarts' = 0 /\ restarting' = FALSE /\ overflow' = 0 /\ recovery' = 0 /\ nudges' = 0
    /\ cancel' = FALSE /\ early' = FALSE
    /\ res' = Reply(0, FALSE) /\ pending' = 0 /\ trip' = FALSE /\ rejected' = FALSE
    /\ outcome' = "none"
    /\ UNCHANGED <<turn, history, injected, mark>>

\* The user's Ctrl-C, or interrupt_agent's flag chained to the token.
Cancel ==
    /\ pc # "idle"
    /\ ~cancel
    /\ cancel' = TRUE
    /\ early' = (pc \in BeforeAnswer)
    /\ UNCHANGED <<pc, turn, step, budgets, answer, history, outcome, injected, mark,
                   steerVars>>

TurnNext ==
    \/ Reopen \/ DropStale \/ TurnBegin
    \/ StepLimit \/ CancelledAtBegin \/ StepBegin
    \/ AutoCompactFails \/ AutoCompact \/ Inject
    \/ Chat \/ ChatFails \/ ChatAborted \/ ChatOverflows
    \/ OverflowCompact \/ OverflowCompactFails
    \/ Resolved \/ Interrupted \/ Restart \/ GiveUp \/ Reresolved
    \/ Accept \/ DispatchRefused \/ DispatchRejected \/ DispatchRun \/ DispatchCompact
    \/ DispatchCopied \/ DispatchParallel \/ StepEnd
    \/ Nudge \/ LoopRecovery \/ Fallback \/ Stop
    \/ Close \/ Disarm

Steering(c) == CallerNext(c) /\ UNCHANGED turnVars

\* Every turn has been run; nothing is left to do.
Done == pc = "idle" /\ turn = MaxTurns /\ UNCHANGED vars

Next ==
    \/ Arm \/ TurnNext \/ Cancel
    \/ \E c \in Callers : Steering(c)
    \/ Done

\* A turn that has begun runs on: requests and tools return, if only by their
\* own timeouts.  A thread inside a call of the queue runs on too.  Nobody has
\* to start a turn, cancel one, steer, or set a timeout for push_sync.
Fairness ==
    /\ WF_vars(TurnNext)
    /\ \A c \in Callers :
          WF_vars((PushEnqueue(c) \/ RaiseWake(c) \/ SyncCheck(c) \/ SyncReturn(c))
                  /\ UNCHANGED turnVars)

Spec == Init /\ [][Next]_vars /\ Fairness

----------------------------------------------------------------------------
ResultKinds == {"ok", "aborted"} \union OwnFailures

\* Every variable keeps its type, every budget its bound: the counters of
\* KimiSoul::turn never pass the limits of LoopControl.
TypeOK ==
    /\ SteerTypeOK
    /\ pc \in Labels /\ outcome \in Outcomes
    /\ turn \in 0..MaxTurns /\ step \in 0..MaxSteps
    /\ restarts \in 0..MaxRestarts /\ restarting \in BOOLEAN
    /\ overflow \in 0..MaxOverflow /\ recovery \in 0..MaxRecovery /\ nudges \in 0..MaxNudges
    /\ cancel \in BOOLEAN /\ early \in BOOLEAN
    /\ res \in [kind : ResultKinds, calls : 0..MaxTools, thinks : BOOLEAN]
    /\ pending \in 0..MaxTools /\ trip \in BOOLEAN /\ rejected \in BOOLEAN
    /\ \A i \in 1..Len(history) : history[i].calls \in 0..MaxTools
    /\ mark \in 0..Len(accepted)

\* The labels at which a compaction may be made of the history, with the calls of
\* the running exchange still without a result.
Compacting ==
    \/ pc \in {"auto_compact", "overflow_compact"}
    \/ pc = "dispatch" /\ pending > 0 /\ Len(history) > StablePrefix

\* What the two parts of a compaction's soundness say of a split of the history.
CutKeepsPairs(s) ==
    Paired(soul_apply_preserve_split(history, s) \o [i \in 1..pending |-> ToolResult])
CutKeepsTail(s, depth) ==
    /\ Voices(SubSeq(history, s.start + 1, Len(history))) >= depth
    /\ Len(soul_apply_preserve_split(history, s)) <= Len(history)
    /\ ~s.fallback

\* Wherever the turn may compact, no cut parts a call from its results, neither
\* by the boundary nor by the copy of the first message (compact_tool.cpp:442):
\* once the running exchange has its results, every call is paired.  The newest
\* depth user and assistant messages survive word for word, with every tool
\* result among them; the history does not grow, and the cut that falls back to
\* 1 because no balanced one is left never happens.
CompactionsSound ==
    Compacting => \A depth \in Depths \union {OverflowDepth} :
        LET s == resolve_preserve_split(history, depth)
        IN  s.compact => CutKeepsPairs(s) /\ CutKeepsTail(s, depth)

\* Every request carries a history in which each tool call is followed by its
\* results and no result stands alone: through compactions, interrupted,
\* cancelled and restarted steps, rejected and repeated calls.  A provider
\* refuses any other history, and every later request of the session with it.
ToolCallsPaired == pc = "request" => Paired(history)

\* Steers become user messages in the order the queue took them, none twice,
\* whoever sent them and whichever drain took them.
SteersInOrder ==
    /\ \A i, j \in 1..Len(injected) : i < j =>
          \E k, l \in 1..Len(accepted) :
             k < l /\ accepted[k] = injected[i] /\ accepted[l] = injected[j]
    /\ \A i \in 1..Len(injected) : \E k \in 1..Len(accepted) : accepted[k] = injected[i]

\* A steer queued before a turn has dropped stale steers is never injected
\* into that turn, nor into a later one.
NoStaleSteer ==
    [][\A i \in (Len(injected) + 1)..Len(injected') :
         \E k \in (mark + 1)..Len(accepted) : accepted[k] = injected'[i]]_vars

\* Once a turn is cancelled before the result of its request is looked at, no answer of the
\* model is added to the history any more ("the cancelled step's partial
\* output is never appended"), restart attempts included.
CancelledAnswerDropped ==
    [][early => (\A i \in (Len(history) + 1)..Len(history') :
                                         history'[i].role # "assistant")]_vars

\* A turn that ended well ended on an answer: the last message that is not a
\* steer is no tool result the model has not seen, unless the user rejected a
\* call.
Answered ==
    pc = "closing" /\ outcome = "ok" /\ ~rejected =>
        history[Len(history)].role = "assistant"

\* How far the turn is from its end, the slowest counter first: the phase of the
\* turn, the steps left, the stage of the step, the restarts left, the part of
\* the restart's request, the overflow retries left, and the calls to dispatch.
Phase ==
    CASE pc = "armed" -> 6 [] pc = "reopened" -> 5 [] pc = "cleared" -> 4
      [] pc = "closing" -> 2 [] pc = "closed" -> 1 [] pc = "idle" -> 0
      [] OTHER -> 3
Stage ==
    CASE pc = "begin" -> 6 [] pc = "auto_compact" -> 5 [] pc = "inject" -> 4
      [] pc = "accept" -> 2 [] pc = "dispatch" -> 1
      [] pc \in {"request", "overflow_compact", "resolved", "reresolved",
                "failed", "interrupted"} -> 3
      [] OTHER -> 0
Part ==
    CASE pc \in {"request", "overflow_compact"} -> 2
      [] pc \in {"resolved", "reresolved"} -> 1
      [] OTHER -> 0
Tries == IF pc = "request" THEN 1 ELSE 0
Variant ==
    <<Phase, MaxSteps - step, Stage, MaxRestarts - restarts, Part, overflow, Tries + pending>>

Lower(v, w) == \E i \in 1..Len(w) : v[i] < w[i] /\ \A j \in 1..(i - 1) : v[j] = w[j]

\* No loop of the turn runs for free (soul.cpp:3232): every step of a turn that
\* has begun brings it closer to its end, so a restart, an overflow retry, a
\* recovery round, a nudge or an interruption always uses up a budget, whatever
\* fails, trips, overflows or steers.  TypeOK keeps each counter at or above
\* zero, so every turn that goes on running ends.
TurnAdvances ==
    [][pc = "idle" \/ Lower(Variant', Variant)]_<<pc, step, budgets, answer, history>>

\* Nobody stays in push_sync once a turn that was running when he called has
\* ended: no wakeup is lost between the wait's check and its sleep.
SyncReturns ==
    \A c \in Callers :
        (caller[c].at \in {"notified", "waiting"} /\ pc # "idle") ~> (caller[c].at = "idle")

\* A request that a steer aborted ends its step and not the turn (steer.h:8):
\* the flag that aborted it is still up when its result is looked at.  The
\* restart attempts are the exception: they do not look at the flag.
AbortedStepGoesOn ==
    pc = "closing" /\ outcome = "chat_failed" /\ res.kind = "aborted" => restarting

\* A steer the queue took is never lost on the way: it is injected, waits in the
\* queue (also one that came after the last drain of a turn, and through the
\* turn's close), or was dropped by the next turn's beginning as stale.
SteerKept ==
    \A k \in 1..Len(accepted) :
        \/ k <= mark
        \/ \E i \in 1..Len(queue) : queue[i] = accepted[k]
        \/ \E i \in 1..Len(injected) : injected[i] = accepted[k]

\* push_sync answers true only for a steer that left the queue (steer.h:58): one
\* that was injected, or that the beginning turn dropped as stale.
SyncTrueTaken ==
    \A t \in told : t[2] /\ t[3] = "sync" =>
        \/ \E i \in 1..Len(injected) : injected[i] = t[1]
        \/ \E k \in 1..mark : accepted[k] = t[1]
=============================================================================
