--------------------------- MODULE SoulTurnProofs ---------------------------
(***************************************************************************)
(* The invariants of a soul's turns, for any number of threads that steer, *)
(* calls, turns, steps and tool calls.                                     *)
(***************************************************************************)
EXTENDS SoulTurn, PreserveSplitProofs

\* The labels of a step that has begun and has not ended.
InStep == {"auto_compact", "inject", "request", "overflow_compact", "resolved", "reresolved",
           "interrupted", "failed", "accept", "dispatch", "stopping"}

\* The types and bounds of the turn's own variables.  A counter that a step
\* increments is below its bound when the step is at work, and the overflow
\* budget is not used up while a compaction runs on it.
TurnTyped ==
    /\ pc \in Labels /\ outcome \in Outcomes
    /\ turn \in 0..MaxTurns /\ step \in 0..MaxSteps
    /\ pc \in InStep => step < MaxSteps
    /\ restarts \in 0..MaxRestarts /\ restarting \in BOOLEAN
    /\ overflow \in 0..MaxOverflow /\ recovery \in 0..MaxRecovery /\ nudges \in 0..MaxNudges
    /\ pc = "overflow_compact" => overflow > 0
    /\ cancel \in BOOLEAN /\ early \in BOOLEAN
    /\ res \in [kind : ResultKinds, calls : 0..MaxTools, thinks : BOOLEAN]
    /\ pending \in 0..MaxTools /\ trip \in BOOLEAN /\ rejected \in BOOLEAN

----------------------------------------------------------------------------
\* One disjunct for each action.
LEMMA NextCases ==
    ASSUME [Next]_vars
    PROVE  \/ UNCHANGED vars \/ Arm \/ Cancel
           \/ \E c \in Callers : Steering(c)
           \/ Reopen \/ DropStale \/ TurnBegin
           \/ StepLimit \/ CancelledAtBegin \/ StepBegin
           \/ AutoCompactFails \/ AutoCompact \/ Inject
           \/ Chat \/ ChatFails \/ ChatAborted \/ ChatOverflows
           \/ OverflowCompact \/ OverflowCompactFails
           \/ Resolved \/ Interrupted \/ Restart \/ GiveUp \/ Reresolved
           \/ Accept \/ DispatchRefused \/ DispatchRejected \/ DispatchRun \/ DispatchCompact
           \/ DispatchCopied \/ DispatchParallel \/ StepEnd
           \/ Nudge \/ LoopRecovery \/ Fallback \/ Stop
           \/ Close \/ Disarm
  BY DEF Next, TurnNext, Done

LEMMA Bounds ==
    /\ MaxTurns \in Nat /\ MaxSteps \in Nat /\ MaxRestarts \in Nat /\ MaxOverflow \in Nat
    /\ MaxRecovery \in Nat /\ MaxNudges \in Nat /\ MaxTools \in Nat /\ MaxExternal \in Nat
    /\ MaxNotices \in Nat /\ OverflowDepth \in Nat /\ Depths \in SUBSET Nat
  BY TurnAssumption

LEMMA ReplyType ==
    /\ \A r \in Replies : r \in [kind : ResultKinds, calls : 0..MaxTools, thinks : BOOLEAN]
    /\ \A kind \in ResultKinds :
          Failure(kind) \in [kind : ResultKinds, calls : 0..MaxTools, thinks : BOOLEAN]
    /\ Reply(0, FALSE) \in [kind : ResultKinds, calls : 0..MaxTools, thinks : BOOLEAN]
<1> USE Bounds
<1>1. ASSUME NEW n \in 0..MaxTools, NEW b \in BOOLEAN
      PROVE  Reply(n, b) \in [kind : ResultKinds, calls : 0..MaxTools, thinks : BOOLEAN]
  BY DEF Reply, ResultKinds
<1>2. 0 \in 0..MaxTools /\ \A n \in 1..MaxTools : n \in 0..MaxTools
  OBVIOUS
<1>3. ASSUME NEW kind \in ResultKinds
      PROVE Failure(kind) \in [kind : ResultKinds, calls : 0..MaxTools, thinks : BOOLEAN]
  BY DEF Failure
<1>4. ASSUME NEW r \in Replies
      PROVE  r \in [kind : ResultKinds, calls : 0..MaxTools, thinks : BOOLEAN]
  BY DEF Replies, ResultKinds
<1> QED BY <1>1, <1>2, <1>3, <1>4

LEMMA TurnTypedInit == Init => TurnTyped
<1> USE Bounds
<1> SUFFICES ASSUME Init PROVE TurnTyped
  OBVIOUS
<1>1. res \in [kind : ResultKinds, calls : 0..MaxTools, thinks : BOOLEAN]
  BY ReplyType DEF Init, TurnLocals
<1>2. pc = "idle" /\ turn = 0 /\ TurnLocals
  BY DEF Init
<1>3. /\ restarting \in BOOLEAN /\ cancel \in BOOLEAN /\ early \in BOOLEAN
      /\ trip \in BOOLEAN /\ rejected \in BOOLEAN
  BY <1>2, Zenon DEF TurnLocals
<1>4. /\ step = 0 /\ restarts = 0 /\ overflow = 0 /\ recovery = 0 /\ nudges = 0 /\ pending = 0
      /\ outcome = "none"
  BY <1>2 DEF TurnLocals
<1> QED BY <1>1, <1>2, <1>3, <1>4 DEF TurnTyped, Labels, Outcomes, InStep

LEMMA TurnTypedNext ==
    ASSUME TurnTyped, [Next]_vars
    PROVE  TurnTyped'
<1> USE Bounds
<1>0. UNCHANGED turnVars => TurnTyped'
  BY DEF TurnTyped, turnVars, budgets, answer, ghosts
<1>r. ASSUME \E h : append_result(h), record_call \/ UNCHANGED trip, rejected' \in BOOLEAN
      PROVE  TurnTyped'
  <2>1. trip' \in BOOLEAN
    BY <1>r, Zenon DEF record_call, TurnTyped
  <2> QED BY <1>r, <2>1 DEF append_result, TurnTyped, budgets, ghosts
<1>1. CASE Arm
  BY <1>1 DEF Arm, TurnTyped, budgets, answer, ghosts, Labels, InStep, Goto
<1>2. CASE Reopen
  BY <1>2 DEF Reopen, TurnTyped, budgets, answer, ghosts, Labels, InStep, Goto
<1>3. CASE DropStale
  BY <1>3 DEF DropStale, TurnTyped, budgets, answer, ghosts, Labels, InStep, Goto
<1>4. CASE TurnBegin
  BY <1>4 DEF TurnBegin, TurnTyped, budgets, answer, ghosts, Labels, InStep, Goto
<1>5. CASE StepLimit
  BY <1>5 DEF StepLimit, TurnTyped, budgets, answer, ghosts, Labels, InStep, Goto, Finish, Outcomes
<1>6. CASE CancelledAtBegin
  BY <1>6 DEF CancelledAtBegin, TurnTyped, budgets, answer, ghosts, Labels, InStep, Goto, Finish, Outcomes
<1>7. CASE StepBegin
  BY <1>7 DEF StepBegin, TurnTyped, budgets, answer, ghosts, Labels, InStep, Goto
<1>8. CASE AutoCompactFails
  BY <1>8 DEF AutoCompactFails, TurnTyped, budgets, answer, ghosts, Labels, InStep, Goto
<1>9. CASE AutoCompact
  BY <1>9 DEF AutoCompact, TurnTyped, budgets, answer, ghosts, Labels, InStep, Goto
<1>10. CASE Inject
  BY <1>10 DEF Inject, TurnTyped, budgets, answer, ghosts, Labels, InStep, Goto
<1>11. CASE Chat
  BY <1>11, ReplyType DEF Chat, TurnTyped, budgets, answer, ghosts, Labels, InStep, Goto, Resolve, OwnFailures, ResultKinds
<1>12. CASE ChatFails
  BY <1>12, ReplyType DEF ChatFails, TurnTyped, budgets, answer, ghosts, Labels, InStep, Goto, Resolve, OwnFailures, ResultKinds
<1>13. CASE ChatAborted
  BY <1>13, ReplyType DEF ChatAborted, TurnTyped, budgets, answer, ghosts, Labels, InStep, Goto, Resolve, OwnFailures, ResultKinds
<1>14. CASE ChatOverflows
  BY <1>14 DEF ChatOverflows, TurnTyped, budgets, answer, ghosts, Labels, InStep, Goto
<1>15. CASE OverflowCompact
  BY <1>15 DEF OverflowCompact, TurnTyped, budgets, answer, ghosts, Labels, InStep, Goto
<1>16. CASE OverflowCompactFails
  BY <1>16, ReplyType DEF OverflowCompactFails, TurnTyped, budgets, answer, ghosts, Labels, InStep, Goto, Resolve, OwnFailures, ResultKinds
<1>17. CASE Resolved
  BY <1>17 DEF Resolved, TurnTyped, budgets, answer, ghosts, Labels, InStep, Goto, Finish, Outcomes
<1>18. CASE Interrupted
  BY <1>18 DEF Interrupted, TurnTyped, budgets, answer, ghosts, Labels, InStep, Goto
<1>19. CASE Restart
  BY <1>19 DEF Restart, TurnTyped, budgets, answer, ghosts, Labels, InStep, Goto
<1>20. CASE GiveUp
  BY <1>20 DEF GiveUp, TurnTyped, budgets, answer, ghosts, Labels, InStep, Goto, Finish, Outcomes
<1>21. CASE Reresolved
  BY <1>21 DEF Reresolved, TurnTyped, budgets, answer, ghosts, Labels, InStep, Goto, Finish, Outcomes
<1>22. CASE Accept
  BY <1>22 DEF Accept, TurnTyped, budgets, answer, ghosts, Labels, InStep, Goto
<1>23. CASE DispatchRefused
  <2>1. rejected' \in BOOLEAN
    BY <1>23 DEF DispatchRefused, TurnTyped
  <2> QED BY <1>23, <2>1, <1>r DEF DispatchRefused
<1>24. CASE DispatchRejected
  <2>1. rejected' \in BOOLEAN
    BY <1>24, Zenon DEF DispatchRejected
  <2> QED BY <1>24, <2>1, <1>r DEF DispatchRejected
<1>25. CASE DispatchRun
  <2>1. rejected' \in BOOLEAN
    BY <1>25 DEF DispatchRun, TurnTyped
  <2> QED BY <1>25, <2>1, <1>r DEF DispatchRun
<1>26. CASE DispatchCompact
  <2>1. rejected' \in BOOLEAN
    BY <1>26 DEF DispatchCompact, TurnTyped
  <2> QED BY <1>26, <2>1, <1>r DEF DispatchCompact
<1>27. CASE DispatchCopied
  <2>1. rejected' \in BOOLEAN
    BY <1>27 DEF DispatchCopied, TurnTyped
  <2> QED BY <1>27, <2>1, <1>r DEF DispatchCopied
<1>28. CASE DispatchParallel
  <2>1. trip' \in BOOLEAN /\ rejected' \in BOOLEAN
    BY <1>28, Zenon DEF DispatchParallel, record_call, TurnTyped
  <2> QED BY <1>28, <2>1 DEF DispatchParallel, TurnTyped, budgets, ghosts, Goto
<1>29. CASE StepEnd
  <2>1. trip' \in BOOLEAN
    BY <1>29, Zenon DEF StepEnd, force_stop
  <2> QED BY <1>29, <2>1 DEF StepEnd, TurnTyped, budgets, ghosts, Labels, InStep
<1>30. CASE Nudge
  BY <1>30 DEF Nudge, TurnTyped, budgets, answer, ghosts, Labels, InStep, Goto
<1>31. CASE LoopRecovery
  BY <1>31 DEF LoopRecovery, TurnTyped, budgets, answer, ghosts, Labels, InStep, Goto
<1>32. CASE Fallback
  BY <1>32 DEF Fallback, TurnTyped, budgets, answer, ghosts, Labels, InStep, Goto, Finish, Outcomes
<1>33. CASE Stop
  BY <1>33 DEF Stop, TurnTyped, budgets, answer, ghosts, Labels, InStep, Goto, Finish, Outcomes
<1>34. CASE Close
  BY <1>34 DEF Close, TurnTyped, budgets, answer, ghosts, Labels, InStep, Goto
<1>35. CASE Disarm
  <2>1. /\ restarting' \in BOOLEAN /\ cancel' \in BOOLEAN /\ early' \in BOOLEAN
        /\ trip' \in BOOLEAN /\ rejected' \in BOOLEAN
    BY <1>35, Zenon DEF Disarm
  <2>2. res' \in [kind : ResultKinds, calls : 0..MaxTools, thinks : BOOLEAN]
    BY <1>35, ReplyType DEF Disarm
  <2>3. /\ pc' = "idle" /\ step' = 0 /\ restarts' = 0 /\ overflow' = 0 /\ recovery' = 0
        /\ nudges' = 0 /\ pending' = 0 /\ outcome' = "none" /\ turn' = turn
    BY <1>35 DEF Disarm, Goto
  <2> QED BY <2>1, <2>2, <2>3 DEF TurnTyped, Labels, InStep, Outcomes
<1>36. CASE Cancel
  BY <1>36 DEF Cancel, TurnTyped, budgets, answer, ghosts
<1> QED BY <1>0, <1>1, <1>2, <1>3, <1>4, <1>5, <1>6, <1>7, <1>8, <1>9, <1>10, <1>11, <1>12,
          <1>13, <1>14, <1>15, <1>16, <1>17, <1>18, <1>19, <1>20, <1>21, <1>22, <1>23, <1>24,
          <1>25, <1>26, <1>27, <1>28, <1>29, <1>30, <1>31, <1>32, <1>33, <1>34, <1>35, <1>36,
          NextCases DEF vars, Steering

----------------------------------------------------------------------------
\* What a step does to the queue, to the injected steers and to the mark: a drain
\* moves the queue to the injected steers, the begin of a turn drops it and sets
\* the mark, and everything else is a step of a calling thread or touches neither.
SteerStep ==
    \/ UNCHANGED <<steerVars, injected, mark>>
    \/ /\ reset_wake \/ close \/ reopen \/ set_running(TRUE) \/ set_running(FALSE)
       /\ UNCHANGED <<injected, mark>>
    \/ drain /\ injected' = injected \o queue /\ UNCHANGED mark
    \/ clear /\ mark' = Len(accepted) /\ UNCHANGED injected
    \/ \E c \in Callers : CallerNext(c) /\ UNCHANGED <<injected, mark>>

LEMMA SteerSteps ==
    ASSUME [Next]_vars
    PROVE  SteerStep
<1>0. ASSUME UNCHANGED vars PROVE SteerStep
  BY <1>0 DEF SteerStep, vars, turnVars, ghosts
<1>c. ASSUME NEW c \in Callers, Steering(c) PROVE SteerStep
  BY <1>c DEF SteerStep, Steering, turnVars, ghosts
<1>1. CASE Arm
  BY <1>1 DEF Arm, ghosts, SteerStep
<1>2. CASE Reopen
  BY <1>2 DEF Reopen, ghosts, SteerStep
<1>3. CASE DropStale
  BY <1>3 DEF DropStale, SteerStep
<1>4. CASE TurnBegin
  BY <1>4 DEF TurnBegin, ghosts, SteerStep
<1>5. CASE StepLimit
  BY <1>5 DEF StepLimit, ghosts, SteerStep
<1>6. CASE CancelledAtBegin
  BY <1>6 DEF CancelledAtBegin, ghosts, SteerStep
<1>7. CASE StepBegin
  BY <1>7 DEF StepBegin, ghosts, SteerStep
<1>8. CASE AutoCompactFails
  BY <1>8 DEF AutoCompactFails, ghosts, SteerStep
<1>9. CASE AutoCompact
  BY <1>9 DEF AutoCompact, ghosts, SteerStep
<1>10. CASE Inject
  BY <1>10 DEF Inject, ghosts, SteerStep
<1>11. CASE Chat
  BY <1>11 DEF Chat, ghosts, SteerStep
<1>12. CASE ChatFails
  BY <1>12 DEF ChatFails, ghosts, SteerStep
<1>13. CASE ChatAborted
  BY <1>13 DEF ChatAborted, ghosts, SteerStep
<1>14. CASE ChatOverflows
  BY <1>14 DEF ChatOverflows, ghosts, SteerStep
<1>15. CASE OverflowCompact
  BY <1>15 DEF OverflowCompact, ghosts, SteerStep
<1>16. CASE OverflowCompactFails
  BY <1>16 DEF OverflowCompactFails, ghosts, SteerStep
<1>17. CASE Resolved
  BY <1>17 DEF Resolved, ghosts, SteerStep
<1>18. CASE Interrupted
  BY <1>18 DEF Interrupted, consume_steers, ghosts, SteerStep
<1>19. CASE Restart
  BY <1>19 DEF Restart, ghosts, SteerStep
<1>20. CASE GiveUp
  BY <1>20 DEF GiveUp, ghosts, SteerStep
<1>21. CASE Reresolved
  BY <1>21 DEF Reresolved, ghosts, SteerStep
<1>22. CASE Accept
  BY <1>22 DEF Accept, ghosts, SteerStep
<1>23. CASE DispatchRefused
  BY <1>23 DEF DispatchRefused, append_result, ghosts, SteerStep
<1>24. CASE DispatchRejected
  BY <1>24 DEF DispatchRejected, append_result, ghosts, SteerStep
<1>25. CASE DispatchRun
  BY <1>25 DEF DispatchRun, append_result, ghosts, SteerStep
<1>26. CASE DispatchCompact
  BY <1>26 DEF DispatchCompact, append_result, ghosts, SteerStep
<1>27. CASE DispatchCopied
  BY <1>27 DEF DispatchCopied, append_result, ghosts, SteerStep
<1>28. CASE DispatchParallel
  BY <1>28 DEF DispatchParallel, ghosts, SteerStep
<1>29. CASE StepEnd
  BY <1>29 DEF StepEnd, consume_steers, ghosts, SteerStep
<1>30. CASE Nudge
  BY <1>30 DEF Nudge, ghosts, SteerStep
<1>31. CASE LoopRecovery
  BY <1>31 DEF LoopRecovery, ghosts, SteerStep
<1>32. CASE Fallback
  BY <1>32 DEF Fallback, ghosts, SteerStep
<1>33. CASE Stop
  BY <1>33 DEF Stop, ghosts, SteerStep
<1>34. CASE Close
  BY <1>34 DEF Close, ghosts, SteerStep
<1>35. CASE Disarm
  BY <1>35 DEF Disarm, SteerStep
<1>36. CASE Cancel
  BY <1>36 DEF Cancel, SteerStep
<1> QED BY <1>0, <1>1, <1>2, <1>3, <1>4, <1>5, <1>6, <1>7, <1>8, <1>9, <1>10, <1>11, <1>12,
          <1>13, <1>14, <1>15, <1>16, <1>17, <1>18, <1>19, <1>20, <1>21, <1>22, <1>23, <1>24,
          <1>25, <1>26, <1>27, <1>28, <1>29, <1>30, <1>31, <1>32, <1>33, <1>34, <1>35, <1>36,
          <1>c, NextCases

\* The types of the queue and its callers: a thread inside a call has sent the
\* steer that the call is about.
SteerTyped ==
    /\ SteerTypeOK
    /\ \A c \in Callers : caller[c].at # "idle" => sent[c] > 0

LEMMA SteerTypedInit == Init => SteerTyped
<1> SUFFICES ASSUME Init PROVE SteerTyped
  OBVIOUS
<1> USE SteerAssumption
<1>1. caller \in [Callers -> [at : CallerStates, op : Direct, says : BOOLEAN, facade : BOOLEAN]]
  BY DEF Init, SteerInit, Idle, CallerStates, Direct
<1>2. wake \in BOOLEAN /\ closed \in BOOLEAN /\ running \in BOOLEAN
  BY Zenon DEF Init, SteerInit
<1>3. sent \in [Callers -> 0..MaxCalls]
  BY DEF Init, SteerInit
<1>4. queue = <<>> /\ accepted = <<>> /\ told = {}
  BY DEF Init, SteerInit
<1>5. \A c \in Callers : caller[c].at = "idle"
  BY DEF Init, SteerInit, Idle
<1> QED BY <1>1, <1>2, <1>3, <1>4, <1>5 DEF SteerTyped, SteerTypeOK

\* What one thread is doing.
CallTypes == [at : CallerStates, op : Direct, says : BOOLEAN, facade : BOOLEAN]

\* The parts of a call, each of which leaves the types alone.
LEMMA ReturnTyped ==
    ASSUME SteerTypeOK, NEW c \in Callers, NEW t \in Steers, NEW op \in Direct,
           NEW b \in BOOLEAN, Return(c, t, op, b)
    PROVE  /\ caller' \in [Callers -> CallTypes]
           /\ told' \subseteq Steers \X BOOLEAN \X Direct
<1>1. Idle \in CallTypes
  BY DEF Idle, CallTypes, CallerStates, Direct
<1>2. caller' \in [Callers -> CallTypes]
  BY <1>1 DEF Return, SteerTypeOK, CallTypes
<1>3. <<t, b, op>> \in Steers \X BOOLEAN \X Direct
  OBVIOUS
<1> QED BY <1>2, <1>3 DEF Return, SteerTypeOK

LEMMA EnqueueTyped ==
    ASSUME SteerTypeOK, NEW c \in Callers, NEW t \in Steers, NEW op \in Direct,
           NEW facade \in BOOLEAN, NEW says \in BOOLEAN, EnqueueAs(c, t, op, facade, says)
    PROVE  /\ caller' \in [Callers -> CallTypes]
           /\ told' \subseteq Steers \X BOOLEAN \X Direct
           /\ queue' \in Seq(Steers) /\ accepted' \in Seq(Steers)
<1>0. /\ caller \in [Callers -> CallTypes] /\ queue \in Seq(Steers) /\ accepted \in Seq(Steers)
      /\ told \subseteq Steers \X BOOLEAN \X Direct
  BY DEF SteerTypeOK, CallTypes
<1>1. Idle \in CallTypes
  BY DEF Idle, CallTypes, CallerStates, Direct
<1>2. [at |-> "enqueued", op |-> op, says |-> says, facade |-> facade] \in CallTypes
  BY DEF CallTypes, CallerStates
<1>3. \A e \in CallTypes : [caller EXCEPT ![c] = e] \in [Callers -> CallTypes]
  BY <1>0
<1>4. (facade /\ says) \in BOOLEAN
  OBVIOUS
<1>5. queue' \in Seq(Steers) /\ accepted' \in Seq(Steers)
  <2>1. \/ queue' = queue /\ accepted' = accepted
        \/ queue' = Append(queue, t) /\ accepted' = Append(accepted, t)
    BY DEF EnqueueAs
  <2>2. Append(queue, t) \in Seq(Steers) /\ Append(accepted, t) \in Seq(Steers)
    BY <1>0
  <2> QED BY <1>0, <2>1, <2>2
<1>6. \/ \E b \in BOOLEAN : Return(c, t, op, b)
      \/ told' = told /\ \E e \in CallTypes : caller' = [caller EXCEPT ![c] = e]
  BY <1>1, <1>2, <1>4 DEF EnqueueAs
<1> QED BY <1>0, <1>3, <1>5, <1>6, ReturnTyped

LEMMA NotifyTyped ==
    ASSUME SteerTypeOK, notify_all
    PROVE  caller' \in [Callers -> CallTypes]
<1>1. \A c \in Callers : caller[c] \in CallTypes
  BY DEF SteerTypeOK, CallTypes
<1>2. \A e \in CallTypes : [e EXCEPT !.at = "notified"] \in CallTypes
  BY DEF CallTypes, CallerStates
<1> QED BY <1>1, <1>2 DEF notify_all

LEMMA CallerTyped ==
    ASSUME SteerTyped, NEW c \in Callers, CallerNext(c)
    PROVE  SteerTyped'
<1> USE SteerAssumption
<1>0. /\ caller \in [Callers -> CallTypes] /\ queue \in Seq(Steers) /\ accepted \in Seq(Steers)
      /\ told \subseteq Steers \X BOOLEAN \X Direct /\ sent \in [Callers -> 0..MaxCalls]
      /\ wake \in BOOLEAN /\ closed \in BOOLEAN /\ running \in BOOLEAN /\ SteerTypeOK
      /\ \A d \in Callers : caller[d].at # "idle" => sent[d] > 0
  BY DEF SteerTyped, SteerTypeOK, CallTypes
<1>i. Idle.at = "idle"
  BY DEF Idle
<1>1. sent[c] < MaxCalls => /\ sent[c] + 1 \in 1..MaxCalls
                            /\ <<c, sent[c] + 1>> \in Steers
                            /\ [sent EXCEPT ![c] = @ + 1] \in [Callers -> 0..MaxCalls]
  BY <1>0 DEF Steers
<1>2. caller[c].at # "idle" => Steer(c) \in Steers
  BY <1>0 DEF Steer, Steers
<1>3. caller[c] \in CallTypes /\ caller[c].op \in Direct /\ caller[c].says \in BOOLEAN
      /\ caller[c].facade \in BOOLEAN
  BY <1>0 DEF CallTypes
<1>e. \A at \in CallerStates, b \in BOOLEAN :
         /\ [caller EXCEPT ![c].at = at] \in [Callers -> CallTypes]
         /\ [caller EXCEPT ![c].at = at, ![c].says = b] \in [Callers -> CallTypes]
  <2> SUFFICES ASSUME NEW at \in CallerStates, NEW b \in BOOLEAN
               PROVE  /\ [caller EXCEPT ![c].at = at] \in [Callers -> CallTypes]
                      /\ [caller EXCEPT ![c].at = at, ![c].says = b] \in [Callers -> CallTypes]
    OBVIOUS
  <2>1. /\ [caller[c] EXCEPT !.at = at] \in CallTypes
        /\ [caller[c] EXCEPT !.at = at, !.says = b] \in CallTypes
    BY <1>3 DEF CallTypes
  <2> QED BY <2>1, <1>0
<1>4. ASSUME caller' \in [Callers -> CallTypes], sent' \in [Callers -> 0..MaxCalls],
             told' \subseteq Steers \X BOOLEAN \X Direct,
             queue' \in Seq(Steers), accepted' \in Seq(Steers),
             wake' \in BOOLEAN, UNCHANGED <<closed, running>>,
             \A d \in Callers : caller'[d].at # "idle" => sent'[d] > 0
      PROVE  SteerTyped'
  BY <1>0, <1>4 DEF SteerTyped, SteerTypeOK, CallTypes
<1>5. CASE \E op \in Ops \intersect Direct : Call(c, op)
  <2>1. PICK op \in Direct : Call(c, op)
    BY <1>5
  <2>2. EnqueueAs(c, <<c, sent[c] + 1>>, op, FALSE, FALSE) /\ sent[c] < MaxCalls
    BY <2>1 DEF Call
  <2>3. /\ caller' \in [Callers -> CallTypes] /\ told' \subseteq Steers \X BOOLEAN \X Direct
        /\ queue' \in Seq(Steers) /\ accepted' \in Seq(Steers)
    BY <2>2, <1>0, <1>1, EnqueueTyped
  <2>4. sent' \in [Callers -> 0..MaxCalls] /\ sent'[c] > 0
        /\ \A d \in Callers : d # c => sent'[d] = sent[d]
    BY <2>1, <1>0, <1>1 DEF Call
  <2>5. \A d \in Callers : d # c => caller'[d] = caller[d]
    BY <2>2, <1>0 DEF EnqueueAs, Return
  <2>6. wake' \in BOOLEAN /\ UNCHANGED <<closed, running>>
    BY <2>1, <1>0 DEF Call
  <2> QED BY <2>3, <2>4, <2>5, <2>6, <1>0, <1>4
<1>6. CASE PushCheck(c)
  <2>1. caller' \in [Callers -> CallTypes]
    BY <1>6, <1>0 DEF PushCheck, CallTypes, CallerStates, Direct
  <2>2. \A d \in Callers : d # c => caller'[d] = caller[d] /\ sent'[d] = sent[d]
    BY <1>6, <1>0 DEF PushCheck
  <2>3. sent' \in [Callers -> 0..MaxCalls] /\ sent'[c] > 0
    BY <1>6, <1>0, <1>1 DEF PushCheck
  <2> QED BY <2>1, <2>2, <2>3, <1>6, <1>0, <1>4 DEF PushCheck
<1>7. CASE PushEnqueue(c)
  <2>1. EnqueueAs(c, Steer(c), caller[c].op, TRUE, caller[c].says) /\ caller[c].at # "idle"
        /\ sent' = sent /\ UNCHANGED <<wake, closed, running>>
    BY <1>7 DEF PushEnqueue
  <2>2. /\ caller' \in [Callers -> CallTypes] /\ told' \subseteq Steers \X BOOLEAN \X Direct
        /\ queue' \in Seq(Steers) /\ accepted' \in Seq(Steers)
    <3>1. PICK op \in Direct : op = caller[c].op
      BY <1>3
    <3>2. PICK says \in BOOLEAN : says = caller[c].says
      BY <1>3
    <3>3. PICK t \in Steers : t = Steer(c)
      BY <2>1, <1>2
    <3>4. EnqueueAs(c, t, op, TRUE, says)
      BY <2>1, <3>1, <3>2, <3>3
    <3>5. TRUE \in BOOLEAN /\ SteerTypeOK
      BY <1>0
    <3> HIDE <2>1, <3>1, <3>2, <3>3
    <3> QED BY <3>4, <3>5, EnqueueTyped
  <2>3. \A d \in Callers : d # c => caller'[d] = caller[d]
    BY <2>1, <1>0 DEF EnqueueAs, Return
  <2> QED BY <2>1, <2>2, <2>3, <1>0, <1>4
<1>8. CASE RaiseWake(c)
  <2>1. caller[c].at # "idle" /\ wake' = TRUE /\ UNCHANGED <<queue, closed, running, sent, accepted>>
    BY <1>8 DEF RaiseWake
  <2>2. /\ caller' \in [Callers -> CallTypes] /\ told' \subseteq Steers \X BOOLEAN \X Direct
        /\ \A d \in Callers : d # c => caller'[d] = caller[d]
    <3>1. CASE caller[c].op = "sync"
      <4>1. caller' = [caller EXCEPT ![c].at = "notified"] /\ told' = told
        BY <3>1, <1>8 DEF RaiseWake
      <4>2. "notified" \in CallerStates /\ TRUE \in BOOLEAN
        BY DEF CallerStates
      <4> QED BY <4>1, <4>2, <1>0, <1>e
    <3>2. CASE caller[c].op # "sync" /\ caller[c].facade
      <4>1. Return(c, Steer(c), caller[c].op, caller[c].says)
        BY <3>2, <1>8 DEF RaiseWake
      <4>2. \A d \in Callers : d # c => caller'[d] = caller[d]
        BY <4>1, <1>0 DEF Return
      <4> QED BY <4>1, <4>2, <2>1, <1>0, <1>2, <1>3, ReturnTyped
    <3>3. CASE caller[c].op # "sync" /\ ~caller[c].facade
      <4>1. caller' = [caller EXCEPT ![c] = Idle] /\ told' = told
        BY <3>3, <1>8 DEF RaiseWake
      <4>2. Idle \in CallTypes
        BY DEF Idle, CallTypes, CallerStates, Direct
      <4> QED BY <4>1, <4>2, <1>0
    <3> QED BY <3>1, <3>2, <3>3
  <2>3. wake' \in BOOLEAN
    BY <2>1, Zenon
  <2> QED BY <2>1, <2>2, <2>3, <1>0, <1>4
<1>9. CASE SyncCheck(c) \/ SyncTimeout(c)
  <2>1. caller[c].at # "idle" /\ UNCHANGED <<queue, wake, closed, running, sent, accepted, told>>
    BY <1>9 DEF SyncCheck, SyncTimeout
  <2>2. PICK b \in BOOLEAN : b = (queue = <<>> /\ ~closed)
    OBVIOUS
  <2>3. \/ caller' = [caller EXCEPT ![c].at = "woken", ![c].says = b]
        \/ caller' = [caller EXCEPT ![c].at = "waiting"]
    BY <1>9, <2>2 DEF SyncCheck, SyncTimeout
  <2>4. caller' \in [Callers -> CallTypes] /\ \A d \in Callers : d # c => caller'[d] = caller[d]
    <3>1. "woken" \in CallerStates /\ "waiting" \in CallerStates
      BY DEF CallerStates
    <3>2. caller' \in [Callers -> CallTypes]
      <4>1. CASE caller' = [caller EXCEPT ![c].at = "woken", ![c].says = b]
        <5>1. [caller EXCEPT ![c].at = "woken", ![c].says = b] \in [Callers -> CallTypes]
          BY <3>1, <1>e, Zenon
        <5> QED BY <4>1, <5>1, Zenon
      <4>2. CASE caller' = [caller EXCEPT ![c].at = "waiting"]
        <5>1. [caller EXCEPT ![c].at = "waiting"] \in [Callers -> CallTypes]
          BY <3>1, <1>e, Zenon
        <5> QED BY <4>2, <5>1, Zenon
      <4> QED BY <4>1, <4>2, <2>3
    <3>3. \A d \in Callers : d # c => caller'[d] = caller[d]
      BY <2>3, <1>0
    <3> QED BY <3>2, <3>3
  <2> QED BY <2>1, <2>4, <1>0, <1>4
<1>10. CASE SyncReturn(c)
  <2>1. /\ Return(c, Steer(c), "sync", caller[c].says /\ running) /\ caller[c].at # "idle"
        /\ UNCHANGED <<queue, wake, closed, running, sent, accepted>>
    BY <1>10 DEF SyncReturn
  <2>2. "sync" \in Direct /\ (caller[c].says /\ running) \in BOOLEAN
    BY DEF Direct
  <2>3. /\ caller' \in [Callers -> CallTypes] /\ told' \subseteq Steers \X BOOLEAN \X Direct
    BY <2>1, <2>2, <1>0, <1>2, ReturnTyped
  <2>4. \A d \in Callers : d # c => caller'[d] = caller[d]
    BY <2>1, <1>0 DEF Return
  <2> QED BY <2>1, <2>3, <2>4, <1>0, <1>4
<1>11. CASE ClearCall(c)
  <2>1. /\ notify_all /\ queue' = <<>> /\ sent[c] < MaxCalls /\ sent' = [sent EXCEPT ![c] = @ + 1]
        /\ UNCHANGED <<wake, closed, running, accepted, told>>
    BY <1>11 DEF ClearCall
  <2>2. caller' \in [Callers -> CallTypes]
    BY <2>1, <1>0, NotifyTyped
  <2>3. \A d \in Callers : (caller'[d].at = "idle" <=> caller[d].at = "idle") /\ sent'[d] >= sent[d]
    BY <2>1, <1>0 DEF notify_all, CallTypes
  <2>4. sent' \in [Callers -> 0..MaxCalls] /\ queue' \in Seq(Steers)
    BY <2>1, <1>1
  <2> QED BY <2>1, <2>2, <2>3, <2>4, <1>0, <1>4
<1> QED BY <1>5, <1>6, <1>7, <1>8, <1>9, <1>10, <1>11 DEF CallerNext

LEMMA SteerTypedNext ==
    ASSUME SteerTyped, [Next]_vars
    PROVE  SteerTyped'
<1>0. /\ queue \in Seq(Steers) /\ wake \in BOOLEAN /\ closed \in BOOLEAN /\ running \in BOOLEAN
      /\ caller \in [Callers -> CallTypes] /\ SteerTypeOK
      /\ \A c \in Callers : caller[c].at # "idle" => sent[c] > 0
  BY DEF SteerTyped, SteerTypeOK, CallTypes
<1>1. CASE UNCHANGED steerVars
  BY <1>1, <1>0 DEF steerVars, SteerTyped, SteerTypeOK
<1>2. CASE reset_wake \/ reopen \/ set_running(TRUE) \/ set_running(FALSE)
  <2>1. wake' \in BOOLEAN /\ closed' \in BOOLEAN /\ running' \in BOOLEAN
    BY <1>2, <1>0, Zenon DEF reset_wake, reopen, set_running
  <2>2. UNCHANGED <<queue, caller, sent, accepted, told>>
    BY <1>2 DEF reset_wake, reopen, set_running
  <2> QED BY <2>1, <2>2, <1>0 DEF SteerTyped, SteerTypeOK
<1>3. CASE close \/ drain \/ clear
  <2>1. /\ notify_all /\ (queue' = queue \/ queue' = <<>>) /\ closed' \in BOOLEAN
        /\ UNCHANGED <<wake, running, sent, accepted, told>>
    BY <1>3, <1>0 DEF close, drain, clear
  <2>2. caller' \in [Callers -> CallTypes]
    BY <2>1, <1>0, NotifyTyped
  <2>3. \A d \in Callers : caller'[d].at = "idle" <=> caller[d].at = "idle"
    BY <2>1, <1>0 DEF notify_all, CallTypes
  <2>4. queue' \in Seq(Steers)
    <3>1. <<>> \in Seq(Steers) /\ (queue' = queue \/ queue' = <<>>)
      BY <2>1
    <3> QED BY <3>1, <1>0
  <2> QED BY <2>1, <2>2, <2>3, <2>4, <1>0 DEF SteerTyped, SteerTypeOK, CallTypes
<1>4. CASE \E c \in Callers : CallerNext(c)
  BY <1>4, CallerTyped
<1> QED BY <1>1, <1>2, <1>3, <1>4, SteerSteps DEF SteerStep

----------------------------------------------------------------------------
\* The same steps, as far as the order of the steers is concerned.
QueueStep ==
    \/ UNCHANGED <<queue, accepted, injected, mark>>
    \/ \E t \in Steers : /\ queue' = Append(queue, t) /\ accepted' = Append(accepted, t)
                         /\ UNCHANGED <<injected, mark>>
    \/ queue' = <<>> /\ injected' = injected \o queue /\ UNCHANGED <<accepted, mark>>
    \/ queue' = <<>> /\ mark' = Len(accepted) /\ UNCHANGED <<accepted, injected>>
    \/ queue' = <<>> /\ UNCHANGED <<accepted, injected, mark>> /\ "clear" \in Ops

LEMMA QueueSteps ==
    ASSUME SteerTyped, [Next]_vars
    PROVE  QueueStep
<1>1. ASSUME NEW c \in Callers, CallerNext(c), UNCHANGED <<injected, mark>>
      PROVE  QueueStep
  <2>1. ASSUME NEW t \in Steers, NEW op, NEW facade, NEW says, EnqueueAs(c, t, op, facade, says)
        PROVE  QueueStep
    <3>1. \/ UNCHANGED <<queue, accepted>>
          \/ queue' = Append(queue, t) /\ accepted' = Append(accepted, t)
      BY <2>1 DEF EnqueueAs
    <3> QED BY <3>1, <1>1 DEF QueueStep
  <2>0. /\ sent[c] < MaxCalls => <<c, sent[c] + 1>> \in Steers
        /\ caller[c].at # "idle" => Steer(c) \in Steers
    BY SteerAssumption DEF SteerTyped, SteerTypeOK, Steers, Steer
  <2>2. CASE \E op \in Ops \intersect Direct : Call(c, op)
    BY <2>0, <2>1, <2>2 DEF Call
  <2>3. CASE PushEnqueue(c)
    BY <2>0, <2>1, <2>3 DEF PushEnqueue
  <2>4. CASE PushCheck(c) \/ RaiseWake(c) \/ SyncCheck(c) \/ SyncTimeout(c) \/ SyncReturn(c)
    <3>1. UNCHANGED <<queue, accepted>>
      BY <2>4 DEF PushCheck, RaiseWake, SyncCheck, SyncTimeout, SyncReturn
    <3> QED BY <3>1, <1>1 DEF QueueStep
  <2>5. CASE ClearCall(c)
    BY <2>5, <1>1 DEF ClearCall, QueueStep
  <2> QED BY <1>1, <2>2, <2>3, <2>4, <2>5 DEF CallerNext
<1>2. CASE UNCHANGED <<steerVars, injected, mark>>
  BY <1>2 DEF QueueStep, steerVars
<1>3. CASE /\ reset_wake \/ close \/ reopen \/ set_running(TRUE) \/ set_running(FALSE)
           /\ UNCHANGED <<injected, mark>>
  BY <1>3 DEF QueueStep, reset_wake, close, reopen, set_running
<1>4. CASE drain /\ injected' = injected \o queue /\ UNCHANGED mark
  BY <1>4 DEF QueueStep, drain
<1>5. CASE clear /\ mark' = Len(accepted) /\ UNCHANGED injected
  BY <1>5 DEF QueueStep, clear
<1> QED BY <1>1, <1>2, <1>3, <1>4, <1>5, SteerSteps DEF SteerStep

\* The queue is the end of what it took; what was injected is a part of what is
\* before it, in the same order; and the mark is not inside the queue.
Order(out) ==
    \E pos \in [1..Len(injected) -> 1..out] :
       /\ \A i \in 1..Len(injected) : accepted[pos[i]] = injected[i]
       /\ \A i, j \in 1..Len(injected) : i < j => pos[i] < pos[j]
QueueOrder ==
    /\ injected \in Seq(Steers)
    /\ \E out \in 0..Len(accepted) :
          /\ Len(accepted) = out + Len(queue)
          /\ \A i \in 1..Len(queue) : queue[i] = accepted[out + i]
          /\ mark \in 0..out
          /\ Order(out)

LEMMA QueueOrderInit == Init => QueueOrder
<1> SUFFICES ASSUME Init PROVE QueueOrder
  OBVIOUS
<1>1. queue = <<>> /\ accepted = <<>> /\ injected = <<>> /\ mark = 0
  BY DEF Init, SteerInit
<1>2. Order(0)
  <2>1. Len(injected) = 0
    BY <1>1
  <2>2. 1..Len(injected) = {}
    BY <2>1
  <2>3. [i \in {} |-> i] \in [{} -> 1..0]
    OBVIOUS
  <2> QED BY <2>2, <2>3 DEF Order
<1>3. injected \in Seq(Steers) /\ 0 \in 0..Len(accepted) /\ Len(accepted) = 0 + Len(queue)
      /\ mark \in 0..0 /\ Len(queue) = 0
  BY <1>1
<1> QED BY <1>2, <1>3 DEF QueueOrder

LEMMA QueueOrderNext ==
    ASSUME SteerTyped, QueueOrder, [Next]_vars
    PROVE  QueueOrder'
<1>0. queue \in Seq(Steers) /\ accepted \in Seq(Steers) /\ injected \in Seq(Steers)
  BY DEF SteerTyped, SteerTypeOK, QueueOrder
<1>q. PICK q \in Nat : q = Len(queue)
  BY <1>0
<1>m. PICK m \in Nat : m = Len(injected)
  BY <1>0
<1>1. PICK out \in Nat : /\ Len(accepted) = out + q /\ mark \in 0..out /\ Order(out)
                         /\ \A i \in 1..q : queue[i] = accepted[out + i]
  BY <1>0, <1>q DEF QueueOrder
<1>2. PICK pos \in [1..m -> 1..out] :
         /\ \A i \in 1..m : accepted[pos[i]] = injected[i]
         /\ \A i, j \in 1..m : i < j => pos[i] < pos[j]
  BY <1>1, <1>m DEF Order
<1>3. CASE UNCHANGED <<queue, accepted, injected, mark>>
  <2>1. Order(out)'
    BY <1>3, <1>1 DEF Order
  <2>2. out \in 0..Len(accepted') /\ Len(accepted') = out + Len(queue')
    BY <1>3, <1>1, <1>q
  <2> QED BY <2>1, <2>2, <1>0, <1>1, <1>3, <1>q DEF QueueOrder
<1>4. CASE \E t \in Steers : /\ queue' = Append(queue, t) /\ accepted' = Append(accepted, t)
                             /\ UNCHANGED <<injected, mark>>
  <2>1. PICK t \in Steers : /\ queue' = Append(queue, t) /\ accepted' = Append(accepted, t)
                            /\ injected' = injected /\ mark' = mark
    BY <1>4
  <2>2. /\ Len(queue') = q + 1 /\ queue'[q + 1] = t /\ \A i \in 1..q : queue'[i] = queue[i]
        /\ Len(accepted') = out + (q + 1) /\ accepted'[out + (q + 1)] = t
        /\ \A i \in 1..(out + q) : accepted'[i] = accepted[i]
    BY <2>1, <1>0, <1>1, <1>q
  <2>3. \A i \in 1..(q + 1) : queue'[i] = accepted'[out + i]
    <3> SUFFICES ASSUME NEW i \in 1..(q + 1) PROVE queue'[i] = accepted'[out + i]
      OBVIOUS
    <3>1. CASE i = q + 1
      BY <3>1, <2>2
    <3>2. CASE i # q + 1
      <4>1. i \in 1..q /\ out + i \in 1..(out + q)
        BY <3>2
      <4> QED BY <4>1, <2>2, <1>1
    <3> QED BY <3>1, <3>2
  <2>4. Order(out)'
    <3>1. \A i \in 1..m : accepted'[pos[i]] = injected'[i]
      <4> SUFFICES ASSUME NEW i \in 1..m PROVE accepted'[pos[i]] = injected'[i]
        OBVIOUS
      <4>1. pos[i] \in 1..(out + q)
        BY <1>2
      <4> QED BY <4>1, <2>1, <2>2, <1>2
    <3>2. Len(injected') = m
      BY <2>1, <1>m
    <3> QED BY <3>1, <3>2, <1>2 DEF Order
  <2>5. out \in 0..Len(accepted')
    BY <2>2
  <2> QED BY <2>1, <2>2, <2>3, <2>4, <2>5, <1>0, <1>1 DEF QueueOrder
<1>5. CASE queue' = <<>> /\ injected' = injected \o queue /\ UNCHANGED <<accepted, mark>>
  <2>1. /\ injected' \in Seq(Steers) /\ Len(injected') = m + q
        /\ \A i \in 1..(m + q) : injected'[i] = IF i <= m THEN injected[i] ELSE queue[i - m]
    <3>1. /\ injected \o queue \in Seq(Steers) /\ Len(injected \o queue) = m + q
          /\ \A i \in 1..(m + q) :
                (injected \o queue)[i] = IF i <= m THEN injected[i] ELSE queue[i - m]
      BY <1>0, <1>q, <1>m, ConcatProperties
    <3> QED BY <3>1, <1>5
  <2> DEFINE new == [i \in 1..(m + q) |-> IF i <= m THEN pos[i] ELSE out + (i - m)]
  <2>2. new \in [1..(m + q) -> 1..(out + q)]
    <3> SUFFICES ASSUME NEW i \in 1..(m + q)
                 PROVE  (IF i <= m THEN pos[i] ELSE out + (i - m)) \in 1..(out + q)
      OBVIOUS
    <3>1. CASE i <= m
      <4>1. i \in 1..m
        BY <3>1
      <4> QED BY <4>1, <3>1, <1>2
    <3>2. CASE ~(i <= m)
      BY <3>2
    <3> QED BY <3>1, <3>2
  <2>3. \A i \in 1..(m + q) : accepted[new[i]] = injected'[i]
    <3> SUFFICES ASSUME NEW i \in 1..(m + q) PROVE accepted[new[i]] = injected'[i]
      OBVIOUS
    <3>1. CASE i <= m
      <4>1. i \in 1..m /\ new[i] = pos[i] /\ injected'[i] = injected[i]
        BY <3>1, <2>1
      <4> QED BY <4>1, <1>2
    <3>2. CASE ~(i <= m)
      <4>1. i - m \in 1..q /\ new[i] = out + (i - m) /\ injected'[i] = queue[i - m]
        BY <3>2, <2>1
      <4> QED BY <4>1, <1>1
    <3> QED BY <3>1, <3>2
  <2>4. ASSUME NEW i \in 1..(m + q), NEW j \in 1..(m + q), i < j
        PROVE  new[i] < new[j]
    <3>1. CASE j <= m
      <4>1. i \in 1..m /\ j \in 1..m /\ new[i] = pos[i] /\ new[j] = pos[j]
        BY <3>1, <2>4
      <4> QED BY <4>1, <2>4, <1>2
    <3>2. CASE i <= m /\ ~(j <= m)
      <4>1. i \in 1..m /\ new[i] = pos[i] /\ new[j] = out + (j - m) /\ j - m >= 1
        BY <3>2
      <4>2. pos[i] \in 1..out
        BY <4>1, <1>2
      <4> QED BY <4>1, <4>2
    <3>3. CASE ~(i <= m) /\ ~(j <= m)
      BY <3>3, <2>4
    <3> QED BY <3>1, <3>2, <3>3, <2>4
  <2> HIDE DEF new
  <2>5. accepted' = accepted /\ Len(queue') = 0 /\ Len(accepted') = (out + q) + 0
        /\ mark' \in 0..(out + q) /\ out + q \in 0..Len(accepted')
    BY <1>5, <1>1
  <2>6. Order(out + q)'
    BY <2>1, <2>2, <2>3, <2>4, <2>5 DEF Order
  <2>7. PICK o : o = out + q
    OBVIOUS
  <2>8. /\ Order(o)' /\ o \in 0..Len(accepted') /\ Len(accepted') = o + Len(queue')
        /\ Len(queue') = 0 /\ mark' \in 0..o
    BY <2>5, <2>6, <2>7
  <2>9. injected' \in Seq(Steers) /\ \A i \in 1..Len(queue') : queue'[i] = accepted'[o + i]
    BY <2>1, <2>8
  <2> QED BY <2>8, <2>9 DEF QueueOrder
<1>6. CASE /\ queue' = <<>> /\ UNCHANGED <<accepted, injected>>
           /\ mark' = mark \/ mark' = Len(accepted)
  <2>1. Len(queue') = 0 /\ Len(accepted') = (out + q) + 0 /\ out + q \in 0..Len(accepted')
        /\ mark' \in 0..(out + q)
    BY <1>6, <1>1
  <2>2. pos \in [1..m -> 1..(out + q)]
    BY <1>2
  <2>3. Order(out + q)'
    BY <2>2, <1>2, <1>6, <1>m DEF Order
  <2> QED BY <2>1, <2>3, <1>0, <1>6 DEF QueueOrder
<1>7. QueueStep
  BY QueueSteps
<1> QED BY <1>3, <1>4, <1>5, <1>6, <1>7 DEF QueueStep

LEMMA SteerInvariant == Spec => [](SteerTyped /\ QueueOrder)
<1>1. Init => SteerTyped /\ QueueOrder
  BY SteerTypedInit, QueueOrderInit
<1>2. (SteerTyped /\ QueueOrder) /\ [Next]_vars => (SteerTyped /\ QueueOrder)'
  BY SteerTypedNext, QueueOrderNext
<1> QED BY <1>1, <1>2, PTL DEF Spec

\* SteerQueue::push appends, drain takes everything, clear drops: steers become
\* user messages in the order the queue took them, and none of them twice.
THEOREM SteersInOrderHolds == Spec => []SteersInOrder
<1>1. SteerTyped /\ QueueOrder => SteersInOrder
  <2> SUFFICES ASSUME SteerTyped, QueueOrder PROVE SteersInOrder
    OBVIOUS
  <2>0. accepted \in Seq(Steers) /\ injected \in Seq(Steers) /\ queue \in Seq(Steers)
    BY DEF SteerTyped, SteerTypeOK, QueueOrder
  <2>1. PICK out \in 0..Len(accepted) : Order(out)
    BY DEF QueueOrder
  <2>2. PICK pos \in [1..Len(injected) -> 1..out] :
           /\ \A i \in 1..Len(injected) : accepted[pos[i]] = injected[i]
           /\ \A i, j \in 1..Len(injected) : i < j => pos[i] < pos[j]
    BY <2>1 DEF Order
  <2>3. \A i \in 1..Len(injected) : pos[i] \in 1..Len(accepted)
    BY <2>0, <2>2
  <2> QED BY <2>2, <2>3 DEF SteersInOrder
<1> QED BY <1>1, SteerInvariant, PTL

\* What KimiSoul::turn drops at its beginning stays dropped: every steer that a
\* drain injects was taken by the queue after that.
THEOREM NoStaleSteerHolds == Spec => NoStaleSteer
<1> DEFINE A == \A i \in (Len(injected) + 1)..Len(injected') :
                   \E k \in (mark + 1)..Len(accepted) : accepted[k] = injected'[i]
<1>1. ASSUME SteerTyped, QueueOrder, [Next]_vars
      PROVE  [A]_vars
  <2>0. queue \in Seq(Steers) /\ accepted \in Seq(Steers) /\ injected \in Seq(Steers)
    BY <1>1 DEF SteerTyped, SteerTypeOK, QueueOrder
  <2>q. PICK q \in Nat : q = Len(queue)
    BY <2>0
  <2>m. PICK m \in Nat : m = Len(injected)
    BY <2>0
  <2>1. PICK out \in Nat : /\ Len(accepted) = out + q /\ mark \in 0..out
                           /\ \A i \in 1..q : queue[i] = accepted[out + i]
    BY <1>1, <2>0, <2>q DEF QueueOrder
  <2>2. CASE injected' = injected
    BY <2>2, <2>m
  <2>3. CASE injected' = injected \o queue
    <3>1. /\ Len(injected') = m + q
          /\ \A i \in 1..(m + q) : injected'[i] = IF i <= m THEN injected[i] ELSE queue[i - m]
      <4>1. /\ Len(injected \o queue) = m + q
            /\ \A i \in 1..(m + q) :
                  (injected \o queue)[i] = IF i <= m THEN injected[i] ELSE queue[i - m]
        BY <2>0, <2>q, <2>m, ConcatProperties
      <4> QED BY <4>1, <2>3
    <3>2. ASSUME NEW i \in (m + 1)..(m + q)
          PROVE  \E k \in (mark + 1)..Len(accepted) : accepted[k] = injected'[i]
      <4>1. i - m \in 1..q /\ i \in 1..(m + q) /\ ~(i <= m)
        OBVIOUS
      <4>2. injected'[i] = accepted[out + (i - m)]
        BY <4>1, <3>1, <2>1
      <4>3. out + (i - m) \in (mark + 1)..Len(accepted)
        BY <4>1, <2>1
      <4> QED BY <4>2, <4>3
    <3> QED BY <3>1, <3>2, <2>m
  <2>4. injected' = injected \/ injected' = injected \o queue
    BY <1>1, QueueSteps DEF QueueStep
  <2> QED BY <2>2, <2>3, <2>4
<1>2. NoStaleSteer <=> [][A]_vars
  BY DEF NoStaleSteer
<1>3. (SteerTyped /\ QueueOrder) /\ [Next]_vars => [A]_vars
  BY <1>1
<1> HIDE DEF A
<1> QED BY <1>2, <1>3, SteerInvariant, PTL DEF Spec

----------------------------------------------------------------------------
\* Steers that other threads do not clear.

LEMMA SteerKeptNext ==
    ASSUME "clear" \notin Ops, SteerTyped, QueueOrder, SteerKept, [Next]_vars
    PROVE  SteerKept'
<1>0. queue \in Seq(Steers) /\ accepted \in Seq(Steers) /\ injected \in Seq(Steers)
  BY DEF SteerTyped, SteerTypeOK, QueueOrder
<1>k. \A k \in 1..Len(accepted) :
        \/ k <= mark
        \/ \E i \in 1..Len(queue) : queue[i] = accepted[k]
        \/ \E i \in 1..Len(injected) : injected[i] = accepted[k]
  BY DEF SteerKept
<1>1. CASE UNCHANGED <<queue, accepted, injected, mark>>
  BY <1>1, <1>k DEF SteerKept
<1>2. CASE \E t \in Steers : /\ queue' = Append(queue, t) /\ accepted' = Append(accepted, t)
                             /\ UNCHANGED <<injected, mark>>
  <2>1. PICK t \in Steers : /\ queue' = Append(queue, t) /\ accepted' = Append(accepted, t)
                            /\ injected' = injected /\ mark' = mark
    BY <1>2
  <2>q. PICK q \in Nat : q = Len(queue)
    BY <1>0
  <2>a. PICK a \in Nat : a = Len(accepted)
    BY <1>0
  <2>2. /\ Len(queue') = q + 1 /\ queue'[q + 1] = t /\ \A i \in 1..q : queue'[i] = queue[i]
        /\ Len(accepted') = a + 1 /\ accepted'[a + 1] = t
        /\ \A i \in 1..a : accepted'[i] = accepted[i]
    BY <2>1, <1>0, <2>q, <2>a
  <2>3. ASSUME NEW k \in 1..(a + 1)
        PROVE  \/ k <= mark'
               \/ \E i \in 1..Len(queue') : queue'[i] = accepted'[k]
               \/ \E i \in 1..Len(injected') : injected'[i] = accepted'[k]
    <3>1. CASE k = a + 1
      <4>1. q + 1 \in 1..Len(queue') /\ queue'[q + 1] = accepted'[k]
        BY <3>1, <2>2
      <4> QED BY <4>1
    <3>2. CASE k # a + 1
      <4>1. k \in 1..a /\ accepted'[k] = accepted[k]
        BY <3>2, <2>2
      <4>2. \/ k <= mark
            \/ \E i \in 1..q : queue[i] = accepted[k]
            \/ \E i \in 1..Len(injected) : injected[i] = accepted[k]
        BY <4>1, <1>k, <2>a, <2>q
      <4>3. \A i \in 1..q : i \in 1..(q + 1) /\ queue'[i] = queue[i]
        BY <2>2
      <4> QED BY <4>1, <4>2, <4>3, <2>1, <2>2
    <3> QED BY <3>1, <3>2
  <2> QED BY <2>2, <2>3 DEF SteerKept
<1>3. CASE queue' = <<>> /\ injected' = injected \o queue /\ UNCHANGED <<accepted, mark>>
  <2>q. PICK q \in Nat : q = Len(queue)
    BY <1>0
  <2>m. PICK m \in Nat : m = Len(injected)
    BY <1>0
  <2>1. /\ Len(injected') = m + q
        /\ \A i \in 1..(m + q) : injected'[i] = IF i <= m THEN injected[i] ELSE queue[i - m]
    <3>1. /\ Len(injected \o queue) = m + q
          /\ \A i \in 1..(m + q) :
                (injected \o queue)[i] = IF i <= m THEN injected[i] ELSE queue[i - m]
      BY <1>0, <2>q, <2>m, ConcatProperties
    <3> QED BY <3>1, <1>3
  <2>2. \A i \in 1..m : i \in 1..(m + q) /\ injected'[i] = injected[i]
    BY <2>1
  <2>3. \A i \in 1..q : i + m \in 1..(m + q) /\ injected'[i + m] = queue[i]
    <3> SUFFICES ASSUME NEW i \in 1..q PROVE i + m \in 1..(m + q) /\ injected'[i + m] = queue[i]
      OBVIOUS
    <3>1. i + m \in 1..(m + q) /\ ~(i + m <= m) /\ (i + m) - m = i
      OBVIOUS
    <3> QED BY <3>1, <2>1
  <2>4. accepted' = accepted /\ mark' = mark
    BY <1>3
  <2>5. ASSUME NEW k \in 1..Len(accepted)
        PROVE  k <= mark \/ \E i \in 1..(m + q) : injected'[i] = accepted[k]
    <3>1. \/ k <= mark
          \/ \E i \in 1..q : queue[i] = accepted[k]
          \/ \E i \in 1..m : injected[i] = accepted[k]
      BY <1>k, <2>q, <2>m
    <3>2. CASE \E i \in 1..q : queue[i] = accepted[k]
      BY <3>2, <2>3
    <3>3. CASE \E i \in 1..m : injected[i] = accepted[k]
      BY <3>3, <2>2
    <3> QED BY <3>1, <3>2, <3>3
  <2> QED BY <2>1, <2>4, <2>5 DEF SteerKept
<1>4. CASE queue' = <<>> /\ mark' = Len(accepted) /\ UNCHANGED <<accepted, injected>>
  <2>1. \A k \in 1..Len(accepted') : k <= mark'
    BY <1>4, <1>0
  <2> QED BY <2>1 DEF SteerKept
<1>5. QueueStep
  BY QueueSteps
<1> QED BY <1>1, <1>2, <1>3, <1>4, <1>5 DEF QueueStep

LEMMA SteerKeptInit == Init => SteerKept
<1> SUFFICES ASSUME Init PROVE SteerKept
  OBVIOUS
<1>1. Len(accepted) = 0
  BY DEF Init, SteerInit
<1> QED BY <1>1 DEF SteerKept

\* A steer that the queue took is injected, waits in the queue, through the
\* turn's close too, or was dropped as stale by the begin of a turn: nothing but
\* Steer::clear loses one.
THEOREM SteerKeptHolds ==
    ASSUME "clear" \notin Ops
    PROVE  Spec => []SteerKept
<1>1. (SteerTyped /\ QueueOrder) /\ SteerKept /\ [Next]_vars => SteerKept'
  BY SteerKeptNext
<1> QED BY <1>1, SteerInvariant, SteerKeptInit, PTL DEF Spec

\* The queue took the steer t; the steer t has left the queue.
Took(t) == \E k \in 1..Len(accepted) : accepted[k] = t
Taken(t) == \/ \E i \in 1..Len(injected) : injected[i] = t
            \/ \E k \in 1..mark : accepted[k] = t

\* Where a thread is inside push_sync, what it has seen of the queue is so.
SyncSeen(c) ==
    /\ caller[c].at = "checked" => caller[c].op # "sync"
    /\ caller[c].at \in {"enqueued", "notified", "waiting"} => Took(Steer(c))
    /\ caller[c].at = "woken" /\ caller[c].says => Taken(Steer(c))
SyncInv == SyncTrueTaken /\ \A c \in Callers : SyncSeen(c)

\* What the queue took and what has left it stays so.
LEMMA TakenStays ==
    ASSUME SteerTyped, QueueOrder, [Next]_vars
    PROVE  \A t : (Took(t) => Took(t)') /\ (Taken(t) => Taken(t)')
<1>0. queue \in Seq(Steers) /\ accepted \in Seq(Steers) /\ injected \in Seq(Steers)
  BY DEF SteerTyped, SteerTypeOK, QueueOrder
<1>1. mark \in 0..Len(accepted)
  BY <1>0 DEF QueueOrder
<1>2. /\ Len(accepted) \in Nat /\ Len(accepted') \in Nat /\ Len(accepted') >= Len(accepted)
      /\ \A k \in 1..Len(accepted) : accepted'[k] = accepted[k]
  <2>1. accepted' = accepted \/ \E t \in Steers : accepted' = Append(accepted, t)
    BY QueueSteps DEF QueueStep
  <2> QED BY <2>1, <1>0
<1>3. /\ Len(injected) \in Nat /\ Len(injected') \in Nat /\ Len(injected') >= Len(injected)
      /\ \A i \in 1..Len(injected) : injected'[i] = injected[i]
  <2>1. injected' = injected \/ injected' = injected \o queue
    BY QueueSteps DEF QueueStep
  <2>2. CASE injected' = injected \o queue
    <3>1. /\ Len(injected \o queue) = Len(injected) + Len(queue)
          /\ \A i \in 1..(Len(injected) + Len(queue)) :
                (injected \o queue)[i] = IF i <= Len(injected) THEN injected[i]
                                         ELSE queue[i - Len(injected)]
      BY <1>0, ConcatProperties
    <3>2. Len(injected) \in Nat /\ Len(queue) \in Nat
      BY <1>0
    <3>3. \A i \in 1..Len(injected) : i \in 1..(Len(injected) + Len(queue)) /\ i <= Len(injected)
      BY <3>2
    <3> QED BY <3>1, <3>2, <3>3, <2>2
  <2>3. CASE injected' = injected
    BY <2>3, <1>0
  <2> QED BY <2>1, <2>2, <2>3
<1>4. mark' \in 0..Len(accepted') /\ mark' >= mark
  BY <1>1, <1>2, QueueSteps DEF QueueStep
<1>5. ASSUME NEW t, Took(t) PROVE Took(t)'
  BY <1>2, <1>5 DEF Took
<1>6. ASSUME NEW t, Taken(t) PROVE Taken(t)'
  <2>1. CASE \E i \in 1..Len(injected) : injected[i] = t
    BY <2>1, <1>3 DEF Taken
  <2>2. CASE \E k \in 1..mark : accepted[k] = t
    <3>1. PICK k \in 1..mark : accepted[k] = t
      BY <2>2
    <3>2. k \in 1..Len(accepted) /\ k \in 1..mark'
      BY <1>1, <1>4
    <3> QED BY <3>1, <3>2, <1>2 DEF Taken
  <2> QED BY <1>6, <2>1, <2>2 DEF Taken
<1> QED BY <1>5, <1>6

LEMMA SyncInvInit == Init => SyncInv
<1> SUFFICES ASSUME Init PROVE SyncInv
  OBVIOUS
<1>1. told = {} /\ \A c \in Callers : caller[c].at = "idle"
  BY DEF Init, SteerInit, Idle
<1> QED BY <1>1 DEF SyncInv, SyncTrueTaken, SyncSeen

\* The operations of one thread: what it finds is true, and the others' states
\* are left alone.
LEMMA SyncCaller ==
    ASSUME "clear" \notin Ops, SteerTyped, QueueOrder, SteerKept, SyncInv, [Next]_vars,
           NEW c \in Callers, CallerNext(c), UNCHANGED <<injected, mark>>
    PROVE  /\ SyncSeen(c)'
           /\ \A d \in Callers : d # c => caller'[d] = caller[d] /\ sent'[d] = sent[d]
           /\ \A t \in told' \ told : t[2] /\ t[3] = "sync" => Taken(t[1])'
<1>0. /\ caller \in [Callers -> CallTypes] /\ accepted \in Seq(Steers)
      /\ sent \in [Callers -> 0..MaxCalls] /\ Len(accepted) \in Nat
  BY DEF SteerTyped, SteerTypeOK, CallTypes
<1>s. SyncSeen(c)
  BY DEF SyncInv
<1>i. Idle.at = "idle"
  BY DEF Idle
<1>1. ASSUME NEW t, NEW op, NEW facade \in BOOLEAN, NEW says \in BOOLEAN,
             EnqueueAs(c, t, op, facade, says), op = "sync" => ~facade,
             t = <<c, sent'[c]>>
      PROVE  /\ SyncSeen(c)'
             /\ \A d \in Callers : d # c => caller'[d] = caller[d]
             /\ \A x \in told' \ told : x[2] /\ x[3] = "sync" => Taken(x[1])'
  <2>1. CASE closed
    <3>1. caller' = [caller EXCEPT ![c] = Idle]
          /\ (told' = told \/ told' = told \union {<<t, facade /\ says, op>>})
      BY <2>1, <1>1 DEF EnqueueAs, Return
    <3>2. \A x \in told' \ told : x[3] = "sync" => ~x[2]
      BY <3>1, <1>1
    <3>3. caller'[c].at = "idle"
      BY <3>1, <1>0, <1>i
    <3>4. \A d \in Callers : d # c => caller'[d] = caller[d]
      BY <3>1, <1>0
    <3> QED BY <3>2, <3>3, <3>4 DEF SyncSeen
  <2>2. CASE ~closed
    <3>1. accepted' = Append(accepted, t)
      BY <2>2, <1>1 DEF EnqueueAs
    <3>2. Took(t)'
      <4>1. Len(accepted') = Len(accepted) + 1 /\ accepted'[Len(accepted) + 1] = t
        BY <3>1, <1>0
      <4>2. Len(accepted) + 1 \in 1..Len(accepted')
        BY <4>1, <1>0
      <4> QED BY <4>1, <4>2 DEF Took
    <3>3. \/ /\ caller' = [caller EXCEPT ![c] = [at |-> "enqueued", op |-> op, says |-> says,
                                                 facade |-> facade]]
             /\ told' = told
          \/ /\ caller' = [caller EXCEPT ![c] = Idle] /\ op = "steer"
             /\ told' = told \/ told' = told \union {<<t, says, op>>}
      BY <2>2, <1>1 DEF EnqueueAs, Return
    <3>4. \A x \in told' \ told : x[3] # "sync"
      BY <3>3
    <3>5. caller'[c].at \in {"idle", "enqueued"} /\ \A d \in Callers : d # c => caller'[d] = caller[d]
      BY <3>3, <1>0, <1>i
    <3>6. Steer(c)' = t
      BY <1>1 DEF Steer
    <3> QED BY <3>2, <3>4, <3>5, <3>6 DEF SyncSeen
  <2> QED BY <2>1, <2>2
<1>2. CASE \E op \in Ops \intersect Direct : Call(c, op)
  <2>1. PICK op \in Direct : Call(c, op)
    BY <1>2
  <2>2. /\ EnqueueAs(c, <<c, sent[c] + 1>>, op, FALSE, FALSE) /\ sent[c] + 1 = sent'[c]
        /\ \A d \in Callers : d # c => sent'[d] = sent[d]
    BY <2>1, <1>0 DEF Call
  <2> QED BY <2>2, <1>1
<1>3. CASE PushCheck(c)
  <2>1. /\ told' = told /\ \A d \in Callers : d # c => caller'[d] = caller[d] /\ sent'[d] = sent[d]
        /\ caller'[c].at = "checked" /\ caller'[c].op # "sync"
    BY <1>3, <1>0 DEF PushCheck
  <2> QED BY <2>1 DEF SyncSeen
<1>4. CASE PushEnqueue(c)
  <2>1. PICK says \in BOOLEAN : says = caller[c].says
    BY <1>0 DEF CallTypes
  <2>2. /\ EnqueueAs(c, Steer(c), caller[c].op, TRUE, says) /\ sent' = sent
        /\ caller[c].op # "sync"
    BY <2>1, <1>4, <1>s DEF PushEnqueue, SyncSeen
  <2>3. Steer(c) = <<c, sent'[c]>>
    BY <2>2 DEF Steer
  <2>4. PICK op : op = caller[c].op
    OBVIOUS
  <2>5. PICK t : t = Steer(c)
    OBVIOUS
  <2>7. PICK f \in BOOLEAN : f = TRUE
    OBVIOUS
  <2>6. EnqueueAs(c, t, op, f, says) /\ op # "sync" /\ t = <<c, sent'[c]>>
    BY <2>2, <2>3, <2>4, <2>5, <2>7
  <2>8. /\ SyncSeen(c)'
        /\ \A d \in Callers : d # c => caller'[d] = caller[d]
        /\ \A x \in told' \ told : x[2] /\ x[3] = "sync" => Taken(x[1])'
    BY <2>6, <1>1
  <2> QED BY <2>2, <2>8
<1>5. CASE RaiseWake(c)
  <2>1. caller[c].at = "enqueued" /\ sent' = sent /\ accepted' = accepted
    BY <1>5 DEF RaiseWake
  <2>2. Took(Steer(c))'
    <3>1. Took(Steer(c))
      BY <2>1, <1>s DEF SyncSeen
    <3> QED BY <3>1, <2>1 DEF Took, Steer
  <2>3. \/ caller' = [caller EXCEPT ![c].at = "notified"] /\ told' = told
        \/ /\ caller' = [caller EXCEPT ![c] = Idle] /\ caller[c].op # "sync"
           /\ told' = told \/ told' = told \union {<<Steer(c), caller[c].says, caller[c].op>>}
    BY <1>5 DEF RaiseWake, Return
  <2>4. caller'[c].at \in {"idle", "notified"} /\ \A d \in Callers : d # c => caller'[d] = caller[d]
    BY <2>3, <1>0, <1>i DEF CallTypes
  <2>5. \A x \in told' \ told : x[3] # "sync"
    BY <2>3
  <2> QED BY <2>1, <2>2, <2>4, <2>5 DEF SyncSeen
<1>6. CASE SyncCheck(c) \/ SyncTimeout(c)
  <2>1. /\ caller[c].at \in {"notified", "waiting"}
        /\ UNCHANGED <<queue, sent, accepted, told>>
    BY <1>6 DEF SyncCheck, SyncTimeout
  <2>2. Took(Steer(c))
    BY <2>1, <1>s DEF SyncSeen
  <2>3. queue = <<>> => Taken(Steer(c))
    <3> SUFFICES ASSUME queue = <<>> PROVE Taken(Steer(c))
      OBVIOUS
    <3>1. PICK k \in 1..Len(accepted) : accepted[k] = Steer(c)
      BY <2>2 DEF Took
    <3>2. k <= mark \/ \E i \in 1..Len(injected) : injected[i] = accepted[k]
      BY <3>1 DEF SteerKept
    <3>3. k <= mark => k \in 1..mark
      BY <1>0 DEF QueueOrder
    <3> QED BY <3>1, <3>2, <3>3 DEF Taken
  <2>4. \A d \in Callers : d # c => caller'[d] = caller[d]
    BY <1>6, <1>0 DEF SyncCheck, SyncTimeout
  <2>5. \/ caller'[c].at = "waiting"
        \/ caller'[c].at = "woken" /\ (caller'[c].says => queue = <<>>)
    BY <1>6, <1>0, SMTT(30) DEF SyncCheck, SyncTimeout, CallTypes
  <2>6. Steer(c)' = Steer(c)
    BY <2>1 DEF Steer
  <2>7. Took(Steer(c))' /\ (queue = <<>> => Taken(Steer(c))')
    BY <2>2, <2>3, <2>6, TakenStays
  <2> QED BY <2>1, <2>4, <2>5, <2>7 DEF SyncSeen
<1>7. CASE SyncReturn(c)
  <2>1. /\ caller[c].at = "woken" /\ UNCHANGED <<queue, sent, accepted>>
        /\ caller' = [caller EXCEPT ![c] = Idle]
        /\ told' = told \union {<<Steer(c), caller[c].says /\ running, "sync">>}
    BY <1>7 DEF SyncReturn, Return
  <2>2. caller'[c].at = "idle" /\ \A d \in Callers : d # c => caller'[d] = caller[d]
    BY <2>1, <1>0, <1>i
  <2>3. caller[c].says => Taken(Steer(c))'
    <3>1. caller[c].says => Taken(Steer(c))
      BY <2>1, <1>s DEF SyncSeen
    <3>2. Steer(c)' = Steer(c)
      BY <2>1 DEF Steer
    <3> QED BY <3>1, <3>2, TakenStays
  <2>4. Steer(c)' = Steer(c)
    BY <2>1 DEF Steer
  <2>5. ASSUME NEW x \in told' \ told, x[2], x[3] = "sync" PROVE Taken(x[1])'
    <3>b. PICK b \in BOOLEAN : b = (caller[c].says /\ running)
      OBVIOUS
    <3>e. x = <<Steer(c), b, "sync">>
      BY <2>1, <3>b
    <3>f. x[2] = b /\ x[1] = Steer(c)
      BY <3>e
    <3>1. x[1] = Steer(c) /\ caller[c].says
      BY <3>b, <3>f, <2>5
    <3> QED BY <3>1, <2>3, <2>4
  <2> QED BY <2>1, <2>2, <2>5 DEF SyncSeen
<1>8. CASE ClearCall(c)
  BY <1>8 DEF ClearCall
<1> QED BY <1>2, <1>3, <1>4, <1>5, <1>6, <1>7, <1>8 DEF CallerNext

LEMMA SyncInvNext ==
    ASSUME "clear" \notin Ops, SteerTyped, QueueOrder, SteerKept, SyncInv, [Next]_vars
    PROVE  SyncInv'
<1>0. \A d \in Callers : SyncSeen(d)
  BY DEF SyncInv
<1>1. ASSUME \A t \in told' \ told : t[2] /\ t[3] = "sync" => Taken(t[1])'
      PROVE  SyncTrueTaken'
  <2>1. \A t \in told : t[2] /\ t[3] = "sync" => Taken(t[1])
    BY DEF SyncInv, SyncTrueTaken, Taken
  <2>2. \A t \in told' : t[2] /\ t[3] = "sync" => Taken(t[1])'
    BY <2>1, <1>1, TakenStays
  <2> QED BY <2>2 DEF SyncTrueTaken, Taken
<1>2. ASSUME NEW d \in Callers, caller'[d] = caller[d], sent'[d] = sent[d]
      PROVE  SyncSeen(d)'
  <2>1. Steer(d)' = Steer(d)
    BY <1>2 DEF Steer
  <2> QED BY <2>1, <1>0, <1>2, TakenStays DEF SyncSeen
<1>3. ASSUME told' = told, sent' = sent,
             \A d \in Callers : \/ caller'[d] = caller[d]
                                \/ caller[d].at = "waiting" /\ caller'[d].at = "notified"
      PROVE  SyncInv'
  <2>1. ASSUME NEW d \in Callers PROVE SyncSeen(d)'
    <3>1. CASE caller'[d] = caller[d]
      BY <3>1, <1>2, <1>3
    <3>2. CASE caller[d].at = "waiting" /\ caller'[d].at = "notified"
      <4>1. Steer(d)' = Steer(d)
        BY <1>3 DEF Steer
      <4>2. Took(Steer(d))
        BY <3>2, <1>0 DEF SyncSeen
      <4> QED BY <4>1, <4>2, <3>2, TakenStays DEF SyncSeen
    <3> QED BY <3>1, <3>2, <1>3
  <2> QED BY <2>1, <1>1, <1>3 DEF SyncInv
<1>4. caller \in [Callers -> CallTypes]
  BY DEF SteerTyped, SteerTypeOK, CallTypes
<1>5. ASSUME notify_all, UNCHANGED <<told, sent>> PROVE SyncInv'
  <2>1. \A d \in Callers : \/ caller'[d] = caller[d]
                           \/ caller[d].at = "waiting" /\ caller'[d].at = "notified"
    BY <1>4, <1>5 DEF notify_all, CallTypes
  <2> QED BY <2>1, <1>3, <1>5
<1>6. CASE UNCHANGED <<steerVars, injected, mark>>
  BY <1>6, <1>3 DEF steerVars
<1>7. CASE reset_wake \/ reopen \/ set_running(TRUE) \/ set_running(FALSE)
  BY <1>7, <1>3 DEF reset_wake, reopen, set_running
<1>8. CASE close \/ drain \/ clear
  BY <1>8, <1>5 DEF close, drain, clear
<1>9. CASE \E c \in Callers : CallerNext(c) /\ UNCHANGED <<injected, mark>>
  <2>1. PICK c \in Callers : CallerNext(c) /\ UNCHANGED <<injected, mark>>
    BY <1>9
  <2>2. /\ SyncSeen(c)'
        /\ \A d \in Callers : d # c => caller'[d] = caller[d] /\ sent'[d] = sent[d]
        /\ \A t \in told' \ told : t[2] /\ t[3] = "sync" => Taken(t[1])'
    BY <2>1, SyncCaller
  <2>3. \A d \in Callers : SyncSeen(d)'
    BY <2>2, <1>2
  <2> QED BY <2>2, <2>3, <1>1 DEF SyncInv
<1> QED BY <1>6, <1>7, <1>8, <1>9, SteerSteps DEF SteerStep

\* push_sync answers true only when its steer has left the queue: when it was
\* injected, or dropped by the begin of a turn.
THEOREM SyncTrueTakenHolds ==
    ASSUME "clear" \notin Ops
    PROVE  Spec => []SyncTrueTaken
<1>1. (SteerTyped /\ QueueOrder) /\ SteerKept /\ SyncInv /\ [Next]_vars => SyncInv'
  BY SyncInvNext
<1>2. SyncInv => SyncTrueTaken
  BY DEF SyncInv
<1> QED BY <1>1, <1>2, SteerInvariant, SteerKeptHolds, SyncInvInit, PTL DEF Spec

----------------------------------------------------------------------------
\* What a step does to the history.

\* The labels before the input of a turn is in the history.
Quiet == {"idle", "armed", "reopened", "cleared"}

Users == {u \in Histories(MaxTools) : \A i \in 1..Len(u) : u[i].role = "user"}

\* Nothing; messages of the user's side are appended, behind what a step strips or
\* leaves; a compaction; an answer; results of its calls.
Still == UNCHANGED <<history, pending>> /\ (pc \in Quiet => pc' \in Quiet)
Spoken ==
    \E u \in Users : /\ history' = history \o u /\ pending = 0 /\ pending' = 0
                     /\ pc \in Quiet => Len(u) > 0 /\ Opens(u)
Stripped ==
    \E u \in Users : /\ history' = strip_system_reminders(history) \o u
                     /\ Len(u) <= 1
                     /\ pending = 0 /\ pending' = 0 /\ pc \notin Quiet
Compacted ==
    \E depths \in SUBSET Nat : /\ history' \in compact_context(depths) /\ pending' = pending
                               /\ pc \notin Quiet
AnswerGiven ==
    /\ history' = Append(history, Assistant(pending')) /\ pending = 0 /\ pending' \in 0..MaxTools
    /\ pc \in {"accept", "stopping"}
ResultGiven ==
    \E h \in {history} \union compact_context(Depths) :
       /\ history' = Append(h, ToolResult) /\ pending > 0 /\ pending' = pending - 1
       /\ pc = "dispatch"
ResultsGiven ==
    \E h \in {history} \union compact_context(Depths) :
       /\ history' = h \o [i \in 1..pending |-> ToolResult] /\ pending' = 0
       /\ pc = "dispatch"
HistoryStep ==
    \/ Still \/ Spoken \/ Stripped \/ Compacted \/ AnswerGiven \/ ResultGiven \/ ResultsGiven

\* Calls wait for their results only while they are dispatched.
PendingInv ==
    /\ pc # "dispatch" => pending = 0
    /\ pending <= res.calls \/ pc # "dispatch"

LEMMA UsersOf ==
    ASSUME NEW t \in Contents, NEW m \in Nat
    PROVE  /\ [i \in 1..m |-> User(t)] \in Users /\ Len([i \in 1..m |-> User(t)]) = m
           /\ <<User(t)>> \in Users /\ Len(<<User(t)>>) = 1 /\ <<User(t)>>[1].text = t
           /\ <<>> \in Users /\ Len(<<>>) = 0
           /\ \A h \in Histories(MaxTools) : Append(h, User(t)) = h \o <<User(t)>>
<1>1. PICK e \in Msgs(MaxTools) : e = User(t) /\ e.role = "user" /\ e.text = t
  BY UserType, Bounds
<1>2. [i \in 1..m |-> e] \in Seq(Msgs(MaxTools)) /\ Len([i \in 1..m |-> e]) = m
  OBVIOUS
<1>3. [i \in 1..m |-> e] \in Users
  BY <1>1, <1>2 DEF Users, Histories
<1>4. <<e>> \in Users /\ Len(<<e>>) = 1 /\ <<e>>[1].text = t
  BY <1>1 DEF Users, Histories
<1>5. <<>> \in Users /\ Len(<<>>) = 0
  BY DEF Users, Histories
<1>6. \A h \in Histories(MaxTools) : Append(h, e) = h \o <<e>>
  BY DEF Histories
<1> QED BY <1>1, <1>2, <1>3, <1>4, <1>5, <1>6

LEMMA ConcatUsers ==
    ASSUME NEW u \in Users, NEW v \in Users
    PROVE  u \o v \in Users /\ Len(u \o v) = Len(u) + Len(v)
<1>1. u \in Histories(MaxTools) /\ v \in Histories(MaxTools)
  BY DEF Users
<1>2. /\ u \o v \in Histories(MaxTools) /\ Len(u \o v) = Len(u) + Len(v)
      /\ Extends(u \o v, u)
      /\ \A i \in (Len(u) + 1)..Len(u \o v) :
            i - Len(u) \in 1..Len(v) /\ (u \o v)[i] = v[i - Len(u)]
  BY <1>1, Bounds, ConcatHistory
<1>3. ASSUME NEW i \in 1..Len(u \o v) PROVE (u \o v)[i].role = "user"
  <2>0. Len(u) \in Nat /\ Len(u \o v) \in Nat
    BY <1>1, <1>2 DEF Histories
  <2>1. CASE i \in 1..Len(u)
    BY <2>1, <1>2 DEF Users, Extends
  <2>2. CASE i \in (Len(u) + 1)..Len(u \o v)
    BY <2>2, <1>2 DEF Users
  <2> QED BY <2>0, <2>1, <2>2
<1> QED BY <1>2, <1>3 DEF Users

LEMMA PendingNext ==
    ASSUME TurnTyped, PendingInv, [Next]_vars
    PROVE  PendingInv'
<1> USE Bounds
<1>0. UNCHANGED turnVars => PendingInv'
  BY DEF PendingInv, turnVars, answer
<1>1. CASE Arm
  BY <1>1 DEF Arm, Goto, PendingInv, TurnTyped, answer
<1>2. CASE Reopen
  BY <1>2 DEF Reopen, Goto, PendingInv, TurnTyped, answer
<1>3. CASE DropStale
  BY <1>3 DEF DropStale, Goto, PendingInv, TurnTyped, answer
<1>4. CASE TurnBegin
  BY <1>4 DEF TurnBegin, Goto, PendingInv, TurnTyped, answer
<1>5. CASE StepLimit
  BY <1>5 DEF StepLimit, Finish, PendingInv, TurnTyped, answer
<1>6. CASE CancelledAtBegin
  BY <1>6 DEF CancelledAtBegin, Finish, PendingInv, TurnTyped, answer
<1>7. CASE StepBegin
  BY <1>7 DEF StepBegin, PendingInv, TurnTyped, answer
<1>8. CASE AutoCompactFails
  BY <1>8 DEF AutoCompactFails, Goto, PendingInv, TurnTyped, answer
<1>9. CASE AutoCompact
  BY <1>9 DEF AutoCompact, Goto, PendingInv, TurnTyped, answer
<1>10. CASE Inject
  BY <1>10 DEF Inject, Goto, PendingInv, TurnTyped, answer
<1>11. CASE Chat
  BY <1>11 DEF Chat, Resolve, PendingInv, TurnTyped, answer
<1>12. CASE ChatFails
  BY <1>12 DEF ChatFails, Resolve, PendingInv, TurnTyped, answer
<1>13. CASE ChatAborted
  BY <1>13 DEF ChatAborted, Resolve, PendingInv, TurnTyped, answer
<1>14. CASE ChatOverflows
  BY <1>14 DEF ChatOverflows, Goto, PendingInv, TurnTyped, answer
<1>15. CASE OverflowCompact
  BY <1>15 DEF OverflowCompact, Goto, PendingInv, TurnTyped, answer
<1>16. CASE OverflowCompactFails
  BY <1>16 DEF OverflowCompactFails, Resolve, PendingInv, TurnTyped, answer
<1>17. CASE Resolved
  BY <1>17 DEF Resolved, Finish, PendingInv, TurnTyped, answer
<1>18. CASE Interrupted
  BY <1>18 DEF Interrupted, Goto, PendingInv, TurnTyped, answer
<1>19. CASE Restart
  BY <1>19 DEF Restart, Goto, PendingInv, TurnTyped, answer
<1>20. CASE GiveUp
  BY <1>20 DEF GiveUp, Finish, PendingInv, TurnTyped, answer
<1>21. CASE Reresolved
  BY <1>21 DEF Reresolved, Finish, PendingInv, TurnTyped, answer
<1>22. CASE Accept
  BY <1>22 DEF Accept, Goto, PendingInv, TurnTyped, answer
<1>23. CASE DispatchRefused
  BY <1>23 DEF DispatchRefused, append_result, PendingInv, TurnTyped, answer
<1>24. CASE DispatchRejected
  BY <1>24 DEF DispatchRejected, append_result, PendingInv, TurnTyped, answer
<1>25. CASE DispatchRun
  BY <1>25 DEF DispatchRun, append_result, PendingInv, TurnTyped, answer
<1>26. CASE DispatchCompact
  BY <1>26 DEF DispatchCompact, append_result, PendingInv, TurnTyped, answer
<1>27. CASE DispatchCopied
  BY <1>27 DEF DispatchCopied, append_result, PendingInv, TurnTyped, answer
<1>28. CASE DispatchParallel
  BY <1>28 DEF DispatchParallel, Goto, PendingInv, TurnTyped, answer
<1>29. CASE StepEnd
  BY <1>29 DEF StepEnd, PendingInv, TurnTyped, answer
<1>30. CASE Nudge
  BY <1>30 DEF Nudge, Goto, PendingInv, TurnTyped, answer
<1>31. CASE LoopRecovery
  BY <1>31 DEF LoopRecovery, Goto, PendingInv, TurnTyped, answer
<1>32. CASE Fallback
  BY <1>32 DEF Fallback, Finish, PendingInv, TurnTyped, answer
<1>33. CASE Stop
  BY <1>33 DEF Stop, Finish, PendingInv, TurnTyped, answer
<1>34. CASE Close
  BY <1>34 DEF Close, Goto, PendingInv, TurnTyped, answer
<1>35. CASE Disarm
  BY <1>35 DEF Disarm, Goto, PendingInv, TurnTyped, answer
<1>36. CASE Cancel
  BY <1>36 DEF Cancel, PendingInv, TurnTyped, answer
<1> QED BY <1>0, <1>1, <1>2, <1>3, <1>4, <1>5, <1>6, <1>7, <1>8, <1>9, <1>10, <1>11, <1>12,
          <1>13, <1>14, <1>15, <1>16, <1>17, <1>18, <1>19, <1>20, <1>21, <1>22, <1>23, <1>24,
          <1>25, <1>26, <1>27, <1>28, <1>29, <1>30, <1>31, <1>32, <1>33, <1>34, <1>35, <1>36,
          NextCases DEF vars, Steering

LEMMA HistorySteps ==
    ASSUME TurnTyped, SteerTyped, PendingInv, history \in Histories(MaxTools), [Next]_vars
    PROVE  HistoryStep
<1>0. UNCHANGED turnVars => HistoryStep
  BY DEF turnVars, answer, HistoryStep, Still
<1>1. CASE Arm
  BY <1>1 DEF Arm, Goto, HistoryStep, Still, answer, Quiet
<1>2. CASE Reopen
  BY <1>2 DEF Reopen, Goto, HistoryStep, Still, answer, Quiet
<1>3. CASE DropStale
  BY <1>3 DEF DropStale, Goto, HistoryStep, Still, answer, Quiet
<1>4. CASE TurnBegin
  <2>1. PICK notices \in drain_finished_subagent_notices :
           history' = history \o notices \o <<User("input")>>
    BY <1>4 DEF TurnBegin
  <2>2. PICK m \in 0..MaxNotices : notices = [i \in 1..m |-> User("notice")]
    BY DEF drain_finished_subagent_notices
  <2>3. m \in Nat /\ "notice" \in Contents /\ "input" \in Contents
    BY Bounds DEF Contents
  <2>4. /\ notices \in Users /\ Len(notices) = m
        /\ <<User("input")>> \in Users /\ Len(<<User("input")>>) = 1
        /\ <<User("input")>>[1].text = "input"
    BY <2>2, <2>3, UsersOf
  <2>5. PICK u : u = notices \o <<User("input")>>
    OBVIOUS
  <2>6. u \in Users /\ Len(u) = m + 1
    BY <2>4, <2>5, ConcatUsers
  <2>7. history' = history \o u
    <3>1. history \in Seq(Msgs(MaxTools)) /\ notices \in Seq(Msgs(MaxTools))
          /\ <<User("input")>> \in Seq(Msgs(MaxTools))
      BY <2>4 DEF Users, Histories
    <3> QED BY <2>1, <2>5, <3>1, ConcatAssociative
  <2>8. u[1].role = "user" /\ u[1].text \in {"notice", "input"}
    <3>1. u[1].role = "user"
      BY <2>3, <2>6 DEF Users
    <3>2. CASE m = 0
      <4>1. u[1] = <<User("input")>>[1]
        BY <3>2, <2>4, <2>5, ConcatProperties DEF Users, Histories
      <4> QED BY <4>1, <3>1, <2>4
    <3>3. CASE m > 0
      <4>1. u[1] = notices[1]
        BY <3>3, <2>4, <2>5, ConcatProperties DEF Users, Histories
      <4>2. notices[1] = User("notice") /\ User("notice").text = "notice"
        BY <3>3, <2>2, <2>3, Bounds, UserType
      <4> QED BY <4>1, <4>2, <3>1
    <3> QED BY <3>1, <3>2, <3>3, <2>3
  <2>9. pending = 0 /\ pending' = 0
    BY <1>4 DEF TurnBegin, PendingInv, answer, Goto
  <2>10. Spoken
    BY <2>3, <2>6, <2>7, <2>8, <2>9 DEF Spoken, Opens
  <2> QED BY <2>10 DEF HistoryStep
<1>5. CASE StepLimit
  BY <1>5 DEF StepLimit, Finish, HistoryStep, Still, answer, Quiet
<1>6. CASE CancelledAtBegin
  BY <1>6 DEF CancelledAtBegin, Finish, HistoryStep, Still, answer, Quiet
<1>7. CASE StepBegin
  BY <1>7 DEF StepBegin, HistoryStep, Still, answer, Quiet
<1>8. CASE AutoCompactFails
  BY <1>8 DEF AutoCompactFails, Goto, HistoryStep, Still, answer, Quiet
<1>9. CASE AutoCompact
  <2>1. history' \in compact_context(Depths) /\ pending' = pending /\ pc \notin Quiet
    BY <1>9 DEF AutoCompact, answer, Goto, Quiet
  <2> QED BY <2>1, Bounds DEF HistoryStep, Compacted
<1>10. CASE Inject
  <2>1. PICK u \in {<<>>, <<User("reminder")>>} :
           history' = strip_system_reminders(history) \o u
    BY <1>10 DEF Inject
  <2>2. u \in Users /\ Len(u) <= 1
    <3>1. "reminder" \in Contents /\ 0 \in Nat
      BY DEF Contents
    <3>2. /\ <<>> \in Users /\ Len(<<>>) = 0
          /\ <<User("reminder")>> \in Users /\ Len(<<User("reminder")>>) = 1
      BY <3>1, UsersOf
    <3>3. CASE u = <<>>
      BY <3>2, <3>3
    <3>4. CASE u = <<User("reminder")>>
      BY <3>2, <3>4
    <3> QED BY <3>3, <3>4
  <2>3. pc \notin Quiet /\ pending = 0 /\ pending' = 0
    BY <1>10 DEF Inject, PendingInv, answer, Goto, Quiet
  <2> QED BY <2>1, <2>2, <2>3 DEF HistoryStep, Stripped
<1>11. CASE Chat
  BY <1>11 DEF Chat, Resolve, HistoryStep, Still, answer, Quiet
<1>12. CASE ChatFails
  BY <1>12 DEF ChatFails, Resolve, HistoryStep, Still, answer, Quiet
<1>13. CASE ChatAborted
  BY <1>13 DEF ChatAborted, Resolve, HistoryStep, Still, answer, Quiet
<1>14. CASE ChatOverflows
  BY <1>14 DEF ChatOverflows, Goto, HistoryStep, Still, answer, Quiet
<1>15. CASE OverflowCompact
  <2>1. /\ history' = history \/ history' \in compact_context({OverflowDepth})
        /\ pending' = pending /\ pc \notin Quiet
    BY <1>15 DEF OverflowCompact, answer, Goto, Quiet
  <2>2. {OverflowDepth} \in SUBSET Nat
    BY Bounds
  <2> QED BY <2>1, <2>2 DEF HistoryStep, Compacted, Still
<1>16. CASE OverflowCompactFails
  BY <1>16 DEF OverflowCompactFails, Resolve, HistoryStep, Still, answer, Quiet
<1>17. CASE Resolved
  BY <1>17 DEF Resolved, Finish, HistoryStep, Still, answer, Quiet
<1>18. CASE Interrupted
  <2>1. PICK n \in 0..MaxExternal :
           history' = history \o [i \in 1..(Len(queue) + n) |-> User("steer")]
    BY <1>18 DEF Interrupted, consume_steers
  <2>2. Len(queue) + n \in Nat
    BY Bounds DEF SteerTyped, SteerTypeOK
  <2>3. [i \in 1..(Len(queue) + n) |-> User("steer")] \in Users
    BY <2>2, UsersOf DEF Contents
  <2>4. pc \notin Quiet /\ pending = 0 /\ pending' = 0
    BY <1>18 DEF Interrupted, PendingInv, answer, Quiet, Goto
  <2>5. Spoken
    BY <2>1, <2>3, <2>4 DEF Spoken
  <2> QED BY <2>5 DEF HistoryStep
<1>19. CASE Restart
  BY <1>19 DEF Restart, Goto, HistoryStep, Still, answer, Quiet
<1>20. CASE GiveUp
  BY <1>20 DEF GiveUp, Finish, HistoryStep, Still, answer, Quiet
<1>21. CASE Reresolved
  BY <1>21 DEF Reresolved, Finish, HistoryStep, Still, answer, Quiet
<1>22. CASE Accept
  <2>1. /\ pending' = res.calls /\ history' = Append(history, Assistant(res.calls))
        /\ pc = "accept" /\ pending = 0
    BY <1>22 DEF Accept, PendingInv, Goto
  <2> QED BY <2>1 DEF TurnTyped, HistoryStep, AnswerGiven
<1>23. CASE DispatchRefused
  BY <1>23 DEF DispatchRefused, append_result, HistoryStep, ResultGiven
<1>24. CASE DispatchRejected
  BY <1>24 DEF DispatchRejected, append_result, HistoryStep, ResultGiven
<1>25. CASE DispatchRun
  BY <1>25 DEF DispatchRun, append_result, HistoryStep, ResultGiven
<1>26. CASE DispatchCompact
  <2>1. PICK h \in compact_context(Depths) : append_result(h)
    BY <1>26 DEF DispatchCompact, context_prune
  <2> QED BY <2>1 DEF append_result, HistoryStep, ResultGiven
<1>27. CASE DispatchCopied
  BY <1>27 DEF DispatchCopied, append_result, HistoryStep, ResultGiven
<1>28. CASE DispatchParallel
  <2>1. /\ pc = "dispatch" /\ pending = res.calls /\ pending' = 0
        /\ \E h \in {history} \union context_prune :
              history' = h \o [i \in 1..res.calls |-> ToolResult]
    BY <1>28 DEF DispatchParallel, Goto
  <2> QED BY <2>1 DEF HistoryStep, ResultsGiven, context_prune
<1>29. CASE StepEnd
  <2>1. PICK n \in 0..MaxExternal :
           history' = history \o [i \in 1..(Len(queue) + n) |-> User("steer")]
    BY <1>29 DEF StepEnd, consume_steers
  <2>2. Len(queue) + n \in Nat
    BY Bounds DEF SteerTyped, SteerTypeOK
  <2>3. [i \in 1..(Len(queue) + n) |-> User("steer")] \in Users
    BY <2>2, UsersOf DEF Contents
  <2>4. pc \notin Quiet /\ pending = 0 /\ pending' = 0
    BY <1>29 DEF StepEnd, PendingInv, answer, Quiet
  <2>5. Spoken
    BY <2>1, <2>3, <2>4 DEF Spoken
  <2> QED BY <2>5 DEF HistoryStep
<1>30. CASE Nudge
  <2>1. /\ history' = history \o <<User("nudge")>> /\ <<User("nudge")>> \in Users
        /\ pc \notin Quiet /\ pending = 0 /\ pending' = 0
    BY <1>30, UsersOf DEF Nudge, Contents, PendingInv, answer, Goto, Quiet
  <2> QED BY <2>1 DEF HistoryStep, Spoken
<1>31. CASE LoopRecovery
  <2>1. /\ history' = history \o <<User("recovery")>> /\ <<User("recovery")>> \in Users
        /\ pc \notin Quiet /\ pending = 0 /\ pending' = 0
    BY <1>31, UsersOf DEF LoopRecovery, Contents, PendingInv, answer, Goto, Quiet
  <2> QED BY <2>1 DEF HistoryStep, Spoken
<1>32. CASE Fallback
  <2>1. /\ pending' = 0 /\ history' = Append(history, Assistant(0))
        /\ pc = "stopping" /\ pending = 0
    BY <1>32 DEF Fallback, PendingInv, answer
  <2> QED BY <2>1, Bounds DEF HistoryStep, AnswerGiven
<1>33. CASE Stop
  BY <1>33 DEF Stop, Finish, HistoryStep, Still, answer, Quiet
<1>34. CASE Close
  BY <1>34 DEF Close, Goto, HistoryStep, Still, answer, Quiet
<1>35. CASE Disarm
  BY <1>35 DEF Disarm, PendingInv, HistoryStep, Still, Quiet, Goto
<1>36. CASE Cancel
  BY <1>36 DEF Cancel, HistoryStep, Still, answer, Quiet
<1> QED BY <1>0, <1>1, <1>2, <1>3, <1>4, <1>5, <1>6, <1>7, <1>8, <1>9, <1>10, <1>11, <1>12,
          <1>13, <1>14, <1>15, <1>16, <1>17, <1>18, <1>19, <1>20, <1>21, <1>22, <1>23, <1>24,
          <1>25, <1>26, <1>27, <1>28, <1>29, <1>30, <1>31, <1>32, <1>33, <1>34, <1>35, <1>36,
          NextCases DEF vars, Steering

----------------------------------------------------------------------------
\* strip_system_reminders: the recursion, one message at a time.

LEMMA PrefixType ==
    ASSUME NEW k \in Nat, NEW h \in Histories(k), NEW i \in 0..Len(h)
    PROVE  /\ SubSeq(h, 1, i) \in Histories(k) /\ Len(SubSeq(h, 1, i)) = i
           /\ \A j \in 1..i : SubSeq(h, 1, i)[j] = h[j]
  BY DEF Histories

\* A message that is no reminder goes behind what was kept and behind what was
\* read, so that both owe the same; a reminder can only come where nothing is owed.
LEMMA StripStep ==
    ASSUME NEW k \in Nat, NEW h \in Histories(k), Owed(h, 0), NEW i \in 1..Len(h),
           NEW f \in Histories(k), NEW n \in Nat, Owed(f, n), Owed(SubSeq(h, 1, i - 1), n),
           NEW g, g = IF is_system_reminder_message(h[i]) THEN f ELSE Append(f, h[i])
    PROVE  /\ g \in Histories(k)
           /\ \E m \in Nat : Owed(g, m) /\ Owed(SubSeq(h, 1, i), m)
<1>1. PICK e \in Msgs(k) : e = h[i] /\ e.role \in {"user", "assistant", "tool"} /\ e.calls \in 0..k
  BY MessageType
<1>l. PICK l \in Nat : l = Len(h) /\ i <= l
  BY DEF Histories
<1>p. PICK p \in Histories(k) : /\ p = SubSeq(h, 1, i - 1) /\ Len(p) = i - 1
                                /\ \A j \in 1..(i - 1) : p[j] = h[j]
  <2>1. i - 1 \in 0..Len(h)
    BY <1>l
  <2> QED BY <2>1, PrefixType
<1>q. PICK q \in Histories(k) : /\ q = SubSeq(h, 1, i) /\ Len(q) = i
                                /\ \A j \in 1..i : q[j] = h[j]
  <2>1. i \in 0..Len(h)
    BY <1>l
  <2> QED BY <2>1, PrefixType
<1>2. Extends(q, p) /\ Len(q) = Len(p) + 1 /\ q[Len(q)] = e
  BY <1>1, <1>p, <1>q DEF Extends
<1>o. Owed(p, n)
  BY <1>p
<1>3. PICK a \in Histories(k) : /\ a = Append(f, e) /\ Extends(a, f) /\ Len(a) = Len(f) + 1
                                /\ a[Len(a)] = e
  BY AppendHistory
<1>f. Len(f) \in Nat /\ Len(a) \in Nat
  BY DEF Histories
<1>4. e.role # "tool" => n = 0
  <2> SUFFICES ASSUME n > 0 PROVE e.role = "tool"
    OBVIOUS
  <2>1. PICK o \in 1..(i - 1) : p[o].role = "assistant" /\ o + p[o].calls = (i - 1) + n
    BY <1>o, <1>p DEF Owed
  <2>2. o \in 1..l /\ h[o].role = "assistant" /\ o + h[o].calls = (i - 1) + n
    BY <2>1, <1>p, <1>l
  <2>3. PICK d \in Nat : d = h[o].calls
    BY <2>2, <1>l, MessageType
  <2>4. i \in (o + 1)..(o + d) /\ i <= l
    BY <2>2, <2>3, <1>l
  <2> QED BY <2>2, <2>3, <2>4, <1>1, <1>l DEF Owed
<1>5. CASE e.role = "user"
  <2>1. n = 0
    BY <1>4, <1>5
  <2>2. Owed(q, 0)
    <3>1. \A j \in (Len(p) + 1)..Len(q) : q[j].role = "user"
      BY <1>2, <1>5, <1>p
    <3> QED BY <3>1, <2>1, <1>o, <1>2, ExtendUsers
  <2>3. Owed(a, 0)
    <3>1. \A j \in (Len(f) + 1)..Len(a) : a[j].role = "user"
      BY <1>3, <1>5, <1>f
    <3> QED BY <3>1, <2>1, <1>3, ExtendUsers
  <2>4. g = f \/ g = a
    BY <1>1, <1>3
  <2> QED BY <2>1, <2>2, <2>3, <2>4, <1>q
<1>6. CASE e.role = "assistant"
  <2>1. n = 0 /\ g = a
    BY <1>1, <1>3, <1>4, <1>6 DEF is_system_reminder_message
  <2>2. Owed(q, e.calls)
    BY <2>1, <1>o, <1>2, <1>6, ExtendAnswer
  <2>3. Owed(a, e.calls)
    BY <2>1, <1>3, <1>6, ExtendAnswer
  <2>4. e.calls \in Nat
    BY <1>1
  <2> QED BY <2>1, <2>2, <2>3, <2>4, <1>q
<1>7. CASE e.role = "tool"
  <2>1. g = a
    BY <1>1, <1>3, <1>7 DEF is_system_reminder_message
  <2>2. n > 0
    <3>1. PICK o \in 1..(i - 1) : h[o].role = "assistant" /\ i <= o + h[o].calls
      BY <1>1, <1>7, <1>l DEF Owed
    <3>2. PICK d \in Nat : d = h[o].calls
      <4>1. o \in 1..l
        BY <1>l
      <4> QED BY <4>1, <1>l, MessageType
    <3>3. o \in 1..Len(p) /\ p[o] = h[o]
      BY <1>p
    <3>4. o + d <= (i - 1) + n
      BY <3>1, <3>2, <3>3, <1>o, <1>p DEF Owed
    <3> QED BY <3>1, <3>2, <3>4
  <2>3. Owed(q, n - 1)
    <3>1. (\A j \in (Len(p) + 1)..Len(q) : q[j].role = "tool") /\ Len(q) <= Len(p) + n
      BY <2>2, <1>2, <1>7, <1>p
    <3>2. Owed(q, n - (Len(q) - Len(p)))
      BY <3>1, <1>o, <1>2, ExtendResults
    <3>3. n - (Len(q) - Len(p)) = n - 1
      BY <1>2, <1>p
    <3> QED BY <3>2, <3>3
  <2>4. Owed(a, n - 1)
    <3>1. (\A j \in (Len(f) + 1)..Len(a) : a[j].role = "tool") /\ Len(a) <= Len(f) + n
      BY <2>2, <1>3, <1>7, <1>f
    <3>2. Owed(a, n - (Len(a) - Len(f)))
      BY <3>1, <1>3, ExtendResults
    <3>3. n - (Len(a) - Len(f)) = n - 1
      BY <1>3, <1>f
    <3> QED BY <3>2, <3>3
  <2>5. PICK m \in Nat : m = n - 1
    BY <2>2
  <2> QED BY <2>1, <2>3, <2>4, <2>5, <1>q
<1> QED BY <1>1, <1>5, <1>6, <1>7

\* The recursion is well founded: there is a function that satisfies it.
Strips(h, f, i) ==
    f = [j \in 0..i |-> IF j = 0 THEN <<>>
                        ELSE IF is_system_reminder_message(h[j]) THEN f[j - 1]
                        ELSE Append(f[j - 1], h[j])]

LEMMA StripExists ==
    ASSUME NEW h, NEW l \in Nat
    PROVE  \E f : Strips(h, f, l)
<1> DEFINE T == {i \in Nat : ~(\E f : Strips(h, f, i))}
<1> SUFFICES ASSUME T # {} PROVE FALSE
  OBVIOUS
<1>1. PICK x \in T : \A y \in T : x <= y
  BY Least
<1>2. x \in Nat /\ ~(\E f : Strips(h, f, x))
  OBVIOUS
<1>3. CASE x = 0
  <2> DEFINE f == [j \in 0..0 |-> <<>>]
  <2>1. Strips(h, f, 0)
    BY DEF Strips
  <2> QED BY <2>1, <1>2, <1>3
<1>4. CASE x > 0
  <2>1. x - 1 \in Nat /\ x - 1 \notin T
    BY <1>1, <1>2, <1>4
  <2>2. PICK f : Strips(h, f, x - 1)
    BY <2>1
  <2> DEFINE g == [j \in 0..x |-> IF j = x
                     THEN IF is_system_reminder_message(h[x]) THEN f[x - 1]
                          ELSE Append(f[x - 1], h[x])
                     ELSE f[j]]
  <2>3. \A j \in 0..(x - 1) : g[j] = f[j]
    BY <1>2, <1>4
  <2>4. \A j \in 0..(x - 1) : f[j] = IF j = 0 THEN <<>>
                        ELSE IF is_system_reminder_message(h[j]) THEN f[j - 1]
                        ELSE Append(f[j - 1], h[j])
    BY <2>2 DEF Strips
  <2>5. ASSUME NEW j \in 0..x
        PROVE  g[j] = IF j = 0 THEN <<>>
                      ELSE IF is_system_reminder_message(h[j]) THEN g[j - 1]
                      ELSE Append(g[j - 1], h[j])
    <3>1. CASE j = x
      BY <3>1, <2>3, <1>2, <1>4
    <3>2. CASE j # x
      <4>1. j \in 0..(x - 1) /\ (j # 0 => j - 1 \in 0..(x - 1))
        BY <3>2, <1>2
      <4> QED BY <4>1, <2>3, <2>4
    <3> QED BY <3>1, <3>2
  <2>6. Strips(h, g, x)
    BY <2>5 DEF Strips
  <2> QED BY <2>6, <1>2
<1> QED BY <1>2, <1>3, <1>4

\* What is left of a history that opens with a message no step strips: a history
\* that opens with it too, owes nothing, and is no longer.
LEMMA StrippedHistory ==
    ASSUME NEW k \in Nat, NEW h \in Histories(k), Owed(h, 0), Opens(h), Len(h) > 0
    PROVE  LET g == strip_system_reminders(h)
           IN  /\ g \in Histories(k) /\ Owed(g, 0) /\ Opens(g)
               /\ Len(g) > 0 /\ Len(g) <= Len(h)
<1>l. PICK l \in Nat : l = Len(h) /\ l > 0
  BY DEF Histories
<1>1. PICK f : Strips(h, f, l) /\ f[l] = strip_system_reminders(h)
  <2> DEFINE c == CHOOSE f : Strips(h, f, l)
  <2>1. Strips(h, c, l)
    BY StripExists
  <2>2. strip_system_reminders(h) = c[l]
    BY <1>l DEF strip_system_reminders, Strips
  <2> QED BY <2>1, <2>2
<1>2. \A j \in 0..l : f[j] = IF j = 0 THEN <<>>
                             ELSE IF is_system_reminder_message(h[j]) THEN f[j - 1]
                             ELSE Append(f[j - 1], h[j])
  BY <1>1 DEF Strips
<1> DEFINE P(i) == /\ f[i] \in Histories(k) /\ Len(f[i]) <= i
                   /\ i > 0 => Len(f[i]) > 0 /\ f[i][1] = h[1]
                   /\ \E n \in Nat : Owed(f[i], n) /\ Owed(SubSeq(h, 1, i), n)
           T == {i \in 0..l : ~P(i)}
<1>3. P(0)
  <2>1. f[0] = <<>> /\ SubSeq(h, 1, 0) = <<>>
    BY <1>2 DEF Histories
  <2>2. <<>> \in Histories(k) /\ Len(<<>>) = 0
    BY DEF Histories
  <2>3. Owed(<<>>, 0)
    BY <2>2 DEF Owed
  <2>4. Owed(f[0], 0) /\ Owed(SubSeq(h, 1, 0), 0)
    BY <2>1, <2>3
  <2>5. f[0] \in Histories(k) /\ Len(f[0]) <= 0 /\ ~(0 > 0) /\ 0 \in Nat
    BY <2>1, <2>2
  <2> QED BY <2>4, <2>5
<1>4. ASSUME NEW i \in 1..l, P(i - 1)
      PROVE  P(i)
  <2>1. PICK p \in Histories(k) : /\ p = f[i - 1] /\ Len(p) <= i - 1
                                  /\ i - 1 > 0 => Len(p) > 0 /\ p[1] = h[1]
    BY <1>4
  <2>2. PICK n \in Nat : Owed(p, n) /\ Owed(SubSeq(h, 1, i - 1), n)
    BY <2>1, <1>4
  <2>3. PICK g : g = f[i]
    OBVIOUS
  <2>4. g = IF is_system_reminder_message(h[i]) THEN p ELSE Append(p, h[i])
    BY <2>1, <2>3, <1>2
  <2>5. g \in Histories(k) /\ \E m \in Nat : Owed(g, m) /\ Owed(SubSeq(h, 1, i), m)
    <3>1. i \in 1..Len(h)
      BY <1>l
    <3> HIDE DEF P, T
    <3> QED BY <3>1, <2>2, <2>4, StripStep
  <2>6. h[i] \in Msgs(k) /\ Len(p) \in Nat
    BY <1>l, MessageType DEF Histories
  <2>7. /\ Append(p, h[i]) \in Histories(k) /\ Len(Append(p, h[i])) = Len(p) + 1
        /\ Append(p, h[i])[Len(p) + 1] = h[i] /\ \A j \in 1..Len(p) : Append(p, h[i])[j] = p[j]
    BY <2>6, AppendHistory DEF Extends
  <2>8. i = 1 => ~is_system_reminder_message(h[i])
    BY <1>l DEF Opens, is_system_reminder_message
  <2>9. Len(g) <= i /\ Len(g) > 0 /\ g[1] = h[1]
    <3>1. CASE is_system_reminder_message(h[i])
      <4>1. g = p /\ i - 1 > 0
        BY <3>1, <2>4, <2>8
      <4> QED BY <4>1, <2>1, <2>6
    <3>2. CASE ~is_system_reminder_message(h[i]) /\ Len(p) > 0
      <4>1. g = Append(p, h[i]) /\ 1 \in 1..Len(p) /\ i - 1 > 0
        BY <3>2, <2>1, <2>4, <2>6
      <4> QED BY <4>1, <2>1, <2>6, <2>7
    <3>3. CASE ~is_system_reminder_message(h[i]) /\ Len(p) = 0
      <4>1. g = Append(p, h[i]) /\ i = 1
        BY <3>3, <2>1, <2>4, <2>6
      <4> QED BY <4>1, <3>3, <2>6, <2>7
    <3> QED BY <3>1, <3>2, <3>3, <2>6
  <2> QED BY <2>3, <2>5, <2>9
<1> HIDE DEF P
<1>5. T = {}
  <2> SUFFICES ASSUME T # {} PROVE FALSE
    OBVIOUS
  <2>0. T \in SUBSET Nat
    OBVIOUS
  <2>1. PICK x \in T : \A y \in T : x <= y
    <3> HIDE DEF T
    <3> QED BY <2>0, Least
  <2>2. x \in 0..l /\ ~P(x)
    OBVIOUS
  <2>3. x \in 1..l
    BY <2>2, <1>3
  <2>4. x - 1 \in 0..l /\ x - 1 \notin T
    BY <2>1, <2>3
  <2>5. P(x - 1)
    BY <2>4
  <2> QED BY <2>2, <2>3, <2>5, <1>4
<1>6. P(l)
  BY <1>5
<1>7. PICK g : g = strip_system_reminders(h) /\ g = f[l]
  BY <1>1
<1>8. /\ g \in Histories(k) /\ Len(g) <= l /\ Len(g) > 0 /\ g[1] = h[1]
      /\ \E n \in Nat : Owed(g, n) /\ Owed(SubSeq(h, 1, l), n)
  BY <1>6, <1>7, <1>l DEF P
<1>9. SubSeq(h, 1, l) = h
  BY <1>l DEF Histories
<1>10. PICK n \in Nat : Owed(g, n) /\ Owed(h, n)
  BY <1>8, <1>9
<1>11. n = 0
  <2> SUFFICES ASSUME n > 0 PROVE FALSE
    OBVIOUS
  <2>1. PICK o \in 1..l : h[o].role = "assistant" /\ o + h[o].calls = l + n
    BY <1>10, <1>l DEF Owed
  <2>2. o + h[o].calls <= l
    BY <2>1, <1>l DEF Owed
  <2> QED BY <2>1, <2>2
<1>12. Opens(g)
  BY <1>8, <1>l DEF Opens
<1> QED BY <1>7, <1>8, <1>10, <1>11, <1>12, <1>l

----------------------------------------------------------------------------
\* The history between two steps: its calls are answered but for the ones that
\* wait for dispatch, and the message a compaction may copy opens it.
HistoryInv ==
    /\ history \in Histories(MaxTools) /\ Opens(history)
    /\ Owed(history, pending)
    /\ pc \notin Quiet => Len(history) > 0

LEMMA ContextCompacted ==
    ASSUME HistoryInv, pending \in Nat, NEW depths \in SUBSET Nat,
           NEW g \in compact_context(depths)
    PROVE  /\ g \in Histories(MaxTools) /\ Owed(g, pending) /\ Opens(g)
           /\ Len(g) > 0 /\ Len(g) <= Len(history)
<1>1. PICK depth \in depths :
         /\ resolve_preserve_split(history, depth).compact
         /\ g = soul_apply_preserve_split(history, resolve_preserve_split(history, depth))
  BY DEF compact_context
<1>2. depth \in Nat /\ MaxTools \in Nat
  BY Bounds
<1> QED BY <1>1, <1>2, CompactedHistory DEF HistoryInv

LEMMA HistoryInvInit == Init => HistoryInv /\ PendingInv
<1> SUFFICES ASSUME Init PROVE HistoryInv /\ PendingInv
  OBVIOUS
<1>1. history = <<>> /\ pc = "idle" /\ pending = 0
  BY DEF Init, TurnLocals
<1>2. history \in Histories(MaxTools) /\ Len(history) = 0
  BY <1>1 DEF Histories
<1>3. Owed(history, 0)
  BY <1>2 DEF Owed
<1> QED BY <1>1, <1>2, <1>3 DEF HistoryInv, PendingInv, Opens, Quiet

LEMMA HistoryInvNext ==
    ASSUME TurnTyped, SteerTyped, PendingInv, HistoryInv, [Next]_vars
    PROVE  HistoryInv'
<1>0. /\ history \in Histories(MaxTools) /\ Opens(history) /\ Owed(history, pending)
      /\ pc \notin Quiet => Len(history) > 0
  BY DEF HistoryInv
<1>n. Len(history) \in Nat /\ pending \in Nat /\ MaxTools \in Nat
  BY <1>0, Bounds DEF TurnTyped, Histories
<1>1. ASSUME NEW g \in Histories(MaxTools), Len(g) > 0, Opens(g), Owed(g, pending'),
             history' = g
      PROVE  HistoryInv'
  BY <1>1 DEF HistoryInv
<1>2. CASE Still
  BY <1>2, <1>0 DEF Still, HistoryInv
\* User messages behind a history that owes nothing.
<1>3. ASSUME NEW h \in Histories(MaxTools), Owed(h, 0), Opens(h), NEW u \in Users,
             Len(h) > 0 \/ (Len(u) > 0 /\ Opens(u)), pending' = 0, history' = h \o u
      PROVE  HistoryInv'
  <2>1. /\ u \in Histories(MaxTools) /\ \A i \in 1..Len(u) : u[i].role = "user"
        /\ Len(h) \in Nat /\ Len(u) \in Nat
    BY DEF Users, Histories
  <2>2. PICK g \in Histories(MaxTools) :
           /\ g = h \o u /\ Len(g) = Len(h) + Len(u) /\ Extends(g, h)
           /\ \A i \in (Len(h) + 1)..Len(g) : i - Len(h) \in 1..Len(u) /\ g[i] = u[i - Len(h)]
    BY <2>1, <1>n, ConcatHistory
  <2>3. Owed(g, 0)
    <3>1. \A i \in (Len(h) + 1)..Len(g) : g[i].role = "user"
      BY <2>1, <2>2
    <3> QED BY <3>1, <2>2, <1>3, <1>n, ExtendUsers
  <2>4. Len(g) > 0
    BY <2>1, <2>2, <1>3
  <2>5. Opens(g)
    <3>1. CASE Len(h) > 0
      BY <3>1, <2>2, <1>3, <1>n, ExtendOpens
    <3>2. CASE Len(h) = 0
      <4>1. 1 \in (Len(h) + 1)..Len(g) /\ 1 - Len(h) = 1
        BY <3>2, <2>4, <2>2, <2>1
      <4>2. g[1] = u[1]
        BY <4>1, <2>2
      <4> QED BY <3>2, <4>2, <1>3 DEF Opens
    <3> QED BY <3>1, <3>2, <2>1
  <2> QED BY <2>2, <2>3, <2>4, <2>5, <1>1, <1>3
<1>4. CASE Spoken
  <2>1. PICK u \in Users : /\ history' = history \o u /\ pending = 0 /\ pending' = 0
                           /\ pc \in Quiet => Len(u) > 0 /\ Opens(u)
    BY <1>4 DEF Spoken
  <2>2. Owed(history, 0) /\ (Len(history) > 0 \/ (Len(u) > 0 /\ Opens(u)))
    BY <2>1, <1>0
  <2> QED BY <2>1, <2>2, <1>0, <1>3
<1>5. CASE Stripped
  <2>1. PICK u \in Users : /\ history' = strip_system_reminders(history) \o u
                           /\ pending = 0 /\ pending' = 0 /\ pc \notin Quiet
    BY <1>5 DEF Stripped
  <2>2. PICK h : h = strip_system_reminders(history)
    OBVIOUS
  <2>3. h \in Histories(MaxTools) /\ Owed(h, 0) /\ Opens(h) /\ Len(h) > 0
    BY <2>1, <2>2, <1>0, <1>n, StrippedHistory
  <2> QED BY <2>1, <2>2, <2>3, <1>3
<1>6. CASE Compacted
  <2>1. PICK depths \in SUBSET Nat : history' \in compact_context(depths) /\ pending' = pending
    BY <1>6 DEF Compacted
  <2>2. PICK g \in compact_context(depths) : g = history'
    BY <2>1
  <2>3. g \in Histories(MaxTools) /\ Owed(g, pending) /\ Opens(g) /\ Len(g) > 0
    BY <1>n, ContextCompacted
  <2> QED BY <2>1, <2>2, <2>3, <1>1
<1>7. CASE AnswerGiven
  <2>1. PICK e \in Msgs(MaxTools) : e = Assistant(pending') /\ e.role = "assistant"
                                    /\ e.calls = pending'
    BY <1>7, <1>n, AssistantType DEF AnswerGiven
  <2>2. PICK g \in Histories(MaxTools) :
           /\ g = Append(history, e) /\ Extends(g, history) /\ Len(g) = Len(history) + 1
           /\ g[Len(g)] = e
    BY <1>0, <1>n, AppendHistory
  <2>3. pending = 0 /\ history' = g /\ Len(history) > 0
    BY <2>1, <2>2, <1>7, <1>0 DEF AnswerGiven, Quiet
  <2>4. Owed(g, pending')
    BY <2>1, <2>2, <2>3, <1>0, <1>n, ExtendAnswer
  <2>5. Opens(g) /\ Len(g) > 0
    BY <2>2, <2>3, <1>0, <1>n, ExtendOpens
  <2> QED BY <2>3, <2>4, <2>5, <1>1
\* Results behind a history that owes them.
<1>8. ASSUME NEW h \in {history} \union compact_context(Depths), pc \notin Quiet
      PROVE  h \in Histories(MaxTools) /\ Owed(h, pending) /\ Opens(h) /\ Len(h) > 0
  BY <1>8, <1>0, <1>n, Bounds, ContextCompacted
<1>9. CASE ResultGiven
  <2>1. PICK h \in {history} \union compact_context(Depths) :
           history' = Append(h, ToolResult) /\ pending > 0 /\ pending' = pending - 1
    BY <1>9 DEF ResultGiven
  <2>2. h \in Histories(MaxTools) /\ Owed(h, pending) /\ Opens(h) /\ Len(h) > 0 /\ Len(h) \in Nat
    BY <1>8, <1>9 DEF ResultGiven, Quiet, Histories
  <2>3. PICK e \in Msgs(MaxTools) : e = ToolResult /\ e.role = "tool"
    BY <1>n, ToolResultType
  <2>4. PICK g \in Histories(MaxTools) :
           /\ g = Append(h, e) /\ Extends(g, h) /\ Len(g) = Len(h) + 1 /\ g[Len(g)] = e
    BY <2>2, <1>n, AppendHistory, ZenonT(30)
  <2>5. (\A i \in (Len(h) + 1)..Len(g) : g[i].role = "tool") /\ Len(g) <= Len(h) + pending
    BY <2>1, <2>2, <2>3, <2>4, <1>n
  <2>6. Owed(g, pending - (Len(g) - Len(h)))
    BY <2>2, <2>4, <2>5, <1>n, ExtendResults
  <2>7. pending - (Len(g) - Len(h)) = pending'
    BY <2>1, <2>2, <2>4, <1>n
  <2>8. Opens(g) /\ Len(g) > 0
    BY <2>2, <2>4, <1>n, ExtendOpens
  <2> QED BY <2>1, <2>3, <2>4, <2>6, <2>7, <2>8, <1>1
<1>10. CASE ResultsGiven
  <2>1. PICK h \in {history} \union compact_context(Depths) :
           history' = h \o [i \in 1..pending |-> ToolResult] /\ pending' = 0
    BY <1>10 DEF ResultsGiven
  <2>2. h \in Histories(MaxTools) /\ Owed(h, pending) /\ Opens(h) /\ Len(h) > 0 /\ Len(h) \in Nat
    BY <1>8, <1>10 DEF ResultsGiven, Quiet, Histories
  <2>3. PICK r \in Histories(MaxTools) :
           /\ r = [i \in 1..pending |-> ToolResult] /\ Len(r) = pending
           /\ \A i \in 1..pending : r[i].role = "tool"
    <3>1. PICK e \in Msgs(MaxTools) : e = ToolResult /\ e.role = "tool"
      BY <1>n, ToolResultType
    <3> DEFINE r == [i \in 1..pending |-> e]
    <3>2. r \in Seq(Msgs(MaxTools)) /\ Len(r) = pending /\ \A i \in 1..pending : r[i] = e
      BY <1>n
    <3> QED BY <3>1, <3>2 DEF Histories
  <2> DEFINE g == h \o r
  <2>4. /\ g \in Histories(MaxTools) /\ Len(g) = Len(h) + Len(r) /\ Extends(g, h)
        /\ \A i \in (Len(h) + 1)..Len(g) : i - Len(h) \in 1..Len(r) /\ g[i] = r[i - Len(h)]
    BY <2>2, <1>n, ConcatHistory
  <2>h. history' = g
    BY <2>1, <2>3
  <2> HIDE DEF g
  <2>r. Len(r) = pending /\ \A i \in 1..Len(r) : r[i].role = "tool"
    BY <2>3
  <2>s. \A i \in (Len(h) + 1)..Len(g) : g[i].role = "tool"
    BY <2>4, <2>r
  <2>l. Len(g) = Len(h) + pending
    BY <2>4, <2>r
  <2>5. (\A i \in (Len(h) + 1)..Len(g) : g[i].role = "tool") /\ Len(g) <= Len(h) + pending
    BY <2>2, <2>s, <2>l, <1>n
  <2>6. Owed(g, pending - (Len(g) - Len(h)))
    BY <2>2, <2>4, <2>5, <1>n, ExtendResults
  <2>7. pending - (Len(g) - Len(h)) = pending'
    BY <2>1, <2>2, <2>l, <1>n
  <2>8. Opens(g) /\ Len(g) > 0
    BY <2>2, <2>4, <1>n, ExtendOpens
  <2> QED BY <2>h, <2>4, <2>6, <2>7, <2>8, <1>1
<1> QED BY <1>0, <1>2, <1>4, <1>5, <1>6, <1>7, <1>9, <1>10, HistorySteps DEF HistoryStep

LEMMA TurnInvariant == Spec => [](TurnTyped /\ PendingInv /\ HistoryInv)
<1>1. Init => TurnTyped /\ PendingInv /\ HistoryInv
  BY TurnTypedInit, HistoryInvInit
<1>2. (SteerTyped /\ QueueOrder) /\ (TurnTyped /\ PendingInv /\ HistoryInv) /\ [Next]_vars
        => (TurnTyped /\ PendingInv /\ HistoryInv)'
  BY TurnTypedNext, PendingNext, HistoryInvNext
<1> QED BY <1>1, <1>2, SteerInvariant, PTL DEF Spec

\* The variables of KimiSoul::turn and of SteerQueue keep their types, and the
\* counters of the turn the limits of LoopControl.
THEOREM TypeCorrect == Spec => []TypeOK
<1>1. SteerTyped /\ QueueOrder /\ TurnTyped /\ HistoryInv => TypeOK
  <2> SUFFICES ASSUME SteerTyped, QueueOrder, TurnTyped, HistoryInv PROVE TypeOK
    OBVIOUS
  <2>1. \A i \in 1..Len(history) : history[i].calls \in 0..MaxTools
    BY Bounds, MessageType DEF HistoryInv
  <2>2. mark \in 0..Len(accepted)
    <3>1. Len(accepted) \in Nat
      BY DEF SteerTyped, SteerTypeOK
    <3> QED BY <3>1 DEF QueueOrder
  <2>3. SteerTypeOK
    BY DEF SteerTyped
  <2> QED BY <2>1, <2>2, <2>3 DEF TurnTyped, TypeOK
<1> QED BY <1>1, SteerInvariant, TurnInvariant, PTL

\* Every request carries a history in which each tool call is followed by its
\* results: compactions at any point (also by a call of the exchange itself),
\* interruptions, restarts, refused and parallel calls part none.
THEOREM ToolCallsPairedHolds == Spec => []ToolCallsPaired
<1>1. TurnTyped /\ PendingInv /\ HistoryInv => ToolCallsPaired
  BY Bounds, PairedOwed DEF PendingInv, HistoryInv, ToolCallsPaired
<1> QED BY <1>1, TurnInvariant, PTL

\* Every compaction the turn may make keeps the calls together with their results,
\* also while some of the running exchange are still to come, and the newest
\* messages of the depth it was asked for; it never lengthens the history, and the
\* fallback of the recut to the cut 1 is dead code.
THEOREM CompactionsSoundHolds == Spec => []CompactionsSound
<1>1. TurnTyped /\ PendingInv /\ HistoryInv => CompactionsSound
  <2> SUFFICES ASSUME TurnTyped, HistoryInv, NEW depth \in Depths \union {OverflowDepth},
                      resolve_preserve_split(history, depth).compact
               PROVE  LET s == resolve_preserve_split(history, depth)
                      IN  CutKeepsPairs(s) /\ CutKeepsTail(s, depth)
    BY DEF CompactionsSound
  <2>0. /\ depth \in Nat /\ MaxTools \in Nat /\ pending \in 0..MaxTools
        /\ history \in Histories(MaxTools) /\ Opens(history) /\ Owed(history, pending)
    BY Bounds DEF TurnTyped, HistoryInv
  <2>s. PICK s : s = resolve_preserve_split(history, depth)
    OBVIOUS
  <2> DEFINE g == soul_apply_preserve_split(history, s)
             owing == [i \in 1..pending |-> ToolResult]
  <2>1. g \in Histories(MaxTools) /\ Owed(g, pending) /\ Len(g) <= Len(history)
    BY <2>0, <2>s, CompactedHistory
  <2> HIDE DEF g
  <2>2. CutKeepsPairs(s)
    <3>n. PICK n \in Nat : n = pending
      BY <2>0
    <3>1. PICK f \in Msgs(MaxTools) : f = ToolResult /\ f.role = "tool"
      BY <2>0, ToolResultType
    <3>2. /\ owing \in Histories(MaxTools) /\ Len(owing) = n
          /\ \A i \in 1..n : owing[i].role = "tool"
      BY <3>1, <3>n DEF Histories
    <3> HIDE DEF owing
    <3>l. PICK l \in Nat : l = Len(g)
      BY <2>1 DEF Histories
    <3> DEFINE whole == g \o owing
    <3>3. /\ whole \in Histories(MaxTools) /\ Extends(whole, g) /\ Len(whole) = l + n
          /\ \A i \in (Len(g) + 1)..Len(whole) :
                i - Len(g) \in 1..Len(owing) /\ whole[i] = owing[i - Len(g)]
      BY <2>0, <2>1, <3>2, <3>l, ConcatHistory
    <3> HIDE DEF whole
    <3>4. \A i \in (Len(g) + 1)..Len(whole) : whole[i].role = "tool"
      BY <3>2, <3>3
    <3>5. Owed(whole, n - (Len(whole) - Len(g))) /\ n - (Len(whole) - Len(g)) = 0
      <4>1. Owed(g, n) /\ Len(whole) <= Len(g) + n
        BY <2>1, <3>n, <3>3, <3>l
      <4>2. Owed(whole, n - (Len(whole) - Len(g)))
        BY <4>1, <2>0, <2>1, <3>3, <3>4, ExtendResults
      <4> QED BY <4>2, <3>3, <3>l
    <3>6. Paired(whole)
      BY <3>3, <3>5, <2>0, PairedOwed
    <3> QED BY <3>6 DEF whole, g, owing, CutKeepsPairs
  <2>3. CutKeepsTail(s, depth)
    <3>1. ~s.fallback
      BY <2>0, <2>s, SplitIsSound
    <3>2. Voices(SubSeq(history, s.start + 1, Len(history))) >= depth
      BY <2>0, <2>s, CompactionKeepsVoices
    <3> QED BY <3>1, <3>2, <2>1 DEF CutKeepsTail, g
  <2> QED BY <2>2, <2>3, <2>s
<1> QED BY <1>1, TurnInvariant, PTL

----------------------------------------------------------------------------
\* The way of a cancelled turn: the thread that cancels sets the flag once, and
\* from a point before the answer is looked at the turn only gets to its end.
EarlyInv ==
    early => cancel /\ pc \in BeforeAnswer \union {"begin", "failed", "closing", "closed"}

LEMMA EarlyInvNext ==
    ASSUME TurnTyped, EarlyInv, [Next]_vars
    PROVE  EarlyInv'
<1>0. UNCHANGED vars => EarlyInv'
  BY DEF EarlyInv, BeforeAnswer, vars, turnVars, budgets, answer, ghosts, steerVars
<1>s. ASSUME NEW c \in Callers, Steering(c) PROVE EarlyInv'
  BY <1>s DEF Steering, turnVars, ghosts, EarlyInv
<1>1. CASE Arm
  BY <1>1 DEF Arm, Goto, EarlyInv, BeforeAnswer, ghosts
<1>2. CASE Reopen
  BY <1>2 DEF Reopen, Goto, EarlyInv, BeforeAnswer, ghosts
<1>3. CASE DropStale
  BY <1>3 DEF DropStale, Goto, EarlyInv, BeforeAnswer, ghosts
<1>4. CASE TurnBegin
  BY <1>4 DEF TurnBegin, Goto, EarlyInv, BeforeAnswer, ghosts
<1>5. CASE StepLimit
  BY <1>5 DEF StepLimit, Finish, EarlyInv, BeforeAnswer, ghosts
<1>6. CASE CancelledAtBegin
  BY <1>6 DEF CancelledAtBegin, Finish, EarlyInv, BeforeAnswer, ghosts
<1>7. CASE StepBegin
  BY <1>7 DEF StepBegin, EarlyInv, BeforeAnswer, ghosts
<1>8. CASE AutoCompactFails
  BY <1>8 DEF AutoCompactFails, Goto, EarlyInv, BeforeAnswer, ghosts
<1>9. CASE AutoCompact
  BY <1>9 DEF AutoCompact, Goto, EarlyInv, BeforeAnswer, ghosts
<1>10. CASE Inject
  BY <1>10 DEF Inject, Goto, EarlyInv, BeforeAnswer, ghosts
<1>11. CASE Chat
  BY <1>11 DEF Chat, Resolve, EarlyInv, BeforeAnswer, ghosts
<1>12. CASE ChatFails
  BY <1>12 DEF ChatFails, Resolve, EarlyInv, BeforeAnswer, ghosts
<1>13. CASE ChatAborted
  BY <1>13 DEF ChatAborted, Resolve, EarlyInv, BeforeAnswer, ghosts
<1>14. CASE ChatOverflows
  BY <1>14 DEF ChatOverflows, Goto, EarlyInv, BeforeAnswer, ghosts
<1>15. CASE OverflowCompact
  BY <1>15 DEF OverflowCompact, Goto, EarlyInv, BeforeAnswer, ghosts
<1>16. CASE OverflowCompactFails
  BY <1>16 DEF OverflowCompactFails, Resolve, EarlyInv, BeforeAnswer, ghosts
<1>17. CASE Resolved
  BY <1>17 DEF Resolved, Finish, EarlyInv, BeforeAnswer, ghosts
<1>18. CASE Interrupted
  BY <1>18 DEF Interrupted, Goto, EarlyInv, BeforeAnswer, ghosts
<1>19. CASE Restart
  BY <1>19 DEF Restart, Goto, EarlyInv, BeforeAnswer, ghosts
<1>20. CASE GiveUp
  BY <1>20 DEF GiveUp, Finish, EarlyInv, BeforeAnswer, ghosts
<1>21. CASE Reresolved
  BY <1>21 DEF Reresolved, Finish, EarlyInv, BeforeAnswer, ghosts
<1>22. CASE Accept
  BY <1>22 DEF Accept, Goto, EarlyInv, BeforeAnswer, ghosts
<1>23. CASE DispatchRefused
  BY <1>23 DEF DispatchRefused, append_result, EarlyInv, BeforeAnswer, ghosts
<1>24. CASE DispatchRejected
  BY <1>24 DEF DispatchRejected, append_result, EarlyInv, BeforeAnswer, ghosts
<1>25. CASE DispatchRun
  BY <1>25 DEF DispatchRun, append_result, EarlyInv, BeforeAnswer, ghosts
<1>26. CASE DispatchCompact
  BY <1>26 DEF DispatchCompact, append_result, EarlyInv, BeforeAnswer, ghosts
<1>27. CASE DispatchCopied
  BY <1>27 DEF DispatchCopied, append_result, EarlyInv, BeforeAnswer, ghosts
<1>28. CASE DispatchParallel
  BY <1>28 DEF DispatchParallel, Goto, EarlyInv, BeforeAnswer, ghosts
<1>29. CASE StepEnd
  BY <1>29 DEF StepEnd, EarlyInv, BeforeAnswer, ghosts
<1>30. CASE Nudge
  BY <1>30 DEF Nudge, Goto, EarlyInv, BeforeAnswer, ghosts
<1>31. CASE LoopRecovery
  BY <1>31 DEF LoopRecovery, Goto, EarlyInv, BeforeAnswer, ghosts
<1>32. CASE Fallback
  BY <1>32 DEF Fallback, Finish, EarlyInv, BeforeAnswer, ghosts
<1>33. CASE Stop
  BY <1>33 DEF Stop, Finish, EarlyInv, BeforeAnswer, ghosts
<1>34. CASE Close
  BY <1>34 DEF Close, Goto, EarlyInv, BeforeAnswer, ghosts
<1>35. CASE Disarm
  BY <1>35 DEF Disarm, Goto, EarlyInv, BeforeAnswer, ghosts
<1>36. CASE Cancel
  BY <1>36 DEF Cancel, EarlyInv, BeforeAnswer, ghosts
<1> QED BY <1>0, <1>s, <1>1, <1>2, <1>3, <1>4, <1>5, <1>6, <1>7, <1>8, <1>9, <1>10, <1>11, <1>12,
          <1>13, <1>14, <1>15, <1>16, <1>17, <1>18, <1>19, <1>20, <1>21, <1>22, <1>23, <1>24,
          <1>25, <1>26, <1>27, <1>28, <1>29, <1>30, <1>31, <1>32, <1>33, <1>34, <1>35, <1>36,
          NextCases DEF vars

\* What a step appends behind the old length of a history, unless it is an answer
\* or results, are messages of the user's side.
LEMMA OnlyUsersAdded ==
    ASSUME TurnTyped, SteerTyped, PendingInv, HistoryInv, [Next]_vars,
           pc \notin {"accept", "dispatch", "stopping"},
           NEW i \in (Len(history) + 1)..Len(history')
    PROVE  history'[i].role # "assistant"
<1>n. MaxTools \in Nat /\ pending \in Nat
  BY Bounds DEF TurnTyped
<1>h. history \in Histories(MaxTools) /\ Owed(history, pending) /\ Opens(history)
      /\ (pc \notin Quiet => Len(history) > 0)
  BY DEF HistoryInv
<1>l. PICK l \in Nat : l = Len(history)
  BY <1>h DEF Histories
<1>1. ASSUME NEW h \in Histories(MaxTools), NEW u \in Users, Len(h) <= l, history' = h \o u
      PROVE  history'[i].role # "assistant"
  <2>1. u \in Histories(MaxTools) /\ \A j \in 1..Len(u) : u[j].role = "user"
    BY DEF Users
  <2>2. \A j \in (Len(h) + 1)..Len(h \o u) : j - Len(h) \in 1..Len(u) /\ (h \o u)[j] = u[j - Len(h)]
    BY <2>1, <1>n, ConcatHistory
  <2>3. PICK m \in Nat : m = Len(h)
    BY DEF Histories
  <2>4. i \in (m + 1)..Len(history')
    BY <2>3, <1>l, <1>1
  <2>5. i - m \in 1..Len(u) /\ history'[i] = u[i - m]
    BY <2>2, <2>3, <2>4, <1>1
  <2> QED BY <2>1, <2>5
<1>2. CASE Still
  BY <1>2, <1>l DEF Still
<1>3. CASE Spoken
  <2>1. PICK u \in Users : history' = history \o u
    BY <1>3 DEF Spoken
  <2>2. history \in Histories(MaxTools) /\ Len(history) <= l
    BY <1>h, <1>l
  <2> QED BY <2>1, <2>2, <1>1
<1>4. CASE Stripped
  <2>1. PICK u \in Users : /\ history' = strip_system_reminders(history) \o u
                           /\ pending = 0 /\ pc \notin Quiet
    BY <1>4 DEF Stripped
  <2>2. PICK h : h = strip_system_reminders(history)
    OBVIOUS
  <2>3. h \in Histories(MaxTools) /\ Len(h) <= Len(history)
    BY <2>1, <2>2, <1>h, <1>n, StrippedHistory
  <2> QED BY <2>1, <2>2, <2>3, <1>1, <1>l
<1>5. CASE Compacted
  <2>1. PICK depths \in SUBSET Nat : history' \in compact_context(depths)
    BY <1>5 DEF Compacted
  <2>2. PICK g \in compact_context(depths) : g = history'
    BY <2>1
  <2>3. g \in Histories(MaxTools) /\ Len(g) <= Len(history)
    BY <1>n, ContextCompacted
  <2>4. Len(g) \in Nat
    BY <2>3 DEF Histories
  <2> QED BY <2>2, <2>3, <2>4, <1>l
<1> QED BY <1>h, <1>2, <1>3, <1>4, <1>5, HistorySteps
        DEF HistoryStep, AnswerGiven, ResultGiven, ResultsGiven

LEMMA EarlyInvariant == Spec => []EarlyInv
<1>1. Init => EarlyInv
  BY DEF Init, TurnLocals, EarlyInv
<1>2. TurnTyped /\ EarlyInv /\ [Next]_vars => EarlyInv'
  BY EarlyInvNext
<1> QED BY <1>1, <1>2, TurnInvariant, PTL DEF Spec

\* A turn cancelled before the result of its request is looked at adds no answer
\* of the model to the history any more, whatever request, compaction or restart
\* attempt was under way.
THEOREM CancelledAnswerDroppedHolds == Spec => CancelledAnswerDropped
<1>1. ASSUME TurnTyped, SteerTyped, PendingInv, HistoryInv, EarlyInv, [Next]_vars
      PROVE  [early => (\A i \in (Len(history) + 1)..Len(history') :
                           history'[i].role # "assistant")]_vars
  <2> SUFFICES ASSUME early, NEW i \in (Len(history) + 1)..Len(history')
               PROVE  history'[i].role # "assistant"
    OBVIOUS
  <2>1. pc \notin {"accept", "dispatch", "stopping"}
    BY <1>1 DEF EarlyInv, BeforeAnswer
  <2> QED BY <1>1, <2>1, OnlyUsersAdded
<1> QED BY <1>1, TurnInvariant, SteerInvariant, EarlyInvariant, PTL DEF Spec, CancelledAnswerDropped

----------------------------------------------------------------------------
\* A request that was aborted outside a restart attempt finds the flag that aborted
\* it still up: no other thread lowers it.
AbortInv ==
    /\ pc = "resolved" /\ res.kind = "aborted" => cancel \/ wake
    /\ pc = "reresolved" => restarting
    /\ pc = "failed" /\ res.kind = "aborted" => restarting
    /\ AbortedStepGoesOn

\* A thread that steers may raise the wake flag and never lowers it.
LEMMA WakeStays ==
    ASSUME SteerTyped, NEW c \in Callers, CallerNext(c), wake
    PROVE  wake'
<1>1. CASE \E op \in Ops \intersect Direct : Call(c, op)
  BY <1>1 DEF Call
<1>2. CASE RaiseWake(c)
  BY <1>2 DEF RaiseWake
<1> QED BY <1>1, <1>2 DEF CallerNext, PushCheck, PushEnqueue, SyncCheck, SyncTimeout, SyncReturn,
                          ClearCall

LEMMA AbortInvNext ==
    ASSUME TurnTyped, SteerTyped, AbortInv, [Next]_vars
    PROVE  AbortInv'
<1>0. UNCHANGED vars => AbortInv'
  BY DEF AbortInv, AbortedStepGoesOn, vars, turnVars, budgets, answer, ghosts, steerVars
<1>s. ASSUME NEW c \in Callers, Steering(c) PROVE AbortInv'
  <2>1. wake => wake'
    BY <1>s, WakeStays DEF Steering
  <2> QED BY <1>s, <2>1 DEF Steering, turnVars, budgets, answer, AbortInv, AbortedStepGoesOn
<1>1. CASE Arm
  BY <1>1 DEF Arm, Goto, AbortInv, AbortedStepGoesOn, budgets, answer, steerVars
<1>2. CASE Reopen
  BY <1>2 DEF Reopen, Goto, AbortInv, AbortedStepGoesOn, budgets, answer, steerVars
<1>3. CASE DropStale
  BY <1>3 DEF DropStale, Goto, AbortInv, AbortedStepGoesOn, budgets, answer, steerVars
<1>4. CASE TurnBegin
  BY <1>4 DEF TurnBegin, Goto, AbortInv, AbortedStepGoesOn, budgets, answer, steerVars
<1>5. CASE StepLimit
  BY <1>5 DEF StepLimit, Finish, AbortInv, AbortedStepGoesOn, budgets, answer, steerVars
<1>6. CASE CancelledAtBegin
  BY <1>6 DEF CancelledAtBegin, Finish, AbortInv, AbortedStepGoesOn, budgets, answer, steerVars
<1>7. CASE StepBegin
  BY <1>7 DEF StepBegin, AbortInv, AbortedStepGoesOn, budgets, answer, steerVars
<1>8. CASE AutoCompactFails
  BY <1>8 DEF AutoCompactFails, Goto, AbortInv, AbortedStepGoesOn, budgets, answer, steerVars
<1>9. CASE AutoCompact
  BY <1>9 DEF AutoCompact, Goto, AbortInv, AbortedStepGoesOn, budgets, answer, steerVars
<1>10. CASE Inject
  BY <1>10 DEF Inject, Goto, AbortInv, AbortedStepGoesOn, budgets, answer, steerVars
<1>11. CASE Chat
  <2>1. res'.kind = "ok"
    BY <1>11 DEF Chat, Resolve, Replies
  <2> QED BY <1>11, <2>1 DEF Chat, Resolve, AbortInv, AbortedStepGoesOn, budgets
<1>12. CASE ChatFails
  BY <1>12 DEF ChatFails, Resolve, Failure, OwnFailures, AbortInv, AbortedStepGoesOn, budgets, answer, steerVars
<1>13. CASE ChatAborted
  BY <1>13 DEF ChatAborted, Resolve, AbortInv, AbortedStepGoesOn, budgets, answer, steerVars
<1>14. CASE ChatOverflows
  BY <1>14 DEF ChatOverflows, Goto, AbortInv, AbortedStepGoesOn, budgets, answer, steerVars
<1>15. CASE OverflowCompact
  BY <1>15 DEF OverflowCompact, Goto, AbortInv, AbortedStepGoesOn, budgets, answer, steerVars
<1>16. CASE OverflowCompactFails
  BY <1>16 DEF OverflowCompactFails, Resolve, Failure, OwnFailures, AbortInv, AbortedStepGoesOn, budgets, answer, steerVars
<1>17. CASE Resolved
  BY <1>17 DEF Resolved, Finish, AbortInv, AbortedStepGoesOn, budgets, answer, steerVars
<1>18. CASE Interrupted
  BY <1>18 DEF Interrupted, Goto, AbortInv, AbortedStepGoesOn, budgets, answer, steerVars
<1>19. CASE Restart
  BY <1>19 DEF Restart, Goto, AbortInv, AbortedStepGoesOn, budgets, answer, steerVars
<1>20. CASE GiveUp
  BY <1>20 DEF GiveUp, Finish, AbortInv, AbortedStepGoesOn, budgets, answer, steerVars
<1>21. CASE Reresolved
  BY <1>21 DEF Reresolved, Finish, AbortInv, AbortedStepGoesOn, budgets, answer, steerVars
<1>22. CASE Accept
  BY <1>22 DEF Accept, Goto, AbortInv, AbortedStepGoesOn, budgets, answer, steerVars
<1>23. CASE DispatchRefused
  BY <1>23 DEF DispatchRefused, append_result, AbortInv, AbortedStepGoesOn, budgets, answer, steerVars
<1>24. CASE DispatchRejected
  BY <1>24 DEF DispatchRejected, append_result, AbortInv, AbortedStepGoesOn, budgets, answer, steerVars
<1>25. CASE DispatchRun
  BY <1>25 DEF DispatchRun, append_result, AbortInv, AbortedStepGoesOn, budgets, answer, steerVars
<1>26. CASE DispatchCompact
  BY <1>26 DEF DispatchCompact, append_result, AbortInv, AbortedStepGoesOn, budgets, answer, steerVars
<1>27. CASE DispatchCopied
  BY <1>27 DEF DispatchCopied, append_result, AbortInv, AbortedStepGoesOn, budgets, answer, steerVars
<1>28. CASE DispatchParallel
  BY <1>28 DEF DispatchParallel, Goto, AbortInv, AbortedStepGoesOn, budgets, answer, steerVars
<1>29. CASE StepEnd
  BY <1>29 DEF StepEnd, AbortInv, AbortedStepGoesOn, budgets, answer, steerVars
<1>30. CASE Nudge
  BY <1>30 DEF Nudge, Goto, AbortInv, AbortedStepGoesOn, budgets, answer, steerVars
<1>31. CASE LoopRecovery
  BY <1>31 DEF LoopRecovery, Goto, AbortInv, AbortedStepGoesOn, budgets, answer, steerVars
<1>32. CASE Fallback
  BY <1>32 DEF Fallback, Finish, AbortInv, AbortedStepGoesOn, budgets, answer, steerVars
<1>33. CASE Stop
  BY <1>33 DEF Stop, Finish, AbortInv, AbortedStepGoesOn, budgets, answer, steerVars
<1>34. CASE Close
  BY <1>34 DEF Close, Goto, AbortInv, AbortedStepGoesOn, budgets, answer, steerVars
<1>35. CASE Disarm
  BY <1>35 DEF Disarm, Goto, AbortInv, AbortedStepGoesOn, budgets, answer, steerVars
<1>36. CASE Cancel
  BY <1>36 DEF Cancel, AbortInv, AbortedStepGoesOn, budgets, answer, steerVars
<1> QED BY <1>0, <1>s, <1>1, <1>2, <1>3, <1>4, <1>5, <1>6, <1>7, <1>8, <1>9, <1>10, <1>11, <1>12,
          <1>13, <1>14, <1>15, <1>16, <1>17, <1>18, <1>19, <1>20, <1>21, <1>22, <1>23, <1>24,
          <1>25, <1>26, <1>27, <1>28, <1>29, <1>30, <1>31, <1>32, <1>33, <1>34, <1>35, <1>36,
          NextCases DEF vars

\* A request that a steer aborts never fails the turn outside a restart attempt.
THEOREM AbortedStepGoesOnHolds == Spec => []AbortedStepGoesOn
<1>1. Init => AbortInv
  BY DEF Init, TurnLocals, AbortInv, AbortedStepGoesOn
<1>2. TurnTyped /\ SteerTyped /\ AbortInv /\ [Next]_vars => AbortInv'
  BY AbortInvNext
<1>3. AbortInv => AbortedStepGoesOn
  BY DEF AbortInv
<1> QED BY <1>1, <1>2, <1>3, TurnInvariant, SteerInvariant, PTL DEF Spec

----------------------------------------------------------------------------
\* An answer without calls stays the last message of the history until the step
\* has ended, and a step that stops the turn stops it for a reason.
LastIsAnswer == history[Len(history)].role = "assistant"
AnswerInv ==
    /\ pc \in {"dispatch", "stopping"} /\ res.calls = 0 => LastIsAnswer
    /\ pc = "stopping" => stop_reason # "none"
    /\ Answered

\* Why a step stops the turn.
LEMMA StopReasons ==
    /\ stop_reason = "none" => ~rejected /\ res.calls # 0
    /\ stop_reason \notin {"none", "tool_call_repeat"} => rejected \/ res.calls = 0
  BY DEF stop_reason

\* An answer appended to the history is its last message.
LEMMA AppendedAnswer ==
    ASSUME history \in Histories(MaxTools), NEW n \in 0..MaxTools,
           history' = Append(history, Assistant(n))
    PROVE  LastIsAnswer'
<1>1. PICK e \in Msgs(MaxTools) : e = Assistant(n) /\ e.role = "assistant"
  BY Bounds, AssistantType
<1>2. PICK g : g = Append(history, e) /\ g[Len(g)] = e
  BY <1>1, Bounds, AppendHistory
<1> QED BY <1>1, <1>2 DEF LastIsAnswer

LEMMA AnswerInvNext ==
    ASSUME TurnTyped, SteerTyped, PendingInv, history \in Histories(MaxTools), AnswerInv, [Next]_vars
    PROVE  AnswerInv'
<1>u. ASSUME UNCHANGED <<pc, answer, history, outcome>> PROVE AnswerInv'
  BY <1>u DEF AnswerInv, LastIsAnswer, Answered, answer, stop_reason, force_stop
<1>0. UNCHANGED vars => AnswerInv'
  BY <1>u DEF vars, turnVars
<1>s. ASSUME NEW c \in Callers, Steering(c) PROVE AnswerInv'
  <2>1. UNCHANGED <<pc, answer, history, outcome>>
    BY <1>s DEF Steering, turnVars
  <2> QED BY <2>1, <1>u
<1>1. CASE Arm
  BY <1>1 DEF Arm, Goto, AnswerInv, LastIsAnswer, Answered, answer
<1>2. CASE Reopen
  BY <1>2 DEF Reopen, Goto, AnswerInv, LastIsAnswer, Answered, answer
<1>3. CASE DropStale
  BY <1>3 DEF DropStale, Goto, AnswerInv, LastIsAnswer, Answered, answer
<1>4. CASE TurnBegin
  BY <1>4 DEF TurnBegin, Goto, AnswerInv, LastIsAnswer, Answered, answer
<1>5. CASE StepLimit
  BY <1>5 DEF StepLimit, Finish, AnswerInv, LastIsAnswer, Answered, answer
<1>6. CASE CancelledAtBegin
  BY <1>6 DEF CancelledAtBegin, Finish, AnswerInv, LastIsAnswer, Answered, answer
<1>7. CASE StepBegin
  BY <1>7 DEF StepBegin, AnswerInv, LastIsAnswer, Answered, answer
<1>8. CASE AutoCompactFails
  BY <1>8 DEF AutoCompactFails, Goto, AnswerInv, LastIsAnswer, Answered, answer
<1>9. CASE AutoCompact
  BY <1>9 DEF AutoCompact, Goto, AnswerInv, LastIsAnswer, Answered, answer
<1>10. CASE Inject
  BY <1>10 DEF Inject, Goto, AnswerInv, LastIsAnswer, Answered, answer
<1>11. CASE Chat
  BY <1>11 DEF Chat, Resolve, AnswerInv, LastIsAnswer, Answered, answer
<1>12. CASE ChatFails
  BY <1>12 DEF ChatFails, Resolve, AnswerInv, LastIsAnswer, Answered, answer
<1>13. CASE ChatAborted
  BY <1>13 DEF ChatAborted, Resolve, AnswerInv, LastIsAnswer, Answered, answer
<1>14. CASE ChatOverflows
  BY <1>14 DEF ChatOverflows, Goto, AnswerInv, LastIsAnswer, Answered, answer
<1>15. CASE OverflowCompact
  BY <1>15 DEF OverflowCompact, Goto, AnswerInv, LastIsAnswer, Answered, answer
<1>16. CASE OverflowCompactFails
  BY <1>16 DEF OverflowCompactFails, Resolve, AnswerInv, LastIsAnswer, Answered, answer
<1>17. CASE Resolved
  BY <1>17 DEF Resolved, Finish, AnswerInv, LastIsAnswer, Answered, answer
<1>18. CASE Interrupted
  BY <1>18 DEF Interrupted, Goto, AnswerInv, LastIsAnswer, Answered, answer
<1>19. CASE Restart
  BY <1>19 DEF Restart, Goto, AnswerInv, LastIsAnswer, Answered, answer
<1>20. CASE GiveUp
  BY <1>20 DEF GiveUp, Finish, AnswerInv, LastIsAnswer, Answered, answer
<1>21. CASE Reresolved
  BY <1>21 DEF Reresolved, Finish, AnswerInv, LastIsAnswer, Answered, answer
<1>22. CASE Accept
  <2>1. LastIsAnswer'
    BY <1>22, AppendedAnswer DEF Accept, TurnTyped
  <2> QED BY <1>22, <2>1 DEF Accept, Goto, AnswerInv, Answered
<1>23. CASE DispatchRefused
  <2>1. pending > 0 /\ res' = res /\ pc' = "dispatch" /\ pc = "dispatch"
    BY <1>23 DEF DispatchRefused, append_result
  <2>2. res.calls # 0
    BY <2>1 DEF PendingInv, TurnTyped
  <2> QED BY <2>1, <2>2 DEF AnswerInv, Answered
<1>24. CASE DispatchRejected
  <2>1. pending > 0 /\ res' = res /\ pc' = "dispatch" /\ pc = "dispatch"
    BY <1>24 DEF DispatchRejected, append_result
  <2>2. res.calls # 0
    BY <2>1 DEF PendingInv, TurnTyped
  <2> QED BY <2>1, <2>2 DEF AnswerInv, Answered
<1>25. CASE DispatchRun
  <2>1. pending > 0 /\ res' = res /\ pc' = "dispatch" /\ pc = "dispatch"
    BY <1>25 DEF DispatchRun, append_result
  <2>2. res.calls # 0
    BY <2>1 DEF PendingInv, TurnTyped
  <2> QED BY <2>1, <2>2 DEF AnswerInv, Answered
<1>26. CASE DispatchCompact
  <2>1. pending > 0 /\ res' = res /\ pc' = "dispatch" /\ pc = "dispatch"
    BY <1>26 DEF DispatchCompact, append_result
  <2>2. res.calls # 0
    BY <2>1 DEF PendingInv, TurnTyped
  <2> QED BY <2>1, <2>2 DEF AnswerInv, Answered
<1>27. CASE DispatchCopied
  <2>1. pending > 0 /\ res' = res /\ pc' = "dispatch" /\ pc = "dispatch"
    BY <1>27 DEF DispatchCopied, append_result
  <2>2. res.calls # 0
    BY <2>1 DEF PendingInv, TurnTyped
  <2> QED BY <2>1, <2>2 DEF AnswerInv, Answered
<1>28. CASE DispatchParallel
  <2>1. res' = res /\ pc' = "dispatch" /\ res.calls # 0
    BY <1>28 DEF DispatchParallel, Goto, TurnTyped
  <2> QED BY <2>1 DEF AnswerInv, Answered
<1>29. CASE StepEnd
  <2>1. PICK n \in 0..MaxExternal :
           /\ history' = history \o [i \in 1..(Len(queue) + n) |-> User("steer")]
           /\ IF stop_reason = "none" \/ Len(queue) + n > 0
              THEN pc' = "begin" /\ step' = step + 1
              ELSE pc' = "stopping" /\ UNCHANGED step
    BY <1>29 DEF StepEnd, consume_steers
  <2>2. trip' = force_stop /\ UNCHANGED <<res, rejected>>
    BY <1>29 DEF StepEnd
  <2>3. CASE pc' = "stopping"
    <3>1. stop_reason # "none" /\ ~(Len(queue) + n > 0)
      BY <2>1, <2>3
    <3>2. Len(queue) + n = 0
      BY <3>1, Bounds DEF SteerTyped, SteerTypeOK
    <3>3. history' = history
      <4>1. [i \in 1..(Len(queue) + n) |-> User("steer")] = <<>>
        BY <3>2
      <4>2. history \in Seq(Msgs(MaxTools))
        BY DEF Histories
      <4>3. history \o <<>> = history
        BY <4>2, ConcatEmptySeq
      <4> QED BY <4>1, <4>3, <2>1
    <3>4. force_stop' <=> force_stop
      BY <2>2 DEF force_stop
    <3>5. stop_reason' = stop_reason
      BY <2>2, <3>4 DEF stop_reason
    <3> QED BY <1>29, <2>2, <2>3, <3>1, <3>3, <3>5 DEF StepEnd, AnswerInv, LastIsAnswer, Answered
  <2> QED BY <2>1, <2>3 DEF AnswerInv, Answered
<1>30. CASE Nudge
  BY <1>30 DEF Nudge, Goto, AnswerInv, LastIsAnswer, Answered, answer
<1>31. CASE LoopRecovery
  BY <1>31 DEF LoopRecovery, Goto, AnswerInv, LastIsAnswer, Answered, answer
<1>32. CASE Fallback
  <2>1. LastIsAnswer'
    <3>1. 0 \in 0..MaxTools
      BY Bounds
    <3> QED BY <1>32, <3>1, AppendedAnswer DEF Fallback
  <2> QED BY <1>32, <2>1 DEF Fallback, Finish, AnswerInv, Answered, LastIsAnswer
<1>33. CASE Stop
  <2>1. rejected \/ res.calls = 0
    BY <1>33, StopReasons DEF Stop, AnswerInv
  <2> QED BY <1>33, <2>1 DEF Stop, Finish, answer, AnswerInv, LastIsAnswer, Answered
<1>34. CASE Close
  BY <1>34 DEF Close, Goto, AnswerInv, LastIsAnswer, Answered, answer
<1>35. CASE Disarm
  BY <1>35 DEF Disarm, Goto, AnswerInv, LastIsAnswer, Answered, answer
<1>36. CASE Cancel
  <2>1. UNCHANGED <<pc, answer, history, outcome>>
    BY <1>36 DEF Cancel
  <2> QED BY <2>1, <1>u
<1> QED BY <1>0, <1>s, <1>1, <1>2, <1>3, <1>4, <1>5, <1>6, <1>7, <1>8, <1>9, <1>10, <1>11, <1>12,
          <1>13, <1>14, <1>15, <1>16, <1>17, <1>18, <1>19, <1>20, <1>21, <1>22, <1>23, <1>24,
          <1>25, <1>26, <1>27, <1>28, <1>29, <1>30, <1>31, <1>32, <1>33, <1>34, <1>35, <1>36,
          NextCases DEF vars

\* A turn that ended well ended on an answer, unless the user rejected a call: no
\* tool result is left that the model has not seen.
THEOREM AnsweredHolds == Spec => []Answered
<1>1. Init => AnswerInv
  BY DEF Init, TurnLocals, AnswerInv, Answered
<1>2. /\ TurnTyped /\ SteerTyped /\ PendingInv /\ HistoryInv
      /\ AnswerInv /\ [Next]_vars
      => AnswerInv'
  BY AnswerInvNext DEF HistoryInv
<1>3. AnswerInv => Answered
  BY DEF AnswerInv
<1> QED BY <1>1, <1>2, <1>3, TurnInvariant, SteerInvariant, PTL DEF Spec

----------------------------------------------------------------------------
\* The turn's variant.

\* The first of seven places in which the new tuple differs is lower there.
LEMMA Lexicographic ==
    ASSUME NEW a1, NEW a2, NEW a3, NEW a4, NEW a5, NEW a6, NEW a7,
           NEW b1, NEW b2, NEW b3, NEW b4, NEW b5, NEW b6, NEW b7,
           \/ a1 < b1
           \/ a1 = b1 /\ a2 < b2
           \/ a1 = b1 /\ a2 = b2 /\ a3 < b3
           \/ a1 = b1 /\ a2 = b2 /\ a3 = b3 /\ a4 < b4
           \/ a1 = b1 /\ a2 = b2 /\ a3 = b3 /\ a4 = b4 /\ a5 < b5
           \/ a1 = b1 /\ a2 = b2 /\ a3 = b3 /\ a4 = b4 /\ a5 = b5 /\ a6 < b6
           \/ a1 = b1 /\ a2 = b2 /\ a3 = b3 /\ a4 = b4 /\ a5 = b5 /\ a6 = b6 /\ a7 < b7
    PROVE  Lower(<<a1, a2, a3, a4, a5, a6, a7>>, <<b1, b2, b3, b4, b5, b6, b7>>)
<1> DEFINE v == <<a1, a2, a3, a4, a5, a6, a7>>
           w == <<b1, b2, b3, b4, b5, b6, b7>>
<1>1. /\ v[1] = a1 /\ v[2] = a2 /\ v[3] = a3 /\ v[4] = a4 /\ v[5] = a5 /\ v[6] = a6 /\ v[7] = a7
      /\ w[1] = b1 /\ w[2] = b2 /\ w[3] = b3 /\ w[4] = b4 /\ w[5] = b5 /\ w[6] = b6 /\ w[7] = b7
      /\ Len(w) = 7
  OBVIOUS
<1> HIDE DEF v, w
<1>2. \E i \in 1..7 : v[i] < w[i] /\ \A j \in 1..(i - 1) : v[j] = w[j]
  <2>1. CASE a1 < b1
    <3>1. v[1] < w[1] /\ \A j \in 1..(1 - 1) : v[j] = w[j]
      BY <2>1, <1>1
    <3> QED BY <3>1
  <2>2. CASE a1 = b1 /\ a2 < b2
    <3>1. v[2] < w[2] /\ \A j \in 1..(2 - 1) : v[j] = w[j]
      BY <2>2, <1>1
    <3> QED BY <3>1
  <2>3. CASE a1 = b1 /\ a2 = b2 /\ a3 < b3
    <3>1. v[3] < w[3] /\ \A j \in 1..(3 - 1) : v[j] = w[j]
      BY <2>3, <1>1
    <3> QED BY <3>1
  <2>4. CASE a1 = b1 /\ a2 = b2 /\ a3 = b3 /\ a4 < b4
    <3>1. v[4] < w[4] /\ \A j \in 1..(4 - 1) : v[j] = w[j]
      BY <2>4, <1>1
    <3> QED BY <3>1
  <2>5. CASE a1 = b1 /\ a2 = b2 /\ a3 = b3 /\ a4 = b4 /\ a5 < b5
    <3>1. v[5] < w[5] /\ \A j \in 1..(5 - 1) : v[j] = w[j]
      BY <2>5, <1>1
    <3> QED BY <3>1
  <2>6. CASE a1 = b1 /\ a2 = b2 /\ a3 = b3 /\ a4 = b4 /\ a5 = b5 /\ a6 < b6
    <3>1. v[6] < w[6] /\ \A j \in 1..(6 - 1) : v[j] = w[j]
      BY <2>6, <1>1
    <3> QED BY <3>1
  <2>7. CASE a1 = b1 /\ a2 = b2 /\ a3 = b3 /\ a4 = b4 /\ a5 = b5 /\ a6 = b6 /\ a7 < b7
    <3>1. v[7] < w[7] /\ \A j \in 1..(7 - 1) : v[j] = w[j]
      BY <2>7, <1>1
    <3> QED BY <3>1
  <2> QED BY <2>1, <2>2, <2>3, <2>4, <2>5, <2>6, <2>7
<1> QED BY <1>1, <1>2 DEF Lower, v, w

\* The seven ways in which a step brings the turn closer to its end.
Nearer ==
    \/ Phase' < Phase
    \/ /\ Phase' = Phase
       /\ \/ MaxSteps - step' < MaxSteps - step
          \/ /\ step' = step
             /\ \/ Stage' < Stage
                \/ /\ Stage' = Stage
                   /\ \/ MaxRestarts - restarts' < MaxRestarts - restarts
                      \/ /\ restarts' = restarts
                         /\ \/ Part' < Part
                            \/ /\ Part' = Part
                               /\ \/ overflow' < overflow
                                  \/ /\ overflow' = overflow
                                     /\ Tries' + pending' < Tries + pending

LEMMA NearerLower == ASSUME Nearer PROVE Lower(Variant', Variant)
<1>1. Variant' = <<Phase', MaxSteps - step', Stage', MaxRestarts - restarts', Part', overflow',
                   Tries' + pending'>>
  BY DEF Variant
<1>2. Lower(<<Phase', MaxSteps - step', Stage', MaxRestarts - restarts', Part', overflow',
              Tries' + pending'>>,
            <<Phase, MaxSteps - step, Stage, MaxRestarts - restarts, Part, overflow,
              Tries + pending>>)
  BY Lexicographic DEF Nearer
<1> QED BY <1>1, <1>2 DEF Variant

\* One step of the turn's thread, from the label it leaves to the one it reaches.
LEMMA StepNearer ==
    ASSUME TurnTyped, [Next]_vars, pc # "idle",
           ~UNCHANGED <<pc, step, budgets, answer, history>>
    PROVE  Nearer
<1>0. /\ step \in Nat /\ MaxSteps \in Nat /\ restarts \in Nat /\ MaxRestarts \in Nat
      /\ overflow \in Nat /\ pending \in Nat
  BY Bounds DEF TurnTyped
<1> USE <1>0
<1>1. CASE Reopen \/ DropStale \/ TurnBegin \/ Close \/ Disarm
  <2>1. \/ pc = "armed" /\ pc' = "reopened"
        \/ pc = "reopened" /\ pc' = "cleared"
        \/ pc = "cleared" /\ pc' = "begin"
        \/ pc = "closing" /\ pc' = "closed"
        \/ pc = "closed" /\ pc' = "idle"
    BY <1>1, Zenon DEF Reopen, DropStale, TurnBegin, Close, Disarm, Goto
  <2> QED BY <2>1 DEF Nearer, Phase
<1>2. CASE StepLimit \/ CancelledAtBegin \/ GiveUp \/ Fallback \/ Stop
  BY <1>2 DEF StepLimit, CancelledAtBegin, GiveUp, Fallback, Stop, Finish, Nearer, Phase
<1>3. CASE StepBegin
  BY <1>3 DEF StepBegin, Nearer, Phase, Stage
<1>4. CASE AutoCompactFails \/ AutoCompact
  BY <1>4 DEF AutoCompactFails, AutoCompact, Goto, Nearer, Phase, Stage
<1>5. CASE Inject
  BY <1>5 DEF Inject, Goto, Nearer, Phase, Stage
<1>6. CASE Chat \/ ChatFails \/ ChatAborted \/ OverflowCompactFails
  BY <1>6 DEF Chat, ChatFails, ChatAborted, OverflowCompactFails, Resolve, budgets,
              Nearer, Phase, Stage, Part
<1>7. CASE ChatOverflows
  BY <1>7 DEF ChatOverflows, Goto, budgets, answer, Nearer, Phase, Stage, Part, Tries
<1>8. CASE OverflowCompact
  BY <1>8 DEF OverflowCompact, Goto, Nearer, Phase, Stage, Part
<1>9. CASE Resolved \/ Reresolved
  <2>1. pc \in {"resolved", "reresolved"} /\ pc' \in {"closing", "accept", "interrupted", "failed"}
    BY <1>9 DEF Resolved, Reresolved, Finish
  <2>2. step' = step /\ restarts' = restarts
    BY <1>9 DEF Resolved, Reresolved, budgets
  <2> QED BY <2>1, <2>2 DEF Nearer, Phase, Stage, Part
<1>10. CASE Restart
  BY <1>10 DEF Restart, Goto, Nearer, Phase, Stage
<1>11. CASE Interrupted \/ Nudge \/ LoopRecovery
  BY <1>11 DEF Interrupted, Nudge, LoopRecovery, Goto, Nearer, Phase
<1>12. CASE Accept
  BY <1>12 DEF Accept, Goto, Nearer, Phase, Stage
<1>13. CASE DispatchRefused \/ DispatchRejected \/ DispatchRun \/ DispatchCompact \/ DispatchCopied
  <2>1. \E h : append_result(h)
    BY <1>13 DEF DispatchRefused, DispatchRejected, DispatchRun, DispatchCompact, DispatchCopied
  <2>2. pc = "dispatch" /\ pc' = pc /\ UNCHANGED <<step, budgets>> /\ pending' = pending - 1
    BY <2>1 DEF append_result
  <2> QED BY <2>2 DEF budgets, Nearer, Phase, Stage, Part, Tries
<1>14. CASE DispatchParallel
  BY <1>14 DEF DispatchParallel, Goto, budgets, TurnTyped, Nearer, Phase, Stage, Part, Tries
<1>15. CASE StepEnd
  <2>1. pc = "dispatch" /\ \/ pc' = "begin" /\ step' = step + 1
                           \/ pc' = "stopping" /\ step' = step
    BY <1>15 DEF StepEnd
  <2> QED BY <2>1 DEF Nearer, Phase, Stage
<1>16. ~(UNCHANGED vars \/ Arm \/ Cancel \/ \E c \in Callers : Steering(c))
  BY DEF vars, turnVars, Arm, Goto, Cancel, Steering
<1> QED
  BY <1>1, <1>2, <1>3, <1>4, <1>5, <1>6, <1>7, <1>8, <1>9, <1>10, <1>11, <1>12, <1>13, <1>14,
     <1>15, <1>16, NextCases

\* Whatever the budgets and the number of calls, every step of a turn that has begun
\* lowers the variant: no path through the nested loops of KimiSoul::turn goes round
\* without using up one of them.
THEOREM TurnAdvancesHolds == Spec => TurnAdvances
<1>1. (TurnTyped /\ PendingInv /\ HistoryInv) /\ [Next]_vars
        => [pc = "idle" \/ Lower(Variant', Variant)]_<<pc, step, budgets, answer, history>>
  BY StepNearer, NearerLower
<1> QED BY <1>1, TurnInvariant, PTL DEF Spec, TurnAdvances
=============================================================================
