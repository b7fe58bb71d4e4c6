--------------------------- MODULE AgentRegistry ---------------------------
(***************************************************************************)
(* The registry of a session's sub-agents: agent_registry of               *)
(* src/src/builtin_tools/agent_tool.cpp, the subagent, interrupt_agent and *)
(* send_message tools that drive it, the fibers of the background runs, and*)
(* the turn that reports the settled ones                                  *)
(* (KimiSoul::drain_finished_subagent_notices of agent/soul.cpp).          *)
(*                                                                         *)
(* Every critical section of _mutex is one step.  An agent_run is a numbered*)
(* object of the heap that a step may free, and a run is one use of a      *)
(* number.  What an agent does, whether it fails or asks its parent, is a  *)
(* free choice, and so is the session an eviction picks: the clock is left *)
(* out.  A message is a number.  A sub-agent cannot send one: the runner   *)
(* gives it no parent to address.                                          *)
(***************************************************************************)
EXTENDS Naturals, FiniteSets, Sequences, SequencesExt

CONSTANTS
    Sessions,       \* ids of sub-agent sessions
    Callers,        \* tool calls that may run at the same time
    MaxRuns,        \* bound on the background runs
    MaxSessions,    \* k_max_sessions
    MaxMessages,    \* bound on the messages sent
    Targets,        \* the sessions they are sent to
    MaxPending,     \* k_max_pending_messages
    Tools           \* the tools the callers use

ASSUME RegistryAssumption ==
    /\ IsFiniteSet(Sessions) /\ MaxRuns \in Nat /\ MaxSessions \in Nat \ {0}
    /\ MaxMessages \in Nat /\ Targets \subseteq Sessions /\ MaxPending \in Nat \ {0}
    /\ Tools \subseteq {"background", "sync", "interrupt", "message"}

VARIABLES
    slots,          \* the run of each session of the registry, 0 for none
    live_sessions,  \* the registered sessions
    finished,       \* the results parked by close() and by the drain
    inbox,          \* slot::steer: what the agent of a session polls while it runs
    pending,        \* _pending: what the next prompt of a session carries
    runs,           \* the agent_run objects
    fiber,          \* where the fiber of each run is
    call,           \* where each caller is
    phase,          \* what the turn's thread does
    waited,         \* the runs whose done events the turn's thread waits for
    used,           \* the number of runs given out
    sent,           \* the number of messages sent
    read,           \* how often each message reached an agent    (history)
    notices,        \* how often each run's outcome was reported   (history)
    hollow          \* a notice or a park had no result to report  (history)

registry == <<slots, live_sessions, finished>>
mail == <<inbox, pending, sent, read>>
history == <<notices, hollow>>
vars == <<registry, mail, runs, fiber, call, phase, waited, used, history>>

Runs == 1..MaxRuns
Messages == 1..MaxMessages
Idle(c) == call[c].pc = "idle"
NoCall == [pc |-> "idle", id |-> "none", tool |-> "none", close |-> FALSE,
           new |-> 0, run |-> 0, target |-> "none", after |-> "none",
           msg |-> 0, carries |-> <<>>]
NoRun == [session |-> "none", alloc |-> "none", cancel |-> FALSE,
          close_requested |-> FALSE, result |-> FALSE, finished |-> FALSE, done |-> FALSE]

Init ==
    /\ slots = <<>> /\ live_sessions = {} /\ finished = <<>>
    /\ runs = [r \in Runs |-> NoRun]
    /\ fiber = [r \in Runs |-> "none"]
    /\ call = [c \in Callers |-> NoCall]
    /\ phase = "turn" /\ waited = {} /\ used = 0
    /\ inbox = [s \in Sessions |-> <<>>] /\ pending = [s \in Sessions |-> <<>>]
    /\ sent = 0 /\ read = [m \in Messages |-> 0]
    /\ notices = [r \in Runs |-> 0] /\ hollow = FALSE

----------------------------------------------------------------------------
\* The maps of the registry.

Present(s) == s \in DOMAIN slots
RunOf(s) == IF Present(s) THEN slots[s] ELSE 0

erase(f, s) == [x \in DOMAIN f \ {s} |-> f[x]]
store(f, s, v) == [x \in DOMAIN f \union {s} |-> IF x = s THEN v ELSE f[x]]

\* Mutant: the slot of a session that is there is replaced as a whole.
put_fresh(s) ==
    slots' = store(slots, s, RunOf(s)) /\ inbox' = [inbox EXCEPT ![s] = <<>>]

\* An entry for s; a session that is there keeps its run and its inbox.
put(s) == slots' = store(slots, s, RunOf(s)) /\ UNCHANGED inbox

\* The inboxes go with the slots of the sessions S.
emptied(S) == [s \in Sessions |-> IF s \in S THEN <<>> ELSE inbox[s]]

\* The messages ms reach the agent they were sent to.
handed(ms) == [m \in Messages |-> IF Contains(ms, m) THEN read[m] + 1 ELSE read[m]]

freed(r) == IF r = 0 THEN runs ELSE [runs EXCEPT ![r].alloc = "freed"]
park(r, noticed) == [run |-> r, result |-> runs[r].result, noticed |-> noticed]

At(c, label) == phase = "turn" /\ call[c].pc = label
Goto(c, label) == call' = [call EXCEPT ![c].pc = label]
\* close(s), and what the caller does after it.
GotoClose(c, s, after) ==
    call' = [call EXCEPT ![c].pc = "close", ![c].target = s, ![c].after = after]
Return(c) == call' = [call EXCEPT ![c] = NoCall]

----------------------------------------------------------------------------
\* The subagent tool.  A run is given its number at once.

Subagent(c, s, tool, close) ==
    /\ At(c, "idle") /\ tool \in Tools
    /\ tool = "background" => used < MaxRuns
    /\ used' = IF tool = "background" THEN used + 1 ELSE used
    /\ call' = [call EXCEPT ![c] = [NoCall EXCEPT
          !.pc = "prompt", !.after = IF close \/ Present(s) THEN "put" ELSE "evict",
          !.id = s, !.tool = tool, !.close = close,
          !.new = IF tool = "background" THEN used + 1 ELSE 0]]
    /\ UNCHANGED <<registry, mail, runs, fiber, phase, waited, history>>

\* Mutant: the messages stay queued.
drain_pending_copy(c) ==
    /\ At(c, "prompt")
    /\ call' = [call EXCEPT ![c].pc = call[c].after, ![c].carries = pending[call[c].id]]
    /\ UNCHANGED <<registry, mail, runs, fiber, phase, waited, used, history>>

\* The prompt takes the messages queued for the session.
drain_pending_messages(c) ==
    LET s == call[c].id IN
    /\ At(c, "prompt")
    /\ pending' = [pending EXCEPT ![s] = <<>>]
    /\ call' = [call EXCEPT ![c].pc = call[c].after, ![c].carries = pending[s]]
    /\ UNCHANGED <<registry, inbox, sent, read, runs, fiber, phase, waited, used, history>>

Put(c) ==
    /\ At(c, "put")
    /\ put(call[c].id)
    /\ Goto(c, "register")
    /\ UNCHANGED <<pending, sent, read, live_sessions, finished, runs, fiber, phase, waited, used, history>>

\* register_session, and on to start_background or to the runner.
Register(c) ==
    /\ At(c, "register")
    /\ live_sessions' = live_sessions \union {call[c].id}
    /\ call' = [call EXCEPT ![c].pc = IF call[c].tool = "background" THEN "start" ELSE "sync",
                             ![c].carries = IF call[c].tool = "sync" THEN <<>> ELSE @]
    /\ read' = IF call[c].tool = "sync" THEN handed(call[c].carries) ELSE read
    /\ UNCHANGED <<inbox, pending, sent, slots, finished, runs, fiber, phase, waited, used, history>>

\* The runner returns to a synchronous call: the session is closed, or stays
\* (close_session = false, or the agent asks its parent).
SyncReturns(c) ==
    /\ At(c, "sync")
    /\ GotoClose(c, call[c].id, "unregister")
    /\ UNCHANGED <<registry, mail, runs, fiber, phase, waited, used, history>>

SyncKeeps(c) ==
    /\ At(c, "sync")
    /\ put(call[c].id)
    /\ Return(c)
    /\ UNCHANGED <<pending, sent, read, live_sessions, finished, runs, fiber, phase, waited, used, history>>

\* Mutant: the run the session has is not waited for.
start_background_racing(c) ==
    /\ At(c, "start")
    /\ IF Present(call[c].id) THEN Goto(c, "replace") ELSE Return(c)
    /\ UNCHANGED <<registry, mail, runs, fiber, phase, waited, used, history>>

\* start_background: wait for the run of the session, if it has one ...
start_background(c) ==
    LET s == call[c].id IN
    /\ At(c, "start")
    /\ IF ~Present(s) THEN Return(c)
       ELSE call' = [call EXCEPT ![c].pc = IF slots[s] # 0 THEN "stale" ELSE "replace",
                                 ![c].run = slots[s]]
    /\ UNCHANGED <<registry, mail, runs, fiber, phase, waited, used, history>>

StaleDone(c) ==
    /\ At(c, "stale") /\ runs[call[c].run].done
    /\ Goto(c, "replace")
    /\ UNCHANGED <<registry, mail, runs, fiber, phase, waited, used, history>>

\* ... replace it, if the session is still there ...
ReplaceRun(c) ==
    LET s == call[c].id
        r == call[c].new IN
    /\ At(c, "replace")
    /\ IF ~Present(s)
       THEN Return(c) /\ UNCHANGED <<mail, slots, runs>>
       ELSE /\ slots' = store(slots, s, r)
            /\ runs' = [freed(slots[s]) EXCEPT ![r] =
                  [NoRun EXCEPT !.session = s, !.alloc = "live",
                                !.close_requested = call[c].close]]
            /\ Goto(c, "schedule")
    /\ UNCHANGED <<mail, live_sessions, finished, fiber, phase, waited, used, history>>

\* ... and schedule the fiber, which takes a pointer to the new run.
Schedule(c) ==
    /\ At(c, "schedule")
    /\ fiber' = [fiber EXCEPT ![call[c].new] = "running"]
    /\ read' = handed(call[c].carries)
    /\ Return(c)
    /\ UNCHANGED <<registry, inbox, pending, sent, runs, phase, waited, used, history>>

----------------------------------------------------------------------------
\* interrupt_agent, evict_lru_if_needed and close.

\* The tool finds the session; otherwise it changes nothing.
Interrupt(c, s) ==
    /\ At(c, "idle") /\ "interrupt" \in Tools /\ Present(s)
    /\ call' = [call EXCEPT ![c] = [NoCall EXCEPT !.pc = "cancel", !.id = s, !.tool = "interrupt"]]
    /\ UNCHANGED <<registry, mail, runs, fiber, phase, waited, used, history>>

cancelled(r) == IF r = 0 THEN runs ELSE [runs EXCEPT ![r].cancel = TRUE]

RequestCancel(c) ==
    /\ At(c, "cancel")
    /\ runs' = cancelled(RunOf(call[c].id))
    /\ GotoClose(c, call[c].id, "unregister")
    /\ UNCHANGED <<registry, mail, fiber, phase, waited, used, history>>

\* evict_lru_if_needed: there is room for the new session, or one is closed and
\* the room looked for again.
EvictNone(c) ==
    /\ At(c, "evict")
    /\ Cardinality(DOMAIN slots) < MaxSessions
    /\ Goto(c, "put")
    /\ UNCHANGED <<registry, mail, runs, fiber, phase, waited, used, history>>

Evict(c, s) ==
    /\ At(c, "evict")
    /\ Cardinality(DOMAIN slots) >= MaxSessions /\ Present(s)
    /\ GotoClose(c, s, "evict")
    /\ UNCHANGED <<registry, mail, runs, fiber, phase, waited, used, history>>

\* Mutant: close() waits for a run nobody has told to stop.
close_uncancelled(c) ==
    LET r == RunOf(call[c].target) IN
    /\ At(c, "close")
    /\ call' = [call EXCEPT ![c].pc = IF r # 0 THEN "joining" ELSE "drop", ![c].run = r]
    /\ UNCHANGED <<registry, mail, runs, fiber, phase, waited, used, history>>

\* close(): its run is cancelled ...
close(c) ==
    LET r == RunOf(call[c].target) IN
    /\ At(c, "close")
    /\ runs' = cancelled(r)
    /\ call' = [call EXCEPT ![c].pc = IF r # 0 THEN "joining" ELSE "drop", ![c].run = r]
    /\ UNCHANGED <<registry, mail, fiber, phase, waited, used, history>>

\* ... and waited for, without the lock ...
Joined(c) ==
    /\ At(c, "joining") /\ runs[call[c].run].done
    /\ Goto(c, "drop")
    /\ UNCHANGED <<registry, mail, runs, fiber, phase, waited, used, history>>

\* Mutant: the result goes with the run.
CloseDropUnparked(c) ==
    LET s == call[c].target IN
    /\ At(c, "drop")
    /\ runs' = freed(RunOf(s))
    /\ slots' = erase(slots, s) /\ inbox' = emptied({s})
    /\ live_sessions' = live_sessions \ {s}
    /\ Goto(c, call[c].after)
    /\ UNCHANGED <<pending, sent, read, finished, fiber, phase, waited, used, history>>

\* Mutant: the session stays registered.
CloseDropListed(c) ==
    LET s == call[c].target
        r == RunOf(s) IN
    /\ At(c, "drop")
    /\ finished' = IF r = 0 THEN finished ELSE store(finished, s, park(r, FALSE))
    /\ hollow' = (hollow \/ (r # 0 /\ ~runs[r].result))
    /\ runs' = freed(r)
    /\ slots' = erase(slots, s) /\ inbox' = emptied({s})
    /\ Goto(c, call[c].after)
    /\ UNCHANGED <<pending, sent, read, live_sessions, fiber, phase, waited, used, notices>>

\* ... its result parked, and the bookkeeping of the session dropped.
CloseDrop(c) ==
    LET s == call[c].target
        r == RunOf(s) IN
    /\ At(c, "drop")
    /\ finished' = IF r = 0 THEN finished ELSE store(finished, s, park(r, FALSE))
    /\ hollow' = (hollow \/ (r # 0 /\ ~runs[r].result))
    /\ runs' = freed(r)
    /\ slots' = erase(slots, s) /\ inbox' = emptied({s})
    /\ live_sessions' = IF Present(s) THEN live_sessions \ {s} ELSE live_sessions
    /\ Goto(c, call[c].after)
    /\ UNCHANGED <<pending, sent, read, fiber, phase, waited, used, notices>>

Unregister(c) ==
    /\ At(c, "unregister")
    /\ live_sessions' = live_sessions \ {call[c].target}
    /\ Return(c)
    /\ UNCHANGED <<mail, slots, finished, runs, fiber, phase, waited, used, history>>

----------------------------------------------------------------------------
\* send_message: to the agent that runs, or to the next prompt of its session.
\* The target is looked up, pushed to and queued for in three critical sections.

has_session(s) == s \in live_sessions
resolve_send_target(s) == IF has_session(s) THEN "push" ELSE "queue"

SendMessage(c, s) ==
    /\ At(c, "idle") /\ "message" \in Tools
    /\ s \in Targets /\ sent < MaxMessages
    /\ sent' = sent + 1
    /\ call' = [call EXCEPT ![c] = [NoCall EXCEPT
          !.pc = resolve_send_target(s), !.id = s, !.tool = "message", !.msg = sent + 1]]
    /\ UNCHANGED <<registry, inbox, pending, read, runs, fiber, phase, waited, used, history>>

push_steer(c) ==
    LET s == call[c].id IN
    /\ At(c, "push")
    /\ IF RunOf(s) = 0 \/ runs[RunOf(s)].finished
       THEN Goto(c, "queue") /\ UNCHANGED inbox
       ELSE Return(c) /\ inbox' = [inbox EXCEPT ![s] = Append(@, call[c].msg)]
    /\ UNCHANGED <<registry, pending, sent, read, runs, fiber, phase, waited, used, history>>

\* A full queue keeps what it has; the tool reports the message as queued.
queue_pending_message(c) ==
    LET s == call[c].id IN
    /\ At(c, "queue")
    /\ pending' = [pending EXCEPT ![s] = IF Len(@) >= MaxPending THEN @ ELSE Append(@, call[c].msg)]
    /\ Return(c)
    /\ UNCHANGED <<registry, inbox, sent, read, runs, fiber, phase, waited, used, history>>

\* A running agent polls its inbox between its steps.
drain_steer(s) ==
    /\ \/ \E r \in Runs : fiber[r] = "running" /\ runs[r].session = s
       \/ \E c \in Callers : At(c, "sync") /\ call[c].id = s
    /\ inbox[s] # <<>>
    /\ read' = handed(inbox[s])
    /\ inbox' = [inbox EXCEPT ![s] = <<>>]
    /\ UNCHANGED <<registry, pending, sent, runs, fiber, call, phase, waited, used, history>>

----------------------------------------------------------------------------
\* The fiber of a run.  It reads the run's cancel flag while it works.

\* The runner returns; the result is stored if the session still has this run.
RunnerReturns(r) ==
    /\ fiber[r] = "running"
    /\ fiber' = [fiber EXCEPT ![r] = "storing"]
    /\ UNCHANGED <<registry, mail, runs, call, phase, waited, used, history>>

StoreResult(r) ==
    /\ fiber[r] = "storing"
    /\ runs' = IF RunOf(runs[r].session) = r
               THEN [runs EXCEPT ![r].result = TRUE] ELSE runs
    /\ fiber' = [fiber EXCEPT ![r] = "finishing"]
    /\ UNCHANGED <<registry, mail, call, phase, waited, used, history>>

StoreFinished(r) ==
    /\ fiber[r] = "finishing"
    /\ runs' = [runs EXCEPT ![r].finished = TRUE]
    /\ fiber' = [fiber EXCEPT ![r] = "signalling"]
    /\ UNCHANGED <<registry, mail, call, phase, waited, used, history>>

\* The event outlives the run: the fiber has a handle of its own.
SignalDone(r) ==
    /\ fiber[r] = "signalling"
    /\ runs' = [runs EXCEPT ![r].done = TRUE]
    /\ fiber' = [fiber EXCEPT ![r] = "ended"]
    /\ UNCHANGED <<registry, mail, call, phase, waited, used, history>>

----------------------------------------------------------------------------
\* The turn: at its start no tool call is running.

Settled == {s \in DOMAIN slots : slots[s] # 0 /\ runs[slots[s]].finished}

\* Mutant: what the drain parks is reported again.
park_again(r) == park(r, FALSE)

\* What the drain parks needs no further notice.
park_drained(r) == park(r, TRUE)

\* Mutant: the slot keeps the freed run.
slot_dangling(s) == slots[s]

\* The run is reset in the slot of a session that is kept.
slot_drained(s) == IF s \in Settled THEN 0 ELSE slots[s]

\* drain_settled_runs: every settled run is reported, its session dropped or
\* kept as it asked for ...
drain_settled_runs ==
    LET closing == {s \in Settled : runs[slots[s]].close_requested}
        drained == {slots[s] : s \in Settled} IN
    /\ phase = "turn" /\ \A c \in Callers : Idle(c)
    /\ phase' = "draining" /\ waited' = drained
    /\ notices' = [r \in Runs |-> IF r \in drained THEN notices[r] + 1 ELSE notices[r]]
    /\ hollow' = (hollow \/ \E r \in drained : ~runs[r].result)
    /\ runs' = [r \in Runs |-> IF r \in drained THEN [runs[r] EXCEPT !.alloc = "freed"] ELSE runs[r]]
    /\ finished' = [s \in DOMAIN finished \union closing |->
                       IF s \in closing THEN park_drained(slots[s]) ELSE finished[s]]
    /\ slots' = [s \in DOMAIN slots \ closing |-> slot_drained(s)]
    /\ inbox' = emptied(closing)
    /\ live_sessions' = live_sessions \ closing
    /\ UNCHANGED <<pending, sent, read, fiber, call, used>>

\* ... and waited for; then take_unnoticed_finished reports what close() parked.
take_unnoticed_finished ==
    LET fresh == {s \in DOMAIN finished : ~finished[s].noticed}
        reported == {finished[s].run : s \in fresh} IN
    /\ phase = "draining" /\ \A r \in waited : runs[r].done
    /\ phase' = "turn" /\ waited' = {}
    /\ notices' = [r \in Runs |-> IF r \in reported THEN notices[r] + 1 ELSE notices[r]]
    /\ finished' = [s \in DOMAIN finished |-> [finished[s] EXCEPT !.noticed = TRUE]]
    /\ UNCHANGED <<mail, slots, live_sessions, runs, fiber, call, used, hollow>>

\* The session ends: ~agent_registry cancels every run and waits for them.
destroy_registry ==
    LET left == {slots[s] : s \in DOMAIN slots} \ {0} IN
    /\ phase = "turn" /\ \A c \in Callers : Idle(c)
    /\ phase' = "closing" /\ waited' = left
    /\ runs' = [r \in Runs |-> IF r \in left THEN [runs[r] EXCEPT !.cancel = TRUE] ELSE runs[r]]
    /\ UNCHANGED <<registry, mail, fiber, call, used, history>>

Destroyed ==
    /\ phase = "closing" /\ \A r \in waited : runs[r].done
    /\ phase' = "dead" /\ waited' = {}
    /\ slots' = <<>> /\ live_sessions' = {} /\ finished' = <<>>
    /\ inbox' = emptied(Sessions) /\ pending' = emptied(Sessions)
    /\ runs' = [r \in Runs |-> [runs[r] EXCEPT !.alloc = IF @ = "live" THEN "freed" ELSE @]]
    /\ UNCHANGED <<sent, read, fiber, call, used, history>>

----------------------------------------------------------------------------

CallStep(c) ==
    \/ drain_pending_messages(c) \/ push_steer(c) \/ queue_pending_message(c)
    \/ Put(c) \/ Register(c) \/ SyncReturns(c) \/ SyncKeeps(c)
    \/ start_background(c) \/ StaleDone(c) \/ ReplaceRun(c) \/ Schedule(c)
    \/ RequestCancel(c) \/ EvictNone(c) \/ \E s \in Sessions : Evict(c, s)
    \/ close(c) \/ Joined(c) \/ CloseDrop(c) \/ Unregister(c)

FiberStep(r) == StoreResult(r) \/ StoreFinished(r) \/ SignalDone(r)
TurnStep == take_unnoticed_finished \/ Destroyed

Next ==
    \/ \E c \in Callers, s \in Sessions :
          \/ \E t \in {"background", "sync"}, b \in BOOLEAN : Subagent(c, s, t, b)
          \/ Interrupt(c, s)
          \/ SendMessage(c, s)
    \/ \E s \in Sessions : drain_steer(s)
    \/ \E c \in Callers : CallStep(c)
    \/ \E r \in Runs : RunnerReturns(r) \/ FiberStep(r)
    \/ drain_settled_runs \/ destroy_registry \/ TurnStep

\* Threads and fibers that can run do.  A cancelled agent returns; one that is
\* not cancelled may work as long as it likes.
Fairness ==
    /\ \A c \in Callers : WF_vars(CallStep(c))
    /\ \A r \in Runs : WF_vars(FiberStep(r)) /\ WF_vars(runs[r].cancel /\ RunnerReturns(r))
    /\ WF_vars(TurnStep)

Spec == Init /\ [][Next]_vars /\ Fairness

----------------------------------------------------------------------------

\* The slot of a session owns its run: the run is allocated and of that session.
TypeOK ==
    /\ DOMAIN slots \subseteq Sessions /\ live_sessions \subseteq Sessions
    /\ \A s \in DOMAIN slots :
          slots[s] # 0 => /\ slots[s] \in 1..used
                          /\ runs[slots[s]].session = s /\ runs[slots[s]].alloc = "live"
    /\ DOMAIN finished \subseteq Sessions
    /\ \A s \in DOMAIN finished : runs[finished[s].run].session = s
    /\ used \in 0..MaxRuns
    /\ phase \in {"turn", "draining", "closing", "dead"}

\* agent_tool.cpp:652: the agent_run stays while the fiber dereferences it, up
\* to its store of finished, and while the call that made it schedules it; so
\* does the registry, whose destruction frees every run (agent_tool.cpp:566).
RunOutlivesFiber ==
    /\ \A r \in Runs : fiber[r] \in {"running", "storing", "finishing"} => runs[r].alloc = "live"
    /\ \A c \in Callers : call[c].pc = "schedule" => runs[call[c].new].alloc = "live"

\* agent_tool.h:200: an outcome is reported at most once, by the drain or from
\* what close() parked, and never before there is one.
NoticedOnce == ~hollow /\ \A r \in Runs : notices[r] <= 1

\* A settled run that has not been reported is where the next turn finds it, or
\* a later run of its session has taken its place (agent_tool.cpp:855).
Kept(r) == \/ notices[r] > 0
           \/ RunOf(runs[r].session) = r
           \/ \E s \in DOMAIN finished : finished[s].run = r /\ ~finished[s].noticed
LostOnlyWhenSuperseded ==
    \A r \in Runs : (fiber[r] = "ended" /\ phase # "dead") =>
        \/ Kept(r)
        \/ \E n \in (r + 1)..MaxRuns : runs[n].session = runs[r].session

\* Between two tool calls the registered sessions are those of the registry:
\* what close(), the drain and the tools drop from one they drop from the other.
SessionsAgree ==
    (\A c \in Callers : Idle(c)) => live_sessions = DOMAIN slots

\* A call that interrupts, evicts or closes a session returns, and so does the
\* turn's wait for settled runs, whatever the agents do.
CloseReturns ==
    /\ \A c \in Callers : call[c].pc = "close" ~> call[c].pc # "joining" /\ call[c].pc # "close"
    /\ phase = "draining" ~> phase = "turn"

\* Where a message is: in an inbox, queued, in the prompt of a call, or read.
Copies(m) ==
    read[m] + Cardinality({s \in Sessions : Contains(inbox[s], m)})
            + Cardinality({s \in Sessions : Contains(pending[s], m)})
            + Cardinality({c \in Callers : Contains(call[c].carries, m)})

\* A message that send_message accepted reaches one agent once, through one of
\* the two queues, whatever the runs, the resumes and the closes do meanwhile.
MessageOnce == \A m \in Messages : Copies(m) <= 1

\* A message that waits is lost only with its inbox, when the session is closed
\* before the agent polled it: a resume, a settled run, an eviction of another
\* session and a queue at its limit of 50 lose none (agent_tool.cpp:784).
MailLostOnlyWithSession ==
    [][\A m \in Messages : Copies(m) = 1 /\ Copies(m)' = 0 =>
          \/ phase' = "dead"
          \/ \E s \in DOMAIN slots \ DOMAIN slots' : Contains(inbox[s], m)]_vars
============================================================================
