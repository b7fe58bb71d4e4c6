# KimiX-native in TLA+

A verification development for the native agent runtime in `src/src/`: TLA+
modules translated from the C++ sources, TLC configurations that check them on
small instances, and TLAPS proofs of the results that matter most.
`PROJECT.json` gives, for every definition that models code, the source lines it
stands for; the list of hazards; and a mutant for every property, that is a
plausible bug of the code under which TLC finds the property violated.

Contents: 1 the system; 2 modules and code; 3 runs; 4 fairness; 5 proofs;
6 disagreements between the code and its comments; 7 what is not modelled;
8 plan.

## 1. The system

KimiX-native runs an LLM agent. A *soul* owns a conversation and executes turns;
a turn is a loop of steps; a step sends the history to a provider, receives an
assistant message and dispatches its tool calls. Tools may start sub-agents,
each a soul of its own on a fiber. Everything rests on a small core library
(locks, fibers, allocators) and on stores on disk.

| Component | State | Operations | Interacts through |
|---|---|---|---|
| `core/shared_atomic_mutex` | one 32-bit word: flag, unique count, shared count | lock, unlock, try_lock, upgrade, lock_shared, try_lock_shared, unlock_shared | atomic read-modify-writes of the word; used by graph_db |
| `agent/steer` | pending steers, wake flag, closed flag | push, request, push_sync, drain, clear, close, reopen, reset_wake | mutex and condition variable; pushed by UI threads, drained by the turn |
| `agent/soul` | history, turn handles, budgets, steer queue, guards | turn, compact_context, dispatch of tool calls, notices | provider, tools, cancel token, steer queue, registry |
| `agent/step_retry` (with `chat_with_step_retry`) | attempt counter, two recovery flags; the backend's output budget | request, retry, refresh credentials, re-arm the transport | provider, cancel token |
| `builtin_tools/compact_tool` | none (a function of the history) | resolve_preserve_split | called by the soul's compaction |
| `builtin_tools/agent_tool` | slots, runs, registered sessions, parked results, message queues | subagent, interrupt_agent, send_message, list_agents; start_background, close, evict, drain_settled_runs, destruction | spin lock, one fiber per run, done events, cancel flags |
| `agent/tool_loop_guard` | streaks and counters of calls | record_call, begin/end_step, reset | called by the dispatch |
| `agent/compaction_ledger`, `context_db`, `context_pruning` | ledger file, SQLite store, elided originals | transactions of a compaction, migration, pruning | files; replace the history |
| `agent/approval`, `hooks_engine`, `verification_gate`, `dynamic_injection` | grants, hook table, nudge count, cooldowns | request, trigger, check, inject | called by the turn |
| `builtin_tools/process_runner`, `job_output`, `workflow_tool` | child processes, job table, rate limiter | spawn, poll, kill; fan-out with retries | pipes, timeouts, the registry |
| `graph_db` | vertices, edges, key index, schema; undo journal; dirty marks and tombstones; cold store | create, free, edit, move; begin, commit, abort, batches; incremental and full save, load; queries | one write lease, content updates beside it; shared_atomic_mutex; LMDB |
| `llm`, `mcp` | connection, stream decoder; pending JSON-RPC calls | chat; call, connect, close | HTTP, pipes of a child |
| `core/fiber`, `pool`, `first_fit` | scheduler (external), free lists | schedule, parallel, events; allocate, free | threads |
| `runtime`, `cli`, `api`, `python` | buffers, indexes, terminal | codecs, search, REPL, C interface | the components above |

Where it is hard:

* *concurrency*: UI threads steer and cancel a running turn; background runs
  settle on fibers while tool calls resume, interrupt and evict them; readers,
  writers and upgraders meet on one atomic word;
* *failure*: requests fail in a dozen ways, each with its own recovery and
  budget, and the budgets are nested; contexts overflow; agents loop;
* *ordering*: a history is only valid when every tool call has its results, and
  five different operations rewrite it; steers must arrive in order and in the
  turn they were meant for; an outcome must be reported once;
* *persistence*: a save carries only what is marked, runs beside content updates, may
  be refused by the store, and the process may die at any point; a transaction is
  undone from a journal that may be full;
* *lifetime*: a fiber dereferences an object that the registry owns;
* *limits*: packed counters, session and message caps, an output budget that
  only grows.

What makes the modelled components correct: the lock excludes, counts exactly,
prefers writers and never leaves everybody stuck; steers are injected in order,
once, and never into a turn they were queued before; every request carries a
paired history; a cancelled answer is dropped; every turn ends, on an answer if
it ended well; a step's requests are bounded and its recoveries come last;
compaction keeps pairs and the newest messages; a run outlives its fiber, every
outcome is reported once, a message reaches one agent once, and nothing hangs in
closing a session; an aborted transaction leaves the graph as it found it, no edge
dangles, no clean record differs from the store, and the store always loads.

## 2. Modules and code

| Module | Models | State and steps |
|---|---|---|
| `ReadWriteLock` | what `shared_atomic_mutex.h` promises | three sets of threads; one action per promise |
| `SharedAtomicMutex` | `core/shared_atomic_mutex.{h,cpp}` | the word as a record with carries between its fields, each thread's position and its local `oldval`; one step per atomic access, so a compared value may be stale |
| `SharedAtomicMutexProofs` | | inductive invariant, refinement |
| `SteerQueue` | `agent/steer.{h,cpp}` | queue, wake flag, closed flag, turn handle, each caller's position; one step per critical section or atomic access |
| `PreserveSplit` | `resolve_preserve_split` and helpers of `compact_tool.cpp`, `soul_apply_preserve_split` | pure operators over histories |
| `PreserveSplitProofs` | | lemmas on the cuts of a compaction; two theorems about any history and depth |
| `SoulTurn` | `KimiSoul::turn` and what it calls | extends `SteerQueue` and `PreserveSplit`; one action per stretch of the turn's thread between two accesses to shared state |
| `SoulTurnProofs` | | inductive invariants, a variant, eleven theorems |
| `StepRetry` | `KimiSoul::chat_with_step_retry`, `step_retry.{h,cpp}` | attempt, recovery flags, last answer, output budget; requests, answers and sleeps are steps, so a cancellation falls between them |
| `StepRetryProofs` | | inductive invariant, seven theorems |
| `AgentRegistry` | `agent_registry` and the subagent, interrupt_agent and send_message tools, the fibers of background runs, the notices at the start of a turn | slots, runs as heap objects that a step may free, fibers, callers, the inbox and the pending queue of each session; one step per critical section of `_mutex` |
| `AgentRegistryProofs` | | inductive invariants, seven theorems |
| `GraphDb` | the write side of `graph_db`: `database.cpp`, `transaction.cpp`, `graph.cpp`, `edge.cpp`, `schema.cpp`, `serialize.cpp` | the graph as four functions, the journal as a sequence of undo records, dirty marks, tombstones, the batch in flight and the store; a command is one step, a strip, a rollback and a save are stepped loops |
| `GraphDbProofs` | | inductive invariants, seven theorems |
| `MC*` | | values for TLC |

Composition. `SoulTurn` EXTENDS `SteerQueue` and `PreserveSplit`: the turn's
side of the queue is a set of operators (`drain`, `clear`, `close`, `reopen`,
`reset_wake`) that actions of the turn conjoin, the callers' side is
`CallerNext`. A request of `SoulTurn` is one whole call of
`chat_with_step_retry`, whose inside is `StepRetry`: success, an empty response,
a failure that calls for a restart, a final failure, or an abort. The notices
with which a turn begins are what `AgentRegistry` drains; `drain_steer` of
`AgentRegistry`, the poll of a running agent, is the external steer of that agent's
`SoulTurn`. `SharedAtomicMutex` implements `ReadWriteLock` under the refinement mapping `RWL`.

Data. A message is its role, its number of tool calls and a tag for its text; a
tool result is a tool result whatever it says; a steer is the caller and the
number of its call. Token counts, and with them the decision that a compaction
is due, the counters of the loop guard and the findings of the verification
gate are free choices. A tool call of a step is refused, rejected, run or copied
from an equal one (`DispatchRefused`, `DispatchRejected`, `DispatchRun`,
`DispatchCopied`), or all of them go through the parallel dispatch
(`DispatchParallel`), which is one step because nothing but its results leaves
the stretch of the workers. One tool changes the history itself: `context_prune` in
mode `compact` compacts it while the answer that called the tool still has calls
without results (`DispatchCompact`, and at most one such call in a parallel
dispatch); `ToolCallsPaired` says that the results appended afterwards still find
their calls.

`GraphDb`. A vertex is its key and its payload, an edge its endpoints and its payload;
a payload gives each symbol a value or nothing. Labels and property types are two
registries that work alike, and `Sym` stands for both; the direction of an edge is
journaled, undone and saved with its values and is one of them. `tx` is the open
scope (`none`, `write`, `read`, `collective`, or `bulk` for the one a batch opens for
itself), `journal` and `bytes` are its `Transaction`. `act` is the loop the writing flow
is in: `strip` after a freed symbol, `abort` or `batch` while `_rollback` replays the
journal from its end, `encode`, `store` and `clear` for the stages of
`GraphSerializer::_write`. `dirty` and `gone` are the dirty index and the lists of
removed ids. A mark has an epoch in the code, so that a save does not clear the mark of
what changed beside it; `batch.touched` holds the vertices whose epoch has moved.
`save_batch` is one store transaction and is atomic; `save_refused` is its failure.
`crash_open` is a death of the process between any two steps followed by `open`, whose
`load` is `Loaded`. Three history variables serve the properties: `saved` is the graph
when the transaction began, `lost` says that a change had no undo record (or a record no
change), `adrift` are the edges whose dirty mark an undo did not keep.

Names are those of the source where TLA+ allows it. Definitions marked `Mutant`
are used by no specification.

## 3. Runs

| Run | Module, cfg | Checks | States |
|---|---|---|---|
| `mutex` | `MCSharedAtomicMutex` | `MutualExclusion`, `CountsExact`, `WriterPreference`, `WriterProgress`, `ReaderProgress`, `RefinesReadWriteLock` | 17 k |
| `steer` | `MCSoulTurn`, `MCSoulTurnSteer` | `SteersInOrder`, `AbortedStepGoesOn`, `NoStaleSteer` | 4.5 M |
| `steps` | `MCSoulTurn`, `MCSoulTurnSteps` | `TypeOK`, `ToolCallsPaired`, `Answered`, `CompactionsSound`, `TurnAdvances`, `CancelledAnswerDropped` | 1.1 M |
| `turn_live` | `MCSoulTurn`, `MCSoulTurnLive` | `SyncTrueTaken`, `SteerKept`, `SyncReturns` | 260 k |
| `retry` | `MCStepRetry` | `TypeOK`, `RequestsBounded`, `BudgetSpentFirst`, `CancelStopsRetries`, `FailureStandsLast`, `EscalationNeverShrinks` | 77 k |
| `registry` | `MCAgentRegistry` | `TypeOK`, `RunOutlivesFiber`, `NoticedOnce`, `LostOnlyWhenSuperseded`, `SessionsAgree`, `MessageOnce`, `CloseReturns`, `MailLostOnlyWithSession` | 559 k |
| `graph_tx` | `MCGraphDb`, `MCGraphTx` | `TypeOK`, `GraphOK`, `AbortRestores` | 2.1 M |
| `graph_store` | `MCGraphDb`, `MCGraphStore` | `TombstonesDead`, `VertexImage`, `EdgeImage`, `StoredEdgesLoad` | 2.5 M |
| `registry_race` | `MCAgentRegistry`, `AgentRegistryRace` | `RunOutlivesFiber`, violated with two calls at a time (section 6) | |
| `retry_refresh` | `MCStepRetry`, `StepRetryRefresh` | `RefreshOutsideBudget`, violated (section 6) | |
| `graph_abort`, `graph_lost_edge` | `MCGraphDb`, `GraphAbort`, `GraphLostEdge` | one statement of the code's comments each, violated (section 6) | |

To run one: `tlc -workers 2 -config MCStepRetry.cfg MCStepRetry` in this
directory.

Bounds, and why they are enough:

* `mutex`: three threads are the fewest with which a reader, a waiting writer
  and a third thread's late compare-and-swap meet. The two counters have four
  values each, one more than the threads need, so that one count too many carries
  into the next field. The proofs lift the safety part to every set of threads
  smaller than the counters.
* `steer`: two threads with one call each, of any kind but `push_sync` (which
  does to the queue what `request` does; its wait is in `turn_live`), over two turns
  of two steps, each begun with or without a notice: a steer can be queued
  before, during and between the turns, taken at any drain, cleared or refused,
  and overtaken by that of the other thread. The
  two threads are interchangeable, and neither property tells them apart, so
  they are a symmetry set. `MaxTools = 0` keeps the steps short.
* `steps`: no steering threads; three steps with up to two calls each, one steer
  of a parent agent, one of every budget (restart, overflow, recovery, nudge),
  compaction from four messages on, at depth 1 by itself or by the tool and at depth 2
  after an overflow. Three steps let a compaction
  fall between two exchanges with tool calls, and every budget be spent and then
  asked for again. `CompactionsSound` looks at every history of the run at which the
  code may compact, with every depth, not only at the compactions taken; the proofs
  lift it to every history and depth.
* `turn_live`: one step, because the liveness check pays for every state of the
  two callers; both may be in `push_sync` while the turn overflows, fails or is
  cancelled. The run is about the waiters; that a turn with all its budgets comes to an
  end is `TurnAdvances` of `steps`.
* `retry`: a budget of three attempts, one status of every class, five calls and
  an output budget of six bits, so that it overflows within the run; starting
  values 0 (unset), 2 and 24 (just below the overflow). `retry_refresh` is one call of it.
* `registry`: two sessions of which one fits, two runs, one tool call at a time
  (the default of the dispatcher). One session at the limit makes every new one
  evict; two runs allow a resume, or a run of each session. Two messages to one
  of the sessions (`Targets`), and a pending queue of one (`MaxPending`, 50 in the code): both
  inboxes can hold a message at once, and the queue can be full. The violation
  run `registry_race` has two calls at a time and no messages.
* `graph_tx`: two vertices, an edge, a symbol that is the label of the only key, one
  value, two names, and a journal of four units, in memory. An entry costs one unit (a
  creation), two (a payload) or two and the edges of its cascade, so that transactions
  of one to four commands fit and every command meets the full journal. With one edge a
  cascade, a self edge and an edge moved between the vertices all happen. The proofs lift
  the properties to every size.
* `graph_store`: two vertices and an edge, without symbols and keys (a save treats all of
  a record alike), two contents, a journal of three units. Both vertices and the edge
  can be dirty, saved, removed, undone, and be in a batch that the store refuses, in every
  order, and the process can die in each of these states.

Deadlock is checked in the runs of `SharedAtomicMutex`, `SoulTurn` and `GraphDb`. It is not
in `retry` and `registry`, where the bound on calls and the end of the session really
stop the system.

Counters the code does not bound are bounded by named constants: `MaxTurns`,
`MaxCalls`, `MaxRuns`, `MaxMessages`; guids, symbol ids and names of `GraphDb` are bounded by
their sets (an id is never minted twice). The others (`MaxSteps`, `MaxRestarts`,
`MaxOverflow`, `MaxRecovery`, `MaxNudges`, `MaxRetriesPerStep`, `MaxSessions`, `MaxPending`,
`Cap`) are limits of the code itself.

Properties, where they need a word:

* `TypeOK` of `SharedAtomicMutex` is a part of the inductive invariant and of no run: the
  arithmetic wraps inside the word, so it holds whatever the calls do. That no field
  carries into its neighbour is `CountsExact`. `ReaderProgress` has the same concern from
  the waiter's side: a count that nobody owns would shut the readers out for ever.
* `TurnAdvances` says in one step what a turn's end needs: a lexicographic variant (phase,
  steps left, stage of the step, restarts left, part of the request, overflow retries left,
  calls to dispatch) goes down with every step of the turn's thread, while cancelling and
  steering leave it alone. Recovery rounds and nudges have budgets of their own and cost a
  step each, which is why they are not in it. With the bounds of `TypeOK` and without
  deadlock, a turn whose thread runs on ends. As a leads-to property it would need a check of
  liveness over all budgets at once, which is out of TLC's reach at these bounds.
* `BudgetSpentFirst` is about steps without a refresh of the credentials, where the code
  and its comments agree; with one they do not, which is `RefreshOutsideBudget`.
* `Answered` excepts a turn the user stopped by rejecting a call: it ends on the
  tool results, as `tool_rejected` says.
* `LostOnlyWhenSuperseded` is what the code gives: a settled run is reported,
  or a later run of the session took its place. That every outcome is reported, as the
  tool promises, does not hold; section 6.
* `AbortedStepGoesOn`, `SyncTrueTaken` and `MailLostOnlyWithSession` name their exceptions
  (the restart attempts, the steers a beginning turn drops, the inbox of a closed session),
  because the code has them; each is in section 6.
* `AbortRestores` has the proviso `~lost`, which the run reaches both ways: a journal at
  its cap, and the warning of a key that exists, leave the journal out of step.
  `AbortRestoresAlways` is the promise of `database.h` without it.
* `GraphOK` is checked where the commands and the undo are; that it survives saves,
  crashes and loads is `GraphSound` (section 5).
* `EdgeImage` and `StoredEdgesLoad` leave out `adrift` edges; `RebornEdgeImage` does not.
* `EscalationNeverShrinks` allows the wrap of the conversion to `int32_t`: the
  budget then becomes negative, which the next escalation takes for unset. What
  it excludes is a budget that is positive and smaller.
* `CancelStopsRetries` allows one late request, because the sleep before a
  retry does not look at the token.

## 4. Fairness

* `SharedAtomicMutex`: a thread inside `lock()`, `upgrade()` or `lock_shared()` keeps
  running; a holder unlocks, which the header requires of critical sections; a
  compare-and-swap that may succeed does not fail spuriously for ever. That says nothing
  for a single reader: writers starve readers by design, and a reader may lose every
  race, so `ReaderProgress` is about some reader while no writer wants the lock. No
  thread has to call.
* `SoulTurn`: the turn's thread runs on, since requests and tools return, by
  their own timeouts if nothing else, and a thread inside a call of the queue runs
  on. Nobody has to start a turn, steer, cancel, or give `push_sync` a timeout.
* `AgentRegistry`: tool calls, the turn and fibers run on where they can; an agent
  returns if it has been cancelled, because its soul polls the flag at each step
  and while it streams, and need never return if it has not.

`StepRetry`, `PreserveSplit` and `GraphDb` state safety only; the bound on requests makes
a call of `StepRetry` finite.

## 5. Proofs

`SharedAtomicMutexProofs`, from `SizeAssumption` (a finite set of threads smaller
than each counter, which is the contract of the 15- and 16-bit fields). Mutual
exclusion is not inductive: a compare-and-swap knows only the word, so the word
must be known to count holders and waiters exactly, which in turn needs the
fields not to overflow. The inductive invariant is
`TypeOK /\ CountsExact /\ MutualExclusion`. `CountBound` turns the assumption into
facts on cardinalities, `Moves` gives the sets after a thread has moved, and
`StepIInv` has one step per action. `Exclusion` and `Exactness` follow; `Preference` and `Refinement` are proved step by step from the same
invariant: each action is an action of `ReadWriteLock` or leaves its three sets
alone.

`StepRetryProofs`, for every budget (also one of zero or less, which the policy
turns into one attempt), every set of statuses and every width of the output
budget. The bound on requests rests on `Accounted`: the attempts of a call are the
first one, those the budget paid for, and one for each recovery made, and the
counter exceeds the budget only by the recoveries. The bound after a cancellation
rests on `LateOnlySent`. The inductive invariant joins these with `TypeOK`,
`BudgetSpentFirst`, `CancelStopsRetries` and `FailureStandsLast`. `EscalationSafe`
needs two lemmas on the arithmetic of `escalate`.

`RetryTypes` is the type invariant of the same conjunction.

`GraphDbProofs`, for every set of vertices, edges, symbols, names, keys, values and
contents, every cap of the journal and every option but one: `SelfEdges` is assumed,
because without it the undo of a freed self edge is refused by `adopt_edge` although
`_move_edge_endpoint` lets such an edge come about (section 6). The other assumptions
are those of the module: ids of different kinds differ, and `None` is no record. There
are two inductive invariants.

* `StoreInv == Ready /\ Remembered /\ BatchOK /\ Images`, for the store. The image
  properties speak of what has no mark, so a step keeps them if everything it changes is
  marked: `Covers(h, d, t, a)` says that whatever in the graph `h` has no mark in `d`, no
  tombstone in `t` and is not adrift in `a` is as it is now, and had no mark before. Each
  command has a lemma that it covers what it did and journals one entry that undoes it
  (`...Recorded`), and so has the undo (`CoverUndo`). `Ready` has the types, `Marked` (no
  edge dangles and no live id has a tombstone), `UsedOK` and `Stripping`; `Remembered`
  says that every id the store or the journal can bring back was minted, so that none
  is minted again; `BatchOK` what each stage of a save knows of its batch. `GraphTypes`,
  `TombstonesSafe`, `VerticesSaved`, `EdgesSaved` and `StoreLoads` follow.
* `TxInv`, for the transaction. `AbortRestores` is about the end of a loop; the invariant
  has to say, at every length of the journal, that replaying it from here leads to the
  graph of the beginning. Recursion over the journal is avoided by a history: `Chained(q, g,
  start)` says that there are graphs `past[1] = start, ...`, one for each entry, such that
  `Undo` of the i-th entry takes the (i+1)-th to the i-th, each consistent. A command
  pushes one entry and extends the chain (`ChainPush`, by the lemma that its entry undoes
  it: `UndoRemoveVertex`, `UndoEdgeState`, `UndoName`, ...), a turn of the rollback pops
  one (`ChainPop`), and the empty chain is `graph = saved` (`ChainEmpty`). `AbortExact`
  follows; `GraphSound` (`GraphOK` as long as nothing is lost) does because the chain and
  the store (`DiskOK`) hold consistent graphs.

`PreserveSplitProofs` has what the operators of a compaction do to any history, with any
number of calls an answer. The definition of a well-paired history looks at every call
and counts its results; `Owed(h, n)` is the form proofs can use: everything before the last
answer is paired, and `n` results are still to come. `ExtendResults`, `ExtendUsers` and
`ExtendOpens` say how it grows; `CompactedHistory` that a compaction at any depth keeps it,
whatever `n` is, because the cut `snap_left` ends at parts no call from a result.
`snap_left` is the greatest balanced cut not above its argument, and facts of it come
from that maximum, not from an induction over the history. `SplitIsSound` says that the
fallback to the cut 1 is dead code; `CompactionKeepsVoices`, by an injection of the voices a
depth counts into those behind the cut, that the newest ones survive.

`SoulTurnProofs`, for any number of steering threads, calls, turns, steps, tool calls and
every value of the budgets, from `TurnAssumption` and `SteerAssumption` (the limits are
naturals). Steps are first classified (`QueueSteps`, `SteerSteps`, `HistorySteps`: what any
action can do to the queue, to its ghosts, to the history), so that each invariant is shown
for a handful of kinds of step in place of the 37 actions.

* `QueueOrder`: the queue is the end of what it took, what was injected is a part of
  what is before that, in the same order, and the mark that a beginning turn sets is not
  inside the queue. `SteersInOrderHolds` and the action property `NoStaleSteerHolds`
  follow. `SteerKeptHolds` and `SyncTrueTakenHolds` have the hypothesis that nobody calls
  `Steer::clear` (`"clear" \notin Ops`, as in the run `turn_live`): a caller's `clear` loses
  steers by design, and then a waiting `push_sync` finds its steer gone without a turn having
  taken it. `SyncInv` adds what a thread inside `push_sync` has seen.
* `TurnTyped /\ PendingInv /\ HistoryInv`: a budget is below its limit wherever an action
  increments it; calls wait for results only in the dispatch; and the history is `Owed` by
  exactly `pending` results at every point, not only at the requests, which is what makes
  the pairing inductive through a compaction called from inside an exchange. The filter of
  `strip_system_reminders` is a recursive function; that it keeps the pairing is shown with
  the smallest prefix at which it would fail. `TypeCorrect` and `ToolCallsPairedHolds` follow,
  and with `CompactedHistory` and `CompactionKeepsVoices` `CompactionsSoundHolds`.
* `TurnAdvancesHolds`: `Lexicographic` unfolds the order on the seven places of the variant,
  `StepNearer` has one step per action or group of actions with the place that goes down.
  Together with `TypeCorrect` this is the safety half of termination for every value of the
  budgets; the other half is fairness.
* `EarlyInv` (a turn cancelled early only moves towards its end) gives the action property
  `CancelledAnswerDroppedHolds`; `AbortInv` (a request aborted outside a restart finds the
  flag that aborted it still up, since no other thread lowers it) gives
  `AbortedStepGoesOnHolds`; `AnswerInv` (an answer without calls stays the last message until
  its step ends) gives `AnsweredHolds`.

`AgentRegistryProofs`, for any number of sessions, runs and messages and every limit.
`RegSteps` and `RunSteps` classify the steps by what they do to slots and runs: nothing, put
a run into a slot, start it, drop it, drain the settled ones.

* `Owned`, for any number of concurrent tool calls: types, the fields a call has set at each
  of its positions, every live run in the slot of its session and every slot on a live run
  (`OwnInv`), and a run's flags as far as its fiber is (`FiberInv`). `TypeCorrect` follows.
* `MailInv`, also for any number of calls: the places of a message exclude each other, pair
  by pair; `CopiesFacts` turns this into the cardinality that `MessageOnceHolds` is about.
* `Guarded`, for one call at a time (`Serial`, the default of the dispatcher): what a call
  relies on between two critical sections (`CallInv`: the slot it looked at is still as it
  saw it), `LiveInv`, `ClosingInv`, `NoticeInv` (a run that can still be reported has
  not been) and `KeptInv`. It gives `RunOutlivesFiberHolds`, `NoticedOnceHolds`,
  `LostOnlyWhenSupersededHolds`, `SessionsAgreeHolds`, and with `BoxInv` the action property
  `MailLostOnlyWithSessionHolds`. The hypothesis is needed: `registry_race` is the
  counterexample to `RunOutlivesFiber` with two calls.

All safety properties of the passing runs are proved. Model-checked only are
`WriterProgress`, `ReaderProgress`, `SyncReturns` and `CloseReturns`: liveness under fairness is
out of the prover's reach.

## 6. Disagreements between the code and its comments

With a run whose counterexample shows it:

* `registry_race`: with parallel dispatch, the second half of `close()` can free a
  run that was started after its first half looked (`agent_tool.cpp:684`, `:652`).
* `retry_refresh`: the attempt after `refresh_auth` goes through the loop's `++attempt`
  (`soul.cpp:2341`, `:2412`) and costs the step one retry of its budget, against "without
  costing the retry budget" (`soul.cpp:2410`) and "OUTSIDE the retry budget" (`soul.h:177`).
  The test `auth_401_refresh_true_retries_outside_the_budget`
  (`test_connection_recovery.cpp:127`) succeeds at once and does not see it.
* `graph_abort`: with `KeyMode::report_warning`, `create_vertex` of a key that exists
  journals the creation of the existing vertex (`database.cpp:469`: a warning is no
  error), and the abort removes it; "abort() restores the pre-begin state exactly"
  (`database.h:460`, `transaction.h:9`).
* `graph_lost_edge`: the undo of a freed edge rebuilds it clean (`database.cpp:2147`). If
  it was never saved, no incremental save writes it; the comment at `edge.cpp:217` says
  that the flag is kept on this very path.

Seen in the models and while reading, without a run of their own:

* the journal at its cap: `free_vertex` removes the vertex and its edges before the push
  that fails, and the entry that holds them is dropped (`database.cpp:547`); the strips
  after a freed label or property type ignore the failure (`database.cpp:391`, `:400`).
  The abort cannot restore either, while `graph_db_options.h:26` says that the
  transaction is still abortable (`lost` in `GraphDb`);
* a batch that fails inside a caller's transaction rolls back all the caller did before,
  and leaves the transaction open (`database.cpp:630`);
* `set_edge_origin` and `set_edge_target` do not look at `allow_self_edges`
  (`graph.cpp:675`), while the undo and the load refuse a self edge (`graph.cpp:3207`);
* the verification gate's nudge is appended as a `<system-reminder>` message and
  stripped by the next step before the request is built; the model is asked again
  without it (`soul.cpp:3671`, `verification_gate.h:13`);
* `push_sync` answers true for a steer that the beginning turn dropped as stale
  (`steer.cpp:72`, `steer.h:58`);
* a steer during a session-restart attempt aborts the request and ends the turn with
  `chat_failed` (`soul.cpp:3446`, `steer.h:8`);
* a background resume drops the outcome of a settled run that has not been reported
  (`agent_tool.cpp:857`, `:1922`);
* `send_message` reports a message as delivered as long as the run has not stored its
  end, also after the agent's last poll (`agent_tool.cpp:910`): it is then read by the next
  run of the session, after younger messages from the pending queue, or lost with the
  session;
* a steer accepted after the last drain of a turn and before `close()` is dropped
  by the next turn (`soul.cpp:3650`; the comment at 3647 says never);
* `Steer::push` answers true for a steer the queue refused, when the turn ends
  between its check and its push (`steer.h:106`);
* `steer.cpp:50` says that a loop which sees the wake flag finds a steer; a `clear`
  between the two steps of `request` leaves the flag alone;
* the wait a retry announces and the one it sleeps are two draws of the jitter
  (`soul.cpp:2391`);
* an empty response in a restart attempt ends the turn before cancellation is
  looked at (`soul.cpp:3471`; the comment at 3403 puts cancellation first);
* in the parallel dispatch a copy of a call whose tool cannot be created gets an
  empty result, and calls after a pure rejection are skipped, where the serial
  dispatch copies the refusal and runs them (`soul.cpp:2072`, `:2123`; the comment
  at 1977 says that the outcome is identical);
* `queue_pending_message` drops a message at its cap while `send_message` reports
  it as queued (`agent_tool.cpp:784`).

## 7. What is not modelled

`PROJECT.json` lists every component with its status. Left out for good: text and
JSON processing (prompts, argument repair, name resolution, parsers, grep, diff),
file and terminal I/O, provider encodings, vendored code (mbedtls, SQLite, LMDB,
marl, moodycamel), generated tables, the Python and Lua bindings. Memory orderings
weaker than sequential consistency are taken as the source argues them: every
read-modify-write is one step, relaxed loads may be stale. Time is left out:
timeouts may fire at any moment, sleeps last any time, and the least recently used
session is any session.

Left out of modelled components: `join_run` and `clear_run` (called by tests only) and
the display fields of an entry in `AgentRegistry`; in `GraphDb` the queries, readers beside
the writer, `close` and `load_store` into a graph that holds data, the batch of edges
(row by row like that of vertices), the conversion of stores of format 1 and the two
backends below `save_batch`; the wire, recorder and ledger records, the pruning of requests
and a second `context_prune` in one parallel dispatch (a data race) in `SoulTurn`; the length of a backoff in `StepRetry`.

## 8. Plan

1. *Compaction transaction*: begin, snapshot, summary, stability check, shrink check,
   apply, ledger end, as a module that `SoulTurn` uses in place of `compact_context`;
   with it two `context_prune` calls of one parallel dispatch, which race on the history.
2. *ToolLoopGuard*: streak, cycle and per-tool counters, against a reference
   definition over sequences of calls; then `record_call` of `SoulTurn` is no free
   choice any more. With it the parallel dispatch as a module, against the serial one
   as its specification.
3. *process_runner and job_output*: the job table with the child as an external actor.
4. *graph_db*: readers beside the writer, over the shard locks; `close` and `open` of a
   database that holds data.
5. *FirstFit*, *event_ring*, *mcp_client*, *workflow_tool*, *context_db* migration.

Proofs to come: which registry properties survive two calls at a time when they name
different sessions; the modules above as they are written.
