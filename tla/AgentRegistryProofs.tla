------------------------ MODULE AgentRegistryProofs ------------------------
(***************************************************************************)
(* The invariants of the registry of sub-agents.  The ownership of runs by *)
(* slots, and the mail, are proved for any number of tool calls at a time; *)
(* what the calls promise to each other's runs for one call at a time,     *)
(* which is what they need: the run registry_race shows that two break it. *)
(***************************************************************************)
EXTENDS AgentRegistry, FiniteSetTheorems, SequenceTheorems, TLAPS

Ids == Sessions \union {"none"}
Labels == {"idle", "prompt", "evict", "put", "register", "sync", "start", "stale", "replace",
           "schedule", "cancel", "close", "joining", "drop", "unregister", "push", "queue"}
CallRec == [pc : Labels, id : Ids, tool : {"none", "background", "sync", "interrupt", "message"},
            close : BOOLEAN, new : 0..MaxRuns, run : 0..MaxRuns, target : Ids,
            after : {"none", "put", "evict", "unregister"}, msg : 0..MaxMessages,
            carries : Seq(Messages)]
RunRec == [session : Ids, alloc : {"none", "live", "freed"}, cancel : BOOLEAN,
           close_requested : BOOLEAN, result : BOOLEAN, finished : BOOLEAN, done : BOOLEAN]
Parked == [run : Runs, result : BOOLEAN, noticed : BOOLEAN]

\* Where a call may be, with which of its fields set.
Starting == {"start", "stale", "replace", "schedule"}
CallOK(v) ==
    /\ v.pc = "idle" => v = NoCall
    /\ v.pc # "idle" => v.id \in Sessions
    /\ v.pc \in {"close", "joining", "drop", "unregister"} => v.target \in Sessions
    /\ v.pc = "prompt" => v.after \in {"put", "evict"}
    /\ v.pc \in {"close", "joining", "drop"} =>
          v.after \in {"evict", "unregister"} /\ (v.after = "evict" => v.tool \in {"background", "sync"})
    /\ v.pc \in {"stale", "joining"} => v.run # 0
    /\ v.tool = "background" => v.new \in 1..used
    /\ v.tool # "background" => v.new = 0
    /\ v.pc \in Starting => v.tool = "background"
    /\ v.pc \in {"prompt", "evict", "put", "register"} => v.tool \in {"background", "sync"}
    /\ v.pc \in {"sync", "cancel", "unregister", "push", "queue"} => v.tool # "background"
    /\ v.pc \in {"close", "joining", "drop"} /\ v.after = "unregister" => v.tool # "background"
    /\ v.pc \in {"push", "queue"} => v.msg \in 1..sent
    /\ v.carries # <<>> => /\ v.pc \notin {"idle", "prompt", "sync", "cancel", "unregister",
                                           "push", "queue"}
                           /\ v.pc \in {"close", "joining", "drop"} => v.after = "evict"

FiberLabels == {"none", "running", "storing", "finishing", "signalling", "ended"}
MapsTyped ==
    /\ used \in 0..MaxRuns
    /\ DOMAIN slots \in SUBSET Sessions /\ \A s \in DOMAIN slots : slots[s] \in 0..used
    /\ live_sessions \in SUBSET Sessions
    /\ DOMAIN finished \in SUBSET Sessions /\ \A s \in DOMAIN finished : finished[s] \in Parked
    /\ runs \in [Runs -> RunRec] /\ fiber \in [Runs -> FiberLabels]
    /\ phase \in {"turn", "draining", "closing", "dead"} /\ waited \in SUBSET Runs
    /\ notices \in [Runs -> Nat] /\ hollow \in BOOLEAN
MailTyped ==
    /\ sent \in 0..MaxMessages /\ read \in [Messages -> Nat]
    /\ inbox \in [Sessions -> Seq(Messages)] /\ pending \in [Sessions -> Seq(Messages)]
CallsTyped ==
    /\ call \in [Callers -> CallRec]
    /\ \A c \in Callers : CallOK(call[c])
    /\ phase # "turn" => \A c \in Callers : Idle(c)

\* A run of a slot is live and of its session, and so is a parked one of the session
\* it was parked for; a run that is still to be made is nobody's.
Unmade(r) == runs[r].alloc = "none" /\ fiber[r] = "none"
SlotsOwn ==
    \A s \in DOMAIN slots :
       slots[s] # 0 => runs[slots[s]].session = s /\ runs[slots[s]].alloc = "live"
LiveOwned == \A r \in Runs : runs[r].alloc = "live" => RunOf(runs[r].session) = r
ParkedOwn ==
    \A s \in DOMAIN finished : /\ runs[finished[s].run].session = s
                               /\ runs[finished[s].run].alloc = "freed"
NewOwn ==
    /\ \A r \in Runs : r > used => Unmade(r)
    /\ \A c \in Callers : call[c].new # 0 /\ call[c].pc # "schedule" => Unmade(call[c].new)
    /\ \A c \in Callers : call[c].pc = "schedule" => /\ fiber[call[c].new] = "none"
                                                     /\ runs[call[c].new].alloc # "none"
    /\ \A c, d \in Callers : c # d /\ call[c].new # 0 => call[c].new # call[d].new
    /\ \A r \in Runs : runs[r].alloc = "none" => fiber[r] = "none"
OwnInv == SlotsOwn /\ LiveOwned /\ ParkedOwn /\ NewOwn

\* The flags of a run follow its fiber.
FiberInv ==
    \A r \in Runs : /\ runs[r].done <=> fiber[r] = "ended"
                    /\ runs[r].finished <=> fiber[r] \in {"signalling", "ended"}

----------------------------------------------------------------------------
\* One call at a time.
Serial == \E c : Callers = {c}

\* While a call is at work the slots are its own.
CallHolds(v) ==
    /\ v.pc \in {"sync", "start", "stale", "replace", "schedule"} => Present(v.id)
    /\ v.pc = "stale" => slots[v.id] = v.run
    /\ v.pc = "replace" /\ slots[v.id] # 0 => runs[slots[v.id]].done
    /\ v.pc = "schedule" => slots[v.id] = v.new
    /\ v.pc = "joining" => RunOf(v.target) = v.run
    /\ v.pc = "drop" /\ RunOf(v.target) # 0 => runs[RunOf(v.target)].done
    /\ v.pc = "unregister" => ~Present(v.target)
    /\ v.new # 0 => v.new = used
    /\ v.pc = "register" => v.id \in DOMAIN slots /\ live_sessions \union {v.id} = DOMAIN slots
    /\ v.pc # "register" => live_sessions = DOMAIN slots
CallInv == \A c \in Callers : CallHolds(call[c])

\* A run that a fiber still uses is live, and one whose runner has returned has its
\* result.
LiveInv ==
    \A r \in Runs : /\ fiber[r] \in {"running", "storing", "finishing"} => runs[r].alloc = "live"
                    /\ fiber[r] \in {"finishing", "signalling", "ended"} => runs[r].result
                    /\ runs[r].alloc = "live" /\ fiber[r] = "none" =>
                          \E c \in Callers : call[c].pc = "schedule" /\ call[c].new = r

\* What the turn's thread waits for before it frees the registry.
ClosingInv == phase = "closing" => \A s \in Sessions : RunOf(s) # 0 => RunOf(s) \in waited

NoticeInv ==
    /\ ~hollow
    /\ \A r \in Runs : notices[r] <= 1
    /\ \A r \in Runs : runs[r].alloc # "freed" => notices[r] = 0
    /\ \A s \in DOMAIN finished : ~finished[s].noticed => notices[finished[s].run] = 0

\* A run that was made is kept or superseded, and a parked run is older than the run
\* of its session.
Later(r) == \E n \in (r + 1)..MaxRuns : /\ runs[n].session = runs[r].session
                                        /\ runs[n].alloc # "none"
KeptInv ==
    /\ \A s \in DOMAIN finished : RunOf(s) # 0 => finished[s].run < RunOf(s)
    /\ phase # "dead" => \A r \in Runs : runs[r].alloc # "none" => Kept(r) \/ Later(r)

\* A message is in one place.
InHand(c, m) == call[c].pc \in {"push", "queue"} /\ call[c].msg = m
Carried(c, m) == Contains(call[c].carries, m)
Boxed(s, m) == Contains(inbox[s], m)
Queued(s, m) == Contains(pending[s], m)
Waits(m) == \/ \E c \in Callers : InHand(c, m) \/ Carried(c, m)
            \/ \E s \in Sessions : Boxed(s, m) \/ Queued(s, m)
MailAt(m) ==
    /\ Waits(m) \/ read[m] > 0 => m <= sent
    /\ read[m] <= 1 /\ (Waits(m) => read[m] = 0)
    /\ \A c, d \in Callers : /\ InHand(c, m) /\ InHand(d, m) => c = d
                             /\ Carried(c, m) /\ Carried(d, m) => c = d
                             /\ ~(InHand(c, m) /\ Carried(d, m))
    /\ \A s, t \in Sessions : /\ Boxed(s, m) /\ Boxed(t, m) => s = t
                              /\ Queued(s, m) /\ Queued(t, m) => s = t
                              /\ ~(Boxed(s, m) /\ Queued(t, m))
    /\ \A c \in Callers, s \in Sessions : /\ ~(InHand(c, m) /\ (Boxed(s, m) \/ Queued(s, m)))
                                          /\ ~(Carried(c, m) /\ (Boxed(s, m) \/ Queued(s, m)))
MailInv == \A m \in Messages : MailAt(m)

\* The inbox goes with the slot.
BoxInv == \A s \in Sessions : ~Present(s) => inbox[s] = <<>>

----------------------------------------------------------------------------
\* One disjunct for each action.
LEMMA NextCases ==
    ASSUME [Next]_vars
    PROVE  \/ UNCHANGED vars
           \/ \E c \in Callers, s \in Sessions : \E t \in {"background", "sync"}, b \in BOOLEAN :
                 Subagent(c, s, t, b)
           \/ \E c \in Callers, s \in Sessions : Interrupt(c, s)
           \/ \E c \in Callers, s \in Sessions : SendMessage(c, s)
           \/ \E c \in Callers, s \in Sessions : Evict(c, s)
           \/ \E s \in Sessions : drain_steer(s)
           \/ \E c \in Callers :
                 \/ drain_pending_messages(c) \/ push_steer(c) \/ queue_pending_message(c)
                 \/ Put(c) \/ Register(c) \/ SyncReturns(c) \/ SyncKeeps(c)
                 \/ start_background(c) \/ StaleDone(c) \/ ReplaceRun(c) \/ Schedule(c)
                 \/ RequestCancel(c) \/ EvictNone(c)
                 \/ close(c) \/ Joined(c) \/ CloseDrop(c) \/ Unregister(c)
           \/ \E r \in Runs : \/ RunnerReturns(r) \/ StoreResult(r) \/ StoreFinished(r)
                              \/ SignalDone(r)
           \/ drain_settled_runs \/ destroy_registry \/ take_unnoticed_finished \/ Destroyed
  BY DEF Next, CallStep, FiberStep, TurnStep

LEMMA Bounds ==
    /\ MaxRuns \in Nat /\ MaxMessages \in Nat /\ MaxPending \in Nat
    /\ Targets \in SUBSET Sessions
  BY RegistryAssumption

----------------------------------------------------------------------------
\* What a step does to the record of one call.

OthersCall(c) == \A d \in Callers \ {c} : call'[d] = call[d]
Calls == call \in [Callers -> CallRec]

LEMMA CallSet ==
    ASSUME Calls, NEW c \in Callers, NEW v \in CallRec, call' = [call EXCEPT ![c] = v]
    PROVE  Calls' /\ OthersCall(c) /\ call'[c] = v
  BY DEF Calls, OthersCall

LEMMA NoCallType == NoCall \in CallRec /\ NoCall.pc = "idle" /\ NoCall.new = 0 /\ NoCall.carries = <<>>
                    /\ NoCall.msg = 0
<1>1. FALSE \in BOOLEAN /\ <<>> \in Seq(Messages) /\ 0 \in 0..MaxRuns /\ 0 \in 0..MaxMessages
  BY Bounds
<1> QED BY <1>1, Zenon DEF NoCall, CallRec, Labels, Ids

LEMMA CallReturn ==
    ASSUME Calls, NEW c \in Callers, Return(c)
    PROVE  Calls' /\ OthersCall(c) /\ call'[c] = NoCall
  BY CallSet, NoCallType DEF Return

LEMMA CallGoto ==
    ASSUME Calls, NEW c \in Callers, NEW p \in Labels, call' = [call EXCEPT ![c].pc = p]
    PROVE  /\ Calls' /\ OthersCall(c)
           /\ LET v == call'[c]
                  w == call[c]
              IN  /\ v.pc = p /\ v.id = w.id /\ v.tool = w.tool /\ v.close = w.close /\ v.new = w.new
                  /\ v.run = w.run /\ v.target = w.target /\ v.after = w.after /\ v.msg = w.msg
                  /\ v.carries = w.carries
<1> DEFINE v == [call[c] EXCEPT !.pc = p]
<1>1. call[c] \in CallRec
  BY DEF Calls
<1>2. /\ v \in CallRec /\ v.pc = p
      /\ LET w == call[c]
         IN  /\ v.id = w.id /\ v.tool = w.tool /\ v.close = w.close /\ v.new = w.new
             /\ v.run = w.run /\ v.target = w.target /\ v.after = w.after /\ v.msg = w.msg
             /\ v.carries = w.carries
  BY <1>1 DEF CallRec
<1>3. call' = [call EXCEPT ![c] = v]
  OBVIOUS
<1> HIDE DEF v
<1>4. Calls' /\ OthersCall(c) /\ call'[c] = v
  BY <1>2, <1>3, CallSet
<1> QED BY <1>2, <1>4

LEMMA CallCarries ==
    ASSUME Calls, NEW c \in Callers, NEW p \in Labels, NEW q \in Seq(Messages),
           call' = [call EXCEPT ![c].pc = p, ![c].carries = q]
    PROVE  /\ Calls' /\ OthersCall(c)
           /\ LET v == call'[c]
                  w == call[c]
              IN  /\ v.pc = p /\ v.id = w.id /\ v.tool = w.tool /\ v.close = w.close /\ v.new = w.new
                  /\ v.run = w.run /\ v.target = w.target /\ v.after = w.after /\ v.msg = w.msg
                  /\ v.carries = q
<1> DEFINE v == [call[c] EXCEPT !.pc = p, !.carries = q]
<1>1. call[c] \in CallRec
  BY DEF Calls
<1>2. /\ v \in CallRec /\ v.pc = p
      /\ LET w == call[c]
         IN  /\ v.id = w.id /\ v.tool = w.tool /\ v.close = w.close /\ v.new = w.new
             /\ v.run = w.run /\ v.target = w.target /\ v.after = w.after /\ v.msg = w.msg
             /\ v.carries = q
  BY <1>1 DEF CallRec
<1>3. call' = [call EXCEPT ![c] = v]
  BY DEF Calls
<1> HIDE DEF v
<1>4. Calls' /\ OthersCall(c) /\ call'[c] = v
  BY <1>2, <1>3, CallSet
<1> QED BY <1>2, <1>4

LEMMA CallRun ==
    ASSUME Calls, NEW c \in Callers, NEW p \in Labels, NEW r \in 0..MaxRuns,
           call' = [call EXCEPT ![c].pc = p, ![c].run = r]
    PROVE  /\ Calls' /\ OthersCall(c)
           /\ LET v == call'[c]
                  w == call[c]
              IN  /\ v.pc = p /\ v.id = w.id /\ v.tool = w.tool /\ v.close = w.close /\ v.new = w.new
                  /\ v.run = r /\ v.target = w.target /\ v.after = w.after /\ v.msg = w.msg
                  /\ v.carries = w.carries
<1> DEFINE v == [call[c] EXCEPT !.pc = p, !.run = r]
<1>1. call[c] \in CallRec
  BY DEF Calls
<1>2. /\ v \in CallRec /\ v.pc = p
      /\ LET w == call[c]
         IN  /\ v.id = w.id /\ v.tool = w.tool /\ v.close = w.close /\ v.new = w.new
             /\ v.run = r /\ v.target = w.target /\ v.after = w.after /\ v.msg = w.msg
             /\ v.carries = w.carries
  BY <1>1 DEF CallRec
<1>3. call' = [call EXCEPT ![c] = v]
  BY DEF Calls
<1> HIDE DEF v
<1>4. Calls' /\ OthersCall(c) /\ call'[c] = v
  BY <1>2, <1>3, CallSet
<1> QED BY <1>2, <1>4

LEMMA CallClose ==
    ASSUME Calls, NEW c \in Callers, NEW s \in Sessions, NEW a \in {"evict", "unregister"},
           GotoClose(c, s, a)
    PROVE  /\ Calls' /\ OthersCall(c)
           /\ LET v == call'[c]
                  w == call[c]
              IN  /\ v.pc = "close" /\ v.id = w.id /\ v.tool = w.tool /\ v.close = w.close
                  /\ v.new = w.new /\ v.run = w.run /\ v.target = s /\ v.after = a
                  /\ v.msg = w.msg /\ v.carries = w.carries
<1> DEFINE v == [call[c] EXCEPT !.pc = "close", !.target = s, !.after = a]
<1>1. call[c] \in CallRec
  BY DEF Calls
<1>2. /\ v \in CallRec /\ v.pc = "close"
      /\ LET w == call[c]
         IN  /\ v.id = w.id /\ v.tool = w.tool /\ v.close = w.close /\ v.new = w.new
             /\ v.run = w.run /\ v.target = s /\ v.after = a /\ v.msg = w.msg
             /\ v.carries = w.carries
  BY <1>1, ZenonT(30) DEF CallRec, Labels, Ids
<1>3. call' = [call EXCEPT ![c] = v]
  BY DEF Calls, GotoClose
<1> HIDE DEF v
<1>4. Calls' /\ OthersCall(c) /\ call'[c] = v
  BY <1>2, <1>3, CallSet
<1> QED BY <1>2, <1>4

LEMMA CallSubagent ==
    ASSUME MapsTyped, Calls, NEW c \in Callers, NEW s \in Sessions,
           NEW t \in {"background", "sync"}, NEW b \in BOOLEAN, Subagent(c, s, t, b)
    PROVE  /\ Calls' /\ OthersCall(c) /\ call[c].pc = "idle" /\ phase = "turn"
           /\ used' \in 0..MaxRuns /\ used <= used'
           /\ LET v == call'[c]
              IN  /\ v.pc = "prompt" /\ v.id = s /\ v.tool = t /\ v.close = b /\ v.run = 0 /\ v.msg = 0
                  /\ v.carries = <<>> /\ v.after \in {"put", "evict"}
                  /\ t = "background" => v.new = used + 1 /\ used' = used + 1
                  /\ t = "sync" => v.new = 0 /\ used' = used
<1>1. PICK a \in {"put", "evict"} : a = IF b \/ Present(s) THEN "put" ELSE "evict"
  BY DEF Subagent
<1>2. PICK n \in 0..MaxRuns : /\ n = IF t = "background" THEN used + 1 ELSE 0
                              /\ used' = IF t = "background" THEN used + 1 ELSE used
                              /\ used' \in 0..MaxRuns /\ used <= used'
  BY Bounds DEF Subagent, MapsTyped
<1> DEFINE v == [NoCall EXCEPT !.pc = "prompt", !.after = a, !.id = s, !.tool = t, !.close = b,
                               !.new = n]
<1>3. v \in CallRec /\ v.pc = "prompt" /\ v.id = s /\ v.tool = t /\ v.close = b /\ v.run = 0
      /\ v.carries = <<>> /\ v.after = a /\ v.new = n /\ v.msg = 0
  BY NoCallType DEF NoCall, CallRec, Labels, Ids
<1>4. call' = [call EXCEPT ![c] = v]
  BY <1>1, <1>2 DEF Subagent
<1> HIDE DEF v
<1>5. Calls' /\ OthersCall(c) /\ call'[c] = v
  BY <1>3, <1>4, CallSet
<1> QED BY <1>2, <1>3, <1>5 DEF Subagent, At

LEMMA CallInterrupt ==
    ASSUME Calls, NEW c \in Callers, NEW s \in Sessions, Interrupt(c, s)
    PROVE  /\ Calls' /\ OthersCall(c) /\ call[c].pc = "idle" /\ phase = "turn"
           /\ LET v == call'[c]
              IN  /\ v.pc = "cancel" /\ v.id = s /\ v.tool = "interrupt" /\ v.new = 0 /\ v.carries = <<>>
<1> DEFINE v == [NoCall EXCEPT !.pc = "cancel", !.id = s, !.tool = "interrupt"]
<1>3. v \in CallRec /\ v.pc = "cancel" /\ v.id = s /\ v.tool = "interrupt" /\ v.new = 0
      /\ v.carries = <<>>
  BY NoCallType DEF NoCall, CallRec, Labels, Ids
<1>4. call' = [call EXCEPT ![c] = v]
  BY DEF Interrupt
<1> HIDE DEF v
<1>5. Calls' /\ OthersCall(c) /\ call'[c] = v
  BY <1>3, <1>4, CallSet
<1> QED BY <1>3, <1>5 DEF Interrupt, At

LEMMA CallSend ==
    ASSUME MailTyped, Calls, NEW c \in Callers, NEW s \in Sessions, SendMessage(c, s)
    PROVE  /\ Calls' /\ OthersCall(c) /\ call[c].pc = "idle" /\ phase = "turn"
           /\ sent' = sent + 1 /\ sent' \in 0..MaxMessages
           /\ LET v == call'[c]
              IN  /\ v.pc \in {"push", "queue"} /\ v.id = s /\ v.tool = "message" /\ v.new = 0
                  /\ v.msg = sent + 1 /\ v.carries = <<>>
<1>1. PICK n \in 0..MaxMessages : n = sent + 1 /\ sent' = n
  BY Bounds DEF SendMessage, MailTyped
<1>2. PICK p \in {"push", "queue"} : p = resolve_send_target(s)
  BY DEF resolve_send_target
<1> DEFINE v == [NoCall EXCEPT !.pc = p, !.id = s, !.tool = "message", !.msg = n]
<1>3. v \in CallRec /\ v.pc = p /\ v.id = s /\ v.tool = "message" /\ v.new = 0 /\ v.msg = n
      /\ v.carries = <<>>
  BY NoCallType DEF NoCall, CallRec, Labels, Ids
<1>4. call' = [call EXCEPT ![c] = v]
  BY <1>1, <1>2 DEF SendMessage
<1> HIDE DEF v
<1>5. Calls' /\ OthersCall(c) /\ call'[c] = v
  BY <1>3, <1>4, CallSet
<1> QED BY <1>1, <1>3, <1>5 DEF SendMessage, At

\* The moves of a call c that has begun.  Its fields id, tool, close and new stay.
Fixed(v, w) == /\ v.id = w.id /\ v.tool = w.tool /\ v.close = w.close /\ v.new = w.new
               /\ v.msg = w.msg
Moves(c, from, to) ==
    /\ call[c].pc = from /\ call'[c].pc = to /\ Fixed(call'[c], call[c])
    /\ call'[c].run = call[c].run /\ call'[c].target = call[c].target
    /\ call'[c].after = call[c].after /\ call'[c].carries = call[c].carries

LEMMA StepGoto ==
    ASSUME Calls, NEW c \in Callers, NEW from \in Labels, NEW to \in Labels,
           At(c, from), Goto(c, to)
    PROVE  Calls' /\ OthersCall(c) /\ Moves(c, from, to) /\ phase = "turn"
<1>1. call' = [call EXCEPT ![c].pc = to] /\ call[c].pc = from /\ phase = "turn"
  BY DEF Goto, At
<1> QED BY <1>1, CallGoto DEF Moves, Fixed

\* Every move of a call, by its label.
CallMove(c) ==
    /\ phase = "turn" /\ call[c].pc # "idle"
    /\ \/ /\ call'[c] = NoCall
          /\ \/ call[c].pc \in {"schedule", "sync", "unregister", "push", "queue"}
             \/ call[c].pc \in {"start", "replace"} /\ ~Present(call[c].id)
       \/ Moves(c, "put", "register") \/ Moves(c, "stale", "replace")
       \/ Moves(c, "replace", "schedule") \/ Moves(c, "evict", "put")
       \/ Moves(c, "joining", "drop") \/ Moves(c, "push", "queue")
       \/ Moves(c, "drop", call[c].after)
       \/ /\ call[c].pc = "prompt" /\ call'[c].pc = call[c].after /\ Fixed(call'[c], call[c])
          /\ call'[c].carries = pending[call[c].id] /\ call'[c].after = call[c].after
       \/ /\ call[c].pc = "register" /\ Fixed(call'[c], call[c]) /\ call'[c].after = call[c].after
          /\ \/ /\ call[c].tool = "background" /\ call'[c].pc = "start"
                /\ call'[c].carries = call[c].carries
             \/ call[c].tool = "sync" /\ call'[c].pc = "sync" /\ call'[c].carries = <<>>
       \/ /\ call[c].pc \in {"sync", "cancel"} /\ call'[c].pc = "close" /\ Fixed(call'[c], call[c])
          /\ call'[c].carries = call[c].carries /\ call'[c].after = "unregister"
          /\ call'[c].target = call[c].id
       \/ /\ call[c].pc = "evict" /\ call'[c].pc = "close" /\ Fixed(call'[c], call[c])
          /\ call'[c].carries = call[c].carries /\ call'[c].after = "evict"
          /\ call'[c].target \in Sessions
       \/ /\ call[c].pc = "start" /\ Fixed(call'[c], call[c]) /\ Present(call[c].id)
          /\ call'[c].carries = call[c].carries /\ call'[c].after = call[c].after
          /\ call'[c].run = slots[call[c].id]
          /\ call'[c].pc = IF slots[call[c].id] # 0 THEN "stale" ELSE "replace"
       \/ /\ call[c].pc = "close" /\ Fixed(call'[c], call[c])
          /\ call'[c].carries = call[c].carries /\ call'[c].after = call[c].after
          /\ call'[c].target = call[c].target /\ call'[c].run = RunOf(call[c].target)
          /\ call'[c].pc = IF RunOf(call[c].target) # 0 THEN "joining" ELSE "drop"

LEMMA CallMoves ==
    ASSUME MapsTyped, MailTyped, CallsTyped, NEW c \in Callers,
           CallStep(c)
    PROVE  Calls' /\ OthersCall(c) /\ CallMove(c)
<1>t. Calls /\ CallOK(call[c]) /\ call[c] \in CallRec
  BY DEF CallsTyped, Calls
<1>l. /\ {"put", "evict", "register", "replace", "schedule", "drop", "queue", "close", "stale", "start",
          "sync", "unregister", "push", "joining", "prompt"} \in SUBSET Labels
      /\ call[c].pc = "prompt" => call[c].after \in Labels
      /\ call[c].pc = "drop" => call[c].after \in Labels
  BY <1>t DEF Labels, CallOK
<1>r. RunOf(call[c].target) \in 0..MaxRuns /\ RunOf(call[c].id) \in 0..MaxRuns
  BY Bounds DEF MapsTyped, RunOf, Present
<1>1. CASE drain_pending_messages(c)
  <2>1. At(c, "prompt") /\ call' = [call EXCEPT ![c].pc = call[c].after, ![c].carries = pending[call[c].id]]
    BY <1>1 DEF drain_pending_messages
  <2>2. PICK p \in Labels : p = call[c].after
    BY <2>1, <1>l DEF At
  <2>3. PICK q \in Seq(Messages) : q = pending[call[c].id]
    BY <2>1, <1>t DEF At, CallOK, MailTyped
  <2>5. call' = [call EXCEPT ![c].pc = p, ![c].carries = q]
    BY <2>1, <2>2, <2>3
  <2>6. /\ Calls' /\ OthersCall(c)
        /\ call'[c].pc = p /\ Fixed(call'[c], call[c]) /\ call'[c].carries = q
        /\ call'[c].after = call[c].after
    BY <2>5, <1>t, CallCarries DEF Fixed
  <2> QED BY <2>1, <2>2, <2>3, <2>6 DEF CallMove, At
<1>2. CASE push_steer(c)
  <2>1. CASE Goto(c, "queue")
    BY <1>2, <2>1, <1>t, <1>l, StepGoto DEF push_steer, CallMove, Moves
  <2>2. CASE Return(c)
    BY <1>2, <2>2, <1>t, CallReturn DEF push_steer, CallMove, At
  <2> QED BY <1>2, <2>1, <2>2 DEF push_steer
<1>3. CASE queue_pending_message(c)
  BY <1>3, <1>t, CallReturn DEF queue_pending_message, CallMove, At
<1>4. CASE Put(c)
  BY <1>4, <1>t, <1>l, StepGoto DEF Put, CallMove, Moves
<1>5. CASE Register(c)
  <2>1. /\ At(c, "register")
        /\ call' = [call EXCEPT ![c].pc = IF call[c].tool = "background" THEN "start" ELSE "sync",
                                ![c].carries = IF call[c].tool = "sync" THEN <<>> ELSE call[c].carries]
    BY <1>5, <1>t DEF Register, Calls
  <2>2. PICK p \in Labels : p = IF call[c].tool = "background" THEN "start" ELSE "sync"
    BY <1>l
  <2>3. PICK q \in Seq(Messages) : q = IF call[c].tool = "sync" THEN <<>> ELSE call[c].carries
    <3>1. <<>> \in Seq(Messages) /\ call[c].carries \in Seq(Messages)
      BY <1>t DEF CallRec
    <3>2. CASE call[c].tool = "sync"
      BY <3>1, <3>2
    <3>3. CASE call[c].tool # "sync"
      BY <3>1, <3>3
    <3> QED BY <3>2, <3>3
  <2>4. call[c].tool \in {"background", "sync"}
    BY <2>1, <1>t DEF At, CallOK
  <2>5. call' = [call EXCEPT ![c].pc = p, ![c].carries = q]
    BY <2>1, <2>2, <2>3
  <2>6. /\ Calls' /\ OthersCall(c)
        /\ call'[c].pc = p /\ Fixed(call'[c], call[c]) /\ call'[c].carries = q
        /\ call'[c].after = call[c].after
    BY <2>5, <1>t, CallCarries DEF Fixed
  <2>7. call[c].pc = "register" /\ phase = "turn"
    BY <2>1 DEF At
  <2>8. CASE call[c].tool = "background"
    BY <2>2, <2>3, <2>6, <2>7, <2>8 DEF CallMove
  <2>9. CASE call[c].tool = "sync"
    BY <2>2, <2>3, <2>6, <2>7, <2>9 DEF CallMove
  <2> QED BY <2>4, <2>8, <2>9
<1>6. CASE SyncReturns(c)
  <2>1. call[c].id \in Sessions /\ At(c, "sync") /\ GotoClose(c, call[c].id, "unregister")
    BY <1>6, <1>t DEF SyncReturns, At, CallOK
  <2> QED BY <2>1, <1>t, CallClose DEF CallMove, Fixed, At
<1>7. CASE SyncKeeps(c)
  BY <1>7, <1>t, CallReturn DEF SyncKeeps, CallMove, At
<1>8. CASE start_background(c)
  <2>1. CASE ~Present(call[c].id)
    BY <1>8, <2>1, <1>t, CallReturn DEF start_background, CallMove, At
  <2>2. CASE Present(call[c].id)
    <3>1. PICK p \in Labels : p = IF slots[call[c].id] # 0 THEN "stale" ELSE "replace"
      BY <1>l
    <3>2. PICK r \in 0..MaxRuns : r = slots[call[c].id]
      BY <2>2, <1>r DEF RunOf
    <3>3. call' = [call EXCEPT ![c].pc = p, ![c].run = r] /\ At(c, "start")
      BY <1>8, <2>2, <3>1, <3>2 DEF start_background
    <3> QED BY <2>2, <3>1, <3>2, <3>3, <1>t, CallRun, ZenonT(30) DEF CallMove, Fixed, At
  <2> QED BY <2>1, <2>2
<1>9. CASE StaleDone(c)
  BY <1>9, <1>t, <1>l, StepGoto DEF StaleDone, CallMove, Moves
<1>10. CASE ReplaceRun(c)
  <2>1. CASE Present(call[c].id)
    BY <1>10, <2>1, <1>t, <1>l, StepGoto DEF ReplaceRun, CallMove, Moves
  <2>2. CASE ~Present(call[c].id)
    BY <1>10, <2>2, <1>t, CallReturn DEF ReplaceRun, CallMove, At
  <2> QED BY <2>1, <2>2
<1>11. CASE Schedule(c)
  BY <1>11, <1>t, CallReturn DEF Schedule, CallMove, At
<1>12. CASE RequestCancel(c)
  <2>1. call[c].id \in Sessions /\ At(c, "cancel") /\ GotoClose(c, call[c].id, "unregister")
    BY <1>12, <1>t DEF RequestCancel, At, CallOK
  <2> QED BY <2>1, <1>t, CallClose DEF CallMove, Fixed, At
<1>13. CASE EvictNone(c)
  BY <1>13, <1>t, <1>l, StepGoto DEF EvictNone, CallMove, Moves
<1>14. ASSUME NEW s \in Sessions, Evict(c, s)
       PROVE  Calls' /\ OthersCall(c) /\ CallMove(c)
  <2>1. At(c, "evict") /\ GotoClose(c, s, "evict")
    BY <1>14 DEF Evict
  <2> QED BY <2>1, <1>t, CallClose DEF CallMove, Fixed, At
<1>15. CASE close(c)
  <2>1. PICK p \in Labels : p = IF RunOf(call[c].target) # 0 THEN "joining" ELSE "drop"
    BY <1>l
  <2>2. PICK r \in 0..MaxRuns : r = RunOf(call[c].target)
    BY <1>r
  <2>3. call' = [call EXCEPT ![c].pc = p, ![c].run = r] /\ At(c, "close")
    BY <1>15, <2>1, <2>2 DEF close
  <2> QED BY <2>1, <2>2, <2>3, <1>t, CallRun, ZenonT(30) DEF CallMove, Fixed, At
<1>16. CASE Joined(c)
  BY <1>16, <1>t, <1>l, StepGoto DEF Joined, CallMove, Moves
<1>17. CASE CloseDrop(c)
  <2>1. At(c, "drop") /\ Goto(c, call[c].after)
    BY <1>17 DEF CloseDrop
  <2>2. PICK p \in Labels : p = call[c].after
    BY <2>1, <1>l DEF At
  <2> QED BY <2>1, <2>2, <1>t, <1>l, StepGoto DEF CallMove, Moves
<1>18. CASE Unregister(c)
  BY <1>18, <1>t, CallReturn DEF Unregister, CallMove, At
<1> QED BY <1>1, <1>2, <1>3, <1>4, <1>5, <1>6, <1>7, <1>8, <1>9, <1>10, <1>11, <1>12, <1>13,
           <1>14, <1>15, <1>16, <1>17, <1>18 DEF CallStep

\* A step of one call leaves the others as they are.
LEMMA OneCall ==
    ASSUME MapsTyped, MailTyped, CallsTyped, NEW c \in Callers, Calls', OthersCall(c), phase = "turn", phase' = phase,
           used' \in Nat, sent' \in Nat, used <= used', sent <= sent', CallOK(call[c])'
    PROVE  CallsTyped'
<1>n. used \in Nat /\ sent \in Nat
  BY DEF MapsTyped, MailTyped
<1>1. ASSUME NEW d \in Callers, d # c PROVE CallOK(call[d])'
  <2>1. call'[d] = call[d] /\ CallOK(call[d])
    BY <1>1 DEF OthersCall, CallsTyped
  <2> QED BY <2>1, <1>n DEF CallOK
<1> QED BY <1>1 DEF CallsTyped, Calls

LEMMA CallsTypedMove ==
    ASSUME MapsTyped, MailTyped, CallsTyped, NEW c \in Callers, CallStep(c)
    PROVE  CallsTyped'
<1>1. Calls' /\ OthersCall(c) /\ CallMove(c)
  BY CallMoves
<1>2. used' = used /\ sent' = sent /\ phase' = phase /\ phase = "turn"
  BY <1>1 DEF CallMove, CallStep, drain_pending_messages, push_steer, queue_pending_message, Put, Register,
     SyncReturns, SyncKeeps, start_background, StaleDone, ReplaceRun, Schedule, RequestCancel,
     EvictNone, Evict, close, Joined, CloseDrop, Unregister, mail
<1>3. CallOK(call[c]) /\ call[c] \in CallRec /\ used \in Nat /\ sent \in Nat
  BY DEF CallsTyped, MapsTyped, MailTyped
<1>n. CallOK(NoCall)'
  BY NoCallType DEF CallOK, NoCall, Starting
<1>p. ASSUME NEW from \in Labels, NEW to \in Labels, Moves(c, from, to),
             <<from, to>> \in {<<"put", "register">>, <<"stale", "replace">>,
                               <<"replace", "schedule">>, <<"evict", "put">>, <<"joining", "drop">>,
                               <<"push", "queue">>}
      PROVE  CallOK(call[c])'
  BY <1>p, <1>2, <1>3 DEF Moves, Fixed, CallOK, Starting
<1>d. ASSUME Moves(c, "drop", call[c].after)
      PROVE  CallOK(call[c])'
  BY <1>d, <1>2, <1>3 DEF Moves, Fixed, CallOK, Starting
<1>4. CallOK(call[c])'
  <2> DEFINE v == call'[c]
             w == call[c]
  <2>1. CASE call'[c] = NoCall
    BY <2>1, <1>n DEF CallOK
  <2>2. CASE w.pc = "prompt" /\ v.pc = w.after /\ Fixed(v, w) /\ v.after = w.after
    BY <2>2, <1>2, <1>3 DEF Fixed, CallOK, Starting
  <2>3. CASE w.pc = "register" /\ v.pc = "start" /\ Fixed(v, w) /\ v.carries = w.carries
             /\ w.tool = "background"
    BY <2>3, <1>2, <1>3 DEF Fixed, CallOK, Starting
  <2>4. CASE w.pc = "register" /\ v.pc = "sync" /\ Fixed(v, w) /\ v.carries = <<>>
             /\ w.tool = "sync"
    BY <2>4, <1>2, <1>3 DEF Fixed, CallOK, Starting
  <2>5. CASE /\ w.pc \in {"sync", "cancel"} /\ v.pc = "close" /\ Fixed(v, w) /\ v.carries = w.carries
             /\ v.after = "unregister" /\ v.target = w.id
    BY <2>5, <1>2, <1>3 DEF Fixed, CallOK, Starting
  <2>6. CASE /\ w.pc = "evict" /\ v.pc = "close" /\ Fixed(v, w) /\ v.carries = w.carries
             /\ v.after = "evict" /\ v.target \in Sessions
    BY <2>6, <1>2, <1>3 DEF Fixed, CallOK, Starting
  <2>7. CASE /\ w.pc = "start" /\ Fixed(v, w) /\ v.carries = w.carries
             /\ v.run = slots[w.id] /\ v.pc = IF slots[w.id] # 0 THEN "stale" ELSE "replace"
    BY <2>7, <1>2, <1>3 DEF Fixed, CallOK, Starting
  <2>8. CASE /\ w.pc = "close" /\ Fixed(v, w) /\ v.carries = w.carries /\ v.after = w.after
             /\ v.target = w.target /\ v.run = RunOf(w.target)
             /\ v.pc = IF RunOf(w.target) # 0 THEN "joining" ELSE "drop"
    BY <2>8, <1>2, <1>3 DEF Fixed, CallOK, Starting
  <2> HIDE DEF v, w
  <2> QED BY <1>1, <1>p, <1>d, <2>1, <2>2, <2>3, <2>4, <2>5, <2>6, <2>7, <2>8 DEF CallMove, Labels, v, w
<1> QED BY <1>1, <1>2, <1>3, <1>4, OneCall

LEMMA CallsTypedNext ==
    ASSUME MapsTyped, MailTyped, CallsTyped, [Next]_vars
    PROVE  CallsTyped'
<1>t. Calls /\ used \in Nat /\ sent \in Nat
  BY DEF CallsTyped, Calls, MapsTyped, MailTyped
<1>u. ASSUME UNCHANGED <<call, used, sent>>, phase' = phase \/ \A c \in Callers : Idle(c)
      PROVE  CallsTyped'
  BY <1>u DEF CallsTyped, CallOK, Idle
<1>1. ASSUME NEW c \in Callers, NEW s \in Sessions, NEW t \in {"background", "sync"},
             NEW b \in BOOLEAN, Subagent(c, s, t, b)
      PROVE  CallsTyped'
  <2>1. /\ Calls' /\ OthersCall(c) /\ phase = "turn" /\ used' \in 0..MaxRuns /\ used <= used'
        /\ call'[c].pc = "prompt" /\ call'[c].id = s /\ call'[c].tool = t /\ call'[c].carries = <<>>
        /\ call'[c].after \in {"put", "evict"}
        /\ t = "background" => call'[c].new = used + 1 /\ used' = used + 1
        /\ t = "sync" => call'[c].new = 0 /\ used' = used
    BY <1>1, <1>t, CallSubagent
  <2>2. phase' = phase /\ sent' = sent
    BY <1>1 DEF Subagent, mail
  <2>3. CallOK(call[c])'
    BY <2>1, <2>2, <1>t DEF CallOK, Starting
  <2> QED BY <2>1, <2>2, <2>3, <1>t, OneCall
<1>2. ASSUME NEW c \in Callers, NEW s \in Sessions, Interrupt(c, s)
      PROVE  CallsTyped'
  <2>1. /\ Calls' /\ OthersCall(c) /\ phase = "turn"
        /\ call'[c].pc = "cancel" /\ call'[c].id = s /\ call'[c].tool = "interrupt"
        /\ call'[c].new = 0 /\ call'[c].carries = <<>>
    BY <1>2, <1>t, CallInterrupt
  <2>2. phase' = phase /\ sent' = sent /\ used' = used
    BY <1>2 DEF Interrupt, mail
  <2>3. CallOK(call[c])'
    BY <2>1, <2>2, <1>t DEF CallOK, Starting
  <2> QED BY <2>1, <2>2, <2>3, <1>t, OneCall
<1>3. ASSUME NEW c \in Callers, NEW s \in Sessions, SendMessage(c, s)
      PROVE  CallsTyped'
  <2>1. /\ Calls' /\ OthersCall(c) /\ phase = "turn" /\ sent' = sent + 1
        /\ call'[c].pc \in {"push", "queue"} /\ call'[c].id = s /\ call'[c].tool = "message"
        /\ call'[c].new = 0 /\ call'[c].carries = <<>> /\ call'[c].msg = sent + 1
    BY <1>3, <1>t, CallSend
  <2>2. phase' = phase /\ used' = used
    BY <1>3 DEF SendMessage
  <2>3. CallOK(call[c])'
    BY <2>1, <2>2, <1>t DEF CallOK, Starting
  <2> QED BY <2>1, <2>2, <2>3, <1>t, OneCall
<1>4. ASSUME NEW s \in Sessions, drain_steer(s) PROVE CallsTyped'
  BY <1>4, <1>u DEF drain_steer
<1>5. ASSUME NEW r \in Runs, RunnerReturns(r) \/ FiberStep(r) PROVE CallsTyped'
  BY <1>5, <1>u DEF RunnerReturns, FiberStep, StoreResult, StoreFinished, SignalDone, mail
<1>6. CASE drain_settled_runs
  BY <1>6, <1>u DEF drain_settled_runs
<1>7. CASE destroy_registry
  BY <1>7, <1>u DEF destroy_registry, mail
<1>8. CASE take_unnoticed_finished
  BY <1>8, <1>u DEF take_unnoticed_finished, mail, CallsTyped
<1>9. CASE Destroyed
  BY <1>9, <1>u DEF Destroyed, mail, CallsTyped
<1>10. CASE UNCHANGED vars
  BY <1>10, <1>u DEF vars, mail
<1> QED BY <1>1, <1>2, <1>3, <1>4, <1>5, <1>6, <1>7, <1>8, <1>9, <1>10, CallsTypedMove DEF Next, TurnStep

----------------------------------------------------------------------------
\* What a step does to the runs.

RunsT == runs \in [Runs -> RunRec]
Owners == \A q \in Runs : /\ runs'[q].session = runs[q].session /\ runs'[q].alloc = runs[q].alloc
Flags == \A q \in Runs : /\ runs'[q].result = runs[q].result
                         /\ runs'[q].finished = runs[q].finished
                         /\ runs'[q].done = runs[q].done
\* The runs of S are freed.
Frees(S) == \A q \in Runs : /\ runs'[q].session = runs[q].session
                            /\ runs'[q].alloc = IF q \in S THEN "freed" ELSE runs[q].alloc

LEMMA SetCancel ==
    ASSUME RunsT, NEW r \in 0..MaxRuns, runs' = cancelled(r)
    PROVE  RunsT' /\ Owners /\ Flags
<1>1. CASE r = 0
  BY <1>1 DEF cancelled, RunsT, Owners, Flags
<1>2. CASE r # 0
  <2>1. r \in Runs /\ runs' = [runs EXCEPT ![r].cancel = TRUE] /\ TRUE \in BOOLEAN
    BY <1>2, Bounds DEF cancelled, Runs
  <2> DEFINE v == [runs[r] EXCEPT !.cancel = TRUE]
  <2>2. runs[r] \in RunRec
    BY <2>1 DEF RunsT
  <2>3. v \in RunRec /\ v.session = runs[r].session /\ v.alloc = runs[r].alloc
        /\ v.result = runs[r].result /\ v.finished = runs[r].finished /\ v.done = runs[r].done
    BY <2>2 DEF RunRec
  <2>4. runs' = [runs EXCEPT ![r] = v]
    BY <2>1
  <2> HIDE DEF v
  <2> QED BY <2>1, <2>3, <2>4 DEF RunsT, Owners, Flags
<1> QED BY <1>1, <1>2

LEMMA SetResult ==
    ASSUME RunsT, NEW r \in Runs, runs' = [runs EXCEPT ![r].result = TRUE]
    PROVE  /\ RunsT' /\ Owners
           /\ \A q \in Runs : /\ runs'[q].finished = runs[q].finished /\ runs'[q].done = runs[q].done
                              /\ q # r => runs'[q].result = runs[q].result
           /\ runs'[r].result
<1> DEFINE v == [runs[r] EXCEPT !.result = TRUE]
<1>1. runs[r] \in RunRec /\ TRUE \in BOOLEAN
  BY DEF RunsT
<1>2. v \in RunRec /\ v.session = runs[r].session /\ v.alloc = runs[r].alloc
      /\ v.result /\ v.finished = runs[r].finished /\ v.done = runs[r].done
  BY <1>1 DEF RunRec
<1>3. runs' = [runs EXCEPT ![r] = v]
  OBVIOUS
<1> HIDE DEF v
<1> QED BY <1>2, <1>3 DEF RunsT, Owners

LEMMA SetFinished ==
    ASSUME RunsT, NEW r \in Runs, runs' = [runs EXCEPT ![r].finished = TRUE]
    PROVE  /\ RunsT' /\ Owners
           /\ \A q \in Runs : /\ runs'[q].result = runs[q].result /\ runs'[q].done = runs[q].done
                              /\ q # r => runs'[q].finished = runs[q].finished
           /\ runs'[r].finished
<1> DEFINE v == [runs[r] EXCEPT !.finished = TRUE]
<1>1. runs[r] \in RunRec /\ TRUE \in BOOLEAN
  BY DEF RunsT
<1>2. v \in RunRec /\ v.session = runs[r].session /\ v.alloc = runs[r].alloc
      /\ v.finished /\ v.result = runs[r].result /\ v.done = runs[r].done
  BY <1>1 DEF RunRec
<1>3. runs' = [runs EXCEPT ![r] = v]
  OBVIOUS
<1> HIDE DEF v
<1> QED BY <1>2, <1>3 DEF RunsT, Owners

LEMMA SetDone ==
    ASSUME RunsT, NEW r \in Runs, runs' = [runs EXCEPT ![r].done = TRUE]
    PROVE  /\ RunsT' /\ Owners
           /\ \A q \in Runs : /\ runs'[q].result = runs[q].result
                              /\ runs'[q].finished = runs[q].finished
                              /\ q # r => runs'[q].done = runs[q].done
           /\ runs'[r].done
<1> DEFINE v == [runs[r] EXCEPT !.done = TRUE]
<1>1. runs[r] \in RunRec /\ TRUE \in BOOLEAN
  BY DEF RunsT
<1>2. v \in RunRec /\ v.session = runs[r].session /\ v.alloc = runs[r].alloc
      /\ v.done /\ v.result = runs[r].result /\ v.finished = runs[r].finished
  BY <1>1 DEF RunRec
<1>3. runs' = [runs EXCEPT ![r] = v]
  OBVIOUS
<1> HIDE DEF v
<1> QED BY <1>2, <1>3 DEF RunsT, Owners

\* A record with another alloc, or with cancel set, and the other fields as they were.
LEMMA RunAlloc ==
    ASSUME NEW w \in RunRec, NEW a \in {"none", "live", "freed"}
    PROVE  LET v == [w EXCEPT !.alloc = a]
               u == [w EXCEPT !.cancel = TRUE]
           IN  /\ v \in RunRec /\ v.alloc = a /\ v.session = w.session
               /\ v.result = w.result /\ v.finished = w.finished /\ v.done = w.done
               /\ u \in RunRec /\ u.alloc = w.alloc /\ u.session = w.session
               /\ u.result = w.result /\ u.finished = w.finished /\ u.done = w.done
<1>1. TRUE \in BOOLEAN
  OBVIOUS
<1> QED BY <1>1 DEF RunRec

LEMMA FreedRun ==
    ASSUME RunsT, NEW r \in 0..MaxRuns
    PROVE  /\ freed(r) \in [Runs -> RunRec]
           /\ \A q \in Runs :
                 /\ freed(r)[q].session = runs[q].session
                 /\ freed(r)[q].alloc = IF q = r THEN "freed" ELSE runs[q].alloc
                 /\ freed(r)[q].result = runs[q].result
                 /\ freed(r)[q].finished = runs[q].finished /\ freed(r)[q].done = runs[q].done
<1>1. CASE r = 0
  BY <1>1, Bounds DEF freed, RunsT, Runs
<1>2. CASE r # 0
  <2>1. r \in Runs /\ freed(r) = [runs EXCEPT ![r].alloc = "freed"]
    BY <1>2, Bounds DEF freed, Runs
  <2> DEFINE v == [runs[r] EXCEPT !.alloc = "freed"]
  <2>2. runs[r] \in RunRec
    BY <2>1 DEF RunsT
  <2>3. v \in RunRec /\ v.alloc = "freed" /\ v.session = runs[r].session
        /\ v.result = runs[r].result /\ v.finished = runs[r].finished /\ v.done = runs[r].done
    BY <2>2, RunAlloc
  <2>4. freed(r) = [runs EXCEPT ![r] = v]
    BY <2>1
  <2> HIDE DEF v
  <2> QED BY <2>1, <2>3, <2>4 DEF RunsT
<1> QED BY <1>1, <1>2

LEMMA SetFreed ==
    ASSUME RunsT, NEW r \in 0..MaxRuns, runs' = freed(r)
    PROVE  RunsT' /\ Frees({r}) /\ Flags
  BY FreedRun DEF RunsT, Frees, Flags

LEMMA SetNew ==
    ASSUME RunsT, NEW o \in 0..MaxRuns, NEW r \in Runs, NEW s \in Sessions, NEW b \in BOOLEAN,
           runs' = [freed(o) EXCEPT ![r] = [NoRun EXCEPT !.session = s, !.alloc = "live",
                                                         !.close_requested = b]]
    PROVE  /\ RunsT'
           /\ \A q \in Runs \ {r} :
                 /\ runs'[q].session = runs[q].session
                 /\ runs'[q].alloc = IF q = o THEN "freed" ELSE runs[q].alloc
                 /\ runs'[q].result = runs[q].result
                 /\ runs'[q].finished = runs[q].finished /\ runs'[q].done = runs[q].done
           /\ runs'[r].session = s /\ runs'[r].alloc = "live" /\ ~runs'[r].result
           /\ ~runs'[r].finished /\ ~runs'[r].done
<1> DEFINE v == [NoRun EXCEPT !.session = s, !.alloc = "live", !.close_requested = b]
<1>1. v \in RunRec /\ v.session = s /\ v.alloc = "live" /\ ~v.result /\ ~v.finished /\ ~v.done
  <2>1. FALSE \in BOOLEAN
    OBVIOUS
  <2>2. NoRun \in RunRec
    BY <2>1, Zenon DEF NoRun, RunRec, Ids
  <2>3. ~NoRun.result /\ ~NoRun.finished /\ ~NoRun.done
    BY DEF NoRun
  <2> QED BY <2>2, <2>3 DEF RunRec, Ids
<1>2. runs' = [freed(o) EXCEPT ![r] = v]
  OBVIOUS
<1> HIDE DEF v
<1>3. freed(o) \in [Runs -> RunRec]
  BY FreedRun
<1>4. runs' \in [Runs -> RunRec] /\ runs'[r] = v /\ \A q \in Runs \ {r} : runs'[q] = freed(o)[q]
  BY <1>1, <1>2, <1>3
<1>5. ASSUME NEW q \in Runs \ {r}
      PROVE  /\ runs'[q].session = runs[q].session
             /\ runs'[q].alloc = IF q = o THEN "freed" ELSE runs[q].alloc
             /\ runs'[q].result = runs[q].result
             /\ runs'[q].finished = runs[q].finished /\ runs'[q].done = runs[q].done
  <2>1. runs'[q] = freed(o)[q] /\ q \in Runs
    BY <1>4
  <2> HIDE DEF freed
  <2> QED BY <2>1, FreedRun
<1>6. RunsT'
  BY <1>4 DEF RunsT
<1>7. /\ runs'[r].session = s /\ runs'[r].alloc = "live" /\ ~runs'[r].result
      /\ ~runs'[r].finished /\ ~runs'[r].done
  BY <1>1, <1>4
<1> QED BY <1>5, <1>6, <1>7

LEMMA SetDrained ==
    ASSUME RunsT, NEW D,
           runs' = [r \in Runs |-> IF r \in D THEN [runs[r] EXCEPT !.alloc = "freed"] ELSE runs[r]]
    PROVE  RunsT' /\ Frees(D) /\ Flags
<1>1. ASSUME NEW q \in Runs
      PROVE  /\ runs'[q] \in RunRec /\ runs'[q].session = runs[q].session
             /\ runs'[q].alloc = IF q \in D THEN "freed" ELSE runs[q].alloc
             /\ runs'[q].result = runs[q].result /\ runs'[q].finished = runs[q].finished
             /\ runs'[q].done = runs[q].done
  <2>1. runs[q] \in RunRec
    BY DEF RunsT
  <2>2. CASE q \in D
    <3>1. PICK w \in RunRec : w = runs[q]
      BY <2>1
    <3>2. runs'[q] = [w EXCEPT !.alloc = "freed"]
      BY <2>2, <3>1
    <3>3. PICK v \in RunRec : /\ v = [w EXCEPT !.alloc = "freed"] /\ v.alloc = "freed"
                              /\ v.session = w.session
                              /\ v.result = w.result /\ v.finished = w.finished /\ v.done = w.done
      BY RunAlloc
    <3> QED BY <2>2, <3>1, <3>2, <3>3
  <2>3. CASE q \notin D
    BY <2>1, <2>3
  <2> QED BY <2>2, <2>3
<1>2. runs' = [q \in Runs |-> runs'[q]]
  OBVIOUS
<1> QED BY <1>1, <1>2 DEF RunsT, Frees, Flags

LEMMA SetDestroy ==
    ASSUME RunsT, NEW D,
           runs' = [r \in Runs |-> IF r \in D THEN [runs[r] EXCEPT !.cancel = TRUE] ELSE runs[r]]
    PROVE  RunsT' /\ Owners /\ Flags
<1>1. ASSUME NEW q \in Runs
      PROVE  /\ runs'[q] \in RunRec /\ runs'[q].session = runs[q].session
             /\ runs'[q].alloc = runs[q].alloc
             /\ runs'[q].result = runs[q].result /\ runs'[q].finished = runs[q].finished
             /\ runs'[q].done = runs[q].done
  <2>1. runs[q] \in RunRec
    BY DEF RunsT
  <2>2. CASE q \in D
    BY <2>1, <2>2, RunAlloc
  <2>3. CASE q \notin D
    BY <2>1, <2>3
  <2> QED BY <2>2, <2>3
<1>2. runs' = [q \in Runs |-> runs'[q]]
  OBVIOUS
<1> QED BY <1>1, <1>2 DEF RunsT, Owners, Flags

LEMMA SetDead ==
    ASSUME RunsT,
           runs' = [r \in Runs |-> [runs[r] EXCEPT !.alloc = IF @ = "live" THEN "freed" ELSE @]]
    PROVE  RunsT' /\ Flags /\ Frees({r \in Runs : runs[r].alloc = "live"})
<1>1. ASSUME NEW q \in Runs
      PROVE  /\ runs'[q] \in RunRec /\ runs'[q].session = runs[q].session
             /\ runs'[q].alloc = IF runs[q].alloc = "live" THEN "freed" ELSE runs[q].alloc
             /\ runs'[q].result = runs[q].result /\ runs'[q].finished = runs[q].finished
             /\ runs'[q].done = runs[q].done
  <2>1. runs[q] \in RunRec
    BY DEF RunsT
  <2>2. PICK a \in {"none", "live", "freed"} :
           a = IF runs[q].alloc = "live" THEN "freed" ELSE runs[q].alloc
    BY <2>1 DEF RunRec
  <2>3. runs'[q] = [runs[q] EXCEPT !.alloc = a]
    BY <2>2
  <2>4. PICK w \in RunRec : w = runs[q]
    BY <2>1
  <2> DEFINE v == [w EXCEPT !.alloc = a]
  <2>5. /\ v \in RunRec /\ v.alloc = a /\ v.session = w.session
        /\ v.result = w.result /\ v.finished = w.finished /\ v.done = w.done
    BY RunAlloc
  <2>6. runs'[q] = v
    BY <2>3, <2>4
  <2> HIDE DEF v
  <2> QED BY <2>2, <2>4, <2>5, <2>6
<1>2. runs' = [q \in Runs |-> runs'[q]]
  OBVIOUS
<1> QED BY <1>1, <1>2, ZenonT(30) DEF RunsT, Frees, Flags

----------------------------------------------------------------------------
\* What a step does to the maps and to the state of the runs.

regs == <<registry, runs, fiber, phase, waited, used, history>>

LEMMA RegSteps ==
    ASSUME [Next]_vars
    PROVE  \/ UNCHANGED regs
           \/ \E c \in Callers, s \in Sessions : \E t \in {"background", "sync"}, b \in BOOLEAN :
                 Subagent(c, s, t, b)
           \/ \E c \in Callers :
                 \/ Put(c) \/ SyncKeeps(c) \/ Register(c) \/ Unregister(c) \/ ReplaceRun(c)
                 \/ Schedule(c) \/ RequestCancel(c) \/ close(c) \/ CloseDrop(c)
           \/ \E r \in Runs : \/ RunnerReturns(r) \/ StoreResult(r) \/ StoreFinished(r)
                              \/ SignalDone(r)
           \/ drain_settled_runs \/ destroy_registry \/ take_unnoticed_finished \/ Destroyed
<1>1. ASSUME NEW c \in Callers,
             \/ drain_pending_messages(c) \/ push_steer(c) \/ queue_pending_message(c)
             \/ SyncReturns(c) \/ start_background(c) \/ StaleDone(c) \/ EvictNone(c) \/ Joined(c)
      PROVE  UNCHANGED regs
  BY <1>1 DEF drain_pending_messages, push_steer, queue_pending_message, SyncReturns,
     start_background, StaleDone, EvictNone, Joined, regs
<1>2. ASSUME NEW c \in Callers, NEW s \in Sessions,
             Interrupt(c, s) \/ SendMessage(c, s) \/ Evict(c, s)
      PROVE  UNCHANGED regs
  BY <1>2 DEF Interrupt, SendMessage, Evict, regs
<1>3. ASSUME NEW s \in Sessions, drain_steer(s) PROVE UNCHANGED regs
  BY <1>3 DEF drain_steer, regs
<1>4. UNCHANGED vars => UNCHANGED regs
  BY DEF vars, regs
<1> QED BY <1>1, <1>2, <1>3, <1>4, NextCases

LEMMA ParkType ==
    ASSUME RunsT, NEW r \in Runs, NEW b \in BOOLEAN
    PROVE  park(r, b) \in Parked /\ park(r, b).run = r /\ park(r, b).noticed = b
<1>1. runs[r].result \in BOOLEAN
  BY DEF RunsT, RunRec
<1> QED BY <1>1 DEF park, Parked

LEMMA MapsTypedNext ==
    ASSUME MapsTyped, CallsTyped, [Next]_vars
    PROVE  MapsTyped'
<1>t. /\ RunsT /\ used \in 0..MaxRuns /\ MaxRuns \in Nat /\ Runs = 1..MaxRuns
      /\ \A s \in DOMAIN slots : slots[s] \in 0..MaxRuns
      /\ \A s : RunOf(s) \in 0..used /\ RunOf(s) \in 0..MaxRuns
  BY Bounds DEF MapsTyped, RunsT, RunOf, Present, Runs
<1>c. \A c \in Callers : call[c] \in CallRec /\ CallOK(call[c])
  BY DEF CallsTyped
<1>0. CASE UNCHANGED regs
  BY <1>0 DEF regs, registry, history, MapsTyped
<1>1. ASSUME NEW c \in Callers, NEW s \in Sessions, NEW t \in {"background", "sync"},
             NEW b \in BOOLEAN, Subagent(c, s, t, b)
      PROVE  MapsTyped'
  <2>1. used' \in 0..MaxRuns /\ used <= used'
    BY <1>1, CallSubagent DEF CallsTyped, Calls
  <2>2. UNCHANGED <<registry, runs, fiber, phase, waited, history>>
    BY <1>1 DEF Subagent
  <2>3. \A s2 \in DOMAIN slots : slots[s2] \in 0..used'
    BY <2>1, <1>t DEF MapsTyped
  <2> QED BY <2>1, <2>2, <2>3 DEF registry, history, MapsTyped
<1>p. ASSUME NEW s \in Sessions, NEW r \in 0..used, slots' = store(slots, s, r)
      PROVE  DOMAIN slots' \in SUBSET Sessions /\ \A x \in DOMAIN slots' : slots'[x] \in 0..used
  BY <1>p DEF store, MapsTyped
<1>2. ASSUME NEW c \in Callers, Put(c) \/ SyncKeeps(c) PROVE MapsTyped'
  <2>1. call[c].id \in Sessions
    BY <1>2, <1>c DEF Put, SyncKeeps, At, CallOK
  <2>2. slots' = store(slots, call[c].id, RunOf(call[c].id))
    BY <1>2 DEF Put, SyncKeeps, put
  <2>3. UNCHANGED <<live_sessions, finished, runs, fiber, phase, waited, used, history>>
    BY <1>2 DEF Put, SyncKeeps
  <2>4. DOMAIN slots' \in SUBSET Sessions /\ \A x \in DOMAIN slots' : slots'[x] \in 0..used
    BY <2>1, <2>2, <1>p, <1>t
  <2> QED BY <2>3, <2>4 DEF history, MapsTyped
<1>3. ASSUME NEW c \in Callers, Register(c) \/ Unregister(c) PROVE MapsTyped'
  <2>1. call[c].id \in Sessions
    BY <1>3, <1>c DEF Register, Unregister, At, CallOK
  <2>2. live_sessions' \in SUBSET Sessions
    BY <2>1, <1>3 DEF Register, Unregister, MapsTyped
  <2> QED BY <1>3, <2>2 DEF Register, Unregister, history, MapsTyped
<1>5. ASSUME NEW c \in Callers, ReplaceRun(c) PROVE MapsTyped'
  <2>1. CASE ~Present(call[c].id)
    BY <1>5, <2>1 DEF ReplaceRun, history, MapsTyped
  <2>2. CASE Present(call[c].id)
    <3>1. PICK s \in Sessions : s = call[c].id
      BY <1>5, <1>c DEF ReplaceRun, At, CallOK
    <3>2. PICK r \in Runs : r = call[c].new /\ r \in 1..used
      BY <1>5, <1>c, <1>t DEF ReplaceRun, At, CallOK, Starting
    <3>3. PICK b \in BOOLEAN : b = call[c].close
      BY <1>c DEF CallRec
    <3>4. PICK o \in 0..MaxRuns : o = slots[s]
      BY <2>2, <3>1, <1>t DEF Present
    <3>5. slots' = store(slots, s, r)
          /\ runs' = [freed(o) EXCEPT ![r] = [NoRun EXCEPT !.session = s, !.alloc = "live",
                                                          !.close_requested = b]]
      BY <1>5, <2>2, <3>1, <3>2, <3>3, <3>4 DEF ReplaceRun
    <3>6. runs' \in [Runs -> RunRec]
      BY <3>5, <1>t, SetNew DEF RunsT
    <3>7. DOMAIN slots' \in SUBSET Sessions /\ \A x \in DOMAIN slots' : slots'[x] \in 0..used
      BY <3>2, <3>5, <1>p, <1>t
    <3> QED BY <1>5, <3>6, <3>7 DEF ReplaceRun, history, MapsTyped
  <2> QED BY <2>1, <2>2
<1>6. ASSUME NEW c \in Callers, Schedule(c) PROVE MapsTyped'
  <2>1. fiber' \in [Runs -> FiberLabels]
    BY <1>6 DEF Schedule, MapsTyped, FiberLabels
  <2> QED BY <1>6, <2>1 DEF Schedule, registry, history, MapsTyped
<1>7. ASSUME NEW c \in Callers, RequestCancel(c) \/ close(c) PROVE MapsTyped'
  <2>1. PICK r \in 0..MaxRuns : runs' = cancelled(r)
    BY <1>7, <1>t DEF RequestCancel, close
  <2>2. runs' \in [Runs -> RunRec]
    BY <2>1, <1>t, SetCancel DEF RunsT
  <2> QED BY <1>7, <2>2 DEF RequestCancel, close, registry, history, MapsTyped
<1>8. ASSUME NEW c \in Callers, CloseDrop(c) PROVE MapsTyped'
  <2>1. PICK s \in Sessions : s = call[c].target
    BY <1>8, <1>c DEF CloseDrop, At, CallOK
  <2>2. PICK r \in 0..MaxRuns : r = RunOf(s)
    BY <1>t
  <2>3. /\ finished' = IF r = 0 THEN finished ELSE store(finished, s, park(r, FALSE))
        /\ hollow' = (hollow \/ (r # 0 /\ ~runs[r].result))
        /\ runs' = freed(r) /\ slots' = erase(slots, s)
        /\ live_sessions' = IF Present(s) THEN live_sessions \ {s} ELSE live_sessions
        /\ UNCHANGED <<fiber, phase, waited, used, notices>>
    BY <1>8, <2>1, <2>2 DEF CloseDrop
  <2>4. runs' \in [Runs -> RunRec]
    BY <2>3, <1>t, SetFreed DEF RunsT
  <2>5. DOMAIN slots' \in SUBSET Sessions /\ \A x \in DOMAIN slots' : slots'[x] \in 0..used
    BY <2>3 DEF erase, MapsTyped
  <2>6. DOMAIN finished' \in SUBSET Sessions /\ \A x \in DOMAIN finished' : finished'[x] \in Parked
    <3>1. CASE r = 0
      BY <3>1, <2>3 DEF MapsTyped
    <3>2. CASE r # 0
      <4>1. r \in Runs /\ FALSE \in BOOLEAN
        BY <3>2, <1>t
      <4>2. PICK p \in Parked : p = park(r, FALSE)
        BY <4>1, <1>t, ParkType
      <4> QED BY <3>2, <4>2, <2>3 DEF store, MapsTyped
    <3> QED BY <3>1, <3>2
  <2>7. hollow' \in BOOLEAN
    BY <2>3
  <2>8. live_sessions' \in SUBSET Sessions
    BY <2>3 DEF MapsTyped
  <2> QED BY <2>3, <2>4, <2>5, <2>6, <2>7, <2>8 DEF MapsTyped
<1>9. ASSUME NEW r \in Runs,
             RunnerReturns(r) \/ StoreResult(r) \/ StoreFinished(r) \/ SignalDone(r)
      PROVE  MapsTyped'
  <2>1. fiber' \in [Runs -> FiberLabels]
    BY <1>9 DEF RunnerReturns, StoreResult, StoreFinished, SignalDone, MapsTyped, FiberLabels
  <2>2. runs' \in [Runs -> RunRec]
    BY <1>9, <1>t, SetResult, SetFinished, SetDone
       DEF RunnerReturns, StoreResult, StoreFinished, SignalDone, RunsT
  <2> QED BY <1>9, <2>1, <2>2
          DEF RunnerReturns, StoreResult, StoreFinished, SignalDone, registry, history, MapsTyped
<1>10. CASE drain_settled_runs
  <2> DEFINE closing == {s \in Settled : runs[slots[s]].close_requested}
             drained == {slots[s] : s \in Settled}
  <2>1. Settled \in SUBSET DOMAIN slots /\ \A s \in Settled : slots[s] \in Runs
    BY <1>t DEF Settled
  <2>2. closing \in SUBSET Settled
    OBVIOUS
  <2>3. drained \in SUBSET Runs
    BY <2>1
  <2>4. /\ phase' = "draining" /\ waited' = drained
        /\ notices' = [r \in Runs |-> IF r \in drained THEN notices[r] + 1 ELSE notices[r]]
        /\ hollow' = (hollow \/ \E r \in drained : ~runs[r].result)
        /\ runs' = [r \in Runs |-> IF r \in drained THEN [runs[r] EXCEPT !.alloc = "freed"] ELSE runs[r]]
        /\ finished' = [s \in DOMAIN finished \union closing |->
                           IF s \in closing THEN park_drained(slots[s]) ELSE finished[s]]
        /\ slots' = [s \in DOMAIN slots \ closing |-> slot_drained(s)]
        /\ live_sessions' = live_sessions \ closing
        /\ UNCHANGED <<fiber, used>>
    BY <1>10 DEF drain_settled_runs
  <2> HIDE DEF closing, drained
  <2>5. runs' \in [Runs -> RunRec]
    BY <2>4, <1>t, SetDrained DEF RunsT
  <2>6. notices' \in [Runs -> Nat]
    BY <2>4 DEF MapsTyped
  <2>7. DOMAIN slots' \in SUBSET Sessions /\ \A x \in DOMAIN slots' : slots'[x] \in 0..used
    BY <2>4, <1>t DEF MapsTyped, slot_drained
  <2>8. DOMAIN finished' \in SUBSET Sessions /\ \A x \in DOMAIN finished' : finished'[x] \in Parked
    <3>1. DOMAIN finished' = DOMAIN finished \union closing
      BY <2>4
    <3>2. ASSUME NEW x \in closing PROVE finished'[x] \in Parked
      <4>1. slots[x] \in Runs /\ TRUE \in BOOLEAN
        BY <2>1, <2>2
      <4> QED BY <4>1, <2>4, <1>t, ParkType DEF park_drained
    <3> QED BY <3>1, <3>2, <2>1, <2>2, <2>4 DEF MapsTyped
  <2>9. hollow' \in BOOLEAN
    BY <2>4
  <2>10. live_sessions' \in SUBSET Sessions
    BY <2>4 DEF MapsTyped
  <2> QED BY <2>3, <2>4, <2>5, <2>6, <2>7, <2>8, <2>9, <2>10 DEF MapsTyped
<1>11. CASE destroy_registry
  <2> DEFINE left == {slots[s] : s \in DOMAIN slots} \ {0}
  <2>1. /\ phase' = "closing" /\ waited' = left
        /\ runs' = [r \in Runs |-> IF r \in left THEN [runs[r] EXCEPT !.cancel = TRUE] ELSE runs[r]]
        /\ UNCHANGED <<registry, fiber, used, history>>
    BY <1>11 DEF destroy_registry
  <2>2. left \in SUBSET Runs
    BY <1>t
  <2> HIDE DEF left
  <2>3. runs' \in [Runs -> RunRec]
    BY <2>1, <1>t, SetDestroy DEF RunsT
  <2> QED BY <2>1, <2>2, <2>3 DEF registry, history, MapsTyped
<1>12. CASE take_unnoticed_finished
  <2>1. notices' \in [Runs -> Nat]
    BY <1>12 DEF take_unnoticed_finished, MapsTyped
  <2>2. DOMAIN finished' = DOMAIN finished
        /\ \A s \in DOMAIN finished : finished'[s] = [finished[s] EXCEPT !.noticed = TRUE]
    BY <1>12 DEF take_unnoticed_finished
  <2>3. ASSUME NEW p \in Parked PROVE [p EXCEPT !.noticed = TRUE] \in Parked
    <3>1. TRUE \in BOOLEAN
      OBVIOUS
    <3> QED BY <3>1 DEF Parked
  <2>4. DOMAIN finished' \in SUBSET Sessions /\ \A s \in DOMAIN finished' : finished'[s] \in Parked
    BY <2>2, <2>3 DEF MapsTyped
  <2> QED BY <1>12, <2>1, <2>4 DEF take_unnoticed_finished, MapsTyped
<1>13. CASE Destroyed
  <2>1. runs' \in [Runs -> RunRec]
    BY <1>13, <1>t, SetDead DEF Destroyed, RunsT
  <2>2. DOMAIN slots' = {} /\ DOMAIN finished' = {} /\ live_sessions' = {}
    BY <1>13 DEF Destroyed
  <2> QED BY <1>13, <2>1, <2>2 DEF Destroyed, history, MapsTyped
<1> QED BY <1>0, <1>1, <1>2, <1>3, <1>5, <1>6, <1>7, <1>8, <1>9, <1>10, <1>11, <1>12, <1>13, RegSteps

LEMMA MailTypedNext ==
    ASSUME MapsTyped, MailTyped, CallsTyped, [Next]_vars
    PROVE  MailTyped'
<1>c. \A c \in Callers : call[c] \in CallRec /\ CallOK(call[c])
  BY DEF CallsTyped
<1>e. <<>> \in Seq(Messages)
  OBVIOUS
<1>h. \A ms : handed(ms) \in [Messages -> Nat]
  BY DEF handed, MailTyped
<1>b. \A S : emptied(S) \in [Sessions -> Seq(Messages)]
  BY <1>e DEF emptied, MailTyped
<1>0. CASE UNCHANGED mail
  BY <1>0 DEF mail, MailTyped
<1>1. ASSUME NEW c \in Callers, NEW s \in Sessions, SendMessage(c, s) PROVE MailTyped'
  <2>1. sent' \in 0..MaxMessages
    BY <1>1, CallSend DEF CallsTyped, Calls
  <2> QED BY <1>1, <2>1 DEF SendMessage, MailTyped
<1>2. ASSUME NEW s \in Sessions, drain_steer(s) PROVE MailTyped'
  BY <1>2, <1>e, <1>h DEF drain_steer, MailTyped
<1>3. ASSUME NEW c \in Callers, drain_pending_messages(c) PROVE MailTyped'
  BY <1>3, <1>e DEF drain_pending_messages, MailTyped
<1>m. ASSUME NEW c \in Callers, call[c].pc \in {"push", "queue"}
      PROVE  call[c].msg \in Messages /\ call[c].id \in Sessions
  BY <1>m, <1>c, Bounds DEF CallOK, Messages, MailTyped
<1>4. ASSUME NEW c \in Callers, push_steer(c) PROVE MailTyped'
  <2>1. call[c].msg \in Messages /\ call[c].id \in Sessions
    BY <1>4, <1>m DEF push_steer, At
  <2>2. PICK s \in Sessions : s = call[c].id
    BY <2>1
  <2>3. inbox[s] \in Seq(Messages)
    BY DEF MailTyped
  <2>4. Append(inbox[s], call[c].msg) \in Seq(Messages)
    BY <2>1, <2>3
  <2>5. inbox' = inbox \/ inbox' = [inbox EXCEPT ![s] = Append(inbox[s], call[c].msg)]
    BY <1>4, <2>2 DEF push_steer, MailTyped
  <2> QED BY <1>4, <2>4, <2>5 DEF push_steer, MailTyped
<1>5. ASSUME NEW c \in Callers, queue_pending_message(c) PROVE MailTyped'
  <2>1. call[c].msg \in Messages /\ call[c].id \in Sessions
    BY <1>5, <1>m DEF queue_pending_message, At
  <2>2. PICK s \in Sessions : s = call[c].id
    BY <2>1
  <2>3. pending[s] \in Seq(Messages)
    BY DEF MailTyped
  <2>4. Append(pending[s], call[c].msg) \in Seq(Messages)
    BY <2>1, <2>3
  <2>5. pending' = [pending EXCEPT ![s] = IF Len(pending[s]) >= MaxPending THEN pending[s]
                                          ELSE Append(pending[s], call[c].msg)]
    BY <1>5, <2>2 DEF queue_pending_message, MailTyped
  <2>6. pending' \in [Sessions -> Seq(Messages)]
    BY <2>3, <2>4, <2>5 DEF MailTyped
  <2> QED BY <1>5, <2>6 DEF queue_pending_message, MailTyped
<1>6. ASSUME NEW c \in Callers, Put(c) \/ SyncKeeps(c) PROVE MailTyped'
  BY <1>6 DEF Put, SyncKeeps, put, MailTyped
<1>7. ASSUME NEW c \in Callers, Register(c) \/ Schedule(c) PROVE MailTyped'
  BY <1>7, <1>h DEF Register, Schedule, MailTyped
<1>8. ASSUME NEW c \in Callers, CloseDrop(c) PROVE MailTyped'
  BY <1>8, <1>b DEF CloseDrop, MailTyped
<1>9. CASE drain_settled_runs
  BY <1>9, <1>b DEF drain_settled_runs, MailTyped
<1>10. CASE Destroyed
  BY <1>10, <1>b DEF Destroyed, MailTyped
<1>11. ASSUME NEW c \in Callers, SyncReturns(c) \/ start_background(c) \/ StaleDone(c)
              \/ ReplaceRun(c) \/ RequestCancel(c) \/ EvictNone(c) \/ close(c) \/ Joined(c) \/ Unregister(c)
       PROVE  UNCHANGED mail
  BY <1>11 DEF SyncReturns, start_background, StaleDone, ReplaceRun, RequestCancel, EvictNone, close,
     Joined, Unregister
<1>12. ASSUME NEW r \in Runs, RunnerReturns(r) \/ StoreResult(r) \/ StoreFinished(r) \/ SignalDone(r)
       PROVE  UNCHANGED mail
  BY <1>12 DEF RunnerReturns, StoreResult, StoreFinished, SignalDone
<1>13. ASSUME NEW c \in Callers, NEW s \in Sessions, Interrupt(c, s) \/ Evict(c, s)
       PROVE  UNCHANGED mail
  BY <1>13 DEF Interrupt, Evict
<1>14. ASSUME NEW c \in Callers, NEW s \in Sessions, NEW t, NEW b, Subagent(c, s, t, b)
       PROVE  UNCHANGED mail
  BY <1>14 DEF Subagent
<1>15. destroy_registry \/ take_unnoticed_finished \/ UNCHANGED vars => UNCHANGED mail
  BY DEF destroy_registry, take_unnoticed_finished, vars
<1> QED BY <1>0, <1>1, <1>2, <1>3, <1>4, <1>5, <1>6, <1>7, <1>8, <1>9, <1>10, <1>11, <1>12, <1>13,
           <1>14, <1>15, NextCases

----------------------------------------------------------------------------
\* Runs and their owners.

\* No call begins, and none is given a run or schedules one.
NewStays == \A c \in Callers : /\ call'[c].new \in {call[c].new, 0}
                               /\ call'[c].pc = "schedule" <=> call[c].pc = "schedule"
                               /\ call[c].pc = "schedule" => call'[c].new = call[c].new

LEMMA NewSteps ==
    ASSUME MapsTyped, MailTyped, CallsTyped, [Next]_vars
    PROVE  \/ NewStays
           \/ \E c \in Callers, s \in Sessions : \E t \in {"background", "sync"}, b \in BOOLEAN :
                 Subagent(c, s, t, b)
           \/ \E c \in Callers : ReplaceRun(c) \/ Schedule(c)
<1>0. ASSUME call' = call PROVE NewStays
  BY <1>0 DEF NewStays
<1>1. ASSUME NEW c \in Callers, CallStep(c), ~ReplaceRun(c), ~Schedule(c) PROVE NewStays
  <2>1. OthersCall(c) /\ CallMove(c) /\ CallOK(call[c])
    BY <1>1, CallMoves DEF CallsTyped
  <2>2. call[c].pc \notin {"replace", "schedule"}
    BY <1>1 DEF CallStep, drain_pending_messages, push_steer, queue_pending_message, Put, Register,
       SyncReturns, SyncKeeps, start_background, StaleDone, RequestCancel, EvictNone, Evict, close,
       Joined, CloseDrop, Unregister, At
  <2>3. call'[c].new \in {call[c].new, 0} /\ call'[c].pc # "schedule"
    BY <2>1, <2>2, NoCallType DEF CallMove, Moves, Fixed, CallOK
  <2> QED BY <2>1, <2>2, <2>3 DEF NewStays, OthersCall
<1>2. ASSUME NEW c \in Callers, NEW s \in Sessions, Interrupt(c, s) \/ SendMessage(c, s)
      PROVE  NewStays
  <2>1. OthersCall(c) /\ call[c].pc = "idle" /\ call'[c].pc # "schedule" /\ call'[c].new = 0
    BY <1>2, CallInterrupt, CallSend DEF CallsTyped, Calls
  <2> QED BY <2>1 DEF NewStays, OthersCall
<1>3. ASSUME NEW s \in Sessions, drain_steer(s) PROVE call' = call
  BY <1>3 DEF drain_steer
<1>4. ASSUME NEW r \in Runs, RunnerReturns(r) \/ FiberStep(r) PROVE call' = call
  BY <1>4 DEF RunnerReturns, FiberStep, StoreResult, StoreFinished, SignalDone
<1>5. drain_settled_runs \/ destroy_registry \/ TurnStep \/ UNCHANGED vars => call' = call
  BY DEF drain_settled_runs, destroy_registry, TurnStep, take_unnoticed_finished, Destroyed, vars
<1> QED BY <1>0, <1>1, <1>2, <1>3, <1>4, <1>5 DEF Next

LEMMA NewOwnStays ==
    ASSUME MapsTyped, CallsTyped, NewOwn, NewStays, used' = used,
           \A r \in Runs : /\ runs'[r].alloc = "none" <=> runs[r].alloc = "none"
                           /\ fiber'[r] = "none" <=> fiber[r] = "none"
    PROVE  NewOwn'
<1>1. ASSUME NEW c \in Callers
      PROVE  (call[c].new # 0 => call[c].new \in Runs) /\ (call[c].pc = "schedule" => call[c].new # 0)
  <2>1. call[c] \in CallRec /\ CallOK(call[c])
    BY DEF CallsTyped
  <2>2. call[c].new \in 0..MaxRuns /\ MaxRuns \in Nat
    BY <2>1, Bounds DEF CallRec
  <2>3. call[c].pc = "schedule" => call[c].new \in 1..used
    BY <2>1 DEF CallOK, Starting
  <2> QED BY <2>2, <2>3 DEF Runs, MapsTyped
<1>2. \A r \in Runs : Unmade(r) => Unmade(r)'
  BY DEF Unmade
<1>3. \A r \in Runs : r > used' => Unmade(r)'
  BY <1>2 DEF NewOwn
<1>4. ASSUME NEW c \in Callers, call'[c].new # 0, call'[c].pc # "schedule"
      PROVE  Unmade(call[c].new)'
  <2>1. PICK r \in Runs : r = call[c].new /\ call'[c].new = r /\ Unmade(r)
    BY <1>1, <1>4 DEF NewStays, NewOwn
  <2> QED BY <2>1 DEF Unmade
<1>5. ASSUME NEW c \in Callers, call'[c].pc = "schedule"
      PROVE  fiber'[call'[c].new] = "none" /\ runs'[call'[c].new].alloc # "none"
  <2>1. PICK r \in Runs : r = call[c].new /\ call'[c].new = r /\ call[c].pc = "schedule"
    BY <1>1, <1>5 DEF NewStays
  <2> QED BY <2>1 DEF NewOwn
<1>6. \A c, d \in Callers : c # d /\ call'[c].new # 0 => call'[c].new # call'[d].new
  BY DEF NewStays, NewOwn
<1>7. \A r \in Runs : runs'[r].alloc = "none" => fiber'[r] = "none"
  BY DEF NewOwn
<1> QED BY <1>3, <1>4, <1>5, <1>6, <1>7 DEF NewOwn

\* A new run r takes the place of the run o, or of none, in the slot of s.
Replaces(c, s, r, o) ==
    /\ call[c].pc = "replace" /\ s = call[c].id /\ s \in DOMAIN slots
    /\ r = call[c].new /\ r \in 1..used /\ Unmade(r)
    /\ o = slots[s] /\ (o # 0 => o \in Runs /\ runs[o].alloc = "live" /\ runs[o].session = s)
    /\ DOMAIN slots' = DOMAIN slots /\ slots'[s] = r
    /\ \A x \in DOMAIN slots \ {s} : slots'[x] = slots[x]
    /\ \A q \in Runs \ {r} :
          /\ runs'[q].session = runs[q].session
          /\ runs'[q].alloc = IF q = o THEN "freed" ELSE runs[q].alloc
          /\ runs'[q].result = runs[q].result
          /\ runs'[q].finished = runs[q].finished /\ runs'[q].done = runs[q].done
    /\ runs'[r].session = s /\ runs'[r].alloc = "live" /\ ~runs'[r].result
    /\ ~runs'[r].finished /\ ~runs'[r].done
    /\ OthersCall(c) /\ Moves(c, "replace", "schedule")
    /\ UNCHANGED <<live_sessions, finished, fiber, phase, waited, used, notices, hollow>>

LEMMA ReplaceFacts ==
    ASSUME MapsTyped, MailTyped, CallsTyped, OwnInv, NEW c \in Callers, ReplaceRun(c),
           Present(call[c].id)
    PROVE  \E s \in Sessions, r \in Runs, o \in 0..MaxRuns : Replaces(c, s, r, o)
<1>t. /\ RunsT /\ used \in 0..MaxRuns /\ MaxRuns \in Nat /\ Runs = 1..MaxRuns
      /\ \A s \in DOMAIN slots : slots[s] \in 0..MaxRuns /\ (slots[s] # 0 => slots[s] \in Runs)
  BY Bounds DEF MapsTyped, RunsT, Runs
<1>c. call[c] \in CallRec /\ CallOK(call[c]) /\ call[c].pc = "replace"
  BY DEF CallsTyped, ReplaceRun, At
<1>1. PICK s \in Sessions : s = call[c].id /\ s \in DOMAIN slots
  BY <1>c DEF CallOK, Present
<1>2. PICK r \in Runs : r = call[c].new /\ r \in 1..used /\ Unmade(r)
  BY <1>c, <1>t DEF CallOK, Starting, OwnInv, NewOwn
<1>3. PICK b \in BOOLEAN : b = call[c].close
  BY <1>c DEF CallRec
<1>4. PICK o \in 0..MaxRuns : o = slots[s] /\ (o # 0 => o \in Runs)
  BY <1>1, <1>t
<1>5. runs' = [freed(o) EXCEPT ![r] = [NoRun EXCEPT !.session = s, !.alloc = "live",
                                                    !.close_requested = b]]
  BY <1>1, <1>2, <1>3, <1>4 DEF ReplaceRun
<1>6. RunsT
  BY <1>t
<1>7. /\ RunsT'
      /\ \A q \in Runs \ {r} :
            /\ runs'[q].session = runs[q].session
            /\ runs'[q].alloc = IF q = o THEN "freed" ELSE runs[q].alloc
            /\ runs'[q].result = runs[q].result
            /\ runs'[q].finished = runs[q].finished /\ runs'[q].done = runs[q].done
      /\ runs'[r].session = s /\ runs'[r].alloc = "live" /\ ~runs'[r].result
      /\ ~runs'[r].finished /\ ~runs'[r].done
  BY <1>5, <1>6, SetNew, Zenon
<1>8. /\ slots' = store(slots, s, r)
      /\ UNCHANGED <<live_sessions, finished, fiber, phase, waited, used, notices, hollow>>
  BY <1>1, <1>2 DEF ReplaceRun, history
<1>9. DOMAIN slots' = DOMAIN slots /\ slots'[s] = r /\ \A x \in DOMAIN slots \ {s} : slots'[x] = slots[x]
  BY <1>1, <1>8 DEF store
<1>10. OthersCall(c) /\ Moves(c, "replace", "schedule")
  <2>1. {"replace", "schedule"} \in SUBSET Labels
    BY DEF Labels
  <2> QED BY <2>1, StepGoto DEF ReplaceRun, CallsTyped, Calls
<1>11. o # 0 => o \in Runs /\ runs[o].alloc = "live" /\ runs[o].session = s
  BY <1>1, <1>4 DEF OwnInv, SlotsOwn
<1>12. Replaces(c, s, r, o)
  BY <1>c, <1>1, <1>2, <1>4, <1>7, <1>8, <1>9, <1>10, <1>11 DEF Replaces
<1> QED BY <1>12

\* The run r of s, or none, is freed and parked with the slot of s.
Drops(c, s, r) ==
    /\ call[c].pc = "drop" /\ s = call[c].target /\ r = RunOf(s)
    /\ r # 0 => r \in Runs /\ runs[r].alloc = "live" /\ runs[r].session = s
    /\ DOMAIN slots' = DOMAIN slots \ {s}
    /\ \A x \in DOMAIN slots \ {s} : slots'[x] = slots[x]
    /\ r = 0 => finished' = finished
    /\ r # 0 => /\ DOMAIN finished' = DOMAIN finished \union {s}
                /\ finished'[s].run = r /\ ~finished'[s].noticed
                /\ \A x \in DOMAIN finished \ {s} : finished'[x] = finished[x]
    /\ Frees({r}) /\ Flags
    /\ hollow' = (hollow \/ (r # 0 /\ ~runs[r].result))
    /\ live_sessions' = IF Present(s) THEN live_sessions \ {s} ELSE live_sessions
    /\ OthersCall(c) /\ Moves(c, "drop", call[c].after)
    /\ UNCHANGED <<fiber, phase, waited, used, notices>>

LEMMA DropFacts ==
    ASSUME MapsTyped, MailTyped, CallsTyped, OwnInv, NEW c \in Callers, CloseDrop(c)
    PROVE  \E s \in Sessions, r \in 0..MaxRuns : Drops(c, s, r)
<1>t. /\ RunsT /\ MaxRuns \in Nat /\ Runs = 1..MaxRuns
      /\ \A s : RunOf(s) \in 0..MaxRuns
  BY Bounds DEF MapsTyped, RunsT, RunOf, Present, Runs
<1>c. call[c] \in CallRec /\ CallOK(call[c]) /\ call[c].pc = "drop"
  BY DEF CallsTyped, CloseDrop, At
<1>1. PICK s \in Sessions : s = call[c].target
  BY <1>c DEF CallOK
<1>2. PICK r \in 0..MaxRuns : r = RunOf(s)
  BY <1>t
<1>3. /\ finished' = IF r = 0 THEN finished ELSE store(finished, s, park(r, FALSE))
      /\ hollow' = (hollow \/ (r # 0 /\ ~runs[r].result))
      /\ runs' = freed(r) /\ slots' = erase(slots, s)
      /\ live_sessions' = IF Present(s) THEN live_sessions \ {s} ELSE live_sessions
      /\ UNCHANGED <<fiber, phase, waited, used, notices>>
  BY <1>1, <1>2 DEF CloseDrop
<1>4. Frees({r}) /\ Flags
  BY <1>3, <1>t, SetFreed
<1>5. r # 0 => r \in Runs /\ runs[r].alloc = "live" /\ runs[r].session = s
  BY <1>2, <1>t DEF OwnInv, SlotsOwn, RunOf, Present
<1>6. DOMAIN slots' = DOMAIN slots \ {s} /\ \A x \in DOMAIN slots \ {s} : slots'[x] = slots[x]
  BY <1>3 DEF erase
<1>7. ASSUME r # 0
      PROVE  /\ DOMAIN finished' = DOMAIN finished \union {s}
             /\ finished'[s].run = r /\ ~finished'[s].noticed
             /\ \A x \in DOMAIN finished \ {s} : finished'[x] = finished[x]
  <2>1. finished' = store(finished, s, park(r, FALSE))
    BY <1>3, <1>7
  <2>2. /\ DOMAIN finished' = DOMAIN finished \union {s} /\ finished'[s] = park(r, FALSE)
        /\ \A x \in DOMAIN finished \ {s} : finished'[x] = finished[x]
    BY <2>1 DEF store
  <2>3. park(r, FALSE).run = r /\ ~park(r, FALSE).noticed
    BY DEF park
  <2> QED BY <2>2, <2>3
<1>8. OthersCall(c) /\ Moves(c, "drop", call[c].after)
  <2>1. PICK a \in Labels : a = call[c].after
    BY <1>c DEF CallOK, Labels
  <2>2. "drop" \in Labels
    BY DEF Labels
  <2> QED BY <2>1, <2>2, StepGoto DEF CloseDrop, CallsTyped, Calls
<1>9. r = 0 => finished' = finished
  BY <1>3
<1>10. Drops(c, s, r)
  BY <1>c, <1>1, <1>2, <1>3, <1>4, <1>5, <1>6, <1>7, <1>8, <1>9 DEF Drops
<1> QED BY <1>10

\* The settled runs D are freed; the sessions C of some of them are dropped, their
\* results parked.
Drains(C, D) ==
    /\ Settled \in SUBSET DOMAIN slots /\ C \in SUBSET Settled /\ D \in SUBSET Runs
    /\ \A s \in Settled : slots[s] \in D /\ runs[slots[s]].session = s
    /\ \A r \in D : \E s \in Settled : r = slots[s]
    /\ \A r \in D : runs[r].alloc = "live" /\ runs[r].finished
    /\ DOMAIN slots' = DOMAIN slots \ C
    /\ \A x \in DOMAIN slots' : slots'[x] = IF x \in Settled THEN 0 ELSE slots[x]
    /\ DOMAIN finished' = DOMAIN finished \union C
    /\ \A x \in C : finished'[x].run = slots[x] /\ finished'[x].noticed
    /\ \A x \in DOMAIN finished \ C : finished'[x] = finished[x]
    /\ Frees(D) /\ Flags
    /\ notices' = [r \in Runs |-> IF r \in D THEN notices[r] + 1 ELSE notices[r]]
    /\ hollow' = (hollow \/ \E r \in D : ~runs[r].result)
    /\ live_sessions' = live_sessions \ C
    /\ phase = "turn" /\ phase' = "draining" /\ waited' = D
    /\ \A c \in Callers : Idle(c)
    /\ UNCHANGED <<fiber, used, call>>

LEMMA DrainFacts ==
    ASSUME MapsTyped, OwnInv, drain_settled_runs
    PROVE  \E C, D : Drains(C, D)
<1>t. /\ RunsT /\ MaxRuns \in Nat /\ Runs = 1..MaxRuns
      /\ \A s \in DOMAIN slots : slots[s] \in 0..MaxRuns
  BY Bounds DEF MapsTyped, RunsT, Runs
<1> DEFINE C == {s \in Settled : runs[slots[s]].close_requested}
           D == {slots[s] : s \in Settled}
<1>1. /\ Settled \in SUBSET DOMAIN slots
      /\ \A s \in Settled : slots[s] \in Runs /\ slots[s] # 0 /\ runs[slots[s]].finished
  BY <1>t DEF Settled
<1>2. C \in SUBSET Settled
  OBVIOUS
<1>3. /\ D \in SUBSET Runs
      /\ \A s \in Settled : slots[s] \in D
      /\ \A r \in D : \E s \in Settled : r = slots[s]
  BY <1>1
<1>4. /\ runs' = [r \in Runs |-> IF r \in D THEN [runs[r] EXCEPT !.alloc = "freed"] ELSE runs[r]]
      /\ finished' = [s \in DOMAIN finished \union C |->
                         IF s \in C THEN park_drained(slots[s]) ELSE finished[s]]
      /\ slots' = [s \in DOMAIN slots \ C |-> slot_drained(s)]
      /\ notices' = [r \in Runs |-> IF r \in D THEN notices[r] + 1 ELSE notices[r]]
      /\ hollow' = (hollow \/ \E r \in D : ~runs[r].result)
      /\ live_sessions' = live_sessions \ C
      /\ phase = "turn" /\ phase' = "draining" /\ waited' = D
      /\ \A c \in Callers : Idle(c)
      /\ UNCHANGED <<fiber, used, call>>
  BY DEF drain_settled_runs
<1> HIDE DEF C, D
<1>5. Frees(D) /\ Flags
  BY <1>4, <1>t, SetDrained
<1>6. \A s \in Settled : runs[slots[s]].session = s /\ runs[slots[s]].alloc = "live"
  BY <1>1 DEF OwnInv, SlotsOwn
<1>7. \A r \in D : runs[r].alloc = "live" /\ runs[r].finished
  BY <1>1, <1>3, <1>6
<1>8. /\ DOMAIN slots' = DOMAIN slots \ C
      /\ \A x \in DOMAIN slots' : slots'[x] = IF x \in Settled THEN 0 ELSE slots[x]
  BY <1>4 DEF slot_drained
<1>9. /\ DOMAIN finished' = DOMAIN finished \union C
      /\ \A x \in C : finished'[x].run = slots[x] /\ finished'[x].noticed
      /\ \A x \in DOMAIN finished \ C : finished'[x] = finished[x]
  <2>1. /\ DOMAIN finished' = DOMAIN finished \union C
        /\ \A x \in C : finished'[x] = park(slots[x], TRUE)
        /\ \A x \in DOMAIN finished \ C : finished'[x] = finished[x]
    BY <1>4 DEF park_drained
  <2>2. \A x : park(slots[x], TRUE).run = slots[x] /\ park(slots[x], TRUE).noticed
    BY DEF park
  <2> QED BY <2>1, <2>2
<1>10. Drains(C, D)
  BY <1>1, <1>2, <1>3, <1>4, <1>5, <1>6, <1>7, <1>8, <1>9 DEF Drains
<1> QED BY <1>10

LEMMA OwnNext ==
    ASSUME MapsTyped, MailTyped, CallsTyped, OwnInv, [Next]_vars
    PROVE  OwnInv'
<1>t. /\ RunsT /\ used \in Nat /\ MaxRuns \in Nat /\ Runs = 1..MaxRuns
      /\ \A s \in DOMAIN slots : slots[s] \in 0..MaxRuns /\ (slots[s] # 0 => slots[s] \in Runs)
      /\ \A s : RunOf(s) \in 0..MaxRuns
      /\ \A s \in DOMAIN finished : finished[s].run \in Runs
  BY Bounds DEF MapsTyped, RunsT, RunOf, Present, Runs, Parked
<1>c. ASSUME NEW c \in Callers
      PROVE  /\ call[c] \in CallRec /\ CallOK(call[c]) /\ (call[c].new # 0 => call[c].new \in Runs)
             /\ call[c].pc = "schedule" => call[c].new \in Runs
  <2>1. call[c] \in CallRec /\ CallOK(call[c])
    BY DEF CallsTyped
  <2>2. call[c].new \in 0..MaxRuns
    BY <2>1 DEF CallRec
  <2>3. call[c].pc = "schedule" => call[c].new \in 1..used
    BY <2>1 DEF CallOK, Starting
  <2> QED BY <2>1, <2>2, <2>3, <1>t
<1>o. SlotsOwn /\ LiveOwned /\ ParkedOwn /\ NewOwn
  BY DEF OwnInv
\* The owners stay as they are.
<1>u. ASSUME Owners, slots' = slots, used' = used, NewStays, DOMAIN finished' = DOMAIN finished,
             \A s \in DOMAIN finished : finished'[s].run = finished[s].run,
             \A r \in Runs : fiber'[r] = "none" <=> fiber[r] = "none"
      PROVE  OwnInv'
  <2>1. SlotsOwn'
    BY <1>u, <1>o, <1>t DEF SlotsOwn, Owners
  <2>2. LiveOwned'
    BY <1>u, <1>o DEF LiveOwned, Owners, RunOf, Present
  <2>3. ParkedOwn'
    BY <1>u, <1>o, <1>t DEF ParkedOwn, Owners
  <2>4. NewOwn'
    BY <1>u, <1>o, NewOwnStays DEF Owners
  <2> QED BY <2>1, <2>2, <2>3, <2>4 DEF OwnInv
<1>s. ASSUME runs' = runs PROVE Owners
  BY <1>s DEF Owners
\* Runs are freed, and the slots and the parked results are what they should be.
<1>f. ASSUME NEW S \in SUBSET Runs, Frees(S), used' = used, fiber' = fiber, NewStays,
             \A r \in S : runs[r].alloc = "live",
             SlotsOwn', LiveOwned', ParkedOwn'
      PROVE  OwnInv'
  <2>1. NewOwn'
    <3>1. \A r \in Runs : runs'[r].alloc = "none" <=> runs[r].alloc = "none"
      BY <1>f DEF Frees
    <3> QED BY <1>f, <3>1, <1>o, NewOwnStays
  <2> QED BY <1>f, <2>1 DEF OwnInv
<1>0. CASE UNCHANGED regs
  <2>1. NewStays \/ ~NewStays
    OBVIOUS
  <2>2. CASE NewStays
    BY <2>2, <1>0, <1>u, <1>s DEF regs, registry
  <2>3. CASE ~NewStays
    <3>1. ASSUME NEW c \in Callers, Schedule(c) PROVE FALSE
      <4>1. call[c].new \in Runs /\ fiber[call[c].new] = "none" /\ fiber \in [Runs -> FiberLabels]
        BY <3>1, <1>o, <1>c DEF Schedule, At, NewOwn, MapsTyped
      <4>2. fiber'[call[c].new] = "running"
        BY <3>1, <4>1 DEF Schedule
      <4> QED BY <1>0, <4>1, <4>2 DEF regs
    <3>2. ASSUME NEW c \in Callers, NEW s \in Sessions, NEW t \in {"background", "sync"},
                 NEW b \in BOOLEAN, Subagent(c, s, t, b)
          PROVE  NewStays
      <4>1. /\ OthersCall(c) /\ call[c].pc = "idle" /\ call'[c].pc = "prompt"
            /\ t = "background" => used' = used + 1
            /\ t = "sync" => call'[c].new = 0
        BY <3>2, CallSubagent DEF CallsTyped, Calls
      <4>2. t = "sync"
        BY <4>1, <1>0, <1>t DEF regs
      <4> QED BY <4>1, <4>2 DEF NewStays, OthersCall
    <3>3. ASSUME NEW c \in Callers, ReplaceRun(c) PROVE NewStays
      <4>1. OthersCall(c) /\ CallMove(c) /\ call[c].pc = "replace"
        BY <3>3, CallMoves DEF CallStep, ReplaceRun, At
      <4>2. ~Present(call[c].id)
        <5> SUFFICES ASSUME Present(call[c].id) PROVE FALSE
          OBVIOUS
        <5>1. PICK r \in Runs : r = call[c].new /\ r # 0 /\ runs[r].alloc = "none"
          BY <4>1, <1>c, <1>o, <1>t DEF CallOK, Starting, NewOwn, Unmade
        <5>2. slots'[call[c].id] = r /\ slots' = slots
          BY <3>3, <5>1, <1>0 DEF ReplaceRun, store, regs, registry
        <5>3. runs[r].alloc = "live"
          BY <5>1, <5>2, <1>o DEF SlotsOwn, Present
        <5> QED BY <5>1, <5>3
      <4>3. call'[c] = NoCall
        BY <4>1, <4>2, <3>3 DEF ReplaceRun, Return, CallsTyped
      <4> QED BY <4>1, <4>3, NoCallType DEF NewStays, OthersCall
    <3> QED BY <2>3, <3>1, <3>2, <3>3, NewSteps
  <2> QED BY <2>2, <2>3
<1>1. ASSUME NEW c \in Callers, NEW s \in Sessions, NEW t \in {"background", "sync"},
             NEW b \in BOOLEAN, Subagent(c, s, t, b)
      PROVE  OwnInv'
  <2>1. /\ OthersCall(c) /\ call[c].pc = "idle" /\ call'[c].pc = "prompt"
        /\ used' \in 0..MaxRuns /\ used <= used'
        /\ t = "background" => call'[c].new = used + 1 /\ used' = used + 1
        /\ t = "sync" => call'[c].new = 0
    BY <1>1, CallSubagent DEF CallsTyped, Calls
  <2>2. UNCHANGED <<slots, finished, runs, fiber>>
    BY <1>1 DEF Subagent, registry
  <2>3. SlotsOwn' /\ LiveOwned' /\ ParkedOwn'
    BY <2>2, <1>o DEF SlotsOwn, LiveOwned, ParkedOwn, RunOf, Present
  <2>4. \A d \in Callers \ {c} : call'[d] = call[d] /\ call[d].new \in 0..used
    <3>1. \A d \in Callers : call[d].new # 0 => call[d].new \in 1..used
      BY <1>c DEF CallOK
    <3> QED BY <3>1, <2>1, <1>t DEF OthersCall
  <2>5. NewOwn'
    <3>1. \A r \in Runs : r > used' => Unmade(r)'
      BY <2>1, <2>2, <1>o, <1>t DEF NewOwn, Unmade
    <3>2. ASSUME NEW d \in Callers, call'[d].new # 0, call'[d].pc # "schedule"
          PROVE  Unmade(call[d].new)'
      <4>1. CASE d = c
        <5>1. t = "background" /\ call'[d].new = used + 1 /\ used + 1 \in Runs
          BY <4>1, <3>2, <2>1, <1>t
        <5> QED BY <5>1, <2>2, <1>o, <1>t DEF NewOwn, Unmade
      <4>2. CASE d # c
        BY <4>2, <3>2, <2>2, <2>4, <1>o DEF NewOwn, Unmade
      <4> QED BY <4>1, <4>2
    <3>3. ASSUME NEW d \in Callers, call'[d].pc = "schedule"
          PROVE  fiber'[call'[d].new] = "none" /\ runs'[call'[d].new].alloc # "none"
      <4>1. d # c
        BY <3>3, <2>1
      <4> QED BY <4>1, <3>3, <2>2, <2>4, <1>o DEF NewOwn
    <3>4. ASSUME NEW d \in Callers, NEW e \in Callers, d # e, call'[d].new # 0
          PROVE  call'[d].new # call'[e].new
      <4>1. CASE d = c
        BY <4>1, <3>4, <2>1, <2>4, <1>t
      <4>2. CASE e = c
        BY <4>2, <3>4, <2>1, <2>4, <1>t
      <4>3. CASE d # c /\ e # c
        BY <4>3, <3>4, <2>4, <1>o DEF NewOwn
      <4> QED BY <4>1, <4>2, <4>3
    <3>5. \A r \in Runs : runs'[r].alloc = "none" => fiber'[r] = "none"
      BY <2>2, <1>o DEF NewOwn
    <3> QED BY <3>1, <3>2, <3>3, <3>4, <3>5 DEF NewOwn
  <2> QED BY <2>3, <2>5 DEF OwnInv
<1>2. ASSUME NEW c \in Callers, Put(c) \/ SyncKeeps(c) PROVE OwnInv'
  <2>1. slots' = store(slots, call[c].id, RunOf(call[c].id))
        /\ UNCHANGED <<live_sessions, finished, runs, fiber, used>>
    BY <1>2 DEF Put, SyncKeeps, put
  <2>2. \A x : RunOf(x)' = RunOf(x)
    BY <2>1 DEF RunOf, Present, store
  <2>3. SlotsOwn'
    BY <2>1, <1>o DEF SlotsOwn, store, RunOf, Present
  <2>4. LiveOwned' /\ ParkedOwn'
    BY <2>1, <2>2, <1>o DEF LiveOwned, ParkedOwn
  <2>5. NewStays
    <3>1. OthersCall(c) /\ CallMove(c) /\ CallOK(call[c])
      BY <1>2, CallMoves DEF CallStep, CallsTyped
    <3>2. call[c].pc \in {"put", "sync"}
      BY <1>2 DEF Put, SyncKeeps, At
    <3>3. call'[c].new \in {call[c].new, 0} /\ call'[c].pc # "schedule"
      BY <3>1, <3>2, NoCallType DEF CallMove, Moves, Fixed
    <3> QED BY <3>1, <3>2, <3>3 DEF NewStays, OthersCall
  <2>6. NewOwn'
    BY <2>1, <2>5, <1>o, NewOwnStays
  <2> QED BY <2>3, <2>4, <2>6 DEF OwnInv
<1>k. ASSUME NEW c \in Callers,
             Register(c) \/ Unregister(c) \/ RequestCancel(c) \/ close(c) \/ CloseDrop(c)
      PROVE  NewStays
  <2>1. OthersCall(c) /\ CallMove(c) /\ CallOK(call[c])
    BY <1>k, CallMoves DEF CallStep, CallsTyped
  <2>2. call[c].pc \in {"register", "unregister", "cancel", "close", "drop"}
    BY <1>k DEF Register, Unregister, RequestCancel, close, CloseDrop, At
  <2>3. call'[c].new \in {call[c].new, 0} /\ call'[c].pc # "schedule"
    BY <2>1, <2>2, NoCallType DEF CallMove, Moves, Fixed, CallOK
  <2> QED BY <2>1, <2>2, <2>3 DEF NewStays, OthersCall
<1>3. ASSUME NEW c \in Callers, Register(c) \/ Unregister(c) PROVE OwnInv'
  <2>1. UNCHANGED <<slots, finished, runs, fiber, used>>
    BY <1>3 DEF Register, Unregister
  <2> QED BY <1>3, <2>1, <1>k, <1>s, <1>u
<1>7. ASSUME NEW c \in Callers, RequestCancel(c) \/ close(c) PROVE OwnInv'
  <2>1. PICK r \in 0..MaxRuns : runs' = cancelled(r)
    BY <1>7, <1>t DEF RequestCancel, close
  <2>2. Owners
    BY <2>1, <1>t, SetCancel
  <2>3. UNCHANGED <<slots, finished, fiber, used>>
    BY <1>7 DEF RequestCancel, close, registry
  <2> QED BY <1>7, <2>2, <2>3, <1>k, <1>u
<1>9. ASSUME NEW r \in Runs,
             RunnerReturns(r) \/ StoreResult(r) \/ StoreFinished(r) \/ SignalDone(r)
      PROVE  OwnInv'
  <2>1. Owners
    BY <1>9, <1>t, <1>s, SetResult, SetFinished, SetDone
       DEF RunnerReturns, StoreResult, StoreFinished, SignalDone
  <2>2. UNCHANGED <<slots, finished, used, call>>
    BY <1>9 DEF RunnerReturns, StoreResult, StoreFinished, SignalDone, registry
  <2>3. \A q \in Runs : fiber'[q] = "none" <=> fiber[q] = "none"
    BY <1>9 DEF RunnerReturns, StoreResult, StoreFinished, SignalDone, MapsTyped
  <2>4. NewStays
    BY <2>2 DEF NewStays
  <2> QED BY <2>1, <2>2, <2>3, <2>4, <1>u
<1>11. CASE destroy_registry
  <2>1. Owners
    BY <1>11, <1>t, SetDestroy DEF destroy_registry
  <2>2. UNCHANGED <<slots, finished, used, call, fiber>>
    BY <1>11 DEF destroy_registry, registry
  <2>3. NewStays
    BY <2>2 DEF NewStays
  <2> QED BY <2>1, <2>2, <2>3, <1>u
<1>12. CASE take_unnoticed_finished
  <2>1. UNCHANGED <<slots, used, call, fiber, runs>>
    BY <1>12 DEF take_unnoticed_finished
  <2>2. DOMAIN finished' = DOMAIN finished
        /\ \A s \in DOMAIN finished : finished'[s] = [finished[s] EXCEPT !.noticed = TRUE]
    BY <1>12 DEF take_unnoticed_finished
  <2>3. \A s \in DOMAIN finished : finished'[s].run = finished[s].run
    BY <2>2 DEF MapsTyped, Parked
  <2>4. NewStays
    BY <2>1 DEF NewStays
  <2> QED BY <2>1, <2>2, <2>3, <2>4, <1>s, <1>u
<1>5. ASSUME NEW c \in Callers, ReplaceRun(c) PROVE OwnInv'
  <2>1. CASE ~Present(call[c].id)
    <3>1. OthersCall(c) /\ call'[c] = NoCall /\ call[c].pc = "replace"
      BY <1>5, <2>1, CallReturn DEF ReplaceRun, At, CallsTyped, Calls
    <3>2. NewStays
      BY <3>1, NoCallType DEF NewStays, OthersCall
    <3>3. UNCHANGED <<slots, finished, runs, fiber, used>>
      BY <1>5, <2>1 DEF ReplaceRun
    <3> QED BY <3>2, <3>3, <1>s, <1>u
  <2>2. CASE Present(call[c].id)
    <3>1. PICK s \in Sessions, r \in Runs, o \in 0..MaxRuns : Replaces(c, s, r, o)
      BY <1>5, <2>2, ReplaceFacts
    <3>2. s \in DOMAIN slots /\ r = call[c].new /\ r \in 1..used /\ Unmade(r)
      BY <3>1 DEF Replaces
    <3>4. o = slots[s] /\ (o # 0 => o \in Runs /\ runs[o].alloc = "live")
      BY <3>1 DEF Replaces
    <3>5. UNCHANGED <<finished, fiber, used>>
      BY <3>1 DEF Replaces
    <3>6. /\ \A q \in Runs \ {r} :
                 /\ runs'[q].session = runs[q].session
                 /\ runs'[q].alloc = IF q = o THEN "freed" ELSE runs[q].alloc
          /\ runs'[r].session = s /\ runs'[r].alloc = "live"
      BY <3>1 DEF Replaces
    <3>7. DOMAIN slots' = DOMAIN slots /\ slots'[s] = r /\ \A x \in DOMAIN slots \ {s} : slots'[x] = slots[x]
      BY <3>1 DEF Replaces
    <3>8. \A x \in DOMAIN slots : slots[x] # 0 => slots[x] # r
      BY <3>2, <1>o DEF SlotsOwn, Unmade
    <3>9. SlotsOwn'
      BY <3>2, <3>4, <3>6, <3>7, <3>8, <1>o, <1>t DEF SlotsOwn
    <3>10. LiveOwned'
      <4> SUFFICES ASSUME NEW q \in Runs, runs'[q].alloc = "live"
                   PROVE  RunOf(runs[q].session)' = q
        BY DEF LiveOwned
      <4>1. CASE q = r
        BY <4>1, <3>2, <3>6, <3>7 DEF RunOf, Present
      <4>2. CASE q # r
        <5>1. q # o /\ runs[q].alloc = "live" /\ runs'[q].session = runs[q].session
          BY <4>2, <3>6
        <5>2. RunOf(runs[q].session) = q
          BY <5>1, <1>o DEF LiveOwned
        <5>3. runs[q].session \in DOMAIN slots /\ slots[runs[q].session] = q
          BY <5>2, <1>t DEF RunOf, Present
        <5>4. runs[q].session # s
          BY <5>1, <5>3, <3>4
        <5> QED BY <5>1, <5>3, <5>4, <3>7 DEF RunOf, Present
      <4> QED BY <4>1, <4>2
    <3>11. ParkedOwn'
      <4>1. ASSUME NEW x \in DOMAIN finished PROVE finished[x].run \in Runs \ {r} /\ runs'[finished[x].run].alloc = "freed"
                                        /\ runs'[finished[x].run].session = x
        BY <3>2, <3>6, <1>o, <1>t DEF ParkedOwn, Unmade
      <4> QED BY <4>1, <3>5 DEF ParkedOwn
    <3>12. OthersCall(c) /\ Moves(c, "replace", "schedule")
      BY <3>1 DEF Replaces
    <3>13. call'[c].new = r /\ call'[c].pc = "schedule" /\ call[c].pc = "replace"
      BY <3>2, <3>12 DEF Moves, Fixed
    <3>14. \A d \in Callers \ {c} : call'[d] = call[d] /\ call[d].new # r
      BY <3>2, <3>12, <1>o, <1>t DEF OthersCall, NewOwn
    <3>16. NewOwn'
      <4>1. \A q \in Runs : q > used' => Unmade(q)'
        BY <3>2, <3>5, <3>6, <3>4, <1>o, <1>t DEF NewOwn, Unmade
      <4>2. ASSUME NEW d \in Callers, call'[d].new # 0, call'[d].pc # "schedule"
            PROVE  Unmade(call[d].new)'
        <5>1. d # c /\ call'[d] = call[d] /\ call[d].new \in Runs \ {r} /\ Unmade(call[d].new)
          BY <4>2, <3>13, <3>14, <1>c, <1>o DEF NewOwn
        <5>2. PICK q \in Runs \ {r} : q = call[d].new /\ q = call'[d].new /\ Unmade(q)
          BY <5>1
        <5>3. q # o
          BY <5>2, <3>4, <1>t DEF Unmade
        <5> QED BY <5>2, <5>3, <3>5, <3>6 DEF Unmade
      <4>3. ASSUME NEW d \in Callers, call'[d].pc = "schedule"
            PROVE  fiber'[call'[d].new] = "none" /\ runs'[call'[d].new].alloc # "none"
        <5>1. CASE d = c
          BY <5>1, <3>2, <3>5, <3>6, <3>13 DEF Unmade
        <5>2. CASE d # c
          <6>1. call'[d] = call[d] /\ call[d].new \in Runs \ {r}
            BY <5>2, <4>3, <3>14, <1>c
          <6> QED BY <6>1, <4>3, <3>5, <3>6, <1>o DEF NewOwn
        <5> QED BY <5>1, <5>2
      <4>4. \A d, e \in Callers : d # e /\ call'[d].new # 0 => call'[d].new # call'[e].new
        BY <3>13, <3>14, <1>o DEF NewOwn
      <4>5. \A q \in Runs : runs'[q].alloc = "none" => fiber'[q] = "none"
        BY <3>5, <3>6, <1>o DEF NewOwn
      <4> QED BY <4>1, <4>2, <4>3, <4>4, <4>5 DEF NewOwn
    <3> QED BY <3>9, <3>10, <3>11, <3>16 DEF OwnInv
  <2> QED BY <2>1, <2>2
<1>6. ASSUME NEW c \in Callers, Schedule(c) PROVE OwnInv'
  <2>1. PICK r \in Runs : r = call[c].new /\ fiber[r] = "none" /\ runs[r].alloc # "none" /\ r # 0
                          /\ r \in 1..used
    BY <1>6, <1>c, <1>o, <1>t DEF Schedule, At, NewOwn, CallOK, Starting
  <2>2. OthersCall(c) /\ call'[c] = NoCall /\ call[c].pc = "schedule"
    BY <1>6, CallReturn DEF Schedule, At, CallsTyped, Calls
  <2>3. UNCHANGED <<slots, finished, runs, used>> /\ \A q \in Runs \ {r} : fiber'[q] = fiber[q]
    BY <1>6, <2>1 DEF Schedule, registry, MapsTyped
  <2>4. SlotsOwn' /\ LiveOwned' /\ ParkedOwn'
    BY <2>3, <1>o DEF SlotsOwn, LiveOwned, ParkedOwn, RunOf, Present
  <2>5. \A d \in Callers \ {c} : call'[d] = call[d] /\ call[d].new # r
    BY <2>1, <2>2, <1>o DEF OthersCall, NewOwn
  <2>6. call'[c].new = 0 /\ call'[c].pc = "idle"
    BY <2>2, NoCallType
  <2>7. NewOwn'
    <3>1. \A q \in Runs : q > used' => Unmade(q)'
      BY <2>1, <2>3, <1>o, <1>t DEF NewOwn, Unmade
    <3>2. ASSUME NEW d \in Callers, call'[d].new # 0, call'[d].pc # "schedule"
          PROVE  Unmade(call[d].new)'
      <4>1. d # c /\ call'[d] = call[d] /\ call[d].new \in Runs \ {r} /\ Unmade(call[d].new)
        BY <3>2, <2>5, <2>6, <1>c, <1>o DEF NewOwn
      <4> QED BY <4>1, <2>3 DEF Unmade
    <3>3. ASSUME NEW d \in Callers, call'[d].pc = "schedule"
          PROVE  fiber'[call'[d].new] = "none" /\ runs'[call'[d].new].alloc # "none"
      <4>1. d # c /\ call'[d] = call[d] /\ call[d].new \in Runs \ {r}
        BY <3>3, <2>5, <2>6, <1>c
      <4> QED BY <4>1, <3>3, <2>3, <1>o DEF NewOwn
    <3>4. \A d, e \in Callers : d # e /\ call'[d].new # 0 => call'[d].new # call'[e].new
      BY <2>5, <2>6, <1>o DEF NewOwn
    <3>5. \A q \in Runs : runs'[q].alloc = "none" => fiber'[q] = "none"
      BY <2>1, <2>3, <1>o DEF NewOwn
    <3> QED BY <3>1, <3>2, <3>3, <3>4, <3>5 DEF NewOwn
  <2> QED BY <2>4, <2>7 DEF OwnInv
<1>8. ASSUME NEW c \in Callers, CloseDrop(c) PROVE OwnInv'
  <2>1. PICK s \in Sessions, r \in 0..MaxRuns : Drops(c, s, r)
    BY <1>8, DropFacts
  <2>2. r = RunOf(s) /\ UNCHANGED <<fiber, used>>
    BY <2>1 DEF Drops
  <2>4. Frees({r})
    BY <2>1 DEF Drops
  <2>5. r # 0 => r \in Runs /\ runs[r].alloc = "live" /\ runs[r].session = s
    BY <2>1 DEF Drops
  <2>6. DOMAIN slots' = DOMAIN slots \ {s} /\ \A x \in DOMAIN slots \ {s} : slots'[x] = slots[x]
    BY <2>1 DEF Drops
  <2>7. SlotsOwn'
    BY <2>4, <2>5, <2>6, <1>o, <1>t DEF SlotsOwn, Frees
  <2>8. LiveOwned'
    <3> SUFFICES ASSUME NEW q \in Runs, runs'[q].alloc = "live"
                 PROVE  RunOf(runs[q].session)' = q
      BY DEF LiveOwned
    <3>1. q # r /\ runs[q].alloc = "live" /\ runs'[q].session = runs[q].session
      BY <2>4 DEF Frees
    <3>2. runs[q].session \in DOMAIN slots /\ slots[runs[q].session] = q
      BY <3>1, <1>o, <1>t DEF LiveOwned, RunOf, Present
    <3>3. runs[q].session # s
      BY <3>1, <3>2, <2>2 DEF RunOf, Present
    <3> QED BY <3>1, <3>2, <3>3, <2>6 DEF RunOf, Present
  <2>9. ParkedOwn'
    <3>1. ASSUME NEW x \in DOMAIN finished
          PROVE runs'[finished[x].run].session = x /\ runs'[finished[x].run].alloc = "freed"
      BY <2>4, <1>o, <1>t DEF ParkedOwn, Frees
    <3>2. CASE r = 0
      BY <3>1, <3>2, <2>1 DEF Drops, ParkedOwn
    <3>3. CASE r # 0
      <4>1. DOMAIN finished' = DOMAIN finished \union {s} /\ finished'[s].run = r
            /\ \A x \in DOMAIN finished \ {s} : finished'[x] = finished[x]
        BY <3>3, <2>1 DEF Drops
      <4>3. runs'[r].session = s /\ runs'[r].alloc = "freed"
        BY <3>3, <2>4, <2>5 DEF Frees
      <4> QED BY <3>1, <4>1, <4>3 DEF ParkedOwn
    <3> QED BY <3>2, <3>3
  <2>10. Frees({r} \intersect Runs) /\ \A q \in {r} \intersect Runs : runs[q].alloc = "live"
    BY <2>4, <2>5, <1>t DEF Frees
  <2>11. {r} \intersect Runs \in SUBSET Runs
    OBVIOUS
  <2> QED BY <1>8, <2>2, <2>7, <2>8, <2>9, <2>10, <2>11, <1>k, <1>f
<1>10. CASE drain_settled_runs
  <2>1. PICK C, D : Drains(C, D)
    BY <1>10, DrainFacts
  <2>2. Settled \in SUBSET DOMAIN slots /\ C \in SUBSET Settled
    BY <2>1 DEF Drains
  <2>3. /\ D \in SUBSET Runs
        /\ \A s \in Settled : slots[s] \in D /\ runs[slots[s]].session = s
        /\ \A r \in D : \E s \in Settled : r = slots[s]
        /\ \A r \in D : runs[r].alloc = "live"
    BY <2>1 DEF Drains
  <2>4. UNCHANGED <<fiber, used, call>>
    BY <2>1 DEF Drains
  <2>5. Frees(D)
    BY <2>1 DEF Drains
  <2>7. DOMAIN slots' = DOMAIN slots \ C
        /\ \A x \in DOMAIN slots' : slots'[x] = IF x \in Settled THEN 0 ELSE slots[x]
    BY <2>1 DEF Drains
  <2>8. SlotsOwn'
    <3> SUFFICES ASSUME NEW x \in DOMAIN slots', slots'[x] # 0
                 PROVE  runs'[slots'[x]].session = x /\ runs'[slots'[x]].alloc = "live"
      BY DEF SlotsOwn
    <3>1. x \in DOMAIN slots /\ x \notin Settled /\ slots'[x] = slots[x] /\ slots[x] \in Runs
      BY <2>7, <1>t
    <3>2. runs[slots[x]].session = x /\ runs[slots[x]].alloc = "live"
      BY <3>1, <1>o DEF SlotsOwn
    <3>3. slots[x] \notin D
      <4> SUFFICES ASSUME slots[x] \in D PROVE FALSE
        OBVIOUS
      <4>1. PICK s \in Settled : slots[x] = slots[s]
        BY <2>3
      <4>2. runs[slots[s]].session = s
        BY <2>3
      <4> QED BY <4>1, <4>2, <3>1, <3>2
    <3> QED BY <3>1, <3>2, <3>3, <2>5 DEF Frees
  <2>9. LiveOwned'
    <3> SUFFICES ASSUME NEW q \in Runs, runs'[q].alloc = "live"
                 PROVE  RunOf(runs[q].session)' = q
      BY DEF LiveOwned
    <3>1. q \notin D /\ runs[q].alloc = "live" /\ runs'[q].session = runs[q].session
      BY <2>5 DEF Frees
    <3>2. runs[q].session \in DOMAIN slots /\ slots[runs[q].session] = q
      BY <3>1, <1>o, <1>t DEF LiveOwned, RunOf, Present
    <3>3. runs[q].session \notin Settled
      BY <3>1, <3>2, <2>3
    <3> QED BY <3>1, <3>2, <3>3, <2>2, <2>7 DEF RunOf, Present
  <2>10. ParkedOwn'
    <3>1. /\ DOMAIN finished' = DOMAIN finished \union C
          /\ \A x \in C : finished'[x].run = slots[x]
          /\ \A x \in DOMAIN finished \ C : finished'[x] = finished[x]
      BY <2>1 DEF Drains
    <3>2. ASSUME NEW x \in C
          PROVE  runs'[finished'[x].run].session = x /\ runs'[finished'[x].run].alloc = "freed"
      BY <3>1, <2>2, <2>3, <2>5 DEF Frees
    <3>3. ASSUME NEW x \in DOMAIN finished' \ C
          PROVE  runs'[finished'[x].run].session = x /\ runs'[finished'[x].run].alloc = "freed"
      BY <3>1, <2>5, <1>o, <1>t DEF ParkedOwn, Frees
    <3> QED BY <3>2, <3>3 DEF ParkedOwn
  <2>11. NewStays
    BY <2>4 DEF NewStays
  <2> QED BY <2>3, <2>4, <2>5, <2>8, <2>9, <2>10, <2>11, <1>f
<1>13. CASE Destroyed
  <2>1. Frees({r \in Runs : runs[r].alloc = "live"}) /\ UNCHANGED <<fiber, used, call>>
        /\ DOMAIN slots' = {} /\ DOMAIN finished' = {}
    BY <1>13, <1>t, SetDead DEF Destroyed
  <2>2. SlotsOwn' /\ ParkedOwn'
    BY <2>1 DEF SlotsOwn, ParkedOwn
  <2>3. LiveOwned'
    BY <2>1 DEF LiveOwned, Frees
  <2>4. NewStays
    BY <2>1 DEF NewStays
  <2>5. {r \in Runs : runs[r].alloc = "live"} \in SUBSET Runs
    OBVIOUS
  <2> QED BY <2>1, <2>2, <2>3, <2>4, <2>5, <1>f
<1> QED BY <1>0, <1>1, <1>2, <1>3, <1>5, <1>6, <1>7, <1>8, <1>9, <1>10, <1>11, <1>12, <1>13, RegSteps

----------------------------------------------------------------------------
\* What a step does to the runs and to who owns them.

Quiet ==
    /\ \A s : RunOf(s)' = RunOf(s)
    /\ Owners /\ Flags /\ used \in Nat /\ used' \in Nat /\ used <= used'
    /\ UNCHANGED <<finished, fiber, phase, waited, notices, hollow>>
Starts(c, r) ==
    /\ call[c].pc = "schedule" /\ r = call[c].new /\ fiber[r] = "none" /\ call'[c] = NoCall
    /\ fiber'[r] = "running" /\ \A q \in Runs \ {r} : fiber'[q] = fiber[q]
    /\ UNCHANGED <<slots, live_sessions, finished, runs, phase, waited, used, notices, hollow>>

LEMMA StartFacts ==
    ASSUME MapsTyped, CallsTyped, OwnInv, NEW c \in Callers, Schedule(c)
    PROVE  \E r \in Runs : Starts(c, r)
<1>1. /\ call[c].pc = "schedule" /\ CallOK(call[c]) /\ call'[c] = NoCall
      /\ fiber[call[c].new] = "none"
  BY CallReturn DEF Schedule, At, CallsTyped, Calls, OwnInv, NewOwn
<1>2. PICK r \in Runs : r = call[c].new
  BY <1>1, Bounds DEF CallOK, Starting, Runs, MapsTyped
<1>3. fiber'[r] = "running" /\ \A q \in Runs \ {r} : fiber'[q] = fiber[q]
  BY <1>2 DEF Schedule, MapsTyped
<1> QED BY <1>1, <1>2, <1>3 DEF Schedule, Starts, registry, history

LEMMA RunSteps ==
    ASSUME MapsTyped, MailTyped, CallsTyped, OwnInv, [Next]_vars
    PROVE  \/ Quiet
           \/ \E c \in Callers, s \in Sessions, r \in Runs, o \in 0..MaxRuns : Replaces(c, s, r, o)
           \/ \E c \in Callers, r \in Runs : Starts(c, r)
           \/ \E r \in Runs : \/ RunnerReturns(r) \/ StoreResult(r) \/ StoreFinished(r)
                              \/ SignalDone(r)
           \/ \E c \in Callers, s \in Sessions, r \in 0..MaxRuns : Drops(c, s, r)
           \/ \E C, D : Drains(C, D)
           \/ destroy_registry \/ take_unnoticed_finished \/ Destroyed
<1>t. RunsT /\ used \in Nat /\ MaxRuns \in Nat /\ \A s : RunOf(s) \in 0..MaxRuns
  BY Bounds DEF MapsTyped, RunsT, RunOf, Present
<1>s. ASSUME runs' = runs PROVE Owners /\ Flags
  BY <1>s DEF Owners, Flags
<1>0. CASE UNCHANGED regs
  BY <1>0, <1>s, <1>t DEF regs, registry, history, Quiet, RunOf, Present
<1>1. ASSUME NEW c \in Callers, NEW s \in Sessions, NEW t \in {"background", "sync"},
             NEW b \in BOOLEAN, Subagent(c, s, t, b)
      PROVE  Quiet
  <2>1. used' \in 0..MaxRuns /\ used <= used'
    BY <1>1, CallSubagent DEF CallsTyped, Calls
  <2>2. UNCHANGED <<registry, runs, fiber, phase, waited, history>>
    BY <1>1 DEF Subagent
  <2> QED BY <2>1, <2>2, <1>s, <1>t DEF Quiet, registry, history, RunOf, Present
<1>2. ASSUME NEW c \in Callers, Put(c) \/ SyncKeeps(c) PROVE Quiet
  <2>1. slots' = store(slots, call[c].id, RunOf(call[c].id))
        /\ UNCHANGED <<finished, runs, fiber, phase, waited, used, history>>
    BY <1>2 DEF Put, SyncKeeps, put
  <2>2. \A x : RunOf(x)' = RunOf(x)
    BY <2>1 DEF RunOf, Present, store
  <2> QED BY <2>1, <2>2, <1>s, <1>t DEF Quiet, history
<1>3. ASSUME NEW c \in Callers, Register(c) \/ Unregister(c) PROVE Quiet
  BY <1>3, <1>s, <1>t DEF Register, Unregister, Quiet, history, RunOf, Present
<1>4. ASSUME NEW c \in Callers, RequestCancel(c) \/ close(c) PROVE Quiet
  <2>1. PICK r \in 0..MaxRuns : runs' = cancelled(r)
    BY <1>4, <1>t DEF RequestCancel, close
  <2>2. Owners /\ Flags
    BY <2>1, <1>t, SetCancel
  <2> QED BY <1>4, <2>2, <1>t DEF RequestCancel, close, Quiet, registry, history, RunOf, Present
<1>5. ASSUME NEW c \in Callers, ReplaceRun(c)
      PROVE  Quiet \/ \E s \in Sessions, r \in Runs, o \in 0..MaxRuns : Replaces(c, s, r, o)
  <2>1. CASE ~Present(call[c].id)
    BY <1>5, <2>1, <1>s, <1>t DEF ReplaceRun, Quiet, history, RunOf, Present
  <2>2. CASE Present(call[c].id)
    BY <1>5, <2>2, ReplaceFacts
  <2> QED BY <2>1, <2>2
<1>6. ASSUME NEW c \in Callers, Schedule(c) PROVE \E r \in Runs : Starts(c, r)
  BY <1>6, StartFacts
<1>7. ASSUME NEW c \in Callers, CloseDrop(c)
      PROVE  \E s \in Sessions, r \in 0..MaxRuns : Drops(c, s, r)
  BY <1>7, DropFacts
<1>8. ASSUME drain_settled_runs PROVE \E C, D : Drains(C, D)
  BY <1>8, DrainFacts
<1> QED BY <1>0, <1>1, <1>2, <1>3, <1>4, <1>5, <1>6, <1>7, <1>8, RegSteps

LEMMA FiberNext ==
    ASSUME MapsTyped, MailTyped, CallsTyped, OwnInv, FiberInv, [Next]_vars
    PROVE  FiberInv'
<1>t. RunsT /\ fiber \in [Runs -> FiberLabels]
  BY DEF MapsTyped, RunsT
<1>u. ASSUME Flags, fiber' = fiber PROVE FiberInv'
  BY <1>u DEF Flags, FiberInv
<1>1. ASSUME NEW c \in Callers, NEW s \in Sessions, NEW r \in Runs, NEW o \in 0..MaxRuns,
             Replaces(c, s, r, o)
      PROVE  FiberInv'
  BY <1>1 DEF Replaces, Unmade, FiberInv
<1>2. ASSUME NEW c \in Callers, NEW r \in Runs, Starts(c, r) PROVE FiberInv'
  BY <1>2 DEF Starts, FiberInv
<1>3. ASSUME NEW r \in Runs, RunnerReturns(r) PROVE FiberInv'
  BY <1>3, <1>t DEF RunnerReturns, FiberInv
<1>4. ASSUME NEW r \in Runs, StoreResult(r) PROVE FiberInv'
  <2>1. \A q \in Runs : runs'[q].finished = runs[q].finished /\ runs'[q].done = runs[q].done
    BY <1>4, <1>t, SetResult DEF StoreResult
  <2> QED BY <1>4, <2>1, <1>t DEF StoreResult, FiberInv
<1>5. ASSUME NEW r \in Runs, StoreFinished(r) PROVE FiberInv'
  <2>1. /\ \A q \in Runs : /\ runs'[q].done = runs[q].done
                           /\ q # r => runs'[q].finished = runs[q].finished
        /\ runs'[r].finished
    BY <1>5, <1>t, SetFinished DEF StoreFinished
  <2> QED BY <1>5, <2>1, <1>t DEF StoreFinished, FiberInv
<1>6. ASSUME NEW r \in Runs, SignalDone(r) PROVE FiberInv'
  <2>1. /\ \A q \in Runs : /\ runs'[q].finished = runs[q].finished
                           /\ q # r => runs'[q].done = runs[q].done
        /\ runs'[r].done
    BY <1>6, <1>t, SetDone DEF SignalDone
  <2> QED BY <1>6, <2>1, <1>t DEF SignalDone, FiberInv
<1>7. CASE destroy_registry
  BY <1>7, <1>t, <1>u, SetDestroy DEF destroy_registry
<1>8. CASE take_unnoticed_finished
  BY <1>8, <1>u DEF take_unnoticed_finished, Flags
<1>9. CASE Destroyed
  BY <1>9, <1>t, <1>u, SetDead DEF Destroyed
<1>10. ASSUME NEW c \in Callers, NEW s \in Sessions, NEW r \in 0..MaxRuns, Drops(c, s, r)
       PROVE  FiberInv'
  BY <1>10, <1>u DEF Drops
<1>11. ASSUME NEW C, NEW D, Drains(C, D) PROVE FiberInv'
  BY <1>11, <1>u DEF Drains
<1>12. Quiet => FiberInv'
  BY <1>u DEF Quiet
<1> QED BY <1>1, <1>2, <1>3, <1>4, <1>5, <1>6, <1>7, <1>8, <1>9, <1>10, <1>11, <1>12, RunSteps

----------------------------------------------------------------------------
\* The invariants together.

Owned == MapsTyped /\ MailTyped /\ CallsTyped /\ OwnInv /\ FiberInv

LEMMA InitOwned ==
    ASSUME Init
    PROVE  Owned
<1>1. DOMAIN slots = {} /\ DOMAIN finished = {}
  BY DEF Init
<1>2. /\ MaxRuns \in Nat /\ Runs = 1..MaxRuns /\ <<>> \in Seq(Messages) /\ FALSE \in BOOLEAN
      /\ Sessions \in SUBSET Ids /\ "none" \in Ids
  BY Bounds DEF Runs, Ids
<1>3. NoRun \in RunRec /\ NoRun.alloc = "none" /\ ~NoRun.finished /\ ~NoRun.done
  <2>1. NoRun.alloc = "none" /\ ~NoRun.finished /\ ~NoRun.done
    BY DEF NoRun
  <2> QED BY <1>2, <2>1, Zenon DEF NoRun, RunRec
<1>4. runs \in [Runs -> RunRec] /\ \A r \in Runs : runs[r] = NoRun /\ fiber[r] = "none"
  BY <1>3 DEF Init
<1>5. MapsTyped
  <2>1. fiber \in [Runs -> FiberLabels] /\ notices \in [Runs -> Nat]
    BY DEF Init, FiberLabels
  <2>2. used \in 0..MaxRuns /\ live_sessions = {} /\ phase = "turn" /\ waited = {}
    BY <1>2 DEF Init
  <2>3. hollow \in BOOLEAN
    BY DEF Init
  <2> QED BY <1>1, <1>4, <2>1, <2>2, <2>3 DEF MapsTyped
<1>6. MailTyped
  BY <1>2, Bounds DEF Init, MailTyped
<1>7. CallsTyped
  <2>1. \A c \in Callers : call[c] = NoCall
    BY DEF Init
  <2>2. CallOK(NoCall)
    BY NoCallType DEF CallOK, NoCall, Starting
  <2> QED BY <2>1, <2>2, NoCallType DEF Init, CallsTyped, Idle
<1>8. OwnInv
  <2>1. SlotsOwn /\ ParkedOwn
    BY <1>1 DEF SlotsOwn, ParkedOwn
  <2>2. LiveOwned
    BY <1>3, <1>4 DEF LiveOwned
  <2>3. \A c \in Callers : call[c].new = 0 /\ call[c].pc = "idle"
    BY NoCallType DEF Init
  <2>4. NewOwn
    BY <2>3, <1>3, <1>4 DEF NewOwn, Unmade
  <2> QED BY <2>1, <2>2, <2>4 DEF OwnInv
<1>9. FiberInv
  BY <1>3, <1>4 DEF FiberInv
<1> QED BY <1>5, <1>6, <1>7, <1>8, <1>9 DEF Owned

LEMMA OwnedNext ==
    ASSUME Owned, [Next]_vars
    PROVE  Owned'
  BY MapsTypedNext, MailTypedNext, CallsTypedNext, OwnNext, FiberNext DEF Owned

LEMMA OwnedAlways == Spec => []Owned
  BY InitOwned, OwnedNext, PTL DEF Spec

\* The run of a slot is an allocated run of its session, whatever the tool calls,
\* the fibers and the drain of the turn do at the same time: no slot of the
\* registry (agent_tool.cpp, agent_registry::_slots) ever points to a freed run or
\* to one of another session, and a parked result is of the session it is parked for.
THEOREM TypeCorrect == Spec => []TypeOK
<1>1. Owned => TypeOK
  <2> SUFFICES ASSUME Owned PROVE TypeOK
    OBVIOUS
  <2>1. MapsTyped /\ OwnInv
    BY DEF Owned
  <2>2. \A s \in DOMAIN slots : slots[s] # 0 => slots[s] \in 1..used
    BY <2>1, Bounds DEF MapsTyped
  <2> QED BY <2>1, <2>2 DEF MapsTyped, OwnInv, SlotsOwn, ParkedOwn, TypeOK
<1> QED BY <1>1, OwnedAlways, PTL

----------------------------------------------------------------------------
\* One call at a time.

LEMMA CallNext ==
    ASSUME Serial, Owned, CallInv, [Next]_vars
    PROVE  CallInv'
<1>t. /\ MapsTyped /\ MailTyped /\ CallsTyped /\ OwnInv /\ RunsT /\ Calls /\ used \in Nat
      /\ \A s : RunOf(s) \in 0..MaxRuns /\ (RunOf(s) # 0 => RunOf(s) \in Runs)
      /\ \A s \in DOMAIN slots : slots[s] = RunOf(s)
  BY Bounds DEF Owned, MapsTyped, RunsT, CallsTyped, Calls, RunOf, Present, Runs
<1>c. ASSUME NEW c \in Callers
      PROVE  call[c] \in CallRec /\ CallOK(call[c]) /\ CallHolds(call[c])
  BY <1>t DEF CallsTyped, CallInv
<1>u. ASSUME call' = call, slots' = slots, live_sessions' = live_sessions, used' = used,
             \A r \in Runs : runs[r].done => runs'[r].done
      PROVE  CallInv'
  <2> SUFFICES ASSUME NEW c \in Callers PROVE CallHolds(call[c])'
    BY DEF CallInv
  <2> QED BY <1>u, <1>c, <1>t DEF CallHolds, RunOf, Present
<1>o. ASSUME NEW c \in Callers, CallHolds(call[c])' PROVE CallInv'
  BY <1>o DEF Serial, CallInv
\* A call begins.
<1>b. ASSUME NEW c \in Callers, UNCHANGED registry, call[c].pc = "idle",
             call'[c].pc \in {"prompt", "cancel", "push", "queue"}, call'[c].new \in {0, used'}
      PROVE  CallInv'
  <2>1. live_sessions' = DOMAIN slots'
    BY <1>b, <1>c DEF CallHolds, registry
  <2>2. CallHolds(call[c])'
    BY <1>b, <2>1 DEF CallHolds
  <2> QED BY <2>2, <1>o
<1>1. ASSUME NEW c \in Callers, NEW s \in Sessions, NEW t \in {"background", "sync"},
             NEW b \in BOOLEAN, Subagent(c, s, t, b)
      PROVE  CallInv'
  <2>1. /\ call[c].pc = "idle" /\ call'[c].pc = "prompt"
        /\ t = "background" => call'[c].new = used + 1 /\ used' = used + 1
        /\ t = "sync" => call'[c].new = 0
    BY <1>1, <1>t, CallSubagent
  <2> QED BY <1>1, <2>1, <1>b DEF Subagent
<1>2. ASSUME NEW c \in Callers, NEW s \in Sessions, Interrupt(c, s) \/ SendMessage(c, s)
      PROVE  CallInv'
  <2>1. call[c].pc = "idle" /\ call'[c].pc \in {"cancel", "push", "queue"} /\ call'[c].new = 0
    BY <1>2, <1>t, CallInterrupt, CallSend
  <2> QED BY <1>2, <2>1, <1>b DEF Interrupt, SendMessage
<1>3. ASSUME NEW c \in Callers,
             \/ drain_pending_messages(c) \/ push_steer(c) \/ queue_pending_message(c)
             \/ SyncReturns(c) \/ start_background(c) \/ StaleDone(c) \/ EvictNone(c) \/ Joined(c)
             \/ \E s \in Sessions : Evict(c, s)
      PROVE  CallInv'
  <2>1. UNCHANGED <<slots, live_sessions, runs, used>>
    BY <1>3 DEF drain_pending_messages, push_steer, queue_pending_message, SyncReturns,
       start_background, StaleDone, EvictNone, Joined, Evict, registry
  <2>2. CallMove(c) /\ CallHolds(call[c]) /\ CallOK(call[c])
    BY <1>3, <1>t, <1>c, CallMoves DEF CallStep
  <2>3. /\ call[c].pc \in {"prompt", "push", "queue", "sync", "start", "stale", "evict", "joining"}
        /\ call[c].pc \in {"stale", "joining"} => runs[call[c].run].done
    BY <1>3 DEF drain_pending_messages, push_steer, queue_pending_message, SyncReturns,
       start_background, StaleDone, EvictNone, Joined, Evict, At
  <2>4. CallHolds(call[c])'
    <3> DEFINE v == call'[c]
               w == call[c]
    <3>1. live_sessions' = DOMAIN slots'
      BY <2>1, <2>2, <2>3 DEF CallHolds
    <3>2. CASE v.pc \in {"idle", "put", "evict", "queue", "close"} /\ v.new \in {0, w.new}
      BY <2>1, <2>2, <3>1, <3>2 DEF CallHolds
    <3>3. CASE v.pc = "replace" /\ w.pc = "stale" /\ v.new = w.new /\ v.id = w.id
      BY <2>1, <2>2, <2>3, <3>1, <3>3 DEF CallHolds, Present
    <3>4. CASE v.pc = "drop" /\ w.pc = "joining" /\ v.new = w.new /\ v.target = w.target
      BY <2>1, <2>2, <2>3, <3>1, <3>4 DEF CallHolds, RunOf, Present
    <3>5. CASE /\ w.pc = "start" /\ v.new = w.new /\ v.id = w.id /\ v.run = slots[w.id]
               /\ v.pc = IF slots[w.id] # 0 THEN "stale" ELSE "replace"
      BY <2>1, <2>2, <3>1, <3>5 DEF CallHolds, Present
    <3> HIDE DEF v, w
    <3>6. \/ v.pc \in {"idle", "put", "evict", "queue", "close"} /\ v.new \in {0, w.new}
          \/ v.pc = "replace" /\ w.pc = "stale" /\ v.new = w.new /\ v.id = w.id
          \/ v.pc = "drop" /\ w.pc = "joining" /\ v.new = w.new /\ v.target = w.target
          \/ /\ w.pc = "start" /\ v.new = w.new /\ v.id = w.id /\ v.run = slots[w.id]
             /\ v.pc = IF slots[w.id] # 0 THEN "stale" ELSE "replace"
      BY <2>2, <2>3, NoCallType DEF CallMove, Moves, Fixed, CallOK, v, w
    <3> QED BY <3>2, <3>3, <3>4, <3>5, <3>6
  <2> QED BY <2>4, <1>o
<1>4. ASSUME NEW c \in Callers, Put(c) \/ SyncKeeps(c) PROVE CallInv'
  <2>1. slots' = store(slots, call[c].id, RunOf(call[c].id))
        /\ UNCHANGED <<live_sessions, used>>
    BY <1>4 DEF Put, SyncKeeps, put
  <2>2. CallMove(c) /\ CallHolds(call[c]) /\ CallOK(call[c])
    BY <1>4, <1>t, <1>c, CallMoves DEF CallStep
  <2>3. DOMAIN slots' = DOMAIN slots \union {call[c].id}
    BY <2>1 DEF store
  <2>4. CASE Put(c)
    <3>1. call[c].pc = "put" /\ call'[c].pc = "register" /\ call'[c].id = call[c].id
          /\ call'[c].new = call[c].new
      BY <2>4, <2>2 DEF Put, At, CallMove, Moves, Fixed
    <3>2. CallHolds(call[c])'
      BY <3>1, <2>1, <2>2, <2>3 DEF CallHolds
    <3> QED BY <3>2, <1>o
  <2>5. CASE SyncKeeps(c)
    <3>1. call[c].pc = "sync" /\ call'[c].pc = "idle" /\ call'[c].new = 0
      BY <2>5, <1>t, CallReturn, NoCallType DEF SyncKeeps, At
    <3>2. DOMAIN slots' = DOMAIN slots
      BY <3>1, <2>2, <2>3 DEF CallHolds, Present
    <3>3. CallHolds(call[c])'
      BY <3>1, <3>2, <2>1, <2>2 DEF CallHolds
    <3> QED BY <3>3, <1>o
  <2> QED BY <1>4, <2>4, <2>5
<1>5. ASSUME NEW c \in Callers, Register(c) PROVE CallInv'
  <2>1. live_sessions' = live_sessions \union {call[c].id} /\ UNCHANGED <<slots, used>>
        /\ call[c].pc = "register"
    BY <1>5 DEF Register, At
  <2>2. CallMove(c) /\ CallHolds(call[c]) /\ CallOK(call[c])
    BY <1>5, <1>t, <1>c, CallMoves DEF CallStep
  <2>3. call'[c].pc \in {"start", "sync"} /\ call'[c].id = call[c].id /\ call'[c].new = call[c].new
    BY <2>1, <2>2 DEF CallMove, Moves, Fixed
  <2>4. CallHolds(call[c])'
    BY <2>1, <2>2, <2>3 DEF CallHolds, Present
  <2> QED BY <2>4, <1>o
<1>6. ASSUME NEW c \in Callers, Unregister(c) PROVE CallInv'
  <2>1. live_sessions' = live_sessions \ {call[c].target} /\ UNCHANGED <<slots, used>>
        /\ call[c].pc = "unregister" /\ call'[c].pc = "idle" /\ call'[c].new = 0
    BY <1>6, <1>t, CallReturn, NoCallType DEF Unregister, At
  <2>2. CallHolds(call[c])'
    BY <2>1, <1>c DEF CallHolds, Present
  <2> QED BY <2>2, <1>o
<1>7. ASSUME NEW c \in Callers, RequestCancel(c) \/ close(c) PROVE CallInv'
  <2>1. UNCHANGED <<slots, live_sessions, used>> /\ call[c].pc \in {"cancel", "close"}
    BY <1>7 DEF RequestCancel, close, registry, At
  <2>2. CallMove(c) /\ CallHolds(call[c]) /\ CallOK(call[c])
    BY <1>7, <1>t, <1>c, CallMoves DEF CallStep
  <2>3. /\ call'[c].new = call[c].new
        /\ \/ call'[c].pc = "close"
           \/ /\ call'[c].target = call[c].target /\ call'[c].run = RunOf(call[c].target)
              /\ call'[c].pc = IF RunOf(call[c].target) # 0 THEN "joining" ELSE "drop"
    BY <2>1, <2>2 DEF CallMove, Moves, Fixed
  <2>4. CallHolds(call[c])'
    BY <2>1, <2>2, <2>3 DEF CallHolds, RunOf, Present
  <2> QED BY <2>4, <1>o
<1>8. ASSUME NEW c \in Callers, NEW s \in Sessions, NEW r \in Runs, NEW o \in 0..MaxRuns,
             Replaces(c, s, r, o)
      PROVE  CallInv'
  <2>1. /\ call'[c].pc = "schedule" /\ call'[c].new = r /\ call'[c].id = s /\ slots'[s] = r
        /\ DOMAIN slots' = DOMAIN slots /\ s \in DOMAIN slots /\ UNCHANGED <<live_sessions, used>>
        /\ call[c].pc = "replace" /\ call[c].new = r
    BY <1>8 DEF Replaces, Moves, Fixed
  <2>2. CallHolds(call[c])'
    BY <2>1, <1>c DEF CallHolds, Present
  <2> QED BY <2>2, <1>o
<1>9. ASSUME NEW c \in Callers, Schedule(c) \/ (ReplaceRun(c) /\ ~Present(call[c].id)) PROVE CallInv'
  <2>1. UNCHANGED <<slots, live_sessions, used>> /\ call'[c].pc = "idle" /\ call'[c].new = 0
        /\ call[c].pc # "register"
    BY <1>9, <1>t, CallReturn, NoCallType DEF Schedule, ReplaceRun, registry, At
  <2>2. CallHolds(call[c])'
    BY <2>1, <1>c DEF CallHolds
  <2> QED BY <2>2, <1>o
<1>10. ASSUME NEW c \in Callers, NEW s \in Sessions, NEW r \in 0..MaxRuns, Drops(c, s, r)
       PROVE  CallInv'
  <2>1. /\ call[c].pc = "drop" /\ s = call[c].target /\ call'[c].pc = call[c].after
        /\ call'[c].new = call[c].new /\ call'[c].target = s /\ call[c].after \in {"evict", "unregister"}
    BY <1>10, <1>c DEF Drops, Moves, Fixed, CallOK
  <2>2. /\ DOMAIN slots' = DOMAIN slots \ {s} /\ used' = used
        /\ live_sessions' = IF Present(s) THEN live_sessions \ {s} ELSE live_sessions
    BY <1>10 DEF Drops
  <2>3. CallHolds(call[c])'
    BY <2>1, <2>2, <1>c DEF CallHolds, Present
  <2> QED BY <2>3, <1>o
<1>i. ASSUME \A c \in Callers : Idle(c), call' = call, live_sessions' = DOMAIN slots'
      PROVE  CallInv'
  <2> SUFFICES ASSUME NEW c \in Callers PROVE CallHolds(call[c])'
    BY DEF CallInv
  <2>1. call'[c].pc = "idle" /\ call'[c].new = 0
    BY <1>i, <1>c, NoCallType DEF Idle, CallOK
  <2> QED BY <2>1, <1>i DEF CallHolds
<1>11. ASSUME NEW C, NEW D, Drains(C, D) PROVE CallInv'
  <2>1. ASSUME NEW c \in Callers PROVE CallHolds(call[c])'
    <3>1. /\ call'[c] = call[c] /\ call[c].pc = "idle"
          /\ live_sessions' = live_sessions \ C /\ DOMAIN slots' = DOMAIN slots \ C
      BY <1>11 DEF Drains, Idle
    <3>2. call'[c].new = 0
      BY <3>1, <1>c, NoCallType DEF CallOK
    <3> QED BY <3>1, <3>2, <1>c DEF CallHolds
  <2> QED BY <2>1 DEF CallInv
<1>12. CASE Destroyed
  <2>1. DOMAIN slots' = {} /\ live_sessions' = {} /\ call' = call /\ \A c \in Callers : Idle(c)
    BY <1>12, <1>t DEF Destroyed, CallsTyped
  <2> QED BY <2>1, <1>i
<1>13. ASSUME NEW r \in Runs, RunnerReturns(r) \/ StoreResult(r) \/ StoreFinished(r) \/ SignalDone(r)
       PROVE  CallInv'
  <2>1. UNCHANGED <<call, slots, live_sessions, used>>
    BY <1>13 DEF RunnerReturns, StoreResult, StoreFinished, SignalDone, registry
  <2>2. \A q \in Runs : runs[q].done => runs'[q].done
    BY <1>13, <1>t, SetResult, SetFinished, SetDone DEF RunnerReturns, StoreResult, StoreFinished, SignalDone
  <2> QED BY <2>1, <2>2, <1>u
<1>14. CASE destroy_registry
  <2>1. Flags
    BY <1>14, <1>t, SetDestroy DEF destroy_registry
  <2> QED BY <1>14, <2>1, <1>u DEF destroy_registry, registry, Flags
<1>15. CASE take_unnoticed_finished \/ UNCHANGED vars \/ \E s \in Sessions : drain_steer(s)
  BY <1>15, <1>u DEF take_unnoticed_finished, drain_steer, vars, registry
<1>16. ASSUME NEW c \in Callers, ReplaceRun(c) PROVE CallInv'
  <2>1. CASE Present(call[c].id)
    BY <1>16, <2>1, <1>8, <1>t, ReplaceFacts
  <2> QED BY <1>16, <2>1, <1>9
<1>17. ASSUME NEW c \in Callers, CloseDrop(c) PROVE CallInv'
  BY <1>17, <1>10, <1>t, DropFacts
<1>18. ASSUME drain_settled_runs PROVE CallInv'
  BY <1>18, <1>11, <1>t, DrainFacts
<1> QED BY <1>1, <1>2, <1>3, <1>4, <1>5, <1>6, <1>7, <1>9, <1>12, <1>13, <1>14, <1>15, <1>16, <1>17,
           <1>18, NextCases

\* A call that schedules a run goes on scheduling it until it has.
SchedStays == \A c \in Callers : call[c].pc = "schedule" => /\ call'[c].pc = "schedule"
                                                            /\ call'[c].new = call[c].new

LEMMA SchedSteps ==
    ASSUME Owned, [Next]_vars
    PROVE  SchedStays \/ \E c \in Callers, r \in Runs : Starts(c, r)
<1>t. MapsTyped /\ MailTyped /\ CallsTyped /\ OwnInv /\ Calls /\ used \in Nat /\ MaxRuns \in Nat
  BY Bounds DEF Owned, CallsTyped, Calls, MapsTyped
<1>1. NewStays => SchedStays
  BY DEF NewStays, SchedStays
<1>2. ASSUME NEW c \in Callers, NEW s \in Sessions, NEW t \in {"background", "sync"},
             NEW b \in BOOLEAN, Subagent(c, s, t, b)
      PROVE  SchedStays
  <2>1. OthersCall(c) /\ call[c].pc = "idle"
    BY <1>2, <1>t, CallSubagent
  <2> QED BY <2>1 DEF OthersCall, SchedStays
<1>3. ASSUME NEW c \in Callers, ReplaceRun(c) PROVE SchedStays
  <2>1. OthersCall(c) /\ call[c].pc = "replace"
    BY <1>3, <1>t, CallMoves DEF CallStep, ReplaceRun, At
  <2> QED BY <2>1 DEF OthersCall, SchedStays
<1>4. ASSUME NEW c \in Callers, Schedule(c) PROVE \E r \in Runs : Starts(c, r)
  BY <1>4, <1>t, StartFacts
<1> QED BY <1>1, <1>2, <1>3, <1>4, <1>t, NewSteps

LEMMA ClosingNext ==
    ASSUME Owned, ClosingInv, [Next]_vars
    PROVE  ClosingInv'
<1>t. /\ MapsTyped /\ MailTyped /\ CallsTyped /\ OwnInv /\ RunsT
      /\ phase # "turn" => \A c \in Callers : call[c].pc = "idle"
  BY DEF Owned, MapsTyped, RunsT, CallsTyped, Idle
<1>1. CASE Quiet
  BY <1>1 DEF Quiet, ClosingInv
<1>2. ASSUME NEW c \in Callers, NEW s \in Sessions, NEW r \in Runs, NEW o \in 0..MaxRuns,
             Replaces(c, s, r, o)
      PROVE  ClosingInv'
  BY <1>2, <1>t DEF Replaces, ClosingInv
<1>3. ASSUME NEW c \in Callers, NEW r \in Runs, Starts(c, r) PROVE ClosingInv'
  BY <1>3, <1>t DEF Starts, ClosingInv
<1>4. ASSUME NEW r \in Runs, RunnerReturns(r) \/ StoreResult(r) \/ StoreFinished(r) \/ SignalDone(r)
      PROVE  ClosingInv'
  BY <1>4 DEF RunnerReturns, StoreResult, StoreFinished, SignalDone, registry, ClosingInv, RunOf, Present
<1>5. ASSUME NEW c \in Callers, NEW s \in Sessions, NEW r \in 0..MaxRuns, Drops(c, s, r)
      PROVE  ClosingInv'
  BY <1>5, <1>t DEF Drops, ClosingInv
<1>6. ASSUME NEW C, NEW D, Drains(C, D) PROVE ClosingInv'
  BY <1>6 DEF Drains, ClosingInv
<1>7. CASE destroy_registry
  <2>1. waited' = {slots[s] : s \in DOMAIN slots} \ {0} /\ slots' = slots
    BY <1>7 DEF destroy_registry, registry
  <2> QED BY <2>1 DEF ClosingInv, RunOf, Present
<1>8. CASE take_unnoticed_finished \/ Destroyed
  BY <1>8 DEF take_unnoticed_finished, Destroyed, ClosingInv
<1> QED BY <1>1, <1>2, <1>3, <1>4, <1>5, <1>6, <1>7, <1>8, <1>t, RunSteps

\* What a call frees is a run whose fiber has ended.
LEMMA FreedEnded ==
    ASSUME Owned, CallInv, NEW c \in Callers, NEW s \in Sessions, NEW r \in Runs, NEW o \in 0..MaxRuns,
           Replaces(c, s, r, o) \/ Drops(c, s, o), o # 0
    PROVE  o \in Runs /\ fiber[o] = "ended"
<1>1. o \in Runs
  BY DEF Replaces, Drops
<1>2. CallHolds(call[c])
  BY DEF CallInv
<1>3. CASE Replaces(c, s, r, o)
  BY <1>1, <1>2, <1>3 DEF Replaces, CallHolds, Owned, FiberInv
<1>4. CASE Drops(c, s, o)
  BY <1>1, <1>2, <1>4 DEF Drops, CallHolds, Owned, FiberInv
<1> QED BY <1>1, <1>3, <1>4

LEMMA LiveNext ==
    ASSUME Serial, Owned, CallInv, ClosingInv, LiveInv, [Next]_vars
    PROVE  LiveInv'
<1>t. /\ MapsTyped /\ MailTyped /\ CallsTyped /\ OwnInv /\ RunsT /\ fiber \in [Runs -> FiberLabels]
      /\ \A r \in Runs : runs[r].session \in Ids
  BY DEF Owned, MapsTyped, RunsT, RunRec
<1>s. \A c, d \in Callers : c = d
  BY DEF Serial
<1> DEFINE Waiting(r) == \E c \in Callers : call[c].pc = "schedule" /\ call[c].new = r
<1>w. ASSUME SchedStays, NEW r, Waiting(r) PROVE Waiting(r)'
  BY <1>w DEF SchedStays
<1>n. ASSUME NEW r \in Runs, Waiting(r), NEW c \in Callers, call[c].pc # "schedule" PROVE FALSE
  BY <1>n, <1>s
<1>h. /\ \A r \in Runs : /\ fiber[r] \in {"running", "storing", "finishing"} => runs[r].alloc = "live"
                         /\ fiber[r] \in {"finishing", "signalling", "ended"} => runs[r].result
                         /\ runs[r].alloc = "live" /\ fiber[r] = "none" => Waiting(r)
  BY DEF LiveInv
<1>g. ASSUME \A r \in Runs :
                /\ fiber'[r] \in {"running", "storing", "finishing"} => runs'[r].alloc = "live"
                /\ fiber'[r] \in {"finishing", "signalling", "ended"} => runs'[r].result
                /\ runs'[r].alloc = "live" /\ fiber'[r] = "none" => Waiting(r)'
      PROVE  LiveInv'
  BY <1>g DEF LiveInv
<1> HIDE DEF Waiting
<1>1. CASE Quiet
  <2>1. CASE SchedStays
    BY <2>1, <1>1, <1>h, <1>w, <1>g DEF Quiet, Owners, Flags
  <2>2. ASSUME NEW c \in Callers, NEW r \in Runs, Starts(c, r) PROVE FALSE
    BY <2>2, <1>1 DEF Starts, Quiet
  <2> QED BY <2>1, <2>2, SchedSteps
<1>2. ASSUME NEW c \in Callers, NEW s \in Sessions, NEW r \in Runs, NEW o \in 0..MaxRuns,
             Replaces(c, s, r, o)
      PROVE  LiveInv'
  <2>1. o # 0 => o \in Runs /\ fiber[o] = "ended"
    BY <1>2, FreedEnded
  <2>2. Waiting(r)'
    BY <1>2 DEF Replaces, Moves, Fixed, Waiting
  <2>3. fiber' = fiber /\ fiber[r] = "none" /\ call[c].pc = "replace"
        /\ \A q \in Runs \ {r} : /\ runs'[q].alloc = IF q = o THEN "freed" ELSE runs[q].alloc
                                 /\ runs'[q].result = runs[q].result
    BY <1>2 DEF Replaces, Unmade
  <2>4. ASSUME NEW q \in Runs \ {r}
        PROVE  /\ fiber'[q] \in {"running", "storing", "finishing"} => runs'[q].alloc = "live"
               /\ fiber'[q] \in {"finishing", "signalling", "ended"} => runs'[q].result
               /\ ~(runs'[q].alloc = "live" /\ fiber'[q] = "none")
    <3>1. q # 0
      BY Bounds DEF Runs
    <3> QED BY <3>1, <2>1, <2>3, <1>h, <1>n
  <2> QED BY <2>2, <2>3, <2>4, <1>g
<1>3. ASSUME NEW c \in Callers, NEW r \in Runs, Starts(c, r) PROVE LiveInv'
  <2>1. /\ runs' = runs /\ fiber[r] = "none" /\ fiber'[r] = "running" /\ r = call[c].new
        /\ call[c].pc = "schedule" /\ \A q \in Runs \ {r} : fiber'[q] = fiber[q]
    BY <1>3 DEF Starts
  <2>2. runs[r].alloc = "live"
    <3>1. CallHolds(call[c]) /\ SlotsOwn
      BY <1>t DEF CallInv, OwnInv
    <3>2. r # 0
      BY Bounds DEF Runs
    <3> QED BY <3>1, <3>2, <2>1 DEF CallHolds, SlotsOwn, Present
  <2>3. ASSUME NEW q \in Runs \ {r} PROVE ~Waiting(q)
    BY <2>1, <1>s DEF Waiting
  <2> QED BY <2>1, <2>2, <2>3, <1>h, <1>g
<1>f. ASSUME NEW r \in Runs, Owners, call' = call, NEW p \in FiberLabels, p # "none", fiber[r] # "none",
             fiber' = [fiber EXCEPT ![r] = p],
             p \in {"running", "storing", "finishing"} => runs[r].alloc = "live",
             p \in {"finishing", "signalling", "ended"} => runs'[r].result,
             \A q \in Runs \ {r} : runs'[q].result = runs[q].result
      PROVE  LiveInv'
  <2>1. \A q : Waiting(q)' <=> Waiting(q)
    BY <1>f DEF Waiting
  <2> QED BY <2>1, <1>f, <1>t, <1>h, <1>g DEF Owners
<1>4. ASSUME NEW r \in Runs, RunnerReturns(r) PROVE LiveInv'
  <2>1. Owners /\ fiber[r] = "running" /\ fiber' = [fiber EXCEPT ![r] = "storing"] /\ call' = call
        /\ runs' = runs /\ "storing" \in FiberLabels
    BY <1>4 DEF RunnerReturns, Owners, FiberLabels
  <2> QED BY <2>1, <1>f, <1>h
<1>5. ASSUME NEW r \in Runs, StoreResult(r) PROVE LiveInv'
  <2>1. fiber[r] = "storing" /\ fiber' = [fiber EXCEPT ![r] = "finishing"] /\ call' = call
        /\ "finishing" \in FiberLabels
    BY <1>5 DEF StoreResult, FiberLabels
  <2>2. runs[r].alloc = "live"
    BY <2>1, <1>h
  <2>3. RunOf(runs[r].session) = r
    BY <2>2, <1>t DEF OwnInv, LiveOwned
  <2>4. runs' = [runs EXCEPT ![r].result = TRUE]
    BY <1>5, <2>3 DEF StoreResult
  <2>5. Owners /\ runs'[r].result /\ \A q \in Runs : q # r => runs'[q].result = runs[q].result
    BY <2>4, <1>t, SetResult
  <2> QED BY <2>1, <2>2, <2>5, <1>f
<1>6. ASSUME NEW r \in Runs, StoreFinished(r) PROVE LiveInv'
  <2>1. fiber[r] = "finishing" /\ fiber' = [fiber EXCEPT ![r] = "signalling"] /\ call' = call
        /\ "signalling" \in FiberLabels /\ runs[r].result
    BY <1>6, <1>h DEF StoreFinished, FiberLabels
  <2>2. Owners /\ \A q \in Runs : runs'[q].result = runs[q].result
    BY <1>6, <1>t, SetFinished DEF StoreFinished
  <2> QED BY <2>1, <2>2, <1>f
<1>7. ASSUME NEW r \in Runs, SignalDone(r) PROVE LiveInv'
  <2>1. fiber[r] = "signalling" /\ fiber' = [fiber EXCEPT ![r] = "ended"] /\ call' = call
        /\ "ended" \in FiberLabels /\ runs[r].result
    BY <1>7, <1>h DEF SignalDone, FiberLabels
  <2>2. Owners /\ \A q \in Runs : runs'[q].result = runs[q].result
    BY <1>7, <1>t, SetDone DEF SignalDone
  <2> QED BY <2>1, <2>2, <1>f
\* Runs that no fiber uses are freed.
<1>d. ASSUME NEW S, Frees(S), Flags, fiber' = fiber, \A r \in Runs : ~Waiting(r),
             \A r \in S \intersect Runs : fiber[r] \in {"signalling", "ended"}
      PROVE  LiveInv'
  <2>1. ASSUME NEW q \in Runs
        PROVE  /\ fiber'[q] \in {"running", "storing", "finishing"} => runs'[q].alloc = "live"
               /\ fiber'[q] \in {"finishing", "signalling", "ended"} => runs'[q].result
               /\ ~(runs'[q].alloc = "live" /\ fiber'[q] = "none")
    BY <1>d, <1>h DEF Frees, Flags
  <2> QED BY <2>1, <1>g
<1>8. ASSUME NEW c \in Callers, NEW s \in Sessions, NEW r \in 0..MaxRuns, Drops(c, s, r)
      PROVE  LiveInv'
  <2>1. Frees({r}) /\ Flags /\ fiber' = fiber /\ call[c].pc = "drop"
    BY <1>8 DEF Drops
  <2>2. \A q \in {r} \intersect Runs : fiber[q] = "ended"
    <3> SUFFICES ASSUME r \in Runs PROVE fiber[r] = "ended"
      OBVIOUS
    <3>1. r # 0
      BY Bounds DEF Runs
    <3> QED BY <3>1, <1>8, FreedEnded
  <2>3. \A q \in Runs : ~Waiting(q)
    BY <2>1, <1>n
  <2> QED BY <2>1, <2>2, <2>3, <1>d
<1>9. ASSUME NEW C, NEW D, Drains(C, D) PROVE LiveInv'
  <2>1. /\ Frees(D) /\ Flags /\ fiber' = fiber /\ \A c \in Callers : call[c].pc = "idle"
        /\ \A r \in D \intersect Runs : runs[r].finished
    BY <1>9 DEF Drains, Idle
  <2>2. \A q \in Runs : ~Waiting(q)
    BY <2>1 DEF Waiting
  <2>3. \A r \in D \intersect Runs : fiber[r] \in {"signalling", "ended"}
    BY <2>1 DEF Owned, FiberInv
  <2> QED BY <2>1, <2>2, <2>3, <1>d
<1>10. CASE Destroyed
  <2>1. /\ Frees({r \in Runs : runs[r].alloc = "live"}) /\ Flags /\ fiber' = fiber
        /\ phase = "closing" /\ \A r \in waited : runs[r].done
        /\ \A c \in Callers : call[c].pc = "idle"
    BY <1>10, <1>t, SetDead DEF Destroyed, CallsTyped, Idle
  <2>2. \A q \in Runs : ~Waiting(q)
    BY <2>1 DEF Waiting
  <2>3. ASSUME NEW r \in Runs, runs[r].alloc = "live" PROVE fiber[r] = "ended"
    <3>1. RunOf(runs[r].session) = r /\ r # 0
      BY <2>3, <1>t, Bounds DEF OwnInv, LiveOwned, Runs
    <3>2. runs[r].session \in Sessions
      BY <3>1, <1>t DEF RunOf, Present, MapsTyped
    <3>3. runs[r].done
      BY <3>1, <3>2, <2>1 DEF ClosingInv
    <3> QED BY <3>3 DEF Owned, FiberInv
  <2>4. \A r \in {q \in Runs : runs[q].alloc = "live"} \intersect Runs : fiber[r] \in {"signalling", "ended"}
    BY <2>3
  <2> QED BY <2>1, <2>2, <2>4, <1>d
<1>11. CASE destroy_registry \/ take_unnoticed_finished
  <2>1. Owners /\ Flags /\ fiber' = fiber /\ call' = call
    BY <1>11, <1>t, SetDestroy DEF destroy_registry, take_unnoticed_finished, Owners, Flags
  <2>2. \A q : Waiting(q)' <=> Waiting(q)
    BY <2>1 DEF Waiting
  <2> QED BY <2>1, <2>2, <1>h, <1>g DEF Owners, Flags
<1> QED BY <1>1, <1>2, <1>3, <1>4, <1>5, <1>6, <1>7, <1>8, <1>9, <1>10, <1>11, <1>t, RunSteps

LEMMA NoticeNext ==
    ASSUME Owned, CallInv, LiveInv, NoticeInv, [Next]_vars
    PROVE  NoticeInv'
<1>t. /\ MapsTyped /\ MailTyped /\ CallsTyped /\ OwnInv /\ RunsT /\ notices \in [Runs -> Nat]
      /\ \A s \in DOMAIN finished : finished[s] \in Parked /\ finished[s].run \in Runs
      /\ \A s \in DOMAIN finished : runs[finished[s].run].alloc = "freed"
  BY DEF Owned, MapsTyped, RunsT, Parked, OwnInv, ParkedOwn
<1>h. /\ ~hollow
      /\ \A r \in Runs : notices[r] <= 1
      /\ \A r \in Runs : runs[r].alloc # "freed" => notices[r] = 0
      /\ \A s \in DOMAIN finished : ~finished[s].noticed => notices[finished[s].run] = 0
  BY DEF NoticeInv
<1>u. ASSUME Owners, UNCHANGED <<hollow, notices, finished>> PROVE NoticeInv'
  BY <1>u, <1>h DEF NoticeInv, Owners
<1>1. CASE Quiet
  BY <1>1, <1>u DEF Quiet
<1>2. ASSUME NEW c \in Callers, NEW s \in Sessions, NEW r \in Runs, NEW o \in 0..MaxRuns,
             Replaces(c, s, r, o)
      PROVE  NoticeInv'
  <2>1. UNCHANGED <<hollow, notices, finished>> /\ notices[r] = 0
    BY <1>2, <1>h DEF Replaces, Unmade
  <2>2. \A q \in Runs : runs'[q].alloc # "freed" => notices'[q] = 0
    BY <1>2, <2>1, <1>h DEF Replaces
  <2> QED BY <2>1, <2>2, <1>h DEF NoticeInv
<1>3. ASSUME NEW c \in Callers, NEW r \in Runs, Starts(c, r) PROVE NoticeInv'
  BY <1>3, <1>u DEF Starts, Owners
<1>4. ASSUME NEW r \in Runs, RunnerReturns(r) \/ StoreResult(r) \/ StoreFinished(r) \/ SignalDone(r)
      PROVE  NoticeInv'
  <2>1. Owners
    BY <1>4, <1>t, SetResult, SetFinished, SetDone
       DEF RunnerReturns, StoreResult, StoreFinished, SignalDone, Owners
  <2> QED BY <1>4, <2>1, <1>u DEF RunnerReturns, StoreResult, StoreFinished, SignalDone, registry, history
<1>5. ASSUME NEW c \in Callers, NEW s \in Sessions, NEW r \in 0..MaxRuns, Drops(c, s, r)
      PROVE  NoticeInv'
  <2>1. /\ notices' = notices /\ hollow' = (hollow \/ (r # 0 /\ ~runs[r].result)) /\ Frees({r})
        /\ r = 0 => finished' = finished
        /\ r # 0 => /\ DOMAIN finished' = DOMAIN finished \union {s}
                    /\ finished'[s].run = r /\ ~finished'[s].noticed
                    /\ \A x \in DOMAIN finished \ {s} : finished'[x] = finished[x]
                    /\ r \in Runs /\ runs[r].alloc = "live"
    BY <1>5 DEF Drops
  <2>2. r # 0 => runs[r].result
    <3> SUFFICES ASSUME r # 0 PROVE runs[r].result
      OBVIOUS
    <3>1. r \in Runs
      BY <2>1
    <3>2. fiber[r] = "ended"
      BY <3>1, <1>5, FreedEnded
    <3> QED BY <3>1, <3>2 DEF LiveInv
  <2>3. \A q \in Runs : runs'[q].alloc # "freed" => notices'[q] = 0
    BY <2>1, <1>h DEF Frees
  <2>4. ASSUME NEW x \in DOMAIN finished', ~finished'[x].noticed
        PROVE  notices'[finished'[x].run] = 0
    BY <2>1, <2>4, <1>h
  <2>5. ~hollow'
    BY <2>1, <2>2, <1>h
  <2> QED BY <2>1, <2>3, <2>4, <2>5, <1>h DEF NoticeInv
<1>6. ASSUME NEW C, NEW D, Drains(C, D) PROVE NoticeInv'
  <2>1. /\ D \in SUBSET Runs /\ Frees(D)
        /\ \A r \in D : runs[r].alloc = "live" /\ runs[r].finished
        /\ notices' = [r \in Runs |-> IF r \in D THEN notices[r] + 1 ELSE notices[r]]
        /\ hollow' = (hollow \/ \E r \in D : ~runs[r].result)
        /\ DOMAIN finished' = DOMAIN finished \union C
        /\ \A x \in C : finished'[x].noticed
        /\ \A x \in DOMAIN finished \ C : finished'[x] = finished[x]
    BY <1>6 DEF Drains
  <2>2. \A r \in D : runs[r].result
    <3>1. \A r \in D : fiber[r] \in {"signalling", "ended"}
      BY <2>1 DEF Owned, FiberInv
    <3> QED BY <3>1, <2>1 DEF LiveInv
  <2>3. ~hollow'
    BY <2>1, <2>2, <1>h
  <2>4. \A r \in Runs : notices'[r] <= 1
    BY <2>1, <1>h, <1>t
  <2>5. \A r \in Runs : runs'[r].alloc # "freed" => notices'[r] = 0
    BY <2>1, <1>h, <1>t DEF Frees
  <2>6. ASSUME NEW x \in DOMAIN finished', ~finished'[x].noticed
        PROVE  notices'[finished'[x].run] = 0
    <3>1. x \in DOMAIN finished \ C /\ finished'[x] = finished[x]
      BY <2>1, <2>6
    <3>2. finished[x].run \in Runs /\ finished[x].run \notin D
      BY <3>1, <2>1, <1>t
    <3> QED BY <3>1, <3>2, <2>1, <2>6, <1>h
  <2> QED BY <2>3, <2>4, <2>5, <2>6 DEF NoticeInv
<1>7. CASE destroy_registry
  <2>1. Owners
    BY <1>7, <1>t, SetDestroy DEF destroy_registry
  <2> QED BY <1>7, <2>1, <1>u DEF destroy_registry, registry, history
<1>8. CASE take_unnoticed_finished
  <2> DEFINE fresh == {s \in DOMAIN finished : ~finished[s].noticed}
             reported == {finished[s].run : s \in fresh}
  <2>1. /\ notices' = [r \in Runs |-> IF r \in reported THEN notices[r] + 1 ELSE notices[r]]
        /\ UNCHANGED <<runs, hollow>>
        /\ finished' = [s \in DOMAIN finished |-> [finished[s] EXCEPT !.noticed = TRUE]]
    BY <1>8 DEF take_unnoticed_finished
  <2>2. \A r \in reported : r \in Runs /\ notices[r] = 0 /\ runs[r].alloc = "freed"
    BY <1>h, <1>t
  <2> HIDE DEF reported
  <2>3. \A s \in DOMAIN finished' : finished'[s].noticed
    BY <2>1, <1>t DEF Parked
  <2>4. \A r \in Runs : notices'[r] <= 1 /\ (runs'[r].alloc # "freed" => notices'[r] = 0)
    BY <2>1, <2>2, <1>h, <1>t
  <2> QED BY <2>1, <2>3, <2>4, <1>h DEF NoticeInv
<1>9. CASE Destroyed
  <2>1. DOMAIN finished' = {} /\ UNCHANGED <<notices, hollow>>
        /\ Frees({r \in Runs : runs[r].alloc = "live"})
    BY <1>9, <1>t, SetDead DEF Destroyed, history
  <2> QED BY <2>1, <1>h DEF NoticeInv, Frees
<1> QED BY <1>1, <1>2, <1>3, <1>4, <1>5, <1>6, <1>7, <1>8, <1>9, <1>t, RunSteps

LEMMA KeptNext ==
    ASSUME Owned, CallInv, KeptInv, [Next]_vars
    PROVE  KeptInv'
<1>t. /\ MapsTyped /\ MailTyped /\ CallsTyped /\ OwnInv /\ RunsT /\ notices \in [Runs -> Nat]
      /\ MaxRuns \in Nat /\ Runs = 1..MaxRuns /\ used \in Nat
      /\ \A s \in DOMAIN finished : finished[s] \in Parked /\ finished[s].run \in Runs
      /\ \A s \in DOMAIN finished : /\ runs[finished[s].run].alloc = "freed"
                                    /\ runs[finished[s].run].session = s
      /\ \A s : RunOf(s) \in 0..MaxRuns
  BY Bounds DEF Owned, MapsTyped, RunsT, Runs, Parked, OwnInv, ParkedOwn, RunOf, Present
<1>m. \A r \in Runs : runs[r].alloc # "none" => r <= used
  BY <1>t DEF OwnInv, NewOwn, Unmade
<1>h. /\ \A s \in DOMAIN finished : RunOf(s) # 0 => finished[s].run < RunOf(s)
      /\ phase # "dead" => \A r \in Runs : runs[r].alloc # "none" => Kept(r) \/ Later(r)
  BY DEF KeptInv
<1>u. ASSUME Owners, UNCHANGED <<notices, finished>>, phase' = "dead" <=> phase = "dead",
             \A s : RunOf(s)' = RunOf(s)
      PROVE  KeptInv'
  <2>1. \A r \in Runs : Later(r) => Later(r)'
    BY <1>u, <1>t DEF Later, Owners
  <2>2. \A r \in Runs : Kept(r) => Kept(r)'
    BY <1>u DEF Kept, Owners
  <2> QED BY <2>1, <2>2, <1>u, <1>h DEF KeptInv, Owners
<1>1. CASE Quiet
  BY <1>1, <1>u DEF Quiet
<1>2. ASSUME NEW c \in Callers, NEW s \in Sessions, NEW r \in Runs, NEW o \in 0..MaxRuns,
             Replaces(c, s, r, o)
      PROVE  KeptInv'
  <2>1. /\ UNCHANGED <<notices, finished, phase>> /\ runs[r].alloc = "none"
        /\ runs'[r].session = s /\ runs'[r].alloc = "live"
        /\ \A q \in Runs \ {r} : /\ runs'[q].session = runs[q].session
                                 /\ runs'[q].alloc = "none" <=> runs[q].alloc = "none"
    BY <1>2, Bounds DEF Replaces, Unmade, Runs
  <2>2. RunOf(s)' = r /\ RunOf(s) = o /\ \A x : x # s => RunOf(x)' = RunOf(x)
    BY <1>2 DEF Replaces, RunOf, Present
  <2>3. r = used
    <3>1. r = call[c].new /\ r # 0
      BY <1>2, <1>t DEF Replaces
    <3> QED BY <3>1 DEF CallInv, CallHolds
  <2>4. ASSUME NEW x \in DOMAIN finished', RunOf(x)' # 0 PROVE finished'[x].run < RunOf(x)'
    <3>1. CASE x = s
      <4>1. finished[x].run \in Runs /\ finished[x].run # r /\ finished[x].run <= used
        BY <2>1, <2>4, <1>t, <1>m
      <4> QED BY <4>1, <3>1, <2>1, <2>2, <2>3, <1>t
    <3>2. CASE x # s
      BY <3>2, <2>1, <2>2, <2>4, <1>h
    <3> QED BY <3>1, <3>2
  <2>5. ASSUME NEW q \in Runs, runs'[q].alloc # "none", phase' # "dead" PROVE Kept(q)' \/ Later(q)'
    <3>1. CASE q = r
      BY <3>1, <2>1, <2>2 DEF Kept
    <3>2. CASE q # r
      <4>1. /\ runs'[q].session = runs[q].session /\ runs[q].alloc # "none" /\ q <= used
            /\ Kept(q) \/ Later(q)
        BY <3>2, <2>1, <2>5, <1>h, <1>m
      <4>2. CASE Later(q)
        <5>1. PICK n \in (q + 1)..MaxRuns : runs[n].session = runs[q].session /\ runs[n].alloc # "none"
          BY <4>2 DEF Later
        <5>2. n \in Runs \ {r}
          BY <5>1, <2>1, <1>t
        <5> QED BY <5>1, <5>2, <4>1, <2>1 DEF Later
      <4>3. CASE RunOf(runs[q].session) = q
        <5>1. CASE runs[q].session # s
          BY <5>1, <4>1, <4>3, <2>2 DEF Kept
        <5>2. CASE runs[q].session = s
          <6>1. r \in (q + 1)..MaxRuns
            BY <3>2, <4>1, <2>3, <1>t
          <6> QED BY <6>1, <5>2, <4>1, <2>1 DEF Later
        <5> QED BY <5>1, <5>2
      <4>4. CASE notices[q] > 0 \/ \E x \in DOMAIN finished : finished[x].run = q /\ ~finished[x].noticed
        BY <4>4, <2>1 DEF Kept
      <4> QED BY <4>1, <4>2, <4>3, <4>4 DEF Kept
    <3> QED BY <3>1, <3>2
  <2> QED BY <2>4, <2>5 DEF KeptInv
<1>3. ASSUME NEW c \in Callers, NEW r \in Runs, Starts(c, r) PROVE KeptInv'
  BY <1>3, <1>u DEF Starts, Owners, RunOf, Present
<1>4. ASSUME NEW r \in Runs, RunnerReturns(r) \/ StoreResult(r) \/ StoreFinished(r) \/ SignalDone(r)
      PROVE  KeptInv'
  <2>1. Owners
    BY <1>4, <1>t, SetResult, SetFinished, SetDone
       DEF RunnerReturns, StoreResult, StoreFinished, SignalDone, Owners
  <2>2. UNCHANGED <<slots, finished, notices, phase>>
    BY <1>4 DEF RunnerReturns, StoreResult, StoreFinished, SignalDone, registry, history
  <2> QED BY <2>1, <2>2, <1>u DEF RunOf, Present
\* A later run of the session stays one when runs are freed.
<1>f. ASSUME NEW S, Frees(S), NEW q \in Runs, Later(q) PROVE Later(q)'
  <2>1. PICK n \in (q + 1)..MaxRuns : runs[n].session = runs[q].session /\ runs[n].alloc # "none"
    BY <1>f DEF Later
  <2>2. n \in Runs
    BY <2>1, <1>t
  <2> QED BY <2>1, <2>2, <1>f DEF Later, Frees
<1>l. ASSUME NEW S, Frees(S), NEW q \in Runs, NEW r \in Runs, q < r,
             runs[r].session = runs[q].session, runs[r].alloc # "none"
      PROVE  Later(q)'
  <2>1. r \in (q + 1)..MaxRuns
    BY <1>l, <1>t
  <2> QED BY <2>1, <1>l DEF Later, Frees
<1>5. ASSUME NEW c \in Callers, NEW s \in Sessions, NEW r \in 0..MaxRuns, Drops(c, s, r)
      PROVE  KeptInv'
  <2>1. /\ notices' = notices /\ Frees({r}) /\ phase' = phase /\ r = RunOf(s)
        /\ r = 0 => finished' = finished
        /\ r # 0 => /\ DOMAIN finished' = DOMAIN finished \union {s}
                    /\ finished'[s].run = r /\ ~finished'[s].noticed
                    /\ \A x \in DOMAIN finished \ {s} : finished'[x] = finished[x]
                    /\ r \in Runs /\ runs[r].alloc = "live" /\ runs[r].session = s
    BY <1>5 DEF Drops
  <2>2. RunOf(s)' = 0 /\ \A x : x # s => RunOf(x)' = RunOf(x)
    BY <1>5 DEF Drops, RunOf, Present
  <2>3. ASSUME NEW x \in DOMAIN finished', RunOf(x)' # 0 PROVE finished'[x].run < RunOf(x)'
    BY <2>1, <2>2, <2>3, <1>h
  <2>4. ASSUME NEW q \in Runs, runs'[q].alloc # "none", phase' # "dead" PROVE Kept(q)' \/ Later(q)'
    <3>1. runs'[q].session = runs[q].session /\ runs[q].alloc # "none"
      <4>1. q = r => runs[q].alloc = "live"
        BY <2>1, <1>t
      <4> QED BY <4>1, <2>1, <2>4 DEF Frees
    <3>2. Kept(q) \/ Later(q)
      BY <3>1, <2>1, <2>4, <1>h
    <3>3. CASE Later(q)
      BY <3>3, <2>1, <1>f
    <3>4. CASE notices[q] > 0
      BY <3>4, <2>1 DEF Kept
    <3>5. CASE RunOf(runs[q].session) = q
      <4>1. CASE runs[q].session # s
        BY <4>1, <3>1, <3>5, <2>2 DEF Kept
      <4>2. CASE runs[q].session = s
        <5>1. q = r /\ r # 0
          BY <4>2, <3>5, <2>1, <1>t
        <5> QED BY <5>1, <2>1 DEF Kept
      <4> QED BY <4>1, <4>2
    <3>6. ASSUME NEW x \in DOMAIN finished, finished[x].run = q, ~finished[x].noticed
          PROVE  Kept(q)' \/ Later(q)'
      <4>1. CASE r = 0 \/ x # s
        <5>1. x \in DOMAIN finished' /\ finished'[x] = finished[x]
          BY <4>1, <2>1
        <5> QED BY <5>1, <3>6 DEF Kept
      <4>2. CASE r # 0 /\ x = s
        <5>1. q < r /\ runs[q].session = s
          BY <4>2, <3>6, <2>1, <1>h, <1>t
        <5> QED BY <5>1, <4>2, <2>1, <1>l
      <4> QED BY <4>1, <4>2
    <3> QED BY <3>2, <3>3, <3>4, <3>5, <3>6 DEF Kept
  <2> QED BY <2>3, <2>4 DEF KeptInv
<1>6. ASSUME NEW C, NEW D, Drains(C, D) PROVE KeptInv'
  <2>1. /\ D \in SUBSET Runs /\ Frees(D) /\ C \in SUBSET Settled /\ phase = "turn"
        /\ Settled \in SUBSET DOMAIN slots
        /\ \A x \in Settled : slots[x] \in D /\ runs[slots[x]].session = x
        /\ \A r \in D : runs[r].alloc = "live"
        /\ notices' = [r \in Runs |-> IF r \in D THEN notices[r] + 1 ELSE notices[r]]
        /\ DOMAIN finished' = DOMAIN finished \union C
        /\ \A x \in DOMAIN finished \ C : finished'[x] = finished[x]
    BY <1>6 DEF Drains
  <2>2. /\ \A x \in Settled : RunOf(x)' = 0 /\ RunOf(x) = slots[x]
        /\ \A x : x \notin Settled => RunOf(x)' = RunOf(x)
    BY <1>6 DEF Drains, RunOf, Present
  <2>3. ASSUME NEW x \in DOMAIN finished', RunOf(x)' # 0 PROVE finished'[x].run < RunOf(x)'
    <3>1. x \notin Settled /\ x \in DOMAIN finished \ C
      BY <2>1, <2>2, <2>3
    <3> QED BY <3>1, <2>1, <2>2, <2>3, <1>h
  <2>4. ASSUME NEW q \in Runs, runs'[q].alloc # "none" PROVE Kept(q)' \/ Later(q)'
    <3>1. runs'[q].session = runs[q].session /\ runs[q].alloc # "none"
      BY <2>1, <2>4 DEF Frees
    <3>2. Kept(q) \/ Later(q)
      BY <3>1, <2>1, <1>h
    <3>3. CASE Later(q)
      BY <3>3, <2>1, <1>f
    <3>4. CASE notices[q] > 0 \/ q \in D
      <4>1. notices'[q] > 0
        BY <3>4, <2>1, <1>t
      <4> QED BY <4>1 DEF Kept
    <3>5. CASE RunOf(runs[q].session) = q /\ q \notin D
      BY <3>1, <3>5, <2>1, <2>2 DEF Kept
    <3>6. ASSUME NEW x \in DOMAIN finished, finished[x].run = q, ~finished[x].noticed
          PROVE  Kept(q)' \/ Later(q)'
      <4>1. CASE x \notin C
        <5>1. x \in DOMAIN finished' /\ finished'[x] = finished[x]
          BY <4>1, <2>1
        <5> QED BY <5>1, <3>6 DEF Kept
      <4>2. CASE x \in C
        <5>1. PICK r \in D : r = slots[x] /\ r = RunOf(x) /\ runs[r].session = x /\ r \in Runs
          BY <4>2, <2>1, <2>2
        <5>2. q < r /\ runs[q].session = x /\ runs[r].alloc # "none"
          BY <5>1, <3>6, <2>1, <1>h, <1>t
        <5> QED BY <5>1, <5>2, <2>1, <1>l
      <4> QED BY <4>1, <4>2
    <3> QED BY <3>2, <3>3, <3>4, <3>5, <3>6 DEF Kept
  <2> QED BY <2>3, <2>4 DEF KeptInv
<1>7. CASE destroy_registry
  <2>1. Owners
    BY <1>7, <1>t, SetDestroy DEF destroy_registry
  <2>2. UNCHANGED <<slots, finished, notices>> /\ phase = "turn" /\ phase' = "closing"
    BY <1>7 DEF destroy_registry, registry, history
  <2> QED BY <2>1, <2>2, <1>u DEF RunOf, Present
<1>8. CASE take_unnoticed_finished
  <2> DEFINE fresh == {s \in DOMAIN finished : ~finished[s].noticed}
             reported == {finished[s].run : s \in fresh}
  <2>1. /\ notices' = [r \in Runs |-> IF r \in reported THEN notices[r] + 1 ELSE notices[r]]
        /\ UNCHANGED <<runs, slots>> /\ phase = "draining"
        /\ finished' = [s \in DOMAIN finished |-> [finished[s] EXCEPT !.noticed = TRUE]]
    BY <1>8 DEF take_unnoticed_finished
  <2>2. \A x \in DOMAIN finished : ~finished[x].noticed => finished[x].run \in reported
    OBVIOUS
  <2> HIDE DEF reported
  <2>3. DOMAIN finished' = DOMAIN finished /\ \A x \in DOMAIN finished : finished'[x].run = finished[x].run
    BY <2>1, <1>t DEF Parked
  <2>4. \A r \in Runs : Later(r)' <=> Later(r)
    BY <2>1 DEF Later
  <2>5. ASSUME NEW r \in Runs, Kept(r) PROVE Kept(r)'
    <3>1. CASE notices[r] > 0 \/ r \in reported
      <4>1. notices'[r] > 0
        BY <3>1, <2>1, <1>t
      <4> QED BY <4>1 DEF Kept
    <3>2. CASE RunOf(runs[r].session) = r
      BY <3>2, <2>1 DEF Kept, RunOf, Present
    <3> QED BY <3>1, <3>2, <2>2, <2>5 DEF Kept
  <2>6. \A x \in DOMAIN finished' : RunOf(x)' # 0 => finished'[x].run < RunOf(x)'
    BY <2>1, <2>3, <1>h DEF RunOf, Present
  <2> QED BY <2>1, <2>4, <2>5, <2>6, <1>h DEF KeptInv
<1>9. CASE Destroyed
  <2>1. DOMAIN finished' = {} /\ phase' = "dead"
    BY <1>9 DEF Destroyed
  <2> QED BY <2>1 DEF KeptInv
<1> QED BY <1>1, <1>2, <1>3, <1>4, <1>5, <1>6, <1>7, <1>8, <1>9, <1>t, RunSteps

----------------------------------------------------------------------------
\* The theorems for one call at a time.

Guarded == Owned /\ CallInv /\ LiveInv /\ ClosingInv /\ NoticeInv /\ KeptInv

LEMMA InitGuarded ==
    ASSUME Init
    PROVE  Guarded
<1>o. Owned
  BY InitOwned
<1>1. DOMAIN slots = {} /\ DOMAIN finished = {}
  BY DEF Init
<1>2. \A r \in Runs : fiber[r] = "none" /\ runs[r].alloc = "none" /\ notices[r] = 0
  BY DEF Init, NoRun
<1>3. CallInv
  <2>1. \A c \in Callers : call[c] = NoCall
    BY DEF Init
  <2> QED BY <1>1, <2>1, NoCallType DEF Init, CallInv, CallHolds
<1>4. LiveInv
  BY <1>2 DEF LiveInv
<1>5. ClosingInv /\ ~hollow
  BY DEF Init, ClosingInv
<1>6. NoticeInv
  BY <1>1, <1>2, <1>5 DEF NoticeInv
<1>7. KeptInv
  BY <1>1, <1>2 DEF KeptInv
<1> QED BY <1>o, <1>3, <1>4, <1>5, <1>6, <1>7 DEF Guarded

LEMMA GuardedNext ==
    ASSUME Serial, Guarded, [Next]_vars
    PROVE  Guarded'
  BY OwnedNext, CallNext, LiveNext, ClosingNext, NoticeNext, KeptNext DEF Guarded

LEMMA GuardedAlways ==
    ASSUME Serial
    PROVE  Spec => []Guarded
<1>1. Guarded /\ [Next]_vars => Guarded'
  BY GuardedNext
<1> QED BY <1>1, InitGuarded, PTL DEF Spec

\* With one tool call at a time no agent_run is freed under the fiber that uses it,
\* nor under the call that schedules it: start_background and close() free a run
\* only after its done event, drain_settled_runs only after its store of finished,
\* and the destructor after the done event of every run there is.  (Two calls at a
\* time can: the run registry_race.)
THEOREM RunOutlivesFiberHolds ==
    ASSUME Serial
    PROVE  Spec => []RunOutlivesFiber
<1>1. Guarded => RunOutlivesFiber
  <2> SUFFICES ASSUME Guarded PROVE RunOutlivesFiber
    OBVIOUS
  <2>1. ASSUME NEW c \in Callers, call[c].pc = "schedule" PROVE runs[call[c].new].alloc = "live"
    <3>1. CallHolds(call[c]) /\ CallOK(call[c]) /\ SlotsOwn /\ used \in Nat
      BY DEF Guarded, CallInv, Owned, CallsTyped, OwnInv, MapsTyped
    <3>2. Present(call[c].id) /\ slots[call[c].id] = call[c].new /\ call[c].new \in 1..used
      BY <2>1, <3>1 DEF CallHolds, CallOK, Starting
    <3> QED BY <3>1, <3>2 DEF SlotsOwn, Present
  <2> QED BY <2>1 DEF Guarded, LiveInv, RunOutlivesFiber
<1> QED BY <1>1, GuardedAlways, PTL

\* With one tool call at a time the outcome of a background run is reported at most
\* once over all turns, by the drain or from what close() parked, and there is a
\* result to report whenever one is.
THEOREM NoticedOnceHolds ==
    ASSUME Serial
    PROVE  Spec => []NoticedOnce
<1>1. Guarded => NoticedOnce
  BY DEF Guarded, NoticeInv, NoticedOnce
<1> QED BY <1>1, GuardedAlways, PTL

\* With one tool call at a time a run that has ended is reported, or is where the
\* next turn's drain finds it, or a later run of its session took its place.
THEOREM LostOnlyWhenSupersededHolds ==
    ASSUME Serial
    PROVE  Spec => []LostOnlyWhenSuperseded
<1>1. Guarded => LostOnlyWhenSuperseded
  <2> SUFFICES ASSUME Guarded, NEW r \in Runs, fiber[r] = "ended", phase # "dead"
               PROVE  Kept(r) \/ \E n \in (r + 1)..MaxRuns : runs[n].session = runs[r].session
    BY DEF LostOnlyWhenSuperseded
  <2>1. runs[r].alloc # "none"
    BY DEF Guarded, Owned, OwnInv, NewOwn
  <2> QED BY <2>1 DEF Guarded, KeptInv, Later
<1> QED BY <1>1, GuardedAlways, PTL

\* With one tool call at a time the registered sessions are the sessions of the
\* registry whenever no call is at work.
THEOREM SessionsAgreeHolds ==
    ASSUME Serial
    PROVE  Spec => []SessionsAgree
<1>1. Guarded => SessionsAgree
  <2> SUFFICES ASSUME Guarded, \A c \in Callers : Idle(c) PROVE live_sessions = DOMAIN slots
    BY DEF SessionsAgree
  <2>1. PICK c : Callers = {c}
    BY DEF Serial
  <2> QED BY <2>1 DEF Idle, Guarded, CallInv, CallHolds
<1> QED BY <1>1, GuardedAlways, PTL

----------------------------------------------------------------------------
\* The mail.

LEMMA ContainsFacts ==
    ASSUME NEW m
    PROVE  /\ ~Contains(<<>>, m)
           /\ \A q \in Seq(Messages), x \in Messages :
                 Contains(Append(q, x), m) <=> Contains(q, m) \/ x = m
<1>1. ~Contains(<<>>, m)
  BY DEF Contains
<1>2. ASSUME NEW q \in Seq(Messages), NEW x \in Messages
      PROVE  Contains(Append(q, x), m) <=> Contains(q, m) \/ x = m
  <2>1. PICK n \in Nat : n = Len(q)
    OBVIOUS
  <2>2. /\ Len(Append(q, x)) = n + 1 /\ Append(q, x)[n + 1] = x
        /\ \A i \in 1..n : Append(q, x)[i] = q[i]
    BY <2>1
  <2>3. CASE Contains(q, m)
    <3>1. PICK i \in 1..n : q[i] = m
      BY <2>1, <2>3 DEF Contains
    <3>2. i \in 1..(n + 1) /\ Append(q, x)[i] = m
      BY <3>1, <2>2
    <3> QED BY <2>2, <2>3, <3>2 DEF Contains
  <2>4. CASE x = m
    <3>1. n + 1 \in 1..(n + 1)
      OBVIOUS
    <3> QED BY <2>2, <2>4, <3>1 DEF Contains
  <2>5. ASSUME Contains(Append(q, x), m) PROVE Contains(q, m) \/ x = m
    <3>1. PICK i \in 1..(n + 1) : Append(q, x)[i] = m
      BY <2>2, <2>5 DEF Contains
    <3>2. CASE i = n + 1
      BY <3>1, <3>2, <2>2
    <3>3. CASE i \in 1..n
      BY <3>1, <3>3, <2>1, <2>2 DEF Contains
    <3> QED BY <3>1, <3>2, <3>3
  <2> QED BY <2>3, <2>4, <2>5
<1> QED BY <1>1, <1>2

\* A message stays where it is, or is lost.
HandsShrink(m) == \A c \in Callers : InHand(c, m)' => InHand(c, m)
CarriesShrink(m) == \A c \in Callers : Carried(c, m)' => Carried(c, m)
BoxesShrink(m) == \A s \in Sessions : /\ Boxed(s, m)' => Boxed(s, m)
                                      /\ Queued(s, m)' => Queued(s, m)
Shrinks(m) == HandsShrink(m) /\ CarriesShrink(m) /\ BoxesShrink(m)

LEMMA ShrinkMail ==
    ASSUME NEW m \in Messages, MailAt(m), MailTyped, MailTyped', Shrinks(m), sent <= sent',
           read'[m] = read[m] \/ (read'[m] = read[m] + 1 /\ Waits(m) /\ ~Waits(m)')
    PROVE  MailAt(m)'
<1>1. Waits(m)' => Waits(m)
  BY DEF Waits, Shrinks, HandsShrink, CarriesShrink, BoxesShrink
<1>t. m \in Nat /\ sent \in Nat /\ sent' \in Nat /\ read[m] \in Nat
  BY Bounds DEF Messages, MailTyped
<1>2. (Waits(m)' \/ read'[m] > 0) => m <= sent'
  BY <1>1, <1>t DEF MailAt
<1>3. read'[m] <= 1 /\ (Waits(m)' => read'[m] = 0)
  BY <1>1, <1>t DEF MailAt
<1>4. \A c, d \in Callers : /\ InHand(c, m)' /\ InHand(d, m)' => c = d
                            /\ Carried(c, m)' /\ Carried(d, m)' => c = d
                            /\ ~(InHand(c, m)' /\ Carried(d, m)')
  BY DEF Shrinks, HandsShrink, CarriesShrink, MailAt
<1>5. \A s, t \in Sessions : /\ Boxed(s, m)' /\ Boxed(t, m)' => s = t
                             /\ Queued(s, m)' /\ Queued(t, m)' => s = t
                             /\ ~(Boxed(s, m)' /\ Queued(t, m)')
  BY DEF Shrinks, BoxesShrink, MailAt
<1>6. \A c \in Callers, s \in Sessions : /\ ~(InHand(c, m)' /\ (Boxed(s, m)' \/ Queued(s, m)'))
                                         /\ ~(Carried(c, m)' /\ (Boxed(s, m)' \/ Queued(s, m)'))
  BY DEF Shrinks, HandsShrink, CarriesShrink, BoxesShrink, MailAt
<1> QED BY <1>2, <1>3, <1>4, <1>5, <1>6 DEF MailAt

\* What a call holds it keeps, loses or passes on; only a prompt takes more.
LEMMA CallShrinks ==
    ASSUME MapsTyped, MailTyped, CallsTyped, NEW c \in Callers, CallStep(c), NEW m
    PROVE  /\ HandsShrink(m)
           /\ call[c].pc # "prompt" => CarriesShrink(m)
<1>1. OthersCall(c) /\ CallMove(c) /\ CallOK(call[c])
  BY CallMoves DEF CallsTyped
<1>2. call'[c].pc \in {"push", "queue"} => /\ call[c].pc \in {"push", "queue"}
                                           /\ call'[c].msg = call[c].msg
  BY <1>1, NoCallType DEF CallMove, Moves, Fixed, CallOK
<1>3. call[c].pc # "prompt" => call'[c].carries \in {call[c].carries, <<>>}
  BY <1>1, NoCallType DEF CallMove, Moves
<1>4. HandsShrink(m)
  BY <1>1, <1>2 DEF HandsShrink, InHand, OthersCall
<1>5. ~Contains(<<>>, m)
  BY ContainsFacts
<1>6. call[c].pc # "prompt" => CarriesShrink(m)
  <2> SUFFICES ASSUME call[c].pc # "prompt", NEW d \in Callers, Carried(d, m)' PROVE Carried(d, m)
    BY DEF CarriesShrink
  <2>1. CASE d = c
    BY <2>1, <1>3, <1>5 DEF Carried
  <2>2. CASE d # c
    BY <2>2, <1>1 DEF Carried, OthersCall
  <2> QED BY <2>1, <2>2
<1> QED BY <1>4, <1>6

\* A message that moves to one place, or to none, and was not read.
LEMMA MovedMail ==
    ASSUME NEW m \in Messages, MailTyped', m <= sent', read'[m] = 0,
           \/ /\ \A c \in Callers : ~InHand(c, m)' /\ ~Carried(c, m)'
              /\ \/ /\ \A s \in Sessions : ~Queued(s, m)'
                    /\ \A s, t \in Sessions : Boxed(s, m)' /\ Boxed(t, m)' => s = t
                 \/ /\ \A s \in Sessions : ~Boxed(s, m)'
                    /\ \A s, t \in Sessions : Queued(s, m)' /\ Queued(t, m)' => s = t
           \/ /\ \A s \in Sessions : ~Boxed(s, m)' /\ ~Queued(s, m)'
              /\ \/ /\ \A c \in Callers : ~InHand(c, m)'
                    /\ \A c, d \in Callers : Carried(c, m)' /\ Carried(d, m)' => c = d
                 \/ /\ \A c \in Callers : ~Carried(c, m)'
                    /\ \A c, d \in Callers : InHand(c, m)' /\ InHand(d, m)' => c = d
    PROVE  MailAt(m)'
<1>1. read'[m] <= 1 /\ ~(read'[m] > 0)
  OBVIOUS
<1> QED BY <1>1 DEF MailAt, Waits

LEMMA MailNext ==
    ASSUME MapsTyped, MailTyped, CallsTyped, MailInv, [Next]_vars
    PROVE  MailInv'
<1>t. MailTyped' /\ Calls /\ sent \in Nat
  BY MailTypedNext DEF CallsTyped, Calls, MailTyped
<1> SUFFICES ASSUME NEW m \in Messages, MailAt(m)
             PROVE  MailAt(m)'
  BY DEF MailInv
<1>m. m \in Nat /\ read[m] \in Nat
  BY Bounds DEF Messages, MailTyped
<1>e. ~Contains(<<>>, m)
  BY ContainsFacts
<1>k. ASSUME call' = call PROVE HandsShrink(m) /\ CarriesShrink(m)
  BY <1>k DEF HandsShrink, CarriesShrink, InHand, Carried
<1>b. ASSUME inbox' = inbox, pending' = pending PROVE BoxesShrink(m)
  BY <1>b DEF BoxesShrink, Boxed, Queued
<1>s. ASSUME Shrinks(m), sent' = sent, read' = read PROVE MailAt(m)'
  BY <1>s, <1>t, ShrinkMail
\* The messages ms of a place are read, and the place is left empty.
<1>r. ASSUME NEW ms, read' = handed(ms), sent' = sent, Shrinks(m),
             Contains(ms, m) => Waits(m) /\ ~Waits(m)'
      PROVE  MailAt(m)'
  <2>1. read'[m] = IF Contains(ms, m) THEN read[m] + 1 ELSE read[m]
    BY <1>r DEF handed
  <2> QED BY <2>1, <1>r, <1>t, ShrinkMail
<1>1. ASSUME NEW c \in Callers, NEW s \in Sessions,
             Interrupt(c, s) \/ \E t \in {"background", "sync"}, b \in BOOLEAN : Subagent(c, s, t, b)
      PROVE  MailAt(m)'
  <2>1. OthersCall(c) /\ call'[c].pc \in {"prompt", "cancel"} /\ call'[c].carries = <<>>
    BY <1>1, <1>t, CallSubagent, CallInterrupt
  <2>2. HandsShrink(m) /\ CarriesShrink(m)
    BY <2>1, <1>e DEF HandsShrink, CarriesShrink, InHand, Carried, OthersCall
  <2> QED BY <1>1, <2>2, <1>b, <1>s DEF Interrupt, Subagent, mail, Shrinks
<1>2. ASSUME NEW c \in Callers, NEW s \in Sessions, SendMessage(c, s) PROVE MailAt(m)'
  <2>1. /\ OthersCall(c) /\ sent' = sent + 1 /\ call'[c].carries = <<>>
        /\ call'[c].pc \in {"push", "queue"} /\ call'[c].msg = sent + 1
        /\ UNCHANGED <<inbox, pending, read>>
    BY <1>2, <1>t, CallSend DEF SendMessage
  <2>2. CarriesShrink(m) /\ BoxesShrink(m)
    BY <2>1, <1>e, <1>b DEF CarriesShrink, Carried, OthersCall
  <2>3. CASE m # sent + 1
    <3>1. HandsShrink(m)
      BY <2>1, <2>3 DEF HandsShrink, InHand, OthersCall
    <3> QED BY <3>1, <2>1, <2>2, <1>t, ShrinkMail DEF Shrinks
  <2>4. CASE m = sent + 1
    <3>1. ~Waits(m) /\ ~(read[m] > 0)
      BY <2>4, <1>t DEF MailAt
    <3>2. \A d \in Callers : /\ ~Carried(d, m)'
                             /\ InHand(d, m)' => d = c
      BY <3>1, <2>1, <2>2 DEF Waits, CarriesShrink, InHand, OthersCall
    <3>3. \A x \in Sessions : ~Boxed(x, m)' /\ ~Queued(x, m)'
      BY <3>1, <2>2 DEF Waits, BoxesShrink
    <3>4. read'[m] = 0 /\ m <= sent'
      BY <3>1, <2>1, <2>4, <1>m
    <3> QED BY <3>2, <3>3, <3>4, <1>t, MovedMail
  <2> QED BY <2>3, <2>4
<1>3. ASSUME NEW s \in Sessions, drain_steer(s) PROVE MailAt(m)'
  <2>1. /\ read' = handed(inbox[s]) /\ inbox' = [inbox EXCEPT ![s] = <<>>]
        /\ UNCHANGED <<pending, sent, call>>
    BY <1>3 DEF drain_steer
  <2>2. inbox'[s] = <<>> /\ \A x \in Sessions \ {s} : inbox'[x] = inbox[x]
    BY <2>1 DEF MailTyped
  <2>3. BoxesShrink(m) /\ ~Boxed(s, m)'
    BY <2>1, <2>2, <1>e DEF BoxesShrink, Boxed, Queued
  <2>4. Shrinks(m)
    BY <2>1, <2>3, <1>k DEF Shrinks
  <2>5. ASSUME Contains(inbox[s], m) PROVE Waits(m) /\ ~Waits(m)'
    <3>1. Boxed(s, m)
      BY <2>5 DEF Boxed
    <3> QED BY <3>1, <2>3, <2>4 DEF Waits, MailAt, Shrinks, HandsShrink, CarriesShrink, BoxesShrink
  <2> QED BY <2>1, <2>4, <2>5, <1>r
<1>4. ASSUME NEW c \in Callers, drain_pending_messages(c) PROVE MailAt(m)'
  <2>1. PICK s \in Sessions : s = call[c].id /\ call[c].pc = "prompt"
    BY <1>4 DEF drain_pending_messages, At, CallsTyped, CallOK
  <2>2. /\ pending' = [pending EXCEPT ![s] = <<>>] /\ UNCHANGED <<inbox, sent, read>>
    BY <1>4, <2>1 DEF drain_pending_messages
  <2>3. pending'[s] = <<>> /\ \A x \in Sessions \ {s} : pending'[x] = pending[x]
    BY <2>2 DEF MailTyped
  <2>4. BoxesShrink(m) /\ ~Queued(s, m)'
    BY <2>2, <2>3, <1>e DEF BoxesShrink, Boxed, Queued
  <2>5. OthersCall(c) /\ CallMove(c) /\ HandsShrink(m)
    BY <1>4, CallMoves, CallShrinks DEF CallStep
  <2>6. call'[c].carries = pending[s]
    BY <2>1, <2>5 DEF CallMove, Moves
  <2>7. CASE Queued(s, m)
    <3>1. /\ \A x \in Sessions : ~Boxed(x, m)' /\ ~Queued(x, m)'
          /\ \A d \in Callers : ~InHand(d, m)'
      BY <2>4, <2>5, <2>7 DEF MailAt, BoxesShrink, HandsShrink
    <3>2. \A d \in Callers : Carried(d, m)' => d = c
      BY <2>5, <2>7 DEF MailAt, OthersCall, Carried
    <3>3. read'[m] = 0 /\ m <= sent'
      BY <2>2, <2>7 DEF MailAt, Waits
    <3> QED BY <3>1, <3>2, <3>3, <1>t, MovedMail
  <2>8. CASE ~Queued(s, m)
    <3>1. CarriesShrink(m)
      BY <2>5, <2>6, <2>8 DEF CarriesShrink, Carried, Queued, OthersCall
    <3> QED BY <3>1, <2>2, <2>4, <2>5, <1>s DEF Shrinks
  <2> QED BY <2>7, <2>8
\* A message in hand.
<1>h. ASSUME NEW c \in Callers, call[c].pc \in {"push", "queue"}, CallStep(c),
             call'[c] = NoCall
      PROVE  /\ HandsShrink(m) /\ CarriesShrink(m) /\ ~InHand(c, m)'
             /\ call[c].msg \in Messages /\ call[c].id \in Sessions
  <2>1. HandsShrink(m) /\ CarriesShrink(m)
    BY <1>h, CallShrinks
  <2>2. ~InHand(c, m)'
    BY <1>h, NoCallType DEF InHand
  <2> QED BY <1>h, <2>1, <2>2, Bounds DEF CallsTyped, CallOK, Messages, MailTyped
<1>5. ASSUME NEW c \in Callers, push_steer(c) PROVE MailAt(m)'
  <2>1. UNCHANGED <<pending, sent, read>> /\ call[c].pc = "push"
    BY <1>5 DEF push_steer, At
  <2>2. CASE inbox' = inbox
    <3>1. HandsShrink(m) /\ CarriesShrink(m)
      BY <1>5, <2>1, CallShrinks DEF CallStep
    <3> QED BY <3>1, <2>1, <2>2, <1>b, <1>s DEF Shrinks
  <2>3. CASE inbox' # inbox
    <3>1. inbox' = [inbox EXCEPT ![call[c].id] = Append(@, call[c].msg)] /\ Return(c)
      BY <1>5, <2>3 DEF push_steer
    <3>2. call'[c] = NoCall /\ CallStep(c)
      BY <3>1, <1>5, <1>t, CallReturn DEF CallStep
    <3>3. /\ HandsShrink(m) /\ CarriesShrink(m) /\ ~InHand(c, m)'
          /\ call[c].msg \in Messages /\ call[c].id \in Sessions
      BY <3>2, <2>1, <1>h
    <3>4. PICK s \in Sessions, x \in Messages : s = call[c].id /\ x = call[c].msg
      BY <3>3
    <3>5. inbox'[s] = Append(inbox[s], x) /\ \A y \in Sessions \ {s} : inbox'[y] = inbox[y]
      BY <3>1, <3>4 DEF MailTyped
    <3>6. inbox[s] \in Seq(Messages)
      BY DEF MailTyped
    <3>7. Boxed(s, m)' <=> Boxed(s, m) \/ x = m
      <4>1. Contains(Append(inbox[s], x), m) <=> Contains(inbox[s], m) \/ x = m
        BY <3>6, ContainsFacts, Zenon
      <4>2. Contains(inbox'[s], m) <=> Contains(inbox[s], m) \/ x = m
        BY <4>1, <3>5
      <4> QED BY <4>2 DEF Boxed
    <3>8. \A y \in Sessions : /\ y # s => (Boxed(y, m)' <=> Boxed(y, m))
                              /\ Queued(y, m)' <=> Queued(y, m)
      BY <3>5, <2>1 DEF Boxed, Queued
    <3>9. CASE x # m
      <4>1. BoxesShrink(m)
        BY <3>7, <3>8, <3>9 DEF BoxesShrink
      <4> QED BY <4>1, <3>3, <2>1, <1>s DEF Shrinks
    <3>10. CASE x = m
      <4>1. InHand(c, m)
        BY <3>4, <3>10, <2>1 DEF InHand
      <4>2. /\ \A d \in Callers : ~InHand(d, m)' /\ ~Carried(d, m)'
            /\ \A y \in Sessions : ~Queued(y, m)' /\ (Boxed(y, m)' => y = s)
        BY <4>1, <3>3, <3>8 DEF MailAt, HandsShrink, CarriesShrink
      <4>3. read'[m] = 0 /\ m <= sent'
        BY <4>1, <2>1 DEF MailAt, Waits
      <4> QED BY <4>2, <4>3, <1>t, MovedMail
    <3> QED BY <3>9, <3>10
  <2> QED BY <2>2, <2>3
<1>6. ASSUME NEW c \in Callers, queue_pending_message(c) PROVE MailAt(m)'
  <2>1. UNCHANGED <<inbox, sent, read>> /\ call[c].pc = "queue" /\ Return(c)
    BY <1>6 DEF queue_pending_message, At
  <2>2. call'[c] = NoCall /\ CallStep(c)
    BY <2>1, <1>6, <1>t, CallReturn DEF CallStep
  <2>3. /\ HandsShrink(m) /\ CarriesShrink(m) /\ ~InHand(c, m)'
        /\ call[c].msg \in Messages /\ call[c].id \in Sessions
    BY <2>2, <2>1, <1>h
  <2>4. PICK s \in Sessions, x \in Messages : s = call[c].id /\ x = call[c].msg
    BY <2>3
  <2>5. /\ pending'[s] \in {pending[s], Append(pending[s], x)}
        /\ \A y \in Sessions \ {s} : pending'[y] = pending[y]
    BY <1>6, <2>4 DEF queue_pending_message, MailTyped
  <2>6. pending[s] \in Seq(Messages)
    BY DEF MailTyped
  <2>7. Queued(s, m)' => Queued(s, m) \/ x = m
    <3>1. Contains(Append(pending[s], x), m) <=> Contains(pending[s], m) \/ x = m
      BY <2>6, ContainsFacts, Zenon
    <3>2. Contains(pending'[s], m) => Contains(pending[s], m) \/ x = m
      BY <3>1, <2>5
    <3> QED BY <3>2 DEF Queued
  <2>8. \A y \in Sessions : /\ y # s => (Queued(y, m)' <=> Queued(y, m))
                            /\ Boxed(y, m)' <=> Boxed(y, m)
    BY <2>5, <2>1 DEF Boxed, Queued
  <2>9. CASE x # m
    <3>1. BoxesShrink(m)
      BY <2>7, <2>8, <2>9 DEF BoxesShrink
    <3> QED BY <3>1, <2>3, <2>1, <1>s DEF Shrinks
  <2>10. CASE x = m
    <3>1. InHand(c, m)
      BY <2>4, <2>10, <2>1 DEF InHand
    <3>2. /\ \A d \in Callers : ~InHand(d, m)' /\ ~Carried(d, m)'
          /\ \A y \in Sessions : ~Boxed(y, m)' /\ (Queued(y, m)' => y = s)
      BY <3>1, <2>3, <2>8 DEF MailAt, HandsShrink, CarriesShrink
    <3>3. read'[m] = 0 /\ m <= sent'
      BY <3>1, <2>1 DEF MailAt, Waits
    <3> QED BY <3>2, <3>3, <1>t, MovedMail
  <2> QED BY <2>9, <2>10
\* The prompt of a call is handed to its agent.
<1>p. ASSUME NEW c \in Callers, read' = handed(call[c].carries), CallStep(c), call[c].pc # "prompt",
             call'[c].carries = <<>>, UNCHANGED <<inbox, pending, sent>>
      PROVE  MailAt(m)'
  <2>1. Shrinks(m)
    BY <1>p, <1>b, CallShrinks DEF Shrinks
  <2>2. ASSUME Contains(call[c].carries, m) PROVE Waits(m) /\ ~Waits(m)'
    <3>1. Carried(c, m) /\ ~Carried(c, m)'
      BY <2>2, <1>p, <1>e DEF Carried
    <3> QED BY <3>1, <2>1 DEF Waits, MailAt, Shrinks, HandsShrink, CarriesShrink, BoxesShrink
  <2> QED BY <2>1, <2>2, <1>p, <1>r
<1>7. ASSUME NEW c \in Callers, Register(c) PROVE MailAt(m)'
  <2>1. UNCHANGED <<inbox, pending, sent>> /\ CallStep(c) /\ call[c].pc = "register"
    BY <1>7 DEF Register, CallStep, At
  <2>2. CASE call[c].tool = "sync"
    <3>1. call'[c].carries = <<>>
      BY <2>1, <2>2, CallMoves DEF CallMove, Moves
    <3> QED BY <3>1, <2>1, <2>2, <1>7, <1>p DEF Register
  <2>3. CASE call[c].tool # "sync"
    BY <2>1, <2>3, <1>7, <1>b, <1>s, CallShrinks DEF Register, Shrinks
  <2> QED BY <2>2, <2>3
<1>8. ASSUME NEW c \in Callers, Schedule(c) PROVE MailAt(m)'
  <2>1. /\ UNCHANGED <<inbox, pending, sent>> /\ CallStep(c) /\ call[c].pc = "schedule"
        /\ read' = handed(call[c].carries)
    BY <1>8 DEF Schedule, CallStep, At
  <2>2. call'[c].carries = <<>>
    BY <1>8, <1>t, CallReturn, NoCallType DEF Schedule
  <2> QED BY <2>1, <2>2, <1>p
<1>9. ASSUME NEW c \in Callers, \/ Put(c) \/ SyncReturns(c) \/ SyncKeeps(c) \/ start_background(c)
             \/ StaleDone(c) \/ ReplaceRun(c) \/ RequestCancel(c) \/ EvictNone(c) \/ close(c)
             \/ Joined(c) \/ Unregister(c) \/ \E s \in Sessions : Evict(c, s)
      PROVE  MailAt(m)'
  <2>1. UNCHANGED mail /\ call[c].pc # "prompt"
    BY <1>9 DEF Put, put, SyncReturns, SyncKeeps, start_background, StaleDone, ReplaceRun,
       RequestCancel, EvictNone, close, Joined, Unregister, Evict, mail, At
  <2>2. CallStep(c)
    BY <1>9 DEF CallStep
  <2> QED BY <2>1, <2>2, <1>b, <1>s, CallShrinks DEF Shrinks, mail
\* Inboxes are emptied.
<1>i. ASSUME NEW S, inbox' = emptied(S),
             pending' = pending \/ \A s \in Sessions : pending'[s] = <<>>
      PROVE  BoxesShrink(m)
  BY <1>i, <1>e DEF BoxesShrink, Boxed, Queued, emptied
<1>10. ASSUME NEW c \in Callers, CloseDrop(c) PROVE MailAt(m)'
  <2>1. CallStep(c) /\ call[c].pc = "drop" /\ inbox' = emptied({call[c].target})
        /\ UNCHANGED <<pending, sent, read>>
    BY <1>10 DEF CallStep, CloseDrop, At
  <2> QED BY <2>1, <1>i, <1>s, CallShrinks DEF Shrinks
<1>11. CASE drain_settled_runs
  <2>1. /\ inbox' = emptied({s \in Settled : runs[slots[s]].close_requested})
        /\ UNCHANGED <<pending, sent, read, call>>
    BY <1>11 DEF drain_settled_runs
  <2> QED BY <2>1, <1>k, <1>i, <1>s DEF Shrinks
<1>12. CASE Destroyed
  <2>1. /\ inbox' = emptied(Sessions) /\ \A s \in Sessions : pending'[s] = <<>>
        /\ UNCHANGED <<sent, read, call>>
    BY <1>12 DEF Destroyed, emptied
  <2> QED BY <2>1, <1>k, <1>i, <1>s DEF Shrinks
<1>13. ASSUME \/ \E r \in Runs : RunnerReturns(r) \/ StoreResult(r) \/ StoreFinished(r) \/ SignalDone(r)
              \/ destroy_registry \/ take_unnoticed_finished \/ UNCHANGED vars
       PROVE  MailAt(m)'
  <2>1. UNCHANGED <<inbox, pending, sent, read, call>>
    BY <1>13 DEF RunnerReturns, StoreResult, StoreFinished, SignalDone, destroy_registry,
       take_unnoticed_finished, vars, mail
  <2> QED BY <2>1, <1>k, <1>b, <1>s DEF Shrinks
<1> QED BY <1>1, <1>2, <1>3, <1>4, <1>5, <1>6, <1>7, <1>8, <1>9, <1>10, <1>11, <1>12, <1>13, NextCases

\* Where a message that somebody has sent and not lost is.
Here(m) == \/ read[m] # 0
           \/ \E s \in Sessions : Boxed(s, m) \/ Queued(s, m)
           \/ \E c \in Callers : Carried(c, m)

LEMMA CopiesFacts ==
    ASSUME NEW m \in Messages, MailTyped, MailAt(m)
    PROVE  Copies(m) \in {0, 1} /\ (Copies(m) = 1 <=> Here(m))
<1> DEFINE B == {s \in Sessions : Contains(inbox[s], m)}
           Q == {s \in Sessions : Contains(pending[s], m)}
           K == {c \in Callers : Contains(call[c].carries, m)}
<1>1. /\ \A s : s \in B <=> s \in Sessions /\ Boxed(s, m)
      /\ \A s : s \in Q <=> s \in Sessions /\ Queued(s, m)
      /\ \A c : c \in K <=> c \in Callers /\ Carried(c, m)
  BY DEF Boxed, Queued, Carried
<1>2. Copies(m) = read[m] + Cardinality(B) + Cardinality(Q) + Cardinality(K)
  BY DEF Copies
<1> HIDE DEF B, Q, K
<1>3. /\ \A x, y \in B : x = y
      /\ \A x, y \in Q : x = y
      /\ \A x, y \in K : x = y
      /\ B = {} \/ (Q = {} /\ K = {})
      /\ Q = {} \/ K = {}
  BY <1>1 DEF MailAt
<1>c. ASSUME NEW S, \A x, y \in S : x = y
      PROVE  Cardinality(S) = IF S = {} THEN 0 ELSE 1
  <2>1. CASE S = {}
    BY <2>1, FS_EmptySet
  <2>2. CASE S # {}
    <3>1. PICK x : S = {x}
      BY <2>2, <1>c
    <3> QED BY <3>1, FS_Singleton
  <2> QED BY <2>1, <2>2
<1>4. /\ Cardinality(B) = IF B = {} THEN 0 ELSE 1
      /\ Cardinality(Q) = IF Q = {} THEN 0 ELSE 1
      /\ Cardinality(K) = IF K = {} THEN 0 ELSE 1
  BY <1>3, <1>c
<1>5. read[m] \in {0, 1} /\ (B # {} \/ Q # {} \/ K # {} => read[m] = 0)
  BY <1>1 DEF MailAt, Waits, MailTyped
<1>6. Here(m) <=> read[m] # 0 \/ B # {} \/ Q # {} \/ K # {}
  BY <1>1 DEF Here
<1> QED BY <1>2, <1>3, <1>4, <1>5, <1>6

LEMMA InitMail ==
    ASSUME Init
    PROVE  MailInv /\ BoxInv
<1>1. BoxInv
  BY DEF Init, BoxInv
<1>2. ASSUME NEW m \in Messages PROVE MailAt(m)
  <2>1. /\ \A c \in Callers : call[c] = NoCall
        /\ \A s \in Sessions : inbox[s] = <<>> /\ pending[s] = <<>>
        /\ read[m] = 0
    BY DEF Init
  <2>2. ~Contains(<<>>, m)
    BY ContainsFacts
  <2>3. /\ \A c \in Callers : ~InHand(c, m) /\ ~Carried(c, m)
        /\ \A s \in Sessions : ~Boxed(s, m) /\ ~Queued(s, m)
    BY <2>1, <2>2, NoCallType DEF InHand, Carried, Boxed, Queued
  <2>4. read[m] <= 1 /\ ~(read[m] > 0)
    BY <2>1
  <2> QED BY <2>3, <2>4 DEF MailAt, Waits
<1> QED BY <1>1, <1>2 DEF MailInv

LEMMA MailAlways == Spec => [](Owned /\ MailInv)
<1>1. Init => Owned /\ MailInv
  BY InitOwned, InitMail
<1>2. Owned /\ MailInv /\ [Next]_vars => Owned' /\ MailInv'
  BY OwnedNext, MailNext DEF Owned
<1> QED BY <1>1, <1>2, PTL DEF Spec

\* A message that send_message accepted is in one inbox, in one queue or in one
\* prompt, or has reached one agent, never two of these: whatever number of tool
\* calls send, resume, interrupt and evict at the same time.
THEOREM MessageOnceHolds == Spec => []MessageOnce
<1>1. Owned /\ MailInv => MessageOnce
  <2> SUFFICES ASSUME Owned, MailInv, NEW m \in Messages PROVE Copies(m) <= 1
    BY DEF MessageOnce
  <2>1. Copies(m) \in {0, 1}
    BY CopiesFacts DEF Owned, MailInv
  <2> QED BY <2>1
<1> QED BY <1>1, MailAlways, PTL

LEMMA BoxNext ==
    ASSUME Owned, BoxInv, [Next]_vars
    PROVE  BoxInv'
<1>t. MailTyped /\ MapsTyped /\ CallsTyped /\ OwnInv
  BY DEF Owned
<1>u. ASSUME DOMAIN slots \in SUBSET DOMAIN slots', inbox' = inbox PROVE BoxInv'
  BY <1>u DEF BoxInv, Present
<1>1. ASSUME UNCHANGED <<slots, inbox>> PROVE BoxInv'
  BY <1>1, <1>u
<1>2. ASSUME NEW c \in Callers, Put(c) \/ SyncKeeps(c) PROVE BoxInv'
  BY <1>2, <1>u DEF Put, SyncKeeps, put, store
<1>3. ASSUME NEW c \in Callers, ReplaceRun(c) PROVE BoxInv'
  BY <1>3, <1>u DEF ReplaceRun, store, mail
<1>4. ASSUME NEW c \in Callers, push_steer(c) PROVE BoxInv'
  <2>1. CASE inbox' = inbox
    BY <1>4, <2>1, <1>1 DEF push_steer, registry
  <2>2. CASE inbox' # inbox
    <3>1. /\ inbox' = [inbox EXCEPT ![call[c].id] = Append(@, call[c].msg)] /\ slots' = slots
          /\ Present(call[c].id)
      BY <1>4, <2>2 DEF push_steer, registry, RunOf
    <3> QED BY <3>1, <1>t DEF BoxInv, Present, MailTyped
  <2> QED BY <2>1, <2>2
<1>5. ASSUME NEW s \in Sessions, drain_steer(s) PROVE BoxInv'
  BY <1>5, <1>t DEF drain_steer, registry, BoxInv, Present, MailTyped
<1>6. ASSUME NEW c \in Callers, CloseDrop(c) PROVE BoxInv'
  <2>1. slots' = erase(slots, call[c].target) /\ inbox' = emptied({call[c].target})
    BY <1>6 DEF CloseDrop
  <2> QED BY <2>1 DEF erase, emptied, BoxInv, Present
<1>7. CASE drain_settled_runs
  <2> DEFINE C == {s \in Settled : runs[slots[s]].close_requested}
  <2>1. DOMAIN slots' = DOMAIN slots \ C /\ inbox' = emptied(C)
    BY <1>7 DEF drain_settled_runs
  <2> HIDE DEF C
  <2> QED BY <2>1 DEF emptied, BoxInv, Present
<1>8. CASE Destroyed
  BY <1>8 DEF Destroyed, emptied, BoxInv
<1>9. ASSUME NEW c \in Callers,
             \/ drain_pending_messages(c) \/ queue_pending_message(c) \/ Register(c) \/ SyncReturns(c)
             \/ start_background(c) \/ StaleDone(c) \/ Schedule(c) \/ RequestCancel(c)
             \/ EvictNone(c) \/ close(c) \/ Joined(c) \/ Unregister(c)
      PROVE  UNCHANGED <<slots, inbox>>
  BY <1>9 DEF drain_pending_messages, queue_pending_message, Register, SyncReturns, start_background,
     StaleDone, Schedule, RequestCancel, EvictNone, close, Joined, Unregister, registry, mail
<1>10. ASSUME NEW c \in Callers, NEW s \in Sessions,
              \/ Interrupt(c, s) \/ SendMessage(c, s) \/ Evict(c, s)
              \/ \E t \in {"background", "sync"}, b \in BOOLEAN : Subagent(c, s, t, b)
       PROVE  UNCHANGED <<slots, inbox>>
  BY <1>10 DEF Interrupt, SendMessage, Evict, Subagent, registry, mail
<1>11. ASSUME \/ \E r \in Runs : RunnerReturns(r) \/ StoreResult(r) \/ StoreFinished(r) \/ SignalDone(r)
              \/ destroy_registry \/ take_unnoticed_finished \/ UNCHANGED vars
       PROVE  UNCHANGED <<slots, inbox>>
  BY <1>11 DEF RunnerReturns, StoreResult, StoreFinished, SignalDone, destroy_registry,
     take_unnoticed_finished, vars, mail, registry
<1> QED BY <1>1, <1>2, <1>3, <1>4, <1>5, <1>6, <1>7, <1>8, <1>9, <1>10, <1>11, NextCases

\* The messages a call carries stay with it until its agent has them.
LEMMA CallKeeps ==
    ASSUME Owned, CallInv, NEW c \in Callers, CallStep(c), NEW m, Carried(c, m)
    PROVE  \/ Carried(c, m)'
           \/ Schedule(c)
           \/ Register(c) /\ call[c].tool = "sync"
<1>1. OthersCall(c) /\ CallMove(c) /\ CallOK(call[c]) /\ CallHolds(call[c])
  BY CallMoves DEF Owned, CallsTyped, CallInv
<1>2. call[c].carries # <<>>
  BY ContainsFacts DEF Carried
<1>3. /\ call[c].pc \notin {"idle", "prompt", "sync", "cancel", "unregister", "push", "queue"}
      /\ call[c].pc \in {"start", "replace"} => Present(call[c].id)
  BY <1>1, <1>2 DEF CallOK, CallHolds
<1>4. \/ call'[c].carries = call[c].carries
      \/ call[c].pc = "schedule"
      \/ call[c].pc = "register" /\ call[c].tool = "sync"
  BY <1>1, <1>3 DEF CallMove, Moves
<1>5. /\ call[c].pc = "schedule" => Schedule(c)
      /\ call[c].pc = "register" => Register(c)
  <2> USE DEF CallStep, drain_pending_messages, push_steer, queue_pending_message, Put, SyncReturns,
       SyncKeeps, start_background, StaleDone, ReplaceRun, RequestCancel, EvictNone, Evict, close,
       Joined, CloseDrop, Unregister, At
  <2>1. ASSUME ~Schedule(c) PROVE call[c].pc # "schedule"
    BY <2>1 DEF Register
  <2>2. ASSUME ~Register(c) PROVE call[c].pc # "register"
    BY <2>2 DEF Schedule
  <2> QED BY <2>1, <2>2
<1> QED BY <1>4, <1>5 DEF Carried

LEMMA MailKept ==
    ASSUME Owned, CallInv, BoxInv, MailInv, [Next]_vars, NEW m \in Messages, Here(m)
    PROVE  \/ Here(m)'
           \/ phase' = "dead"
           \/ \E s \in DOMAIN slots \ DOMAIN slots' : Contains(inbox[s], m)
<1>t. /\ MailTyped /\ MapsTyped /\ CallsTyped /\ OwnInv /\ Calls /\ read[m] \in Nat
      /\ \A s \in Sessions : Boxed(s, m) => Present(s)
  <2>1. ~Contains(<<>>, m)
    BY ContainsFacts
  <2>2. \A s \in Sessions : Boxed(s, m) => Present(s)
    BY <2>1 DEF BoxInv, Boxed
  <2> QED BY <2>2 DEF Owned, CallsTyped, Calls, MailTyped
<1> DEFINE Lost == \E s \in DOMAIN slots \ DOMAIN slots' : Contains(inbox[s], m)
           KeepCarries == \A c \in Callers : Carried(c, m) => Carried(c, m)'
           KeepQueues == \A s \in Sessions : Queued(s, m) => Queued(s, m)'
           KeepBoxes == \A s \in Sessions : Boxed(s, m) => Boxed(s, m)'
<1> USE DEF Here
<1>k. ASSUME KeepCarries, KeepQueues, KeepBoxes \/ Lost, read'[m] = read[m] PROVE Here(m)' \/ Lost
  BY <1>k
<1>c. call' = call => KeepCarries
  BY DEF Carried
<1>q. pending' = pending => KeepQueues
  BY DEF Queued
<1>b. inbox' = inbox => KeepBoxes
  BY DEF Boxed
\* What is handed to an agent is read.
<1>r. ASSUME NEW ms, read' = handed(ms), Contains(ms, m) \/ read[m] # 0 PROVE Here(m)'
  <2>1. read'[m] # 0
    BY <1>r, <1>t DEF handed
  <2> QED BY <2>1
<1>n. ASSUME NEW ms, read' = handed(ms), ~Contains(ms, m) PROVE read'[m] = read[m]
  BY <1>n DEF handed
<1>1. ASSUME NEW c \in Callers, NEW s \in Sessions,
             \/ Interrupt(c, s) \/ SendMessage(c, s)
             \/ \E t \in {"background", "sync"}, b \in BOOLEAN : Subagent(c, s, t, b)
      PROVE  Here(m)' \/ Lost
  <2>1. OthersCall(c) /\ call[c].pc = "idle"
    BY <1>1, <1>t, CallSubagent, CallInterrupt, CallSend
  <2>2. ~Carried(c, m)
    BY <2>1, <1>t, NoCallType, ContainsFacts DEF CallsTyped, CallOK, Carried
  <2>3. KeepCarries
    BY <2>1, <2>2 DEF OthersCall, Carried
  <2>4. UNCHANGED <<inbox, pending, read>>
    BY <1>1 DEF Interrupt, SendMessage, Subagent, mail
  <2> QED BY <2>3, <2>4, <1>k, <1>q, <1>b
<1>2. ASSUME NEW s \in Sessions, drain_steer(s) PROVE Here(m)'
  <2>1. /\ read' = handed(inbox[s]) /\ UNCHANGED <<pending, call>>
        /\ \A x \in Sessions \ {s} : inbox'[x] = inbox[x]
    BY <1>2, <1>t DEF drain_steer, MailTyped
  <2>2. CASE Contains(inbox[s], m)
    BY <2>1, <2>2, <1>r
  <2>3. CASE ~Contains(inbox[s], m)
    <3>1. KeepBoxes
      BY <2>1, <2>3 DEF Boxed
    <3> QED BY <3>1, <2>1, <2>3, <1>n, <1>c, <1>q
  <2> QED BY <2>2, <2>3
<1>o. ASSUME NEW c \in Callers, CallStep(c), ~Schedule(c), ~(Register(c) /\ call[c].tool = "sync")
      PROVE  KeepCarries
  <2>1. OthersCall(c)
    BY <1>o, <1>t, CallMoves
  <2>2. Carried(c, m) => Carried(c, m)'
    BY <1>o, CallKeeps
  <2> QED BY <2>1, <2>2 DEF OthersCall, Carried
<1>a. ASSUME NEW c \in Callers, CallStep(c), call[c].pc \notin {"schedule", "register"} PROVE KeepCarries
  BY <1>a, <1>o DEF Schedule, Register, At
<1>3. ASSUME NEW c \in Callers, drain_pending_messages(c) PROVE Here(m)'
  <2>1. PICK s \in Sessions : s = call[c].id /\ call[c].pc = "prompt"
    BY <1>3, <1>t DEF drain_pending_messages, At, CallsTyped, CallOK
  <2>2. /\ UNCHANGED <<inbox, read>> /\ \A x \in Sessions \ {s} : pending'[x] = pending[x]
    BY <1>3, <2>1, <1>t DEF drain_pending_messages, MailTyped
  <2>3. KeepCarries
    BY <1>3, <2>1, <1>a DEF CallStep
  <2>4. call'[c].carries = pending[s]
    <3>1. CallMove(c)
      BY <1>3, <1>t, CallMoves DEF CallStep
    <3> QED BY <3>1, <2>1 DEF CallMove, Moves
  <2>5. CASE Queued(s, m)
    <3>1. Carried(c, m)'
      BY <2>4, <2>5 DEF Queued, Carried
    <3> QED BY <3>1
  <2>6. CASE ~Queued(s, m)
    <3>1. KeepQueues
      BY <2>2, <2>6 DEF Queued
    <3> QED BY <3>1, <2>2, <2>3, <1>b
  <2> QED BY <2>5, <2>6
<1>m. ASSUME NEW c \in Callers, call[c].pc \in {"push", "queue"}
      PROVE  call[c].msg \in Messages /\ call[c].id \in Sessions
  BY <1>m, <1>t, Bounds DEF CallsTyped, CallOK, Messages, MailTyped
<1>4. ASSUME NEW c \in Callers, push_steer(c) PROVE Here(m)'
  <2>1. UNCHANGED <<pending, read>> /\ call[c].pc = "push" /\ KeepCarries
    BY <1>4, <1>a DEF push_steer, At, CallStep
  <2>2. PICK s \in Sessions, x \in Messages : s = call[c].id /\ x = call[c].msg
    BY <2>1, <1>m
  <2>3. inbox[s] \in Seq(Messages)
    BY <1>t DEF MailTyped
  <2>4. Contains(Append(inbox[s], x), m) <=> Contains(inbox[s], m) \/ x = m
    BY <2>3, ContainsFacts, Zenon
  <2>5. /\ inbox'[s] \in {inbox[s], Append(inbox[s], x)}
        /\ \A y \in Sessions \ {s} : inbox'[y] = inbox[y]
    BY <1>4, <2>2, <1>t DEF push_steer, MailTyped
  <2>6. KeepBoxes
    BY <2>4, <2>5 DEF Boxed
  <2> QED BY <2>1, <2>6, <1>q
<1>5. ASSUME NEW c \in Callers, queue_pending_message(c) PROVE Here(m)'
  <2>1. UNCHANGED <<inbox, read>> /\ call[c].pc = "queue" /\ KeepCarries
    BY <1>5, <1>a DEF queue_pending_message, At, CallStep
  <2>2. PICK s \in Sessions, x \in Messages : s = call[c].id /\ x = call[c].msg
    BY <2>1, <1>m
  <2>3. pending[s] \in Seq(Messages)
    BY <1>t DEF MailTyped
  <2>4. Contains(Append(pending[s], x), m) <=> Contains(pending[s], m) \/ x = m
    BY <2>3, ContainsFacts, Zenon
  <2>5. /\ pending'[s] \in {pending[s], Append(pending[s], x)}
        /\ \A y \in Sessions \ {s} : pending'[y] = pending[y]
    BY <1>5, <2>2, <1>t DEF queue_pending_message, MailTyped
  <2>6. KeepQueues
    BY <2>4, <2>5 DEF Queued
  <2> QED BY <2>1, <2>6, <1>b
<1>p. ASSUME NEW c \in Callers, CallStep(c), read' = handed(call[c].carries), UNCHANGED <<inbox, pending>>
      PROVE  Here(m)'
  <2>1. CASE Carried(c, m)
    BY <2>1, <1>p, <1>r DEF Carried
  <2>2. CASE ~Carried(c, m)
    <3>1. OthersCall(c)
      BY <1>p, <1>t, CallMoves
    <3>2. KeepCarries
      BY <3>1, <2>2 DEF OthersCall, Carried
    <3>3. read'[m] = read[m]
      BY <1>p, <2>2, <1>n DEF Carried
    <3> QED BY <3>2, <3>3, <1>p, <1>q, <1>b
  <2> QED BY <2>1, <2>2
<1>6. ASSUME NEW c \in Callers, Register(c) \/ Schedule(c) PROVE Here(m)'
  <2>1. UNCHANGED <<inbox, pending>> /\ CallStep(c)
    BY <1>6 DEF Register, Schedule, CallStep
  <2>2. CASE read' = handed(call[c].carries)
    BY <2>1, <2>2, <1>p
  <2>3. CASE read' # handed(call[c].carries)
    <3>1. Register(c) /\ call[c].tool # "sync" /\ read' = read /\ ~Schedule(c)
      BY <1>6, <2>3 DEF Register, Schedule
    <3> QED BY <3>1, <2>1, <1>o, <1>q, <1>b
  <2> QED BY <2>2, <2>3
<1>7. ASSUME NEW c \in Callers, \/ Put(c) \/ SyncReturns(c) \/ SyncKeeps(c) \/ start_background(c)
             \/ StaleDone(c) \/ ReplaceRun(c) \/ RequestCancel(c) \/ EvictNone(c) \/ close(c)
             \/ Joined(c) \/ Unregister(c) \/ \E s \in Sessions : Evict(c, s)
      PROVE  Here(m)'
  <2>1. UNCHANGED mail /\ call[c].pc \notin {"schedule", "register"}
    BY <1>7 DEF Put, put, SyncReturns, SyncKeeps, start_background, StaleDone, ReplaceRun,
       RequestCancel, EvictNone, close, Joined, Unregister, Evict, mail, At
  <2>2. KeepCarries
    BY <1>7, <2>1, <1>a DEF CallStep
  <2> QED BY <2>1, <2>2, <1>q, <1>b DEF mail
\* The inboxes of the sessions S go with their slots.
<1>i. ASSUME NEW S, inbox' = emptied(S), DOMAIN slots' = DOMAIN slots \ S PROVE KeepBoxes \/ Lost
  <2> SUFFICES ASSUME NEW s \in Sessions, Boxed(s, m), ~Boxed(s, m)' PROVE Lost
    OBVIOUS
  <2>1. s \in S
    BY <1>i DEF Boxed, emptied
  <2>2. s \in DOMAIN slots
    BY <1>t DEF Present
  <2> QED BY <2>1, <2>2, <1>i DEF Boxed
<1>8. ASSUME NEW c \in Callers, CloseDrop(c) PROVE Here(m)' \/ Lost
  <2>1. /\ CallStep(c) /\ call[c].pc = "drop" /\ inbox' = emptied({call[c].target})
        /\ UNCHANGED <<pending, read>> /\ DOMAIN slots' = DOMAIN slots \ {call[c].target}
    BY <1>8 DEF CallStep, CloseDrop, At, erase
  <2> QED BY <2>1, <1>i, <1>a, <1>q, <1>k
<1>9. ASSUME drain_settled_runs PROVE Here(m)' \/ Lost
  <2> DEFINE C == {s \in Settled : runs[slots[s]].close_requested}
  <2>1. DOMAIN slots' = DOMAIN slots \ C /\ inbox' = emptied(C) /\ UNCHANGED <<pending, read, call>>
    BY <1>9 DEF drain_settled_runs
  <2> HIDE DEF C
  <2> QED BY <2>1, <1>i, <1>c, <1>q, <1>k
<1>10. ASSUME \/ \E r \in Runs : RunnerReturns(r) \/ StoreResult(r) \/ StoreFinished(r) \/ SignalDone(r)
              \/ destroy_registry \/ take_unnoticed_finished \/ UNCHANGED vars
       PROVE  Here(m)'
  <2>1. UNCHANGED <<inbox, pending, read, call>>
    BY <1>10 DEF RunnerReturns, StoreResult, StoreFinished, SignalDone, destroy_registry,
       take_unnoticed_finished, vars, mail
  <2> QED BY <2>1, <1>c, <1>q, <1>b
<1>11. Destroyed => phase' = "dead"
  BY DEF Destroyed
<1> HIDE DEF Lost, Here
<1>12. Here(m)' \/ phase' = "dead" \/ Lost
  BY <1>1, <1>2, <1>3, <1>4, <1>5, <1>6, <1>7, <1>8, <1>9, <1>10, <1>11, NextCases
<1> QED BY <1>12 DEF Lost

\* With one tool call at a time a message that waits for an agent is lost only with
\* the inbox of a session that is closed, or with the registry: never by a resume
\* that takes the queue and then fails, by a run that settles or by a full queue.
THEOREM MailLostOnlyWithSessionHolds ==
    ASSUME Serial
    PROVE  Spec => MailLostOnlyWithSession
<1> DEFINE Safe == Guarded /\ MailInv /\ BoxInv
<1>1. Init => Safe
  BY InitGuarded, InitMail
<1>2. Safe /\ [Next]_vars => Safe'
  BY GuardedNext, MailNext, BoxNext DEF Guarded, Owned
<1>c. \A m \in Messages : MailTyped /\ MailAt(m) /\ Copies(m) = 0 => ~Here(m)
  BY CopiesFacts
<1>h. (\A m \in Messages : MailTyped /\ MailAt(m) /\ Copies(m) = 0 => ~Here(m))'
  BY <1>c, PTL
<1>3. Safe /\ Safe' /\ [Next]_vars =>
         [\A m \in Messages : Copies(m) = 1 /\ Copies(m)' = 0 =>
             \/ phase' = "dead"
             \/ \E s \in DOMAIN slots \ DOMAIN slots' : Contains(inbox[s], m)]_vars
  <2> SUFFICES ASSUME Safe, Safe', [Next]_vars, NEW m \in Messages, Copies(m) = 1, Copies(m)' = 0
               PROVE  \/ phase' = "dead"
                      \/ \E s \in DOMAIN slots \ DOMAIN slots' : Contains(inbox[s], m)
    OBVIOUS
  <2>1. Here(m)
    BY CopiesFacts DEF Guarded, Owned, MailInv
  <2>2. MailTyped' /\ MailAt(m)'
    BY DEF Guarded, Owned, MailInv
  <2>4. ~Here(m)'
    BY <2>2, <1>h
  <2> QED BY <2>1, <2>4, MailKept DEF Guarded
<1> HIDE DEF Safe
<1> QED BY <1>1, <1>2, <1>3, PTL DEF Spec, MailLostOnlyWithSession
============================================================================
