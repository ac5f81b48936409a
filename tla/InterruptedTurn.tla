-------------------------- MODULE InterruptedTurn --------------------------
(***************************************************************************)
(* A session's turns against crashes: the tool runtime's stages of a call  *)
(* (core/tools/src/index.js) as the driver's scheduler walks them, the     *)
(* checkpoints that make the log durable before a request and before a     *)
(* tool body (session-checkpoint-policy), the storage batch a crash cuts   *)
(* short, and the repair of the log on the next load (session/src/repair.js*)
(* with prepareCore() and commitPrepared() of coordinator.js).             *)
(*                                                                         *)
(* Calls are numbered in the order of their message; a provider may use    *)
(* the same ids again in a later step.  WriteBehind.tla shows that flush() *)
(* resolves only once all that was appended before is durable, which is    *)
(* what a checkpoint waits for here.                                       *)
(***************************************************************************)
EXTENDS Naturals, Sequences, FiniteSets, SequencesExt

CONSTANTS
  MaxCalls,            \* bound: tool calls of a message
  MaxAsked,            \* bound: tool calls of all messages of the log
  MaxTurns,            \* bound: turns of the log
  MaxSteps,            \* bound: steps of all turns
  MaxCrashes           \* bound: crashes of the process

ASSUME InterruptedAssumption ==
  {MaxCalls, MaxAsked, MaxTurns, MaxSteps, MaxCrashes} \subseteq Nat

VARIABLES
  log,                 \* the session's log; in "down", what a load reads
  durable,             \* the length of it that is stored and acknowledged
  torn,                \* the crash left a frame half written
  mode,                \* "up", "down" or "repairing"
  at,                  \* the driver: "idle", "pre-step", "request", "calls",
                       \* "step-end" or "stepped"
  aborted,             \* the turn's signal
  turn, step,          \* phase.turn and phase.step: 0 before the first
  asked,               \* the calls of the message
  stage,               \* per call: "unstarted", "deciding", "gate",
                       \* "body", "settled" or "committed"
  needs,               \* per call at its gate: the length it waits for
  outcome,             \* per call settled: the code of its result
  ran,                 \* the bodies that were entered, in all processes
  crashes

storage == <<durable, torn>>
driver  == <<at, aborted, turn, step, asked>>
calls   == <<stage, needs, outcome>>
vars    == <<log, storage, mode, driver, calls, ran, crashes>>

Calls == 1 .. MaxCalls

Event(type, t, s, c, code) ==
  [type |-> type, turn |-> t, step |-> s, call |-> c, code |-> code]

-----------------------------------------------------------------------------
(* interruptedTurnClosers(): one pass over the log for the open turn and   *)
(* step and the calls of that step that have no result yet, then the       *)
(* events that close them, in order.                                       *)
NothingOpen == [turn |-> 0, step |-> 0, named |-> {}, within |-> 0, started |-> {}]

MutScanEvent(open, e) ==
  CASE e.type = "turn/start" -> [NothingOpen EXCEPT !.turn = e.turn]
    [] e.type = "turn/end" -> NothingOpen
    [] e.type = "step/start" -> [open EXCEPT !.step = e.step]
    [] e.type = "step/end" -> [open EXCEPT !.step = 0]
    [] e.type = "assistant/message" ->
         [open EXCEPT !.named = @ \cup 1 .. e.call, !.within = e.step, !.started = {}]
    [] e.type = "tool/call" -> [open EXCEPT !.started = @ \cup ({e.call} \cap open.named)]
    [] e.type = "tool/result" -> [open EXCEPT !.named = @ \ {e.call}]

ScanEvent(open, e) ==
  CASE e.type = "turn/start" -> [NothingOpen EXCEPT !.turn = e.turn]
    [] e.type = "turn/end" -> NothingOpen
    [] e.type = "step/start" -> [open EXCEPT !.step = e.step]
    [] e.type = "step/end" -> [NothingOpen EXCEPT !.turn = open.turn]
    [] e.type = "assistant/message" ->
         [open EXCEPT !.named = @ \cup 1 .. e.call, !.within = e.step, !.started = {}]
    [] e.type = "tool/call" -> [open EXCEPT !.started = @ \cup ({e.call} \cap open.named)]
    [] e.type = "tool/result" -> [open EXCEPT !.named = @ \ {e.call}]

Scan(events) ==
  LET opened[i \in 0 .. Len(events)] ==
        IF i = 0 THEN NothingOpen ELSE ScanEvent(opened[i - 1], events[i])
  IN opened[Len(events)]

MutAnswer(open, c) ==
  Event("tool/result", open.turn, open.within, c, "not-started")
Answer(open, c) ==
  Event("tool/result", open.turn, open.within, c,
        IF c \in open.started THEN "outcome-unknown" ELSE "not-started")

InOrder(named) ==
  [i \in 1 .. Cardinality(named) |->
     CHOOSE c \in named : Cardinality({d \in named : d < c}) = i - 1]

ClosersOf(open) ==
  LET pending == InOrder(open.named)
  IN [i \in DOMAIN pending |-> Answer(open, pending[i])]
       \o (IF open.step # 0 THEN <<Event("step/end", open.turn, open.step, 0, "none")>> ELSE <<>>)
       \o <<Event("turn/end", open.turn, 0, 0, "none")>>

Closers(events) ==
  IF Scan(events).turn = 0 THEN <<>> ELSE ClosersOf(Scan(events))

-----------------------------------------------------------------------------
Init ==
  /\ log = <<>> /\ durable = 0 /\ torn = FALSE
  /\ mode = "up" /\ at = "idle" /\ aborted = FALSE
  /\ turn = 0 /\ step = 0 /\ asked = {}
  /\ stage = [c \in Calls |-> "unstarted"]
  /\ needs = [c \in Calls |-> 0]
  /\ outcome = [c \in Calls |-> "none"]
  /\ ran = {} /\ crashes = 0

Steps == Cardinality({i \in DOMAIN log : log[i].type = "step/start"})

Append1(type, s, c, code) ==
  log' = Append(log, Event(type, turn, s, c, code))

(* turn() and step() of the driver (AgentDriver.tla has them in full).     *)
StartTurn ==
  /\ mode = "up" /\ at = "idle" /\ turn < MaxTurns
  /\ log' = Append(log, Event("turn/start", turn + 1, 0, 0, "none"))
  /\ at' = "pre-step" /\ aborted' = FALSE
  /\ turn' = turn + 1 /\ step' = 0
  /\ UNCHANGED <<storage, mode, asked, calls, ran, crashes>>

Abort ==
  /\ mode = "up" /\ at # "idle" /\ ~aborted
  /\ aborted' = TRUE
  /\ UNCHANGED <<log, storage, mode, at, turn, step, asked, calls, ran, crashes>>

(* The checkpoint of agent/pre-step, then step/start. *)
OpenStep ==
  /\ mode = "up" /\ at = "pre-step" /\ ~aborted /\ durable = Len(log)
  /\ Steps < MaxSteps
  /\ Append1("step/start", step + 1, 0, "none")
  /\ at' = "request" /\ step' = step + 1
  /\ UNCHANGED <<storage, mode, aborted, turn, asked, calls, ran, crashes>>

AskedSoFar ==
  FoldLeft(LAMBDA n, e : n + IF e.type = "assistant/message" THEN e.call ELSE 0, 0, log)

(* The checkpoint of llm/stream, then the answer of the model; one cut at  *)
(* max-tokens leaves its calls unanswered.                                 *)
Answered(n) ==
  /\ mode = "up" /\ at = "request" /\ ~aborted /\ durable = Len(log)
  /\ n + AskedSoFar <= MaxAsked
  /\ Append1("assistant/message", step, n, "none")
  /\ asked' = 1 .. n
  /\ at' \in {"calls", "step-end"}
  /\ stage' = [c \in Calls |-> "unstarted"]
  /\ UNCHANGED <<storage, mode, aborted, turn, step, needs, outcome, ran, crashes>>

(* The checkpoint or the request failed, or the turn was aborted. *)
GiveUp ==
  /\ mode = "up" /\ at = "request"
  /\ at' = "step-end"
  /\ UNCHANGED <<log, storage, mode, aborted, turn, step, asked, calls, ran, crashes>>

MutEndStep ==
  /\ mode = "up" /\ at \in {"step-end", "calls"}
  /\ Append1("step/end", step, 0, "none")
  /\ at' = "stepped"
  /\ UNCHANGED <<storage, mode, aborted, turn, step, asked, calls, ran, crashes>>
EndStep ==
  /\ mode = "up"
  /\ \/ at = "step-end"
     \/ at = "calls" /\ \A c \in asked : stage[c] = "committed"
  /\ Append1("step/end", step, 0, "none")
  /\ at' = "stepped"
  /\ UNCHANGED <<storage, mode, aborted, turn, step, asked, calls, ran, crashes>>

(* A pre-step that rejects, fails or finds nothing to do ends the turn. *)
EndTurn ==
  /\ mode = "up"
  /\ \/ /\ at \in {"pre-step", "stepped"}
        /\ Append1("turn/end", 0, 0, "none")
        /\ at' = "idle" /\ aborted' = FALSE /\ step' = 0
     \/ /\ at = "stepped" /\ ~aborted /\ Steps < MaxSteps
        /\ at' = "pre-step"
        /\ UNCHANGED <<log, aborted, step>>
  /\ UNCHANGED <<storage, mode, turn, asked, calls, ran, crashes>>

-----------------------------------------------------------------------------
(* One tool call.  startCall() awaits prepare(), so that one call at most  *)
(* is being decided; bodies overlap.                                       *)
Settles(c, code) ==
  /\ stage' = [stage EXCEPT ![c] = "settled"]
  /\ outcome' = [outcome EXCEPT ![c] = code]
  /\ needs' = [needs EXCEPT ![c] = 0]

Deciding == {c \in asked : stage[c] = "deciding"}

Start(c) ==
  /\ mode = "up" /\ at = "calls" /\ ~aborted
  /\ c \in asked /\ stage[c] = "unstarted"
  /\ \A d \in 1 .. c - 1 : stage[d] # "unstarted"
  /\ Deciding = {}
  /\ Append1("tool/call", step, c, "none")
  /\ stage' = [stage EXCEPT ![c] = "deciding"]
  /\ UNCHANGED <<storage, mode, driver, needs, outcome, ran, crashes>>

(* prepareExecution() once pre-execute, or the approval, has answered: the *)
(* flush of the checkpoint is asked for as the call is dispatched.         *)
Dispatch(c) ==
  /\ stage' = [stage EXCEPT ![c] = "gate"]
  /\ needs' = [needs EXCEPT ![c] = Len(log)]
  /\ UNCHANGED outcome

Allowed(c) ==
  \/ aborted /\ Settles(c, "aborted-before")
  \/ ~aborted /\ Dispatch(c)
  \/ Settles(c, "denied")

Decide(c) ==
  /\ mode = "up" /\ stage[c] = "deciding" /\ at = "calls"
  /\ Allowed(c) \/ Settles(c, "failed")
  /\ UNCHANGED <<log, storage, mode, driver, ran, crashes>>

(* tools/execute: the checkpoint holds the body until the call is durable, *)
(* and looks at the signal again; a flush that rejects fails the call.     *)
MutCheckpointed(c) == TRUE
Checkpointed(c) == durable >= needs[c]

EnterBody(c) ==
  /\ mode = "up" /\ stage[c] = "gate" /\ at = "calls"
  /\ Checkpointed(c)
  /\ \/ /\ aborted
        /\ Settles(c, "aborted-before")
        /\ UNCHANGED ran
     \/ /\ ~aborted
        /\ stage' = [stage EXCEPT ![c] = "body"]
        /\ ran' = ran \cup {<<turn, step, c>>}
        /\ UNCHANGED <<needs, outcome>>
  /\ UNCHANGED <<log, storage, mode, driver, crashes>>

DispatchFails(c) ==
  /\ mode = "up" /\ stage[c] = "gate" /\ at = "calls"
  /\ Settles(c, "failed")
  /\ UNCHANGED <<log, storage, mode, driver, ran, crashes>>

(* cancellationResult() tells a body that ran from one that did not. *)
Cancelled(c) == IF <<turn, step, c>> \in ran THEN "aborted" ELSE "aborted-before"

Leave(c) ==
  /\ mode = "up" /\ stage[c] = "body" /\ at = "calls"
  /\ \/ Settles(c, "failed")
     \/ Settles(c, IF aborted THEN Cancelled(c) ELSE "ok")
  /\ UNCHANGED <<log, storage, mode, driver, ran, crashes>>

(* commitReady(): post-execute may block a result, cancellation rewrites a *)
(* success, and the results enter the log in the order of the calls.       *)
Commit(c) ==
  /\ mode = "up" /\ stage[c] = "settled" /\ at = "calls"
  /\ \A d \in 1 .. c - 1 : stage[d] = "committed"
  /\ \E code \in {"failed", IF aborted /\ outcome[c] = "ok" THEN Cancelled(c) ELSE outcome[c]} :
       Append1("tool/result", step, c, code)
  /\ stage' = [stage EXCEPT ![c] = "committed"]
  /\ UNCHANGED <<storage, mode, driver, needs, outcome, ran, crashes>>

(* appendSkippedToolCall(), once what was started is committed: a call and *)
(* its result in one go.                                                   *)
Skip(c) ==
  /\ mode = "up" /\ at = "calls" /\ aborted
  /\ c \in asked /\ stage[c] = "unstarted"
  /\ \A d \in 1 .. c - 1 : stage[d] = "committed"
  /\ log' = log \o <<Event("tool/call", turn, step, c, "none"),
                     Event("tool/result", turn, step, c, "aborted-before")>>
  /\ stage' = [stage EXCEPT ![c] = "committed"]
  /\ UNCHANGED <<storage, mode, driver, needs, outcome, ran, crashes>>

-----------------------------------------------------------------------------
(* Storage (external): a batch is stored, which is a prefix of what is not *)
(* yet; one that is refused is rolled back and asked for again.            *)
Store ==
  /\ mode = "up"
  /\ durable' \in durable + 1 .. Len(log)
  /\ UNCHANGED <<log, torn, mode, driver, calls, ran, crashes>>

(* A crash leaves the stored log with a part of the batch under way, and   *)
(* perhaps a torn frame behind it.  A repair that fails ends the same way. *)
MutSurvivors == 0 .. Len(log)
Survivors == durable .. Len(log)

Crash ==
  /\ mode \in {"up", "repairing"} /\ crashes < MaxCrashes
  /\ \E n \in Survivors :
       /\ log' = SubSeq(log, 1, n)
       /\ torn' \in {FALSE, n < Len(log)}
  /\ mode' = "down" /\ at' = "idle" /\ aborted' = FALSE
  /\ turn' = 0 /\ step' = 0 /\ asked' = {}
  /\ stage' = [c \in Calls |-> "unstarted"] /\ outcome' = [c \in Calls |-> "none"]
  /\ needs' = [c \in Calls |-> 0]
  /\ crashes' = crashes + 1
  /\ UNCHANGED <<durable, ran>>

(* The agent of a loaded session takes its numbering from the last         *)
(* turn/start of the log.                                                  *)
LastTurn ==
  LET starts == {i \in DOMAIN log : log[i].type = "turn/start"}
  IN IF starts = {} THEN 0 ELSE log[Max(starts)].turn

(* prepareCore() and commitPrepared(): a log that needs nothing is ready;  *)
(* otherwise the closers are written, a torn frame with the events that    *)
(* could be read from it (zstd cuts it at its start, raw after its events),*)
(* and the log is loaded again.                                            *)
Load ==
  /\ mode = "down"
  /\ \/ /\ ~torn /\ Closers(log) = <<>>
        /\ mode' = "up" /\ durable' = Len(log)
        /\ turn' = LastTurn
        /\ UNCHANGED log
     \/ /\ torn \/ Closers(log) # <<>>
        /\ mode' = "repairing"
        /\ durable' \in IF torn THEN {durable, Len(log)} ELSE {Len(log)}
        /\ log' = log \o Closers(log)
        /\ UNCHANGED turn
  /\ torn' = FALSE
  /\ UNCHANGED <<at, aborted, step, asked, calls, ran, crashes>>

Repaired ==
  /\ mode = "repairing"
  /\ durable' = Len(log)
  /\ mode' = "down"
  /\ UNCHANGED <<log, torn, driver, calls, ran, crashes>>

-----------------------------------------------------------------------------
(* validateEvent() of session/src/invariant.js: what an event must name to *)
(* follow the log before it.                                               *)
NewTrace == [turn |-> 0, step |-> 0, nextTurn |-> 1, nextStep |-> 1,
             pending |-> {}, legal |-> TRUE]

Names(trace, e) == trace.turn # 0 /\ trace.step # 0 /\ e.turn = trace.turn /\ e.step = trace.step

Follows(trace, e) ==
  CASE e.type = "turn/start" -> trace.turn = 0 /\ e.turn = trace.nextTurn
    [] e.type = "turn/end" -> trace.turn = e.turn /\ trace.step = 0
    [] e.type = "step/start" -> /\ trace.turn = e.turn /\ trace.step = 0
                                /\ e.step = trace.nextStep
    [] e.type = "tool/result" -> /\ Names(trace, e)
                                 /\ e.call \in trace.pending \/ e.code = "not-started"
    [] OTHER -> Names(trace, e)

TraceEvent(trace, e) ==
  LET next == [trace EXCEPT !.legal = @ /\ Follows(trace, e)]
  IN CASE e.type = "turn/start" -> [next EXCEPT !.turn = e.turn, !.nextStep = 1]
       [] e.type = "turn/end" -> [next EXCEPT !.turn = 0, !.nextTurn = @ + 1]
       [] e.type = "step/start" -> [next EXCEPT !.step = e.step]
       [] e.type = "step/end" -> [next EXCEPT !.step = 0, !.nextStep = @ + 1, !.pending = {}]
       [] e.type = "tool/call" -> [next EXCEPT !.pending = @ \cup {e.call}]
       [] e.type = "tool/result" -> [next EXCEPT !.pending = @ \ {e.call}]
       [] OTHER -> next

Traced(events) ==
  LET trace[i \in 0 .. Len(events)] ==
        IF i = 0 THEN NewTrace ELSE TraceEvent(trace[i - 1], events[i])
  IN trace[Len(events)]

-----------------------------------------------------------------------------
Drive == StartTurn \/ OpenStep \/ GiveUp \/ EndStep \/ EndTurn
         \/ \E n \in 0 .. MaxCalls : Answered(n)

Execute(c) == Start(c) \/ Decide(c) \/ EnterBody(c) \/ DispatchFails(c)
              \/ Leave(c) \/ Commit(c) \/ Skip(c)

Next ==
  \/ Drive \/ Abort \/ \E c \in Calls : Execute(c)
  \/ Store \/ Crash \/ Load \/ Repaired

Spec == Init /\ [][Next]_vars

-----------------------------------------------------------------------------
TypeOK ==
  /\ \A i \in DOMAIN log : log[i].turn \in 0 .. MaxTurns /\ log[i].step \in 0 .. MaxSteps
  /\ durable \in 0 .. Len(log)
  /\ mode \in {"up", "down", "repairing"}
  /\ at \in {"idle", "pre-step", "request", "calls", "step-end", "stepped"}
  /\ turn \in 0 .. MaxTurns /\ step \in 0 .. MaxSteps
  /\ asked \subseteq Calls
  /\ stage \in [Calls -> {"unstarted", "deciding", "gate", "body", "settled",
                          "committed"}]
  /\ ran \subseteq (1 .. MaxTurns) \X (1 .. MaxSteps) \X Calls

(* Wherever a crash cuts the log, and however often its repair is cut in   *)
(* turn, the log stays one that the session's own validator accepts, and a *)
(* session is handed out with every turn closed but the one it is in.      *)
LegalLog ==
  /\ Traced(log).legal
  /\ mode = "up" /\ at = "idle" => Scan(log).turn = 0

Results == {i \in DOMAIN log : log[i].type = "tool/result"}
CallOf(i) == <<log[i].turn, log[i].step, log[i].call>>

(* What a result says of a body is true of every process the session has   *)
(* lived in: a call said not to have started, to have been aborted before  *)
(* dispatch or to have been denied never ran, one said to be aborted did   *)
(* (repair.js "interrupted before the Harness recorded it as started",     *)
(* cancellationResult(), README of session-checkpoint-policy).             *)
HonestAnswers ==
  \A i \in Results :
    /\ log[i].code \in {"not-started", "aborted-before", "denied"} => CallOf(i) \notin ran
    /\ log[i].code \in {"ok", "aborted"} => CallOf(i) \in ran

(* "a top-level tool body runs only after its recorded call is durable"    *)
(* (README of session-checkpoint-policy): the stored log tells every body  *)
(* that was ever entered, across crashes and half-written repairs.         *)
RanIsRecorded ==
  \A r \in ran : \E i \in 1 .. durable : log[i].type = "tool/call" /\ CallOf(i) = r

(* Each call recorded as started is answered once, by its tool, by the     *)
(* scheduler or by repair; none is left open when its turn has ended.      *)
AnsweredOnce ==
  /\ \A i, j \in Results : CallOf(i) = CallOf(j) => i = j
  /\ mode = "up" /\ at = "idle" =>
       \A i \in DOMAIN log : log[i].type = "tool/call" => \E j \in Results : CallOf(j) = CallOf(i)

=============================================================================
