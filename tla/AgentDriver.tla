---------------------------- MODULE AgentDriver ----------------------------
(***************************************************************************)
(* One agent of the default loop: the phase machine, the inbox and the     *)
(* turn driver of packages/core/agent-loop/src/agent.js (ReactLoopAgent)   *)
(* with packages/core/agent/src/inbox.js.                                  *)
(*                                                                         *)
(* JavaScript runs one synchronous section at a time, so an action is the  *)
(* code between two places where other code may run.  pc names the place   *)
(* at which the driver is suspended; there are two sorts of place:         *)
(*   Interleavable  an await, a microtask hop between an async function    *)
(*                  and its caller, or listeners of a live event: any call *)
(*                  on the agent may come in;                              *)
(*   Publishing     observers of a session append run inside append(),     *)
(*                  where another append throws: only a cancel() that has  *)
(*                  nothing to clear gets through.                         *)
(* The model service, the prompt assembler, hooks and tools are external:  *)
(* each await may resolve either way.                                      *)
(***************************************************************************)
EXTENDS Naturals, Sequences, SequencesExt

CONSTANTS
  Msgs,                \* the messages that may be sent, each at most once
  LastTurn,            \* number of the last turn of the restored log, or 0
  MaxSteps,            \* bound: no tool calls are requested from this step on
  MaxCalls             \* bound: tool calls of one assistant message

ASSUME AgentAssumption ==
  /\ LastTurn \in Nat
  /\ MaxSteps \in Nat
  /\ MaxCalls \in Nat

VARIABLES
  kind,                \* phase.kind: "idle", "running" or "maintenance"
  cause,               \* reason of phase.abort.signal, "none" while not aborted
  wakeRequested,       \* phase.wakeRequested, the latch
  turn,                \* phase.turn / phase.lastTurn
  step,                \* phase.step
  nextTurn, nextStep,  \* the inbox's two pending lists
  pc,                  \* where the driver is suspended
  decision,            \* result of the pre-step waterfall
  claimed,             \* messages claimed for the step being prepared
  turnEnds,            \* local of turn(): why the turn ends, "none" for null
  stepEnd,             \* what the last step() returned, "none" for null
  thrown,              \* step() left by an exception
  replay,              \* kick's copy of wakeRequested while listeners run
  calls, started, committed, concluded,  \* the tool round of the open step
  event,               \* the last event of the session log
  closedSteps,         \* step/end events of the last turn in the log
  sent,                \* history: messages handed to send()
  owed,                \* history: messages whose wake must still be served
  disposed,            \* history: the activity got a "disposed" cancel
  truncated            \* history: a step of this turn ended max-tokens

phase   == <<kind, cause, wakeRequested, turn, step>>
inbox   == <<nextTurn, nextStep>>
frame   == <<decision, claimed, turnEnds, stepEnd, thrown, replay>>
round   == <<calls, started, committed, concluded>>
log     == <<event, closedSteps>>
history == <<sent, owed, disposed, truncated>>
vars    == <<phase, inbox, pc, frame, round, log, history>>

Causes == {"user", "disposed"}

Interleavable ==
  {"rest", "waking", "assembling", "preStepping", "decided", "requesting",
   "streaming", "recovering", "tools", "stepReturned", "stopping", "failing",
   "erring", "continuing", "exiting", "settling"}

Publishing == {"turnOpened", "stepOpened", "skipping", "stepClosed", "turnClosed"}

Aborted == cause # "none"

Pending == ToSet(nextTurn) \cup ToSet(nextStep)

Event(type, t, s) == [type |-> type, turn |-> t, step |-> s]
EventTypes ==
  {"session/end-seed", "turn/start", "turn/end", "step/start", "step/end",
   "request/header", "assistant/chunk", "assistant/message", "tool/call", "tool/result"}
Events == [type : EventTypes, turn : Nat, step : Nat]

Init ==
  /\ kind = "idle" /\ cause = "none" /\ wakeRequested = FALSE
  /\ turn = LastTurn /\ step = 0
  /\ nextStep = <<>>
  /\ nextTurn \in {<<>>} \cup {<<m>> : m \in Msgs}   \* restored from the log
  /\ pc = "rest"
  /\ decision = "none" /\ claimed = <<>> /\ turnEnds = "none" /\ stepEnd = "none"
  /\ thrown = FALSE /\ replay = FALSE
  /\ calls = 0 /\ started = 0 /\ committed = 0 /\ concluded = FALSE
  /\ event = Event("session/end-seed", 0, 0) /\ closedSteps = 0
  /\ sent = ToSet(nextTurn) /\ owed = {} /\ disposed = FALSE /\ truncated = FALSE

-----------------------------------------------------------------------------
(***************************************************************************)
(* Calls on the agent.                                                     *)
(***************************************************************************)

(* A new activity, or the driver's next turn: fresh AbortController, no    *)
(* latch, step 0.                                                          *)
MutRenewKeepsStep == cause' = "none" /\ wakeRequested' = FALSE /\ step' = step
Renew == cause' = "none" /\ wakeRequested' = FALSE /\ step' = 0

(* wakeDriver() on an idle phase: the status event is published before     *)
(* kick() runs, so the driver waits at "waking" for its listeners.         *)
StartDriver ==
  /\ kind' = "running"
  /\ Renew
  /\ pc' = "waking"
  /\ replay' = FALSE
  /\ UNCHANGED turn

Insert(m, target) ==
  /\ m \notin sent
  /\ sent' = sent \cup {m}
  /\ \/ /\ target = "next-turn"
        /\ nextTurn' = Append(nextTurn, m)
        /\ UNCHANGED nextStep
     \/ /\ target = "next-step"
        /\ nextStep' = Append(nextStep, m)
        /\ UNCHANGED nextTurn

Targets == {"next-turn", "next-step"}

(* send(m, target, false): inject() and quiet queueing. *)
SendQuietly(m, target) ==
  /\ pc \in Interleavable
  /\ Insert(m, target)
  /\ UNCHANGED <<phase, pc, frame, round, log, owed, disposed, truncated>>

(* send(m, target, true) while idle: followup() or steer() opens a turn.   *)
SendIdle(m, target) ==
  /\ pc \in {"rest", "settling"} /\ kind = "idle"
  /\ Insert(m, target)
  /\ StartDriver
  /\ owed' = owed \cup {m}
  /\ disposed' = FALSE
  /\ UNCHANGED <<decision, claimed, turnEnds, stepEnd, thrown>>
  /\ UNCHANGED <<round, log, truncated>>

(* wakeDriver() on a busy phase: maintenance and an aborted driver latch   *)
(* the wake unless they were disposed; a live driver needs no latch.       *)
MutLatchMaintenanceOnly(afterAbort) ==
  wakeRequested \/ (cause # "disposed" /\ kind = "maintenance")
Latch(afterAbort) ==
  wakeRequested \/ (cause # "disposed" /\ (kind = "maintenance" \/ afterAbort))

(* send(m, target, true) while an activity runs.  After an abort the       *)
(* message goes to the next turn.  The wake is owed a turn except after a  *)
(* disposed cancel and in the gap between a live driver's last look at the *)
(* inbox and its exit, the two exclusions the sources state.               *)
SendBusy(m, target) ==
  /\ pc \in Interleavable /\ kind # "idle"
  /\ Insert(m, IF Aborted THEN "next-turn" ELSE target)
  /\ wakeRequested' = Latch(Aborted)
  /\ owed' = IF cause = "disposed" \/ (pc = "exiting" /\ ~Aborted)
             THEN owed
             ELSE owed \cup {m}
  /\ UNCHANGED <<kind, cause, turn, step, pc, frame, round, log, disposed, truncated>>

(* cancel(c, {keepInbox}): the first cause of an activity wins.  Aborting  *)
(* a live driver parks what was queued before (the keepInbox contract).    *)
Cancel(c, keepInbox) ==
  /\ pc \in Interleavable \/ (pc \in Publishing /\ (keepInbox \/ Pending = {}))
  /\ c = "disposed" => ~keepInbox
  /\ nextTurn' = IF keepInbox THEN nextTurn ELSE <<>>
  /\ nextStep' = IF keepInbox THEN nextStep ELSE <<>>
  /\ wakeRequested' = (wakeRequested /\ keepInbox)
  /\ cause' = IF kind # "idle" /\ ~Aborted THEN c ELSE cause
  /\ owed' = IF keepInbox /\ (Aborted \/ kind # "running") THEN owed ELSE {}
  /\ disposed' = (disposed \/ (c = "disposed" /\ kind # "idle"))
  /\ UNCHANGED <<kind, turn, step, pc, frame, round, log, sent, truncated>>

(* inbox.remove(id): a queued message is withdrawn. *)
Withdraw(m) ==
  /\ pc \in Interleavable
  /\ \/ \E i \in DOMAIN nextTurn :
          /\ nextTurn[i] = m
          /\ nextTurn' = RemoveAt(nextTurn, i)
          /\ UNCHANGED nextStep
     \/ \E i \in DOMAIN nextStep :
          /\ nextStep[i] = m
          /\ nextStep' = RemoveAt(nextStep, i)
          /\ UNCHANGED nextTurn
  /\ owed' = owed \ {m}
  /\ UNCHANGED <<phase, pc, frame, round, log, sent, disposed, truncated>>

(* runMaintenance(job): only from the true idle phase; no status event. *)
RunMaintenance ==
  /\ pc \in {"rest", "settling"} /\ kind = "idle"
  /\ kind' = "maintenance" /\ cause' = "none" /\ wakeRequested' = FALSE
  /\ UNCHANGED <<turn, step, inbox, pc, frame, round, log, history>>

(* The job settled: back to idle, then replay the latch. *)
EndMaintenance ==
  /\ pc = "rest" /\ kind = "maintenance"
  /\ \/ /\ wakeRequested /\ Pending # {}
        /\ StartDriver
        /\ UNCHANGED disposed
     \/ /\ ~(wakeRequested /\ Pending # {})
        /\ kind' = "idle" /\ cause' = "none" /\ wakeRequested' = FALSE
        /\ disposed' = FALSE
        /\ UNCHANGED <<turn, step, pc, replay>>
  /\ UNCHANGED <<inbox, decision, claimed, turnEnds, stepEnd, thrown>>
  /\ UNCHANGED <<round, log, sent, owed, truncated>>

-----------------------------------------------------------------------------
(***************************************************************************)
(* The driver: kick() around turn() around preStep() and step().           *)
(***************************************************************************)

(* turn() up to its first append. *)
BeginTurn ==
  /\ pc \in {"waking", "continuing"}
  /\ \/ /\ Aborted
        /\ pc' = "exiting"
        /\ UNCHANGED <<turn, turnEnds, log, truncated>>
     \/ /\ ~Aborted
        /\ turn' = turn + 1
        /\ event' = Event("turn/start", turn + 1, 0)
        /\ closedSteps' = 0
        /\ turnEnds' = "none"
        /\ truncated' = FALSE
        /\ pc' = "turnOpened"
  /\ UNCHANGED <<kind, cause, wakeRequested, step, inbox, round>>
  /\ UNCHANGED <<decision, claimed, stepEnd, thrown, replay, sent, owed, disposed>>

(* Seeded fault: the claimed next-turn message stays queued. *)
MutClaimKeepsHead(target) ==
  /\ claimed' = nextStep \o (IF target = "next-turn" /\ nextTurn # <<>>
                             THEN <<Head(nextTurn)>> ELSE <<>>)
  /\ nextStep' = <<>>
  /\ UNCHANGED nextTurn
  /\ owed' = owed \ ToSet(claimed')
  /\ pc' = "assembling"

(* inbox.claim(target): every next-step message, and at a turn's first     *)
(* step the oldest next-turn message; then assemble() is awaited.          *)
Claim(target) ==
  /\ LET first == IF target = "next-turn" /\ nextTurn # <<>>
                  THEN <<Head(nextTurn)>> ELSE <<>>
     IN /\ claimed' = nextStep \o first
        /\ nextTurn' = IF first = <<>> THEN nextTurn ELSE Tail(nextTurn)
  /\ nextStep' = <<>>
  /\ owed' = owed \ ToSet(claimed')
  /\ pc' = "assembling"

(* turn()'s finally: the turn is closed with its reason. *)
CloseTurn(reason) ==
  /\ turnEnds' = reason
  /\ event' = Event("turn/end", turn, 0)
  /\ pc' = "turnClosed"

(* turn()'s catch: an abort closes the turn at once, any other exception   *)
(* is published as agent/error first, whose listeners may call the agent.  *)
CatchInTurn ==
  \/ /\ Aborted
     /\ CloseTurn("aborted")
  \/ /\ ~Aborted
     /\ turnEnds' = "error"
     /\ pc' = "erring"
     /\ UNCHANGED event

OpenLoop ==
  /\ pc = "turnOpened"
  /\ \/ /\ Aborted
        /\ CloseTurn("aborted")
        /\ UNCHANGED <<inbox, claimed, owed>>
     \/ /\ ~Aborted
        /\ Claim("next-turn")
        /\ UNCHANGED <<turnEnds, event>>
  /\ UNCHANGED <<phase, decision, stepEnd, thrown, replay, round, closedSteps>>
  /\ UNCHANGED <<sent, disposed, truncated>>

(* preStep() continues: assembled, then the agent/pre-step waterfall.      *)
(* Either await may reject; an abort is noticed after each.                *)
Assembled ==
  /\ pc = "assembling"
  /\ \/ ~Aborted /\ pc' = "preStepping"
     \/ pc' = "failing"
  /\ UNCHANGED <<phase, inbox, frame, round, log, history>>

(* A pre-step listener that lost its reservation puts the other claimed    *)
(* messages back at the front of the next-step list and rejects the step   *)
(* (goal-round-driver's restoreOtherClaimed).                              *)
RestoreClaimed ==
  /\ pc = "preStepping"
  /\ \E i \in DOMAIN claimed : nextStep' = RemoveAt(claimed, i) \o nextStep
  /\ claimed' = <<>>
  /\ \/ ~Aborted /\ decision' = "reject" /\ pc' = "decided"
     \/ Aborted /\ UNCHANGED decision /\ pc' = "failing"
  /\ UNCHANGED <<phase, nextTurn, turnEnds, stepEnd, thrown, replay>>
  /\ UNCHANGED <<round, log, history>>

PreStepped ==
  /\ pc = "preStepping"
  /\ \/ /\ ~Aborted
        /\ decision' \in {"reject", "empty", "enter"}
        /\ pc' = "decided"
     \/ /\ pc' = "failing"
        /\ UNCHANGED decision
  /\ UNCHANGED <<phase, inbox, claimed, turnEnds, stepEnd, thrown, replay>>
  /\ UNCHANGED <<round, log, history>>

PreStepFailed ==
  /\ pc = "failing"
  /\ CatchInTurn
  /\ claimed' = <<>>
  /\ UNCHANGED <<phase, inbox, decision, stepEnd, thrown, replay, round, closedSteps>>
  /\ UNCHANGED history

(* agent/error listeners returned; the turn still gets its end. *)
ErrorPublished ==
  /\ pc = "erring"
  /\ CloseTurn("error")
  /\ UNCHANGED <<phase, inbox, decision, claimed, stepEnd, thrown, replay>>
  /\ UNCHANGED <<round, closedSteps, history>>

(* turn() acts on the decision. *)
Decided ==
  /\ pc = "decided"
  /\ \/ /\ decision = "reject"
        /\ CloseTurn("blocked")
        /\ UNCHANGED step
     \/ /\ decision = "empty" /\ turnEnds # "none"
        /\ CloseTurn(turnEnds)
        /\ UNCHANGED step
     \/ /\ decision = "empty" /\ turnEnds = "none" /\ step = 0
        /\ CloseTurn("completed")
        /\ UNCHANGED step
     \/ /\ decision = "enter" \/ (decision = "empty" /\ turnEnds = "none" /\ step # 0)
        /\ Aborted
        /\ CloseTurn("aborted")
        /\ UNCHANGED step
     \/ /\ decision = "enter" \/ (decision = "empty" /\ turnEnds = "none" /\ step # 0)
        /\ ~Aborted
        /\ step' = step + 1
        /\ event' = Event("step/start", turn, step + 1)
        /\ pc' = "stepOpened"
        /\ UNCHANGED turnEnds
  /\ decision' = "none"
  /\ claimed' = <<>>
  /\ UNCHANGED <<kind, cause, wakeRequested, turn, inbox, stepEnd, thrown, replay>>
  /\ UNCHANGED <<round, closedSteps, history>>

-----------------------------------------------------------------------------
(***************************************************************************)
(* step(): one request to the model and the tools it calls.                *)
(***************************************************************************)

LeaveStep(result, failed) ==
  /\ stepEnd' = result
  /\ thrown' = failed
  /\ pc' = "stepReturned"

ThrowInStep == LeaveStep(stepEnd, TRUE)

(* The entered messages are appended (no rule of the log concerns them),   *)
(* then step() starts with an abort check.                                 *)
EnterStep ==
  /\ pc = "stepOpened"
  /\ \/ Aborted /\ ThrowInStep
     \/ ~Aborted /\ pc' = "requesting" /\ UNCHANGED <<stepEnd, thrown>>
  /\ UNCHANGED <<phase, inbox, decision, claimed, turnEnds, replay, round, log, history>>

(* buildRequest(): two awaits, the header and context records, and the     *)
(* abort checks after each.                                                *)
RequestBuilt ==
  /\ pc = "requesting"
  /\ \/ ThrowInStep /\ UNCHANGED event
     \/ /\ ~Aborted
        /\ event' \in {event, Event("request/header", 0, 0)}
        /\ pc' = "streaming"
        /\ UNCHANGED <<stepEnd, thrown>>
  /\ UNCHANGED <<phase, inbox, decision, claimed, turnEnds, replay, round>>
  /\ UNCHANGED <<closedSteps, history>>

Chunk ==
  /\ pc = "streaming"
  /\ ~Aborted
  /\ event' = Event("assistant/chunk", turn, step)
  /\ UNCHANGED <<phase, inbox, pc, frame, round, closedSteps, history>>

(* The stream fails, or an abort is noticed at its next chunk or its end;  *)
(* an aborted stream may leave its partial answer as an interrupted        *)
(* assistant/message.                                                      *)
StreamThrows ==
  /\ pc = "streaming"
  /\ ThrowInStep
  /\ event' \in {event} \cup {e \in {Event("assistant/message", turn, step)} : Aborted}
  /\ UNCHANGED <<phase, inbox, decision, claimed, turnEnds, replay, round>>
  /\ UNCHANGED <<closedSteps, history>>

(* The stream finished with kind error or aborted: agent/request-error.    *)
StreamRefused ==
  /\ pc = "streaming"
  /\ ~Aborted
  /\ pc' = "recovering"
  /\ UNCHANGED <<phase, inbox, frame, round, log, history>>

Recovered ==
  /\ pc = "recovering"
  /\ \/ ThrowInStep
     \/ ~Aborted /\ pc' = "requesting" /\ UNCHANGED <<stepEnd, thrown>>
  /\ UNCHANGED <<phase, inbox, decision, claimed, turnEnds, replay, round, log, history>>

(* The assistant/message is appended and read for its finish and calls. *)
StreamFinished ==
  /\ pc = "streaming"
  /\ ~Aborted
  /\ event' = Event("assistant/message", turn, step)
  /\ \/ /\ LeaveStep("max-tokens", FALSE)
        /\ truncated' = TRUE
        /\ UNCHANGED calls
     \/ /\ LeaveStep("completed", FALSE)
        /\ UNCHANGED <<calls, truncated>>
     \/ /\ step < MaxSteps
        /\ calls' \in 1 .. MaxCalls
        /\ pc' = "tools"
        /\ UNCHANGED <<stepEnd, thrown, truncated>>
  /\ UNCHANGED <<phase, inbox, decision, claimed, turnEnds, replay, closedSteps>>
  /\ UNCHANGED <<started, committed, concluded, sent, owed, disposed>>

(* executeToolCalls(): calls start in order unless aborted, results are    *)
(* committed in order and may add context to the next step or conclude the *)
(* turn.  How many run at a time is the pool's business.                   *)
MutDispatchOneTooMany == ~Aborted /\ started <= calls
MutDispatchAfterAbort == started < calls
CanDispatch == ~Aborted /\ started < calls

StartCall ==
  /\ pc = "tools"
  /\ CanDispatch
  /\ started' = started + 1
  /\ event' = Event("tool/call", turn, step)
  /\ UNCHANGED <<phase, inbox, pc, frame, calls, committed, concluded, closedSteps>>
  /\ UNCHANGED history

CommitCall ==
  /\ pc = "tools"
  /\ committed < started
  /\ committed' = committed + 1
  /\ event' = Event("tool/result", turn, step)
  /\ concluded' \in {concluded, TRUE}
  /\ \/ UNCHANGED <<inbox, sent>>
     \/ \E m \in Msgs : Insert(m, "next-step")
  /\ UNCHANGED <<phase, pc, frame, calls, started, closedSteps, owed, disposed, truncated>>

(* After an abort the calls that never started are recorded with an error  *)
(* result each, once those that did are committed; nothing but observers   *)
(* of the appends runs until the last one is.                              *)
MutSkipBeforeCommits == Aborted /\ started < calls
MutSkipNeedsAStart ==
  Aborted /\ committed = started /\ started < calls /\ started # 0
CanSkip == Aborted /\ committed = started /\ started < calls

SkipCall ==
  /\ pc \in {"tools", "skipping"}
  /\ CanSkip
  /\ started' = started + 1
  /\ event' = Event("tool/call", turn, step)
  /\ pc' = "skipping"
  /\ UNCHANGED <<phase, inbox, frame, calls, committed, concluded, closedSteps, history>>

SkipResult ==
  /\ pc = "skipping"
  /\ committed < started
  /\ committed' = committed + 1
  /\ event' = Event("tool/result", turn, step)
  /\ pc' = IF started = calls THEN "tools" ELSE "skipping"
  /\ UNCHANGED <<phase, inbox, frame, calls, started, concluded, closedSteps, history>>

ToolsDone ==
  /\ pc = "tools"
  /\ committed = calls
  /\ LeaveStep(IF concluded THEN "completed" ELSE "none", FALSE)
  /\ UNCHANGED <<phase, inbox, decision, claimed, turnEnds, replay, round, log, history>>

(* The scheduler failed: calls may be left without a result. *)
ToolsThrow ==
  /\ pc = "tools"
  /\ ThrowInStep
  /\ UNCHANGED <<phase, inbox, decision, claimed, turnEnds, replay, round, log, history>>

(* What a step makes of the turn: max-tokens sticks. *)
MutFirstEndSticks == IF thrown \/ turnEnds # "none" THEN turnEnds ELSE stepEnd
MutNoEndSticks == IF thrown THEN turnEnds ELSE stepEnd
TurnEndsAfterStep ==
  IF thrown \/ turnEnds = "max-tokens" THEN turnEnds ELSE stepEnd

(* turn()'s inner finally. *)
EndStep ==
  /\ pc = "stepReturned"
  /\ turnEnds' = TurnEndsAfterStep
  /\ event' = Event("step/end", turn, step)
  /\ closedSteps' = closedSteps + 1
  /\ calls' = 0 /\ started' = 0 /\ committed' = 0 /\ concluded' = FALSE
  /\ pc' = "stepClosed"
  /\ UNCHANGED <<phase, inbox, decision, claimed, stepEnd, thrown, replay, history>>

(* After step/end: the exception or an abort leaves the loop, a turn that  *)
(* may end is checked with its agent/turn-stopping listeners, otherwise    *)
(* the next step claims.                                                   *)
StepDone ==
  /\ pc = "stepClosed"
  /\ thrown' = FALSE
  /\ \/ /\ thrown
        /\ CatchInTurn
        /\ UNCHANGED <<inbox, claimed, owed>>
     \/ /\ ~thrown /\ Aborted
        /\ CloseTurn("aborted")
        /\ UNCHANGED <<inbox, claimed, owed>>
     \/ /\ ~thrown /\ ~Aborted
        /\ turnEnds # "none" /\ nextStep = <<>>
        /\ pc' = "stopping"
        /\ UNCHANGED <<inbox, claimed, owed, turnEnds, event>>
     \/ /\ ~thrown /\ ~Aborted
        /\ turnEnds = "none" \/ nextStep # <<>>
        /\ Claim("next-step")
        /\ UNCHANGED <<turnEnds, event>>
  /\ UNCHANGED <<phase, decision, stepEnd, replay, round, closedSteps>>
  /\ UNCHANGED <<sent, disposed, truncated>>

Stopped ==
  /\ pc = "stopping"
  /\ \/ /\ CatchInTurn               \* a listener threw, or an abort is noticed
        /\ UNCHANGED <<inbox, claimed, owed>>
     \/ /\ ~Aborted /\ nextStep = <<>>
        /\ CloseTurn(turnEnds)
        /\ UNCHANGED <<inbox, claimed, owed>>
     \/ /\ ~Aborted /\ nextStep # <<>>
        /\ Claim("next-step")
        /\ UNCHANGED <<turnEnds, event>>
  /\ UNCHANGED <<phase, decision, stepEnd, thrown, replay, round, closedSteps>>
  /\ UNCHANGED <<sent, disposed, truncated>>

-----------------------------------------------------------------------------
(* Only the loop's own end falls through to the inbox check; a rejected,   *)
(* empty, aborted or failed turn leaves turn() by return or throw.         *)
ChecksInbox == turnEnds \in {"completed", "max-tokens"} /\ step # 0

(* turn() after turn/end.  Work that a live driver leaves behind when it   *)
(* does not check the inbox is parked until the next wake.                 *)
LeaveTurn ==
  /\ pc = "turnClosed"
  /\ \/ /\ ChecksInbox /\ Pending # {}
        /\ Renew
        /\ pc' = "continuing"
        /\ UNCHANGED owed
     \/ /\ ~(ChecksInbox /\ Pending # {})
        /\ pc' = "exiting"
        /\ owed' = IF Aborted THEN owed ELSE {}
        /\ UNCHANGED <<cause, wakeRequested, step>>
  /\ turnEnds' = "none"
  /\ stepEnd' = "none"
  /\ UNCHANGED <<kind, turn, inbox, decision, claimed, thrown, replay, round, log>>
  /\ UNCHANGED <<sent, disposed, truncated>>

(* kick()'s finally: idle is published ... *)
Settle ==
  /\ pc = "exiting"
  /\ kind' = "idle"
  /\ Renew
  /\ replay' = wakeRequested
  /\ pc' = "settling"
  /\ UNCHANGED <<turn, inbox, decision, claimed, turnEnds, stepEnd, thrown>>
  /\ UNCHANGED <<round, log, history>>

(* ... and, its listeners done, a latched wake is replayed through         *)
(* wakeDriver(), which latches again when a listener began maintenance.    *)
MutReplayLooksAtSteering == replay /\ nextStep # <<>>
ReplayDue == replay /\ Pending # {}

Replay ==
  /\ pc = "settling"
  /\ \/ /\ ReplayDue /\ kind = "idle"
        /\ StartDriver
        /\ UNCHANGED disposed
     \/ /\ ReplayDue /\ kind = "maintenance"
        /\ wakeRequested' = Latch(FALSE)
        /\ pc' = "rest" /\ replay' = FALSE
        /\ UNCHANGED <<kind, cause, turn, step, disposed>>
     \/ /\ ~ReplayDue
        /\ pc' = "rest" /\ replay' = FALSE
        /\ disposed' = (disposed /\ kind # "idle")
        /\ UNCHANGED phase
  /\ UNCHANGED <<inbox, decision, claimed, turnEnds, stepEnd, thrown>>
  /\ UNCHANGED <<round, log, sent, owed, truncated>>

-----------------------------------------------------------------------------
Call ==
  \/ \E m \in Msgs, target \in Targets :
       SendQuietly(m, target) \/ SendIdle(m, target) \/ SendBusy(m, target)
  \/ \E c \in Causes, keepInbox \in BOOLEAN : Cancel(c, keepInbox)
  \/ \E m \in Msgs : Withdraw(m)
  \/ RunMaintenance

Drive ==
  \/ BeginTurn \/ OpenLoop \/ Assembled \/ PreStepped \/ PreStepFailed
  \/ ErrorPublished \/ Decided \/ EnterStep \/ RequestBuilt \/ Chunk
  \/ StreamThrows \/ StreamRefused \/ Recovered \/ StreamFinished
  \/ StartCall \/ CommitCall \/ SkipCall \/ SkipResult \/ ToolsDone
  \/ EndStep \/ StepDone \/ Stopped \/ LeaveTurn \/ Settle \/ Replay
  \/ EndMaintenance

Next == Call \/ Drive \/ RestoreClaimed \/ ToolsThrow

Spec == Init /\ [][Next]_vars

(* Every await the driver is suspended at settles, as the contract of      *)
(* hooks, model calls and tools demands once the signal is aborted, and a  *)
(* maintenance job returns.  Calls on the agent need not happen, and the   *)
(* tool scheduler need not fail.                                           *)
FairSpec == Spec /\ WF_vars(Drive)

-----------------------------------------------------------------------------
(***************************************************************************)
(* What the driver promises.                                               *)
(***************************************************************************)

TypeFlags ==
  /\ wakeRequested \in BOOLEAN
  /\ thrown \in BOOLEAN /\ replay \in BOOLEAN /\ concluded \in BOOLEAN
  /\ disposed \in BOOLEAN /\ truncated \in BOOLEAN

TypeData ==
  /\ kind \in {"idle", "running", "maintenance"}
  /\ cause \in Causes \cup {"none"}
  /\ turn \in Nat /\ step \in Nat
  /\ nextTurn \in Seq(Msgs) /\ nextStep \in Seq(Msgs)
  /\ pc \in Interleavable \cup Publishing
  /\ decision \in {"none", "reject", "empty", "enter"}
  /\ claimed \in Seq(Msgs)
  /\ turnEnds \in {"none", "completed", "max-tokens", "blocked", "aborted", "error"}
  /\ stepEnd \in {"none", "completed", "max-tokens"}
  /\ calls \in Nat /\ started \in Nat /\ committed \in Nat
  /\ committed <= started /\ started <= calls
  /\ pc \notin {"tools", "skipping", "stepReturned"} => calls = 0
  /\ event \in Events
  /\ closedSteps \in Nat
  /\ sent \in SUBSET Msgs /\ owed \in SUBSET Msgs

TypeOK == TypeFlags /\ TypeData

(* An agent at rest owes no wake: a waking message accepted while idle, in *)
(* maintenance, by a live driver or after an abort has been claimed or     *)
(* withdrawn, unless the turn it arrived in was rejected, failed, was      *)
(* cancelled or closed empty (send, wakeDriver, kick and their latch).     *)
NoLostWake == pc = "rest" /\ kind = "idle" => owed = {}

(* A message is in one place: once in one pending list, or claimed         *)
(* (inbox.validate() throws on a duplicate, a claim removes what it        *)
(* returns).                                                               *)
OnePlace == IsInjective(claimed \o nextStep \o nextTurn)

(* Once the signal is aborted the activity begins nothing: no turn, step,  *)
(* request or chunk is recorded and no tool is dispatched (the checks      *)
(* after every await in turn(), preStep(), step() and runGroup()).         *)
AbortStopsWork ==
  [][Aborted /\ Aborted' =>
       /\ event' # event => event'.type \notin {"turn/start", "step/start",
                                                "request/header", "assistant/chunk"}
       /\ started' > started => pc' = "skipping"]_vars

(* A turn reported completed has answered its tools: the last step's       *)
(* results were fed back to the model or concluded the turn.               *)
CompletedIsAnswered ==
  [][pc' = "turnClosed" /\ turnEnds' = "completed" /\ step # 0
       => stepEnd # "none"]_vars

(* "any max-tokens step in a turn makes the whole turn end max-tokens      *)
(* rather than completed" (docs/subsystems/session.md:577).                *)
TruncationWins ==
  [][pc' = "turnClosed" /\ turnEnds' = "completed" => ~truncated]_vars

(* Every append is legal in the log's grammar.                             *)
TurnOpen == pc \notin {"rest", "waking", "turnClosed", "continuing", "exiting", "settling"}

StepOpen == pc \in {"stepOpened", "requesting", "streaming", "recovering",
                    "tools", "skipping", "stepReturned"}

Trace == INSTANCE SessionTrace WITH
  openTurn <- IF TurnOpen THEN turn ELSE 0,
  openStep <- IF StepOpen THEN step ELSE 0,
  nextTurn <- IF TurnOpen THEN turn ELSE turn + 1,
  nextStep <- closedSteps + 1,
  pendingCalls <- (committed + 1) .. started

TraceSpec == Trace!Spec

(* The tool calls of each step are a ToolRound, as ToolPool schedules it.  *)
InTools == pc \in {"tools", "skipping"}

Round == INSTANCE ToolRound WITH
  state <- CASE pc = "skipping" /\ committed # started -> "skipping"
             [] InTools /\ ~(pc = "skipping" /\ committed # started) -> "open"
             [] pc = "stepReturned" /\ thrown /\ calls # 0 -> "failed"
             [] OTHER -> "closed",
  calls <- IF InTools THEN calls ELSE 0,
  started <- IF InTools THEN started ELSE 0,
  committed <- IF InTools THEN committed ELSE 0,
  aborted <- Aborted

RoundSpec == Round!Spec

(* An aborted driver converges (cancel() followed by whenIdle()).          *)
AbortConverges == (kind = "running" /\ Aborted) ~> ~(kind = "running" /\ Aborted)

(* A latched wake opens a new turn once the aborted driver or the          *)
(* maintenance job is over, unless its messages are withdrawn.             *)
LatchServed ==
  (wakeRequested /\ Pending # {}) ~> ((kind = "running" /\ ~Aborted) \/ Pending = {})

-----------------------------------------------------------------------------
(* Claims of the sources that the code does not keep (see the README).     *)

(* "a disposed cancel never latches, so a wake landing after disposal      *)
(* begins stays parked" (note 2026-08-07-cancel-convergence-wake-latch).   *)
DisposedParks == [][pc' = "waking" /\ pc # "waking" => ~disposed']_vars

(* "A turn ... closes once nothing is owed" and "tools owe another         *)
(* request" (docs/architecture.md:63 and 77).                              *)
ClosesWhenNothingOwed ==
  [][pc' = "turnClosed" /\ turnEnds' \in {"completed", "max-tokens"} /\ step # 0
       => stepEnd # "none"]_vars

(* "a live driver needs no latch because it claims queued work itself"     *)
(* (the same note): a turn that completed leaves no waking message behind  *)
(* that was sent to it.  A claim takes the whole next-step list, so that   *)
(* one that is there came while the driver was live, after the claim.      *)
LiveDriverClaims ==
  [][pc = "turnClosed" /\ pc' = "exiting" /\ ~Aborted /\ turnEnds = "completed"
       => owed \cap ToSet(nextStep) = {}]_vars
=============================================================================
