---------------------------- MODULE SessionTrace ----------------------------
(***************************************************************************)
(* The grammar of a session's event log, as the executable companion       *)
(* packages/core/session/src/invariant.js states it: turns open and close  *)
(* one at a time and are numbered consecutively, steps likewise inside     *)
(* their turn, model and tool events name the open turn and step, a tool   *)
(* result answers a call of the same step, and request records are         *)
(* enclosed by a turn.  One action per rule; an event that breaks its rule *)
(* has no action.  AgentDriver is shown to append only such logs.          *)
(*                                                                         *)
(* The number 0 stands for the source's null turn and step (numbers      *)
(* start at 1).                                                            *)
(***************************************************************************)
EXTENDS Naturals

CONSTANT LastTurn      \* the last turn number of the restored log, 0 when new

VARIABLES
  openTurn,            \* the turn that is open, or 0
  openStep,            \* the step that is open, or 0
  nextTurn,            \* the number the next turn/start must carry
  nextStep,            \* the number the next step/start must carry
  pendingCalls,        \* tool calls of the open step without a result
  event                \* the last event appended: its type, turn and step

vars == <<openTurn, openStep, nextTurn, nextStep, pendingCalls, event>>

NoEvent == [type |-> "session/end-seed", turn |-> 0, step |-> 0]

Event(type, t, s) == [type |-> type, turn |-> t, step |-> s]

(* A log restored with every turn closed (repair.js closes an open one).   *)
Init ==
  /\ openTurn = 0
  /\ openStep = 0
  /\ nextTurn = LastTurn + 1
  /\ nextStep = 1
  /\ pendingCalls = {}
  /\ event = NoEvent

-----------------------------------------------------------------------------
(* Every event carries the numbers its rule demands, so the rules need no   *)
(* parameters: the event a step appends is read off the state.              *)
TurnStart ==
  /\ openTurn = 0
  /\ openTurn' = nextTurn
  /\ nextStep' = 1
  /\ event' = Event("turn/start", nextTurn, 0)
  /\ UNCHANGED <<openStep, nextTurn, pendingCalls>>

TurnEnd ==
  /\ openTurn # 0
  /\ openStep = 0
  /\ openTurn' = 0
  /\ nextTurn' = nextTurn + 1
  /\ event' = Event("turn/end", openTurn, 0)
  /\ UNCHANGED <<openStep, nextStep, pendingCalls>>

StepStart ==
  /\ openTurn # 0
  /\ openStep = 0
  /\ openStep' = nextStep
  /\ event' = Event("step/start", openTurn, nextStep)
  /\ UNCHANGED <<openTurn, nextTurn, nextStep, pendingCalls>>

StepEnd ==
  /\ openTurn # 0 /\ openStep # 0
  /\ openStep' = 0
  /\ nextStep' = nextStep + 1
  /\ pendingCalls' = {}
  /\ event' = Event("step/end", openTurn, openStep)
  /\ UNCHANGED <<openTurn, nextTurn>>

(* assistant/chunk and assistant/message: no change, but the step is open. *)
Assistant(type) ==
  /\ openTurn # 0 /\ openStep # 0
  /\ event' = Event(type, openTurn, openStep)
  /\ UNCHANGED <<openTurn, openStep, nextTurn, nextStep, pendingCalls>>

ToolCall(call) ==
  /\ openTurn # 0 /\ openStep # 0
  /\ pendingCalls' = pendingCalls \cup {call}
  /\ event' = Event("tool/call", openTurn, openStep)
  /\ UNCHANGED <<openTurn, openStep, nextTurn, nextStep>>

(* A result answers a call of this step.  (The synthetic "not started"     *)
(* result that needs none is written by repair only, never by a driver.)   *)
ToolResult(call) ==
  /\ openTurn # 0 /\ openStep # 0
  /\ pendingCalls' = pendingCalls \ {call}
  /\ event' = Event("tool/result", openTurn, openStep)
  /\ UNCHANGED <<openTurn, openStep, nextTurn, nextStep>>

(* request/header and request/context carry no turn of their own.          *)
RequestRecord ==
  /\ openTurn # 0
  /\ event' = Event("request/header", 0, 0)
  /\ UNCHANGED <<openTurn, openStep, nextTurn, nextStep, pendingCalls>>

Next ==
  \/ TurnStart \/ TurnEnd
  \/ StepStart \/ StepEnd
  \/ \E type \in {"assistant/chunk", "assistant/message"} : Assistant(type)
  \/ \E call \in pendingCalls' : ToolCall(call)
  \/ \E call \in pendingCalls : ToolResult(call)
  \/ RequestRecord

Spec == Init /\ [][Next]_vars
=============================================================================
