----------------------------- MODULE ToolRound -----------------------------
(***************************************************************************)
(* What a turn may rely on of the tool calls of one assistant message,     *)
(* whoever runs them: calls are recorded and answered in the order the     *)
(* model made them, an abort stops the dispatching but still answers every *)
(* call, and a round that returns has answered them all; only a round that *)
(* fails leaves calls unanswered.  ToolPool (the scheduler) and            *)
(* AgentDriver (which abstracts from it) are both shown to implement this. *)
(***************************************************************************)
EXTENDS Naturals

VARIABLES
  state,               \* "closed", "open", "skipping" or "failed"
  calls,               \* how many calls the message makes
  started,             \* tool/call events of this round
  committed,           \* tool/result events of this round
  aborted              \* the turn's signal

vars == <<state, calls, started, committed, aborted>>

Init ==
  /\ state \in {"closed", "open"}
  /\ calls \in Nat /\ (state = "closed" => calls = 0)
  /\ started = 0 /\ committed = 0
  /\ aborted \in BOOLEAN

Open ==
  /\ state = "closed"
  /\ state' = "open"
  /\ calls' \in Nat \ {0}
  /\ UNCHANGED <<started, committed, aborted>>

Dispatch ==
  /\ state = "open" /\ ~aborted
  /\ started < calls
  /\ started' = started + 1
  /\ UNCHANGED <<state, calls, committed, aborted>>

Commit ==
  /\ state = "open"
  /\ committed < started
  /\ committed' = committed + 1
  /\ UNCHANGED <<state, calls, started, aborted>>

(* A call that is not going to run is recorded and answered at once.       *)
SkipCall ==
  /\ state \in {"open", "skipping"} /\ aborted
  /\ committed = started /\ started < calls
  /\ state' = "skipping"
  /\ started' = started + 1
  /\ UNCHANGED <<calls, committed, aborted>>

SkipResult ==
  /\ state = "skipping"
  /\ committed < started
  /\ committed' = committed + 1
  /\ state' \in {"open", "skipping"}
  /\ UNCHANGED <<calls, started, aborted>>

Close(final) ==
  /\ state' = final
  /\ calls' = 0 /\ started' = 0 /\ committed' = 0
  /\ UNCHANGED aborted

Return == state = "open" /\ committed = calls /\ Close("closed")
Fail   == state = "open" /\ Close("failed")
Forget == state = "failed" /\ Close("closed")

(* A signal is never un-aborted while a round is open.                     *)
Abort == aborted' = TRUE /\ UNCHANGED <<state, calls, started, committed>>
Rearm ==
  /\ state = "closed"
  /\ aborted' = FALSE
  /\ UNCHANGED <<state, calls, started, committed>>

Next ==
  \/ Open \/ Dispatch \/ Commit \/ SkipCall \/ SkipResult
  \/ Return \/ Fail \/ Forget \/ Abort \/ Rearm

Spec == Init /\ [][Next]_vars
=============================================================================
