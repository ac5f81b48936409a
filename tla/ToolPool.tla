------------------------------ MODULE ToolPool ------------------------------
(***************************************************************************)
(* The scheduler of one assistant message's tool calls:                    *)
(* executeToolCalls() and runGroup() of                                    *)
(* packages/core/agent-loop/src/tool-calls.js.  Calls are cut into groups: *)
(* an exclusive call is a group of its own, parallel calls share a rolling *)
(* pool.  pc is the await at which the scheduler is suspended ("fill" and  *)
(* "skipping" are synchronous: nothing else runs there).  The tools        *)
(* themselves (prepare, dispatch, finalize of the tool runtime) are        *)
(* external: they may answer, fail and be reclassified at any time.        *)
(* What a result does to the turn (contexts, concludesTurn) is modelled    *)
(* in AgentDriver's CommitCall.                                            *)
(***************************************************************************)
EXTENDS Naturals, Sequences, FiniteSets, SequencesExt

CONSTANTS
  N,                   \* the calls of the message are 1 .. N
  MaxParallel          \* config maxParallelToolCalls

ASSUME PoolAssumption == N \in Nat \ {0} /\ MaxParallel \in Nat \ {0}

VARIABLES
  aborted,             \* signal.aborted
  halted,              \* runGroup's own copy, `aborted`
  mode,                \* execution mode of the group's first call
  first, last,         \* the group is calls first + 1 .. last
  started,             \* calls recorded so far (this and earlier groups)
  committed,           \* calls answered so far
  inFlight,            \* the map of dispatched calls not yet raced
  settled,             \* dispatched calls whose promise has settled
  slots,               \* calls whose outcome is known
  failure,             \* schedulerFailure is set
  pc,
  log,                 \* the tool/call and tool/result events appended
  exclusive            \* history: calls classified exclusive when started

group == <<halted, mode, first, last>>
pool  == <<inFlight, settled, slots, failure>>
vars  == <<aborted, group, started, committed, pool, pc, log, exclusive>>

Modes == {"parallel", "exclusive"}

Awaiting == {"pick", "preparing", "prepared", "committing", "racing", "failing"}

Entry(type, call) == [type |-> type, call |-> call]

Init ==
  /\ aborted \in BOOLEAN
  /\ halted = FALSE /\ mode = "parallel" /\ first = 0 /\ last = 0
  /\ started = 0 /\ committed = 0
  /\ inFlight = {} /\ settled = {} /\ slots = {} /\ failure = FALSE
  /\ pc = "pick"
  /\ log = <<>>
  /\ exclusive = {}

Abort ==
  /\ pc \in Awaiting
  /\ aborted' = TRUE
  /\ UNCHANGED <<group, started, committed, pool, pc, log, exclusive>>

-----------------------------------------------------------------------------
(* executeToolCalls(): the next call decides what its group is.            *)
OpenGroup ==
  /\ pc = "pick"
  /\ first < N
  /\ mode' \in Modes
  /\ last' = IF mode' = "parallel" THEN N ELSE first + 1
  /\ halted' = aborted
  /\ pc' = "fill"
  /\ UNCHANGED <<aborted, first, started, committed, pool, log, exclusive>>

Return ==
  /\ pc = "pick"
  /\ first = N
  /\ pc' = "done"
  /\ UNCHANGED <<aborted, group, started, committed, pool, log, exclusive>>

MutRoomIgnoresAbort == started < last /\ Cardinality(inFlight) < MaxParallel
Room == ~halted /\ started < last /\ Cardinality(inFlight) < MaxParallel

(* Whether the next call, of mode m now, joins the running group.          *)
MutJoins(m) == started = first => m = mode
Joins(m) == IF started = first THEN m = mode ELSE m = "parallel"

(* fillPool()'s loop body up to the await in startCall().                  *)
StartCall ==
  /\ pc = "fill"
  /\ Room
  /\ \E m \in Modes :
       /\ Joins(m)
       /\ exclusive' = IF m = "exclusive" THEN exclusive \cup {started + 1} ELSE exclusive
  /\ started' = started + 1
  /\ log' = Append(log, Entry("tool/call", started'))
  /\ pc' = "preparing"
  /\ UNCHANGED <<aborted, group, committed, pool>>

(* prepare() answered or threw; a rejection of another call seen by now    *)
(* fails the scheduler.                                                    *)
Prepared ==
  /\ pc = "preparing"
  /\ \/ /\ pc' = "failing" /\ failure' = TRUE
        /\ UNCHANGED <<inFlight, slots>>
     \/ /\ ~failure
        /\ inFlight' = inFlight \cup {started}
        /\ pc' = "prepared"
        /\ UNCHANGED <<slots, failure>>
     \/ /\ ~failure
        /\ slots' = slots \cup {started}
        /\ pc' = "prepared"
        /\ UNCHANGED <<inFlight, failure>>
  /\ UNCHANGED <<aborted, group, started, committed, settled, log, exclusive>>

(* Back in fillPool() after startCall(). *)
CallStarted ==
  /\ pc = "prepared"
  /\ pc' = IF failure THEN "failing" ELSE "committing"
  /\ UNCHANGED <<aborted, group, started, committed, pool, log, exclusive>>

(* commitReady(): results are appended in call order, each when every      *)
(* earlier one has been.                                                   *)
MutReadyOutOfOrder == \E call \in slots : call <= last /\ committed < call
MutReadyUnknown == committed < last
Ready == committed < last /\ (committed + 1) \in slots

CommitNext ==
  /\ pc = "committing"
  /\ Ready
  /\ \/ /\ committed' = committed + 1
        /\ log' = Append(log, Entry("tool/result", committed'))
        /\ UNCHANGED <<pc, failure>>
     \/ /\ pc' = "failing" /\ failure' = TRUE
        /\ UNCHANGED <<committed, log>>
  /\ UNCHANGED <<aborted, group, started, inFlight, settled, slots, exclusive>>

CommitDone ==
  /\ pc = "committing"
  /\ ~Ready
  /\ \/ /\ failure
        /\ pc' = "failing"
        /\ UNCHANGED halted
     \/ /\ ~failure
        /\ halted' = (halted \/ aborted)
        /\ pc' = "fill"
  /\ UNCHANGED <<aborted, mode, first, last, started, committed, pool, log, exclusive>>

(* fillPool() returns: the pool is full, the group is started or halted,   *)
(* or the next call is exclusive now.                                      *)
FillDone ==
  /\ pc = "fill"
  /\ ~Room \/ (mode = "parallel" /\ started > first)
  /\ \/ /\ inFlight # {}
        /\ pc' = "racing"
        /\ UNCHANGED first
     \/ /\ inFlight = {} /\ halted
        /\ pc' = "skipping"
        /\ UNCHANGED first
     \/ /\ inFlight = {} /\ ~halted
        /\ first' = started
        /\ pc' = "pick"
  /\ UNCHANGED <<aborted, halted, mode, last, started, committed, pool, log, exclusive>>

(* A dispatched tool's promise settles, in any order. *)
Settle(call) ==
  /\ pc \in Awaiting
  /\ call \in inFlight \ settled
  /\ settled' = settled \cup {call}
  /\ \/ slots' = slots \cup {call} /\ UNCHANGED failure
     \/ failure' = TRUE /\ UNCHANGED slots
  /\ UNCHANGED <<aborted, group, started, committed, inFlight, pc, log, exclusive>>

(* Promise.race() over the map. *)
Race ==
  /\ pc = "racing"
  /\ \E call \in inFlight \cap settled : inFlight' = inFlight \ {call}
  /\ pc' = IF failure THEN "failing" ELSE "committing"
  /\ UNCHANGED <<aborted, group, started, committed, settled, slots, failure, log, exclusive>>

(* After an abort the calls not started are recorded and answered, those   *)
(* of the group by runGroup(), the rest by executeToolCalls().             *)
SkipCall ==
  /\ pc = "skipping"
  /\ committed = started /\ started < N
  /\ started' = started + 1
  /\ log' = Append(log, Entry("tool/call", started'))
  /\ UNCHANGED <<aborted, group, committed, pool, pc, exclusive>>

SkipResult ==
  /\ pc = "skipping"
  /\ committed < started
  /\ committed' = committed + 1
  /\ log' = Append(log, Entry("tool/result", committed'))
  /\ UNCHANGED <<aborted, group, started, pool, pc, exclusive>>

SkipDone ==
  /\ pc = "skipping"
  /\ committed = N
  /\ pc' = "done"
  /\ UNCHANGED <<aborted, group, started, committed, pool, log, exclusive>>

(* runGroup()'s catch: the error leaves only when no tool runs any more.   *)
MutAllSettledAtOnce == TRUE
MutAllSettledFulfilled == inFlight \subseteq slots
AllSettled == inFlight \subseteq settled

Throw ==
  /\ pc = "failing"
  /\ AllSettled
  /\ pc' = "thrown"
  /\ UNCHANGED <<aborted, group, started, committed, pool, log, exclusive>>

-----------------------------------------------------------------------------
Schedule ==
  \/ OpenGroup \/ Return \/ StartCall \/ Prepared \/ CallStarted
  \/ CommitNext \/ CommitDone \/ FillDone \/ Race
  \/ SkipCall \/ SkipResult \/ SkipDone \/ Throw

Next == Schedule \/ Abort \/ \E call \in 1 .. N : Settle(call)

Spec == Init /\ [][Next]_vars

(* Hooks answer and every dispatched tool settles: tools honour the signal *)
(* or end by themselves; the scheduler has no timeout of its own.          *)
FairSpec ==
  /\ Spec
  /\ WF_vars(Schedule)
  /\ \A call \in 1 .. N : WF_vars(Settle(call))

-----------------------------------------------------------------------------
TypeOK ==
  /\ aborted \in BOOLEAN /\ halted \in BOOLEAN /\ failure \in BOOLEAN
  /\ mode \in Modes
  /\ first \in 0 .. N /\ last \in 0 .. N
  /\ started \in 0 .. N /\ committed \in 0 .. started
  /\ inFlight \subseteq 1 .. started
  /\ settled \subseteq 1 .. started /\ slots \subseteq 1 .. started
  /\ exclusive \subseteq 1 .. started
  /\ pc \in Awaiting \cup {"fill", "skipping", "done", "thrown"}

(* An exclusive call is an ordering barrier (docs/subsystems/tools.md:246  *)
(* "runs alone and forms an ordering barrier"): every earlier call is      *)
(* answered before it is recorded, and no later call is recorded before    *)
(* it is answered, however the pool was filled around it.                  *)
BarrierHolds ==
  \A call \in exclusive, i \in DOMAIN log :
    log[i] = Entry("tool/call", call) =>
      /\ \A earlier \in 1 .. call - 1 :
           \E j \in 1 .. i - 1 : log[j] = Entry("tool/result", earlier)
      /\ \A j \in DOMAIN log, later \in call + 1 .. N :
           log[j] = Entry("tool/call", later) =>
             \E k \in 1 .. j - 1 : log[k] = Entry("tool/result", call)

(* A result is recorded only when the outcome of that call is known.       *)
(* (slots[committed] is the outcome of call committed; a wrong index would *)
(* answer one call with another's result.)                                 *)
AnswersAreOutcomes ==
  pc # "skipping" /\ pc # "done" => \A call \in 1 .. committed : call \in slots

(* Once executeToolCalls() has returned or thrown, no tool of the message  *)
(* is running: nothing touches the session after its step ended.           *)
NothingLeftRunning == pc \in {"done", "thrown"} => inFlight \subseteq settled

(* The message's calls are one ToolRound. *)
Over == pc \in {"done", "thrown"}

Round == INSTANCE ToolRound WITH
  state <- CASE pc = "done" -> "closed"
             [] pc = "thrown" -> "failed"
             [] pc = "skipping" /\ committed # started -> "skipping"
             [] OTHER -> "open",
  calls <- IF Over THEN 0 ELSE N,
  started <- IF Over THEN 0 ELSE started,
  committed <- IF Over THEN 0 ELSE committed

RoundSpec == Round!Spec

(* executeToolCalls() settles. *)
Returns == <>Over
=============================================================================
