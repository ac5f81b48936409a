------------------------- MODULE AgentDriverProofs -------------------------
(***************************************************************************)
(* Proofs about AgentDriver for every set of messages, every restored turn *)
(* number and every bound: its type invariant, that no wake is lost, that  *)
(* an aborted activity begins nothing new, that every append is legal in   *)
(* the log's grammar (DriverImplementsTrace), that a turn's reported end   *)
(* agrees with how its steps ended, that the tool calls of a step are a    *)
(* ToolRound (DriverImplementsRound), and that a message of the inbox is   *)
(* in one place at a time (MessagesStayApart).                             *)
(***************************************************************************)
EXTENDS AgentDriver, SeqSetLemmas

(* NoLostWake made inductive: wherever the activity stands, an owed wake   *)
(* is pending and something will still serve it - the live driver's next   *)
(* claim, the latch, or kick's copy of the latch.                          *)
DriverRuns == kind = "running" <=> pc \notin {"rest", "settling"}

WakeInv ==
  /\ NoLostWake
  /\ DriverRuns
  /\ owed \subseteq Pending
  /\ cause = "disposed" => owed = {}
  /\ owed # {} =>
       /\ pc = "rest" \/ (kind = "running" /\ Aborted) => wakeRequested
       /\ pc = "exiting" => Aborted
       /\ pc = "settling" => replay \/ (kind = "maintenance" /\ wakeRequested)

(* The numbers the driver keeps agree with those the log's grammar expects. *)
NumberInv ==
  /\ pc \in {"waking", "continuing"} => step = 0
  /\ TurnOpen => turn # 0
  /\ TurnOpen /\ ~StepOpen => step = closedSteps
  /\ StepOpen => step = closedSteps + 1

(* Why CompletedIsAnswered and TruncationWins hold: what turn() remembers  *)
(* of how its steps ended, from one step to the next and to the turn's end. *)
ReasonInv ==
  /\ TurnOpen /\ turnEnds = "completed" /\ (pc = "stepReturned" => thrown)
       => stepEnd # "none"
  /\ pc = "turnClosed" /\ turnEnds = "completed" => step = 0 \/ stepEnd # "none"
  /\ (TurnOpen \/ pc = "turnClosed") /\ truncated
       => \/ turnEnds = "max-tokens"
          \/ pc = "erring"
          \/ pc = "turnClosed" /\ turnEnds # "completed"
          \/ pc = "stepReturned" /\ ~thrown /\ stepEnd = "max-tokens"

LEMMA EventInEvents ==
  \A type \in EventTypes, t \in Nat, s \in Nat : Event(type, t, s) \in Events
BY DEF Event, Events

LEMMA DataStep ==
  ASSUME TypeData, [Next]_vars
  PROVE  TypeData'
<1> USE AgentAssumption, EventInEvents
<1> USE DEF TypeData, Interleavable, Publishing, Causes, EventTypes, phase, inbox, frame,
            round, log, history, Aborted
<1>0. ASSUME NEW m \in Msgs, NEW target, Insert(m, target)
      PROVE  nextTurn' \in Seq(Msgs) /\ nextStep' \in Seq(Msgs) /\ sent' \in SUBSET Msgs
  <2>1. \A q \in Seq(Msgs) : Append(q, m) \in Seq(Msgs)
    BY AppendSet
  <2> QED BY <1>0, <2>1 DEF Insert
<1>1. ASSUME NEW m \in Msgs, NEW target \in Targets, SendQuietly(m, target) PROVE TypeData'
  BY <1>1, <1>0 DEF SendQuietly
<1>2. ASSUME NEW m \in Msgs, NEW target \in Targets, SendIdle(m, target) PROVE TypeData'
  BY <1>2, <1>0 DEF SendIdle, StartDriver, Renew
<1>3. ASSUME NEW m \in Msgs, NEW target \in Targets, SendBusy(m, target) PROVE TypeData'
  BY <1>3, <1>0 DEF SendBusy
<1>4. ASSUME NEW c \in Causes, NEW keepInbox \in BOOLEAN, Cancel(c, keepInbox) PROVE TypeData'
  BY <1>4 DEF Cancel
<1>5. ASSUME NEW m \in Msgs, Withdraw(m) PROVE TypeData'
  <2>1. nextTurn' \in Seq(Msgs) /\ nextStep' \in Seq(Msgs)
    BY <1>5, RemoveAtSet DEF Withdraw
  <2> QED BY <1>5, <2>1 DEF Withdraw
<1>6. ASSUME RunMaintenance PROVE TypeData'
  BY <1>6 DEF RunMaintenance
<1>7. ASSUME EndMaintenance PROVE TypeData'
  BY <1>7 DEF EndMaintenance, StartDriver, Renew
<1>8. ASSUME BeginTurn PROVE TypeData'
  BY <1>8 DEF BeginTurn
<1>9. ASSUME NEW target, Claim(target)
      PROVE  /\ nextTurn' \in Seq(Msgs) /\ nextStep' \in Seq(Msgs)
             /\ claimed' \in Seq(Msgs) /\ owed' \in SUBSET Msgs
             /\ pc' \in Interleavable
  <2> DEFINE first == IF target = "next-turn" /\ nextTurn # <<>>
                      THEN <<Head(nextTurn)>> ELSE <<>>
  <2>1. first \in Seq(Msgs)
    BY HeadTailSet
  <2>2. nextStep \o first \in Seq(Msgs)
    BY <2>1
  <2>3. nextTurn' \in Seq(Msgs)
    BY <1>9, HeadTailSet DEF Claim
  <2> QED BY <1>9, <2>2, <2>3 DEF Claim
<1>10. ASSUME OpenLoop PROVE TypeData'
  BY <1>10, <1>9 DEF OpenLoop, CloseTurn
<1>11. ASSUME Assembled PROVE TypeData'
  BY <1>11 DEF Assembled
<1>12. ASSUME RestoreClaimed PROVE TypeData'
  <2>1. PICK i \in DOMAIN claimed : nextStep' = RemoveAt(claimed, i) \o nextStep
    BY <1>12 DEF RestoreClaimed
  <2>2. nextStep' \in Seq(Msgs)
    BY <2>1, RemoveAtSet, ConcatSet
  <2> QED BY <1>12, <2>2 DEF RestoreClaimed
<1>13. ASSUME PreStepped PROVE TypeData'
  BY <1>13 DEF PreStepped
<1>14. ASSUME PreStepFailed PROVE TypeData'
  BY <1>14 DEF PreStepFailed, CatchInTurn, CloseTurn
<1>15. ASSUME ErrorPublished PROVE TypeData'
  BY <1>15 DEF ErrorPublished, CloseTurn
<1>16. ASSUME Decided PROVE TypeData'
  BY <1>16 DEF Decided, CloseTurn
<1>17. ASSUME EnterStep PROVE TypeData'
  BY <1>17 DEF EnterStep, ThrowInStep, LeaveStep
<1>18. ASSUME RequestBuilt PROVE TypeData'
  BY <1>18 DEF RequestBuilt, ThrowInStep, LeaveStep
<1>19. ASSUME Chunk PROVE TypeData'
  BY <1>19 DEF Chunk
<1>20. ASSUME StreamThrows PROVE TypeData'
  <2>1. event' \in {event, Event("assistant/message", turn, step)}
    BY <1>20 DEF StreamThrows
  <2>2. event' \in Events
    BY <2>1
  <2> QED BY <1>20, <2>2 DEF StreamThrows, ThrowInStep, LeaveStep
<1>21. ASSUME StreamRefused PROVE TypeData'
  BY <1>21 DEF StreamRefused
<1>22. ASSUME Recovered PROVE TypeData'
  BY <1>22 DEF Recovered, ThrowInStep, LeaveStep
<1>23. ASSUME StreamFinished PROVE TypeData'
  BY <1>23 DEF StreamFinished, LeaveStep
<1>24. ASSUME StartCall PROVE TypeData'
  BY <1>24 DEF StartCall, CanDispatch
<1>25. ASSUME CommitCall PROVE TypeData'
  <2>1. nextTurn' \in Seq(Msgs) /\ nextStep' \in Seq(Msgs) /\ sent' \in SUBSET Msgs
    BY <1>25, <1>0 DEF CommitCall
  <2> QED BY <1>25, <2>1 DEF CommitCall
<1>26. ASSUME SkipCall PROVE TypeData'
  BY <1>26 DEF SkipCall, CanSkip
<1>27. ASSUME SkipResult PROVE TypeData'
  BY <1>27 DEF SkipResult
<1>28. ASSUME ToolsDone PROVE TypeData'
  BY <1>28 DEF ToolsDone, LeaveStep
<1>29. ASSUME ToolsThrow PROVE TypeData'
  BY <1>29 DEF ToolsThrow, ThrowInStep, LeaveStep
<1>30. ASSUME EndStep PROVE TypeData'
  BY <1>30 DEF EndStep, TurnEndsAfterStep
<1>31. ASSUME StepDone PROVE TypeData'
  BY <1>31, <1>9 DEF StepDone, CatchInTurn, CloseTurn
<1>32. ASSUME Stopped PROVE TypeData'
  BY <1>32, <1>9 DEF Stopped, CatchInTurn, CloseTurn
<1>33. ASSUME LeaveTurn PROVE TypeData'
  BY <1>33 DEF LeaveTurn, Renew
<1>34. ASSUME Settle PROVE TypeData'
  BY <1>34 DEF Settle, Renew
<1>35. ASSUME Replay PROVE TypeData'
  BY <1>35 DEF Replay, StartDriver, Renew, Latch
<1>36. CASE UNCHANGED vars
  BY <1>36 DEF vars
<1> QED
  BY <1>1, <1>2, <1>3, <1>4, <1>5, <1>6, <1>7, <1>8, <1>10, <1>11, <1>12, <1>13,
     <1>14, <1>15, <1>16, <1>17, <1>18, <1>19, <1>20, <1>21, <1>22, <1>23, <1>24,
     <1>25, <1>26, <1>27, <1>28, <1>29, <1>30, <1>31, <1>32, <1>33, <1>34, <1>35, <1>36
  DEF Next, Call, Drive

LEMMA FlagStep ==
  ASSUME TypeFlags, [Next]_vars
  PROVE  TypeFlags'
<1> USE DEF TypeFlags, phase, inbox, frame, round, log, history
<1>1. ASSUME NEW m \in Msgs, NEW target \in Targets, SendQuietly(m, target) PROVE TypeFlags'
  BY <1>1 DEF SendQuietly
<1>2. ASSUME NEW m \in Msgs, NEW target \in Targets, SendIdle(m, target) PROVE TypeFlags'
  BY <1>2 DEF SendIdle, StartDriver, Renew
<1>3. ASSUME NEW m \in Msgs, NEW target \in Targets, SendBusy(m, target) PROVE TypeFlags'
  BY <1>3 DEF SendBusy, Latch, Aborted
<1>4. ASSUME NEW c \in Causes, NEW keepInbox \in BOOLEAN, Cancel(c, keepInbox) PROVE TypeFlags'
  BY <1>4 DEF Cancel
<1>5. ASSUME NEW m \in Msgs, Withdraw(m) PROVE TypeFlags'
  BY <1>5 DEF Withdraw
<1>6. ASSUME RunMaintenance PROVE TypeFlags'
  BY <1>6 DEF RunMaintenance
<1>7. ASSUME EndMaintenance PROVE TypeFlags'
  BY <1>7 DEF EndMaintenance, StartDriver, Renew
<1>8. ASSUME BeginTurn PROVE TypeFlags'
  BY <1>8 DEF BeginTurn
<1>9. ASSUME OpenLoop PROVE TypeFlags'
  BY <1>9 DEF OpenLoop
<1>10. ASSUME Assembled PROVE TypeFlags'
  BY <1>10 DEF Assembled
<1>11. ASSUME RestoreClaimed PROVE TypeFlags'
  BY <1>11 DEF RestoreClaimed
<1>12. ASSUME PreStepped PROVE TypeFlags'
  BY <1>12 DEF PreStepped
<1>13. ASSUME PreStepFailed PROVE TypeFlags'
  BY <1>13 DEF PreStepFailed
<1>14. ASSUME ErrorPublished PROVE TypeFlags'
  BY <1>14 DEF ErrorPublished
<1>15. ASSUME Decided PROVE TypeFlags'
  BY <1>15 DEF Decided
<1>16. ASSUME EnterStep PROVE TypeFlags'
  BY <1>16 DEF EnterStep, ThrowInStep, LeaveStep
<1>17. ASSUME RequestBuilt PROVE TypeFlags'
  BY <1>17 DEF RequestBuilt, ThrowInStep, LeaveStep
<1>18. ASSUME Chunk PROVE TypeFlags'
  BY <1>18 DEF Chunk
<1>19. ASSUME StreamThrows PROVE TypeFlags'
  BY <1>19 DEF StreamThrows, ThrowInStep, LeaveStep
<1>20. ASSUME StreamRefused PROVE TypeFlags'
  BY <1>20 DEF StreamRefused
<1>21. ASSUME Recovered PROVE TypeFlags'
  BY <1>21 DEF Recovered, ThrowInStep, LeaveStep
<1>22. ASSUME StreamFinished PROVE TypeFlags'
  BY <1>22 DEF StreamFinished, LeaveStep
<1>23. ASSUME StartCall PROVE TypeFlags'
  BY <1>23 DEF StartCall
<1>24. ASSUME CommitCall PROVE TypeFlags'
  BY <1>24 DEF CommitCall, Insert
<1>25. ASSUME SkipCall PROVE TypeFlags'
  BY <1>25 DEF SkipCall
<1>26. ASSUME SkipResult PROVE TypeFlags'
  BY <1>26 DEF SkipResult
<1>27. ASSUME ToolsDone PROVE TypeFlags'
  BY <1>27 DEF ToolsDone, LeaveStep
<1>28. ASSUME ToolsThrow PROVE TypeFlags'
  BY <1>28 DEF ToolsThrow, ThrowInStep, LeaveStep
<1>29. ASSUME EndStep PROVE TypeFlags'
  BY <1>29 DEF EndStep
<1>30. ASSUME StepDone PROVE TypeFlags'
  BY <1>30 DEF StepDone
<1>31. ASSUME Stopped PROVE TypeFlags'
  BY <1>31 DEF Stopped
<1>32. ASSUME LeaveTurn PROVE TypeFlags'
  BY <1>32 DEF LeaveTurn, Renew
<1>33. ASSUME Settle PROVE TypeFlags'
  BY <1>33 DEF Settle, Renew
<1>34. ASSUME Replay PROVE TypeFlags'
  BY <1>34 DEF Replay, StartDriver, Renew, Latch
<1>35. CASE UNCHANGED vars
  BY <1>35 DEF vars
<1> QED
  BY <1>1, <1>2, <1>3, <1>4, <1>5, <1>6, <1>7, <1>8, <1>9, <1>10, <1>11, <1>12, <1>13, 
     <1>14, <1>15, <1>16, <1>17, <1>18, <1>19, <1>20, <1>21, <1>22, <1>23, <1>24, <1>25, <1>26, 
     <1>27, <1>28, <1>29, <1>30, <1>31, <1>32, <1>33, <1>34, <1>35
  DEF Next, Call, Drive

(* The type invariant holds in every reachable state of the driver. *)
THEOREM TypeCorrect == Spec => []TypeOK
<1>1. Init => TypeOK
  <2> SUFFICES ASSUME Init PROVE TypeOK
    OBVIOUS
  <2>1. nextTurn \in Seq(Msgs) /\ ToSet(nextTurn) \subseteq Msgs
    <3>1. CASE nextTurn = <<>>
      BY <3>1 DEF ToSet
    <3>2. CASE \E m \in Msgs : nextTurn = <<m>>
      BY <3>2 DEF ToSet
    <3> QED BY <3>1, <3>2 DEF Init
  <2>2. TypeData
    BY <2>1, AgentAssumption, EventInEvents DEF Init, TypeData, Interleavable, EventTypes
  <2>3. TypeFlags
    BY DEF Init, TypeFlags
  <2> QED BY <2>2, <2>3 DEF TypeOK
<1>2. TypeOK /\ [Next]_vars => TypeOK'
  BY DataStep, FlagStep DEF TypeOK
<1> QED BY <1>1, <1>2, PTL DEF Spec

-----------------------------------------------------------------------------
(* The queue operations and the messages that are pending after them.      *)
LEMMA InsertPending ==
  ASSUME TypeData, NEW m \in Msgs, NEW target, Insert(m, target)
  PROVE  Pending' = Pending \cup {m}
<1>1. nextTurn \in Seq(Msgs) /\ nextStep \in Seq(Msgs)
  BY DEF TypeData
<1>2. CASE nextTurn' = Append(nextTurn, m) /\ nextStep' = nextStep
  <2>1. ToSet(nextTurn') = ToSet(nextTurn) \cup {m}
    BY <1>1, <1>2, AppendSet
  <2> QED BY <1>2, <2>1 DEF Pending
<1>3. CASE nextStep' = Append(nextStep, m) /\ nextTurn' = nextTurn
  <2>1. ToSet(nextStep') = ToSet(nextStep) \cup {m}
    BY <1>1, <1>3, AppendSet
  <2> QED BY <1>3, <2>1 DEF Pending
<1> QED BY <1>2, <1>3 DEF Insert

LEMMA ClaimPending ==
  ASSUME TypeData, NEW target, Claim(target)
  PROVE  Pending \ ToSet(claimed') \subseteq Pending'
<1> DEFINE first == IF target = "next-turn" /\ nextTurn # <<>>
                    THEN <<Head(nextTurn)>> ELSE <<>>
<1>1. nextTurn \in Seq(Msgs) /\ nextStep \in Seq(Msgs)
  BY DEF TypeData
<1>2. /\ claimed' = nextStep \o first
      /\ nextTurn' = IF first = <<>> THEN nextTurn ELSE Tail(nextTurn)
  BY DEF Claim
<1>3. first \in Seq(Msgs) /\ ToSet(nextTurn) \subseteq ToSet(first) \cup ToSet(nextTurn')
  <2>1. CASE target = "next-turn" /\ nextTurn # <<>>
    <3>1. first = <<Head(nextTurn)>> /\ first # <<>>
      BY <2>1
    <3>2. Head(nextTurn) \in ToSet(first)
      BY <3>1 DEF ToSet
    <3>3. ToSet(nextTurn) = {Head(nextTurn)} \cup ToSet(Tail(nextTurn))
      BY <1>1, <2>1, HeadTailSet
    <3>4. Head(nextTurn) \in Msgs
      BY <1>1, <2>1, HeadTailSet
    <3> QED BY <1>2, <3>1, <3>2, <3>3, <3>4
  <2>2. CASE ~(target = "next-turn" /\ nextTurn # <<>>)
    BY <1>2, <2>2
  <2> QED BY <2>1, <2>2
<1> HIDE DEF first
<1>4. ToSet(claimed') = ToSet(nextStep) \cup ToSet(first)
  BY <1>1, <1>2, <1>3, ConcatSet
<1> QED BY <1>3, <1>4 DEF Pending

LEMMA WithdrawPending ==
  ASSUME TypeData, NEW m \in Msgs, Withdraw(m)
  PROVE  Pending \ {m} \subseteq Pending'
<1>1. nextTurn \in Seq(Msgs) /\ nextStep \in Seq(Msgs)
  BY DEF TypeData
<1>2. ASSUME NEW i \in DOMAIN nextTurn, nextTurn[i] = m,
             nextTurn' = RemoveAt(nextTurn, i), nextStep' = nextStep
      PROVE  Pending \ {m} \subseteq Pending'
  <2>1. ToSet(nextTurn) \ {m} \subseteq ToSet(nextTurn')
    BY <1>1, <1>2, RemoveAtSet
  <2> QED BY <1>2, <2>1 DEF Pending
<1>3. ASSUME NEW i \in DOMAIN nextStep, nextStep[i] = m,
             nextStep' = RemoveAt(nextStep, i), nextTurn' = nextTurn
      PROVE  Pending \ {m} \subseteq Pending'
  <2>1. ToSet(nextStep) \ {m} \subseteq ToSet(nextStep')
    BY <1>1, <1>3, RemoveAtSet
  <2> QED BY <1>3, <2>1 DEF Pending
<1> QED BY <1>2, <1>3 DEF Withdraw

LEMMA RestorePending ==
  ASSUME TypeData, RestoreClaimed
  PROVE  Pending \subseteq Pending'
<1>1. claimed \in Seq(Msgs) /\ nextStep \in Seq(Msgs) /\ nextTurn' = nextTurn
  BY DEF TypeData, RestoreClaimed
<1>2. PICK i \in DOMAIN claimed : nextStep' = RemoveAt(claimed, i) \o nextStep
  BY DEF RestoreClaimed
<1>3. RemoveAt(claimed, i) \in Seq(Msgs)
  BY <1>1, RemoveAtSet
<1>4. ToSet(nextStep) \subseteq ToSet(nextStep')
  BY <1>1, <1>2, <1>3, ConcatSet
<1> QED BY <1>1, <1>4 DEF Pending

-----------------------------------------------------------------------------
(* A step between two of the driver's own suspension points that leaves    *)
(* the phase alone, and of the owed wakes removes those it took from the   *)
(* inbox, keeps WakeInv.                                                   *)
LEMMA WakeInside ==
  ASSUME WakeInv, kind' = kind, cause' = cause, wakeRequested' = wakeRequested,
         pc \notin {"rest", "settling", "exiting"},
         pc' \notin {"rest", "settling", "exiting"},
         owed' \subseteq owed, owed' \subseteq Pending'
  PROVE  WakeInv'
<1>1. DriverRuns' /\ NoLostWake'
  BY DEF WakeInv, DriverRuns, NoLostWake
<1>2. cause' = "disposed" => owed' = {}
  BY DEF WakeInv
<1>3. owed' # {} => (pc' = "rest" \/ (kind' = "running" /\ Aborted') => wakeRequested')
  BY DEF WakeInv, Aborted
<1> QED BY <1>1, <1>2, <1>3 DEF WakeInv

LEMMA WakeStep ==
  ASSUME TypeData, WakeInv, [Next]_vars
  PROVE  WakeInv'
<1> USE DEF phase, inbox, frame, round, log, history
<1>0. ASSUME UNCHANGED <<kind, cause, wakeRequested, pc, replay, owed>>, Pending \subseteq Pending'
      PROVE  WakeInv'
  BY <1>0 DEF WakeInv, NoLostWake, DriverRuns, Aborted
<1>1. ASSUME NEW m \in Msgs, NEW target \in Targets, SendQuietly(m, target) PROVE WakeInv'
  <2>1. Insert(m, target) /\ UNCHANGED <<kind, cause, wakeRequested, pc, replay, owed>>
    BY <1>1 DEF SendQuietly
  <2> QED BY <2>1, <1>0, InsertPending
<1>2. ASSUME NEW m \in Msgs, NEW target \in Targets, SendIdle(m, target) PROVE WakeInv'
  <2>1. Pending' = Pending \cup {m}
    BY <1>2, InsertPending DEF SendIdle
  <2>2. kind' = "running" /\ pc' = "waking" /\ cause' = "none" /\ owed' = owed \cup {m}
    BY <1>2 DEF SendIdle, StartDriver, Renew
  <2> QED BY <2>1, <2>2 DEF WakeInv, NoLostWake, DriverRuns, Aborted
<1>3. ASSUME NEW m \in Msgs, NEW target \in Targets, SendBusy(m, target) PROVE WakeInv'
  <2>1. Pending' = Pending \cup {m}
    BY <1>3, InsertPending, Zenon DEF SendBusy
  <2>2. kind # "idle" /\ UNCHANGED <<kind, cause, pc, replay>>
    BY <1>3 DEF SendBusy
  <2>3. wakeRequested => wakeRequested'
    BY <1>3 DEF SendBusy, Latch
  <2>4. cause # "disposed" /\ (kind = "maintenance" \/ Aborted) => wakeRequested'
    BY <1>3 DEF SendBusy, Latch
  <2>5. CASE owed' = owed
    BY <2>1, <2>2, <2>3, <2>5 DEF WakeInv, NoLostWake, DriverRuns, Aborted
  <2>6. CASE owed' = owed \cup {m} /\ cause # "disposed" /\ (pc = "exiting" => Aborted)
    BY <2>1, <2>2, <2>4, <2>6 DEF WakeInv, NoLostWake, DriverRuns, Aborted, TypeData
  <2> QED BY <1>3, <2>5, <2>6 DEF SendBusy
<1>4. ASSUME NEW c \in Causes, NEW keepInbox \in BOOLEAN, Cancel(c, keepInbox) PROVE WakeInv'
  <2>1. UNCHANGED <<kind, pc, replay>>
    BY <1>4 DEF Cancel
  <2>2. CASE owed' = {}
    BY <2>1, <2>2 DEF WakeInv, NoLostWake, DriverRuns
  <2>3. CASE owed' = owed /\ keepInbox /\ (Aborted \/ kind # "running")
    <3>1. nextTurn' = nextTurn /\ nextStep' = nextStep /\ Pending' = Pending
      BY <1>4, <2>3 DEF Cancel, Pending
    <3>2. wakeRequested => wakeRequested'
      BY <1>4, <2>3 DEF Cancel
    <3>3. cause' = cause \/ (kind # "running" /\ cause' # "disposed")
      BY <1>4, <2>3 DEF Cancel
    <3> QED BY <2>1, <2>3, <3>1, <3>2, <3>3 DEF WakeInv, NoLostWake, DriverRuns, Aborted
  <2> QED BY <1>4, <2>2, <2>3 DEF Cancel
<1>5. ASSUME NEW m \in Msgs, Withdraw(m) PROVE WakeInv'
  <2>1. UNCHANGED <<kind, cause, wakeRequested, pc, replay>> /\ owed' = owed \ {m}
    BY <1>5 DEF Withdraw
  <2>2. owed' \subseteq Pending'
    BY <1>5, <2>1, WithdrawPending DEF WakeInv
  <2> QED BY <2>1, <2>2 DEF WakeInv, NoLostWake, DriverRuns, Aborted
<1>6. ASSUME RunMaintenance PROVE WakeInv'
  <2>1. /\ pc \in {"rest", "settling"} /\ kind = "idle"
        /\ kind' = "maintenance" /\ cause' = "none" /\ UNCHANGED <<pc, replay, owed>>
        /\ Pending' = Pending
    BY <1>6 DEF RunMaintenance, Pending
  <2> QED BY <2>1 DEF WakeInv, NoLostWake, DriverRuns, Aborted
<1>7. ASSUME EndMaintenance PROVE WakeInv'
  <2>1. pc = "rest" /\ Pending' = Pending /\ owed' = owed
    BY <1>7 DEF EndMaintenance, Pending
  <2>2. CASE StartDriver
    BY <2>1, <2>2 DEF StartDriver, Renew, WakeInv, NoLostWake, DriverRuns, Aborted
  <2>3. CASE ~(wakeRequested /\ Pending # {}) /\ kind' = "idle" /\ cause' = "none" /\ pc' = pc
    <3>1. owed = {}
      BY <2>1, <2>3 DEF WakeInv
    <3> QED BY <2>1, <2>3, <3>1 DEF WakeInv, NoLostWake, DriverRuns
  <2> QED BY <1>7, <2>2, <2>3 DEF EndMaintenance
<1>8. ASSUME BeginTurn PROVE WakeInv'
  <2>1. /\ UNCHANGED <<kind, cause, wakeRequested, replay, owed>> /\ Pending' = Pending
        /\ pc \in {"waking", "continuing"}
        /\ pc' = "turnOpened" \/ (pc' = "exiting" /\ Aborted)
    BY <1>8 DEF BeginTurn, Pending
  <2> QED BY <2>1 DEF WakeInv, NoLostWake, DriverRuns, Aborted
<1>9. ASSUME NEW target, Claim(target), UNCHANGED phase,
             pc \notin {"rest", "settling", "exiting"}
      PROVE  WakeInv'
  <2>1. owed' = owed \ ToSet(claimed') /\ pc' = "assembling"
    BY <1>9 DEF Claim
  <2>2. owed' \subseteq Pending'
    BY <1>9, <2>1, ClaimPending DEF WakeInv
  <2> QED BY <1>9, <2>1, <2>2, WakeInside
<1>10. ASSUME UNCHANGED <<phase, inbox, owed>>,
              pc \notin {"rest", "settling", "exiting"},
              pc' \notin {"rest", "settling", "exiting"}
       PROVE  WakeInv'
  <2>1. Pending' = Pending
    BY <1>10 DEF Pending
  <2> QED BY <1>10, <2>1, WakeInside DEF WakeInv
<1>11. ASSUME OpenLoop PROVE WakeInv'
  BY <1>11, <1>9, <1>10 DEF OpenLoop, CloseTurn
<1>12. ASSUME Assembled PROVE WakeInv'
  BY <1>12, <1>10 DEF Assembled
<1>13. ASSUME RestoreClaimed PROVE WakeInv'
  <2>1. /\ UNCHANGED <<kind, cause, wakeRequested, owed>>
        /\ pc = "preStepping" /\ pc' \in {"decided", "failing"}
    BY <1>13 DEF RestoreClaimed
  <2>2. owed' \subseteq Pending'
    BY <1>13, <2>1, RestorePending DEF WakeInv
  <2> QED BY <2>1, <2>2, WakeInside
<1>14. ASSUME PreStepped PROVE WakeInv'
  BY <1>14, <1>10 DEF PreStepped
<1>15. ASSUME PreStepFailed PROVE WakeInv'
  BY <1>15, <1>10 DEF PreStepFailed, CatchInTurn, CloseTurn
<1>16. ASSUME ErrorPublished PROVE WakeInv'
  BY <1>16, <1>10 DEF ErrorPublished, CloseTurn
<1>17. ASSUME Decided PROVE WakeInv'
  <2>1. /\ UNCHANGED <<kind, cause, wakeRequested, inbox, owed>>
        /\ pc = "decided" /\ pc' \in {"turnClosed", "stepOpened"}
    BY <1>17 DEF Decided, CloseTurn
  <2>2. owed' \subseteq Pending'
    BY <2>1 DEF WakeInv, Pending
  <2> QED BY <2>1, <2>2, WakeInside
<1>18. ASSUME EnterStep PROVE WakeInv'
  BY <1>18, <1>10 DEF EnterStep, ThrowInStep, LeaveStep
<1>19. ASSUME RequestBuilt PROVE WakeInv'
  BY <1>19, <1>10 DEF RequestBuilt, ThrowInStep, LeaveStep
<1>20. ASSUME Chunk PROVE WakeInv'
  BY <1>20, <1>10 DEF Chunk
<1>21. ASSUME StreamThrows PROVE WakeInv'
  BY <1>21, <1>10 DEF StreamThrows, ThrowInStep, LeaveStep
<1>22. ASSUME StreamRefused PROVE WakeInv'
  BY <1>22, <1>10 DEF StreamRefused
<1>23. ASSUME Recovered PROVE WakeInv'
  BY <1>23, <1>10 DEF Recovered, ThrowInStep, LeaveStep
<1>24. ASSUME StreamFinished PROVE WakeInv'
  BY <1>24, <1>10 DEF StreamFinished, LeaveStep
<1>25. ASSUME StartCall PROVE WakeInv'
  BY <1>25, <1>10 DEF StartCall
<1>26. ASSUME CommitCall PROVE WakeInv'
  <2>1. UNCHANGED <<kind, cause, wakeRequested, pc, replay, owed>>
    BY <1>26 DEF CommitCall
  <2>2. Pending \subseteq Pending'
    <3>1. CASE UNCHANGED inbox
      BY <3>1 DEF Pending
    <3>2. CASE \E m \in Msgs : Insert(m, "next-step")
      BY <3>2, InsertPending
    <3> QED BY <1>26, <3>1, <3>2 DEF CommitCall
  <2> QED BY <2>1, <2>2, <1>0
<1>27. ASSUME SkipCall PROVE WakeInv'
  BY <1>27, <1>10 DEF SkipCall
<1>28. ASSUME SkipResult PROVE WakeInv'
  BY <1>28, <1>10 DEF SkipResult
<1>29. ASSUME ToolsDone PROVE WakeInv'
  BY <1>29, <1>10 DEF ToolsDone, LeaveStep
<1>30. ASSUME ToolsThrow PROVE WakeInv'
  BY <1>30, <1>10 DEF ToolsThrow, ThrowInStep, LeaveStep
<1>31. ASSUME EndStep PROVE WakeInv'
  BY <1>31, <1>10 DEF EndStep
<1>32. ASSUME StepDone PROVE WakeInv'
  BY <1>32, <1>9, <1>10 DEF StepDone, CatchInTurn, CloseTurn
<1>33. ASSUME Stopped PROVE WakeInv'
  BY <1>33, <1>9, <1>10 DEF Stopped, CatchInTurn, CloseTurn
<1>34. ASSUME LeaveTurn PROVE WakeInv'
  <2>1. pc = "turnClosed" /\ kind' = kind /\ replay' = replay /\ Pending' = Pending
    BY <1>34 DEF LeaveTurn, Pending
  <2>2. CASE Renew /\ pc' = "continuing" /\ owed' = owed
    BY <2>1, <2>2 DEF Renew, WakeInv, NoLostWake, DriverRuns, Aborted
  <2>3. CASE /\ pc' = "exiting" /\ owed' = (IF Aborted THEN owed ELSE {})
             /\ UNCHANGED <<cause, wakeRequested>>
    BY <2>1, <2>3 DEF WakeInv, NoLostWake, DriverRuns, Aborted
  <2> QED BY <1>34, <2>2, <2>3 DEF LeaveTurn
<1>35. ASSUME Settle PROVE WakeInv'
  <2>1. /\ pc = "exiting" /\ pc' = "settling" /\ kind' = "idle" /\ cause' = "none"
        /\ owed' = owed /\ Pending' = Pending
    BY <1>35 DEF Settle, Renew, Pending
  <2>2. wakeRequested => replay'
    BY <1>35 DEF Settle
  <2>3. owed # {} => wakeRequested
    BY <2>1 DEF WakeInv, DriverRuns
  <2> QED BY <2>1, <2>2, <2>3 DEF WakeInv, NoLostWake, DriverRuns, Aborted
<1>36. ASSUME Replay PROVE WakeInv'
  <2>1. pc = "settling" /\ Pending' = Pending /\ owed' = owed
    BY <1>36 DEF Replay, Pending
  <2>2. CASE StartDriver
    BY <2>1, <2>2 DEF StartDriver, Renew, WakeInv, NoLostWake, DriverRuns, Aborted
  <2>3. CASE /\ kind = "maintenance" /\ wakeRequested' = Latch(FALSE)
             /\ pc' = "rest" /\ UNCHANGED <<kind, cause>>
    <3>1. cause # "disposed" => wakeRequested'
      BY <2>3 DEF Latch
    <3> QED BY <2>1, <2>3, <3>1 DEF WakeInv, NoLostWake, DriverRuns, Aborted
  <2>4. CASE ~ReplayDue /\ pc' = "rest" /\ UNCHANGED <<kind, cause, wakeRequested>>
    <3>1. owed # {} => kind = "maintenance" /\ wakeRequested
      BY <2>1, <2>4 DEF WakeInv, ReplayDue
    <3> QED BY <2>1, <2>4, <3>1 DEF WakeInv, NoLostWake, DriverRuns, Aborted
  <2> QED BY <1>36, <2>2, <2>3, <2>4 DEF Replay
<1>37. CASE UNCHANGED vars
  BY <1>37, <1>0 DEF vars, Pending
<1> QED
  BY <1>1, <1>2, <1>3, <1>4, <1>5, <1>6, <1>7, <1>8, <1>11, <1>12, <1>13, <1>14,
     <1>15, <1>16, <1>17, <1>18, <1>19, <1>20, <1>21, <1>22, <1>23, <1>24, <1>25,
     <1>26, <1>27, <1>28, <1>29, <1>30, <1>31, <1>32, <1>33, <1>34, <1>35, <1>36, <1>37
  DEF Next, Call, Drive

(* No accepted wake is lost: an agent at rest owes none, whatever calls,   *)
(* aborts and maintenance raced with its driver.                           *)
THEOREM WakesAreServed == Spec => []NoLostWake
<1>1. Init => WakeInv
  BY DEF Init, WakeInv, NoLostWake, DriverRuns, Aborted, Causes
<1>2. TypeOK /\ WakeInv /\ [Next]_vars => WakeInv'
  BY WakeStep DEF TypeOK
<1>3. WakeInv => NoLostWake
  BY DEF WakeInv
<1> QED BY <1>1, <1>2, <1>3, TypeCorrect, PTL DEF Spec

-----------------------------------------------------------------------------
(* What AbortStopsWork asks of one step. *)
BeginsNothing ==
  Aborted /\ Aborted' =>
    /\ event' # event => event'.type \notin {"turn/start", "step/start",
                                             "request/header", "assistant/chunk"}
    /\ started' > started => pc' = "skipping"

LEMMA AbortStep ==
  ASSUME TypeData, [Next]_vars
  PROVE  BeginsNothing
<1> USE DEF phase, inbox, frame, round, log, history
<1>1. started \in Nat
  BY DEF TypeData
<1>2. ASSUME event' = event, started' = started PROVE BeginsNothing
  BY <1>1, <1>2 DEF BeginsNothing
<1>3. ASSUME NEW reason, CloseTurn(reason), started' = started PROVE BeginsNothing
  BY <1>1, <1>3 DEF CloseTurn, Event, BeginsNothing
<1>4. ASSUME CatchInTurn, started' = started PROVE BeginsNothing
  BY <1>2, <1>3, <1>4 DEF CatchInTurn
<1>5. ASSUME ~Aborted PROVE BeginsNothing
  BY <1>5 DEF BeginsNothing
<1>6. ASSUME Call PROVE BeginsNothing
  BY <1>2, <1>6 DEF Call, SendQuietly, SendIdle, SendBusy, Cancel, Withdraw, RunMaintenance
<1>7. ASSUME RestoreClaimed \/ ToolsThrow PROVE BeginsNothing
  BY <1>2, <1>7 DEF RestoreClaimed, ToolsThrow
<1>8. ASSUME BeginTurn PROVE BeginsNothing
  BY <1>2, <1>5, <1>8 DEF BeginTurn
<1>9. ASSUME OpenLoop PROVE BeginsNothing
  BY <1>2, <1>3, <1>9 DEF OpenLoop
<1>10. ASSUME PreStepFailed PROVE BeginsNothing
  BY <1>4, <1>10 DEF PreStepFailed
<1>11. ASSUME ErrorPublished PROVE BeginsNothing
  BY <1>3, <1>11 DEF ErrorPublished
<1>12. ASSUME Decided PROVE BeginsNothing
  BY <1>3, <1>5, <1>12 DEF Decided
<1>13. ASSUME RequestBuilt PROVE BeginsNothing
  BY <1>2, <1>5, <1>13 DEF RequestBuilt
<1>14. ASSUME StreamThrows PROVE BeginsNothing
  <2>1. event' \in {event, Event("assistant/message", turn, step)} /\ started' = started
    BY <1>14 DEF StreamThrows
  <2> QED BY <1>1, <2>1 DEF BeginsNothing, Event
<1>15. ASSUME Chunk \/ StreamFinished \/ StartCall PROVE BeginsNothing
  BY <1>5, <1>15 DEF Chunk, StreamFinished, StartCall, CanDispatch
<1>16. ASSUME CommitCall PROVE BeginsNothing
  BY <1>1, <1>16 DEF CommitCall, Event, BeginsNothing
<1>17. ASSUME SkipCall PROVE BeginsNothing
  BY <1>17 DEF SkipCall, Event, BeginsNothing
<1>18. ASSUME SkipResult PROVE BeginsNothing
  BY <1>1, <1>18 DEF SkipResult, Event, BeginsNothing
<1>19. ASSUME EndStep PROVE BeginsNothing
  <2>1. started' = 0 /\ event' = Event("step/end", turn, step)
    BY <1>19 DEF EndStep
  <2> QED BY <1>1, <2>1 DEF Event, BeginsNothing
<1>20. ASSUME StepDone PROVE BeginsNothing
  BY <1>2, <1>3, <1>4, <1>20 DEF StepDone
<1>21. ASSUME Stopped PROVE BeginsNothing
  BY <1>2, <1>3, <1>4, <1>21 DEF Stopped
<1>22. ASSUME \/ Assembled \/ PreStepped \/ EnterStep \/ StreamRefused \/ Recovered
              \/ ToolsDone \/ LeaveTurn \/ Settle \/ Replay \/ EndMaintenance
       PROVE  BeginsNothing
  BY <1>2, <1>22 DEF Assembled, PreStepped, EnterStep, StreamRefused, Recovered,
     ToolsDone, LeaveTurn, Settle, Replay, EndMaintenance
<1>23. CASE UNCHANGED vars
  BY <1>2, <1>23 DEF vars
<1> QED
  BY <1>6, <1>7, <1>8, <1>9, <1>10, <1>11, <1>12, <1>13, <1>14, <1>15, <1>16,
     <1>17, <1>18, <1>19, <1>20, <1>21, <1>22, <1>23 DEF Next, Drive

(* An aborted activity records no new turn, step, request or chunk and     *)
(* dispatches no tool, at whatever await the abort found it.               *)
THEOREM AbortIsRespected == Spec => AbortStopsWork
<1>1. TypeOK /\ [Next]_vars => [BeginsNothing]_vars
  BY AbortStep DEF TypeOK
<1>2. AbortStopsWork <=> [][BeginsNothing]_vars
  BY PTL DEF AbortStopsWork, BeginsNothing
<1> QED BY <1>1, <1>2, TypeCorrect, PTL DEF Spec

-----------------------------------------------------------------------------
(* The numbers of the open turn and step. *)
LEMMA NumberStep ==
  ASSUME TypeData, NumberInv, [Next]_vars
  PROVE  NumberInv'
<1> USE DEF NumberInv, TurnOpen, StepOpen, phase, inbox, frame, round, log, history
<1>0. turn \in Nat /\ step \in Nat /\ closedSteps \in Nat
  BY DEF TypeData
<1>1. ASSUME UNCHANGED <<turn, step, closedSteps>>,
             \/ pc' = pc
             \/ pc' \in {"rest", "turnClosed", "exiting", "settling"}
             \/ StepOpen /\ StepOpen'
             \/ TurnOpen /\ TurnOpen' /\ ~StepOpen /\ ~StepOpen'
      PROVE  NumberInv'
  BY <1>1
<1>2. ASSUME StartDriver, pc \in {"rest", "settling"} PROVE NumberInv'
  BY <1>2 DEF StartDriver, Renew
<1>3. ASSUME Call PROVE NumberInv'
  BY <1>1, <1>2, <1>3 DEF Call, SendQuietly, SendIdle, SendBusy, Cancel, Withdraw,
     RunMaintenance
<1>4. ASSUME BeginTurn PROVE NumberInv'
  BY <1>0, <1>4 DEF BeginTurn
<1>5. ASSUME RestoreClaimed \/ Assembled \/ PreStepped PROVE NumberInv'
  BY <1>1, <1>5 DEF RestoreClaimed, Assembled, PreStepped
<1>6. ASSUME OpenLoop PROVE NumberInv'
  BY <1>1, <1>6 DEF OpenLoop, CloseTurn, Claim
<1>7. ASSUME PreStepFailed \/ ErrorPublished PROVE NumberInv'
  BY <1>1, <1>7 DEF PreStepFailed, ErrorPublished, CatchInTurn, CloseTurn
<1>8. ASSUME Decided PROVE NumberInv'
  BY <1>0, <1>8 DEF Decided, CloseTurn
<1>9. ASSUME EnterStep \/ RequestBuilt \/ Chunk \/ StreamThrows \/ StreamRefused \/ Recovered
      PROVE  NumberInv'
  BY <1>1, <1>9 DEF EnterStep, RequestBuilt, Chunk, StreamThrows, StreamRefused, Recovered,
     ThrowInStep, LeaveStep
<1>10. ASSUME StreamFinished \/ StartCall \/ CommitCall \/ SkipCall \/ SkipResult
              \/ ToolsDone \/ ToolsThrow
       PROVE  NumberInv'
  BY <1>1, <1>10 DEF StreamFinished, StartCall, CommitCall, SkipCall, SkipResult,
     ToolsDone, ToolsThrow, ThrowInStep, LeaveStep
<1>11. ASSUME EndStep PROVE NumberInv'
  BY <1>0, <1>11 DEF EndStep
<1>12. ASSUME StepDone PROVE NumberInv'
  BY <1>1, <1>12 DEF StepDone, CatchInTurn, CloseTurn, Claim
<1>13. ASSUME Stopped PROVE NumberInv'
  BY <1>1, <1>13 DEF Stopped, CatchInTurn, CloseTurn, Claim
<1>14. ASSUME LeaveTurn PROVE NumberInv'
  BY <1>14 DEF LeaveTurn, Renew
<1>15. ASSUME Settle PROVE NumberInv'
  BY <1>15 DEF Settle, Renew
<1>16. ASSUME Replay PROVE NumberInv'
  BY <1>1, <1>2, <1>16 DEF Replay
<1>17. ASSUME EndMaintenance PROVE NumberInv'
  BY <1>1, <1>2, <1>17 DEF EndMaintenance
<1>18. CASE UNCHANGED vars
  BY <1>1, <1>18 DEF vars
<1> QED
  BY <1>3, <1>4, <1>5, <1>6, <1>7, <1>8, <1>9, <1>10, <1>11, <1>12, <1>13, <1>14,
     <1>15, <1>16, <1>17, <1>18 DEF Next, Drive

(* Every step of the driver appends an event the log's grammar allows in   *)
(* the state the log is in, or appends nothing.                            *)
LEMMA TraceStep ==
  ASSUME TypeData, NumberInv, [Next]_vars
  PROVE  [Trace!Next]_(Trace!vars)
<1> USE DEF NumberInv, TurnOpen, StepOpen, phase, inbox, frame, round, log, history
<1>0. /\ turn \in Nat /\ step \in Nat /\ closedSteps \in Nat
      /\ calls \in Nat /\ started \in Nat /\ committed \in Nat
      /\ committed <= started /\ started <= calls
  BY DEF TypeData
<1>1. ASSUME UNCHANGED <<turn, closedSteps, started, committed, event>>,
             TurnOpen' = TurnOpen, StepOpen' = StepOpen, StepOpen => step' = step
      PROVE  UNCHANGED Trace!vars
  BY <1>1 DEF Trace!vars
<1>2. ASSUME UNCHANGED <<turn, step, closedSteps, started, committed>>,
             TurnOpen, ~StepOpen, ~TurnOpen', ~StepOpen',
             event' = Event("turn/end", turn, 0)
      PROVE  Trace!TurnEnd
  BY <1>0, <1>2 DEF Trace!TurnEnd, Trace!Event, Event
<1>3. ASSUME NEW type \in {"assistant/chunk", "assistant/message"},
             UNCHANGED <<turn, step, closedSteps, started, committed>>,
             StepOpen, StepOpen', event' = Event(type, turn, step)
      PROVE  Trace!Assistant(type)
  BY <1>0, <1>3 DEF Trace!Assistant, Trace!Event, Event
<1> USE DEF Trace!Next
<1>4. ASSUME Call PROVE UNCHANGED Trace!vars
  BY <1>1, <1>4 DEF Call, SendQuietly, SendIdle, SendBusy, Cancel, Withdraw,
     RunMaintenance, StartDriver, Renew
<1>5. ASSUME BeginTurn PROVE [Trace!Next]_(Trace!vars)
  <2>1. CASE Aborted
    BY <1>1, <1>5, <2>1 DEF BeginTurn
  <2>2. CASE ~Aborted
    <3>1. Trace!TurnStart
      BY <1>0, <1>5, <2>2 DEF BeginTurn, Trace!TurnStart, Trace!Event, Event
    <3> QED BY <3>1
  <2> QED BY <2>1, <2>2
<1>6. ASSUME RestoreClaimed \/ Assembled \/ PreStepped PROVE UNCHANGED Trace!vars
  BY <1>1, <1>6 DEF RestoreClaimed, Assembled, PreStepped
<1>7. ASSUME OpenLoop PROVE [Trace!Next]_(Trace!vars)
  BY <1>1, <1>2, <1>7 DEF OpenLoop, CloseTurn, Claim
<1>8. ASSUME PreStepFailed \/ ErrorPublished PROVE [Trace!Next]_(Trace!vars)
  BY <1>1, <1>2, <1>8 DEF PreStepFailed, ErrorPublished, CatchInTurn, CloseTurn
<1>9. ASSUME Decided PROVE [Trace!Next]_(Trace!vars)
  <2>1. CASE step' = step
    BY <1>2, <1>9, <2>1, <1>0 DEF Decided, CloseTurn
  <2>2. CASE step' = step + 1
    <3>1. Trace!StepStart
      BY <1>0, <1>9, <2>2 DEF Decided, Trace!StepStart, Trace!Event, Event
    <3> QED BY <3>1
  <2> QED BY <1>9, <2>1, <2>2 DEF Decided
<1>10. ASSUME EnterStep \/ StreamRefused \/ Recovered \/ ToolsDone \/ ToolsThrow
       PROVE  UNCHANGED Trace!vars
  BY <1>1, <1>10 DEF EnterStep, StreamRefused, Recovered, ToolsDone, ToolsThrow,
     ThrowInStep, LeaveStep
<1>11. ASSUME RequestBuilt PROVE [Trace!Next]_(Trace!vars)
  <2>1. CASE event' = event
    BY <1>1, <1>11, <2>1 DEF RequestBuilt, ThrowInStep, LeaveStep
  <2>2. CASE event' = Event("request/header", 0, 0)
    <3>1. Trace!RequestRecord
      BY <1>0, <1>11, <2>2
      DEF RequestBuilt, ThrowInStep, LeaveStep, Trace!RequestRecord, Trace!Event, Event
    <3> QED BY <3>1
  <2> QED BY <1>11, <2>1, <2>2 DEF RequestBuilt
<1>12. ASSUME Chunk \/ StreamFinished PROVE [Trace!Next]_(Trace!vars)
  BY <1>3, <1>12 DEF Chunk, StreamFinished, LeaveStep
<1>13. ASSUME StreamThrows PROVE [Trace!Next]_(Trace!vars)
  <2>1. CASE event' = event
    BY <1>1, <1>13, <2>1 DEF StreamThrows, ThrowInStep, LeaveStep
  <2>2. CASE event' = Event("assistant/message", turn, step)
    BY <1>3, <1>13, <2>2 DEF StreamThrows, ThrowInStep, LeaveStep
  <2> QED BY <1>13, <2>1, <2>2 DEF StreamThrows
<1>14. ASSUME UNCHANGED <<turn, step, closedSteps, committed>>, StepOpen, StepOpen',
              started' = started + 1, event' = Event("tool/call", turn, step)
       PROVE  [Trace!Next]_(Trace!vars)
  <2>1. (committed' + 1) .. started' = ((committed + 1) .. started) \cup {started'}
    BY <1>0, <1>14
  <2>2. Trace!ToolCall(started') /\ started' \in (committed' + 1) .. started'
    BY <1>0, <1>14, <2>1 DEF Trace!ToolCall, Trace!Event, Event
  <2> QED BY <2>2
<1>15. ASSUME UNCHANGED <<turn, step, closedSteps, started>>, StepOpen, StepOpen',
              committed < started, committed' = committed + 1,
              event' = Event("tool/result", turn, step)
       PROVE  [Trace!Next]_(Trace!vars)
  <2>1. (committed' + 1) .. started' = ((committed + 1) .. started) \ {committed'}
    BY <1>0, <1>15
  <2>2. Trace!ToolResult(committed') /\ committed' \in (committed + 1) .. started
    BY <1>0, <1>15, <2>1 DEF Trace!ToolResult, Trace!Event, Event
  <2> QED BY <2>2
<1>16. ASSUME StartCall \/ SkipCall PROVE [Trace!Next]_(Trace!vars)
  BY <1>14, <1>16 DEF StartCall, SkipCall
<1>17. ASSUME CommitCall PROVE [Trace!Next]_(Trace!vars)
  BY <1>15, <1>17 DEF CommitCall
<1>18. ASSUME SkipResult PROVE [Trace!Next]_(Trace!vars)
  BY <1>15, <1>18 DEF SkipResult
<1>19. ASSUME EndStep PROVE [Trace!Next]_(Trace!vars)
  <2>1. (committed' + 1) .. started' = {}
    BY <1>19 DEF EndStep
  <2>2. Trace!StepEnd
    BY <1>0, <1>19, <2>1 DEF EndStep, Trace!StepEnd, Trace!Event, Event
  <2> QED BY <2>2
<1>20. ASSUME StepDone PROVE [Trace!Next]_(Trace!vars)
  BY <1>1, <1>2, <1>20 DEF StepDone, CatchInTurn, CloseTurn, Claim
<1>21. ASSUME Stopped PROVE [Trace!Next]_(Trace!vars)
  BY <1>1, <1>2, <1>21 DEF Stopped, CatchInTurn, CloseTurn, Claim
<1>22. ASSUME LeaveTurn \/ Settle \/ Replay \/ EndMaintenance PROVE UNCHANGED Trace!vars
  <2>1. UNCHANGED <<turn, closedSteps, started, committed, event>>
    BY <1>22 DEF LeaveTurn, Settle, Replay, EndMaintenance, StartDriver
  <2>2. ~TurnOpen /\ ~StepOpen /\ ~TurnOpen' /\ ~StepOpen'
    BY <1>22 DEF LeaveTurn, Settle, Replay, EndMaintenance, StartDriver
  <2> QED BY <1>1, <2>1, <2>2
<1>23. CASE UNCHANGED vars
  BY <1>1, <1>23 DEF vars
<1> QED
  BY <1>4, <1>5, <1>6, <1>7, <1>8, <1>9, <1>10, <1>11, <1>12, <1>13, <1>16, <1>17,
     <1>18, <1>19, <1>20, <1>21, <1>22, <1>23 DEF Next, Drive

(* The log of an agent obeys the grammar of invariant.js in every turn,    *)
(* step and tool round: the driver implements SessionTrace.                *)
THEOREM DriverImplementsTrace == Spec => TraceSpec
<1>1. Init => NumberInv /\ Trace!Init
  BY AgentAssumption
  DEF Init, NumberInv, TurnOpen, StepOpen, Event, Trace!Init, Trace!NoEvent
<1>2. TypeOK /\ NumberInv /\ [Next]_vars => NumberInv' /\ [Trace!Next]_(Trace!vars)
  BY NumberStep, TraceStep DEF TypeOK
<1> QED BY <1>1, <1>2, TypeCorrect, PTL DEF Spec, TraceSpec, Trace!Spec

-----------------------------------------------------------------------------
(* What a turn remembers of how its steps ended. *)
LEMMA ReasonStep ==
  ASSUME TypeFlags, ReasonInv, [Next]_vars
  PROVE  ReasonInv'
<1> USE DEF TurnOpen, phase, inbox, frame, round, log, history
<1>0. thrown \in BOOLEAN /\ truncated \in BOOLEAN
  BY DEF TypeFlags
<1>1. ASSUME ~TurnOpen', pc' # "turnClosed" PROVE ReasonInv'
  BY <1>1 DEF ReasonInv
<1>2. ASSUME NEW reason \in {"blocked", "aborted", "error"}, CloseTurn(reason)
      PROVE  ReasonInv'
  BY <1>2 DEF CloseTurn, ReasonInv
<1>3. ASSUME CatchInTurn PROVE ReasonInv'
  <2>1. CASE CloseTurn("aborted")
    BY <1>2, <2>1
  <2>2. CASE turnEnds' = "error" /\ pc' = "erring"
    BY <2>2 DEF ReasonInv
  <2> QED BY <1>3, <2>1, <2>2 DEF CatchInTurn
<1>4. ASSUME CloseTurn(turnEnds), TurnOpen, pc \notin {"stepReturned", "erring"},
             UNCHANGED <<step, stepEnd, truncated>>
      PROVE  ReasonInv'
  BY <1>4 DEF CloseTurn, ReasonInv
<1>5. ASSUME UNCHANGED <<turnEnds, stepEnd, truncated>>, TurnOpen,
             pc \notin {"stepReturned", "erring"}, pc' \notin {"erring", "turnClosed"},
             pc' = "stepReturned" => thrown'
      PROVE  ReasonInv'
  BY <1>5 DEF ReasonInv
<1>6. ASSUME UNCHANGED <<step, turnEnds, stepEnd, thrown, truncated, pc>>
      PROVE  ReasonInv'
  BY <1>6 DEF ReasonInv
<1>7. ASSUME Call PROVE ReasonInv'
  <2>1. ASSUME NEW m \in Msgs, NEW target \in Targets, SendIdle(m, target) PROVE ReasonInv'
    BY <1>1, <2>1 DEF SendIdle, StartDriver
  <2> QED BY <1>6, <1>7, <2>1 DEF Call, SendQuietly, SendBusy, Cancel, Withdraw, RunMaintenance
<1>8. ASSUME BeginTurn PROVE ReasonInv'
  <2>1. CASE pc' = "exiting"
    BY <1>1, <2>1
  <2>2. CASE pc' = "turnOpened" /\ turnEnds' = "none" /\ truncated' = FALSE
    BY <2>2 DEF ReasonInv
  <2> QED BY <1>8, <2>1, <2>2 DEF BeginTurn
<1>9. ASSUME OpenLoop PROVE ReasonInv'
  BY <1>2, <1>5, <1>9 DEF OpenLoop, Claim
<1>10. ASSUME RestoreClaimed \/ Assembled \/ PreStepped PROVE ReasonInv'
  BY <1>5, <1>10 DEF RestoreClaimed, Assembled, PreStepped
<1>11. ASSUME PreStepFailed PROVE ReasonInv'
  BY <1>3, <1>11 DEF PreStepFailed
<1>12. ASSUME ErrorPublished PROVE ReasonInv'
  BY <1>2, <1>12 DEF ErrorPublished
<1>13. ASSUME Decided PROVE ReasonInv'
  <2>1. CASE CloseTurn("blocked") \/ CloseTurn("aborted")
    BY <1>2, <2>1
  <2>2. CASE CloseTurn(turnEnds) /\ step' = step
    BY <1>4, <1>13, <2>2 DEF Decided
  <2>3. CASE CloseTurn("completed") /\ turnEnds = "none" /\ step = 0 /\ step' = step
    BY <1>13, <2>3 DEF Decided, CloseTurn, ReasonInv
  <2>4. CASE pc' = "stepOpened" /\ turnEnds' = turnEnds
    BY <1>5, <1>13, <2>4 DEF Decided
  <2> QED BY <1>13, <2>1, <2>2, <2>3, <2>4 DEF Decided
<1>14. ASSUME EnterStep \/ RequestBuilt \/ StreamThrows \/ Recovered \/ ToolsThrow
       PROVE  ReasonInv'
  BY <1>5, <1>14 DEF EnterStep, RequestBuilt, StreamThrows, Recovered, ToolsThrow,
     ThrowInStep, LeaveStep
<1>15. ASSUME Chunk \/ StreamRefused \/ StartCall \/ CommitCall \/ SkipCall \/ SkipResult
       PROVE  ReasonInv'
  BY <1>5, <1>15 DEF Chunk, StreamRefused, StartCall, CommitCall, SkipCall, SkipResult
<1>16. ASSUME StreamFinished PROVE ReasonInv'
  BY <1>0, <1>16 DEF StreamFinished, LeaveStep, ReasonInv
<1>17. ASSUME ToolsDone PROVE ReasonInv'
  BY <1>0, <1>17 DEF ToolsDone, LeaveStep, ReasonInv
<1>18. ASSUME EndStep PROVE ReasonInv'
  BY <1>0, <1>18 DEF EndStep, TurnEndsAfterStep, ReasonInv
<1>19. ASSUME StepDone PROVE ReasonInv'
  <2>1. CASE pc' \in {"stopping", "assembling"} /\ UNCHANGED turnEnds
    BY <1>5, <1>19, <2>1 DEF StepDone
  <2> QED BY <1>2, <1>3, <1>19, <2>1 DEF StepDone, Claim
<1>20. ASSUME Stopped PROVE ReasonInv'
  <2>1. CASE pc' = "assembling" /\ UNCHANGED turnEnds
    BY <1>5, <1>20, <2>1 DEF Stopped
  <2> QED BY <1>3, <1>4, <1>20, <2>1 DEF Stopped, Claim
<1>21. ASSUME LeaveTurn \/ Settle \/ Replay PROVE ReasonInv'
  BY <1>1, <1>21 DEF LeaveTurn, Settle, Replay, StartDriver
<1>22. ASSUME EndMaintenance PROVE ReasonInv'
  BY <1>1, <1>22 DEF EndMaintenance, StartDriver
<1>23. CASE UNCHANGED vars
  BY <1>6, <1>23 DEF vars
<1> QED
  BY <1>7, <1>8, <1>9, <1>10, <1>11, <1>12, <1>13, <1>14, <1>15, <1>16, <1>17,
     <1>18, <1>19, <1>20, <1>21, <1>22, <1>23 DEF Next, Drive

(* The step that closes a turn, and any step while its end is published,   *)
(* leaves alone what the end was derived from.                             *)
LEMMA CloseFrame ==
  ASSUME [Next]_vars, pc' = "turnClosed"
  PROVE  UNCHANGED <<step, stepEnd, truncated>>
<1> USE DEF phase, inbox, frame, round, log, history
<1>1. CASE Call
  BY <1>1 DEF Call, SendQuietly, SendIdle, SendBusy, Cancel, Withdraw, RunMaintenance,
     StartDriver
<1>2. CASE BeginTurn \/ OpenLoop \/ Assembled \/ RestoreClaimed \/ PreStepped \/ PreStepFailed
           \/ ErrorPublished \/ StepDone \/ Stopped
  BY <1>2 DEF BeginTurn, OpenLoop, Assembled, RestoreClaimed, PreStepped, PreStepFailed,
     ErrorPublished, StepDone, Stopped
<1>3. CASE Decided
  BY <1>3 DEF Decided
<1>4. CASE EnterStep \/ RequestBuilt \/ Chunk \/ StreamThrows \/ StreamRefused \/ Recovered
           \/ StreamFinished \/ StartCall \/ CommitCall \/ SkipCall \/ SkipResult
           \/ ToolsDone \/ ToolsThrow
  BY <1>4 DEF EnterStep, RequestBuilt, Chunk, StreamThrows, StreamRefused, Recovered,
     StreamFinished, StartCall, CommitCall, SkipCall, SkipResult, ToolsDone, ToolsThrow,
     ThrowInStep, LeaveStep
<1>5. CASE EndStep \/ LeaveTurn \/ Settle \/ Replay \/ EndMaintenance
  BY <1>5 DEF EndStep, LeaveTurn, Settle, Replay, EndMaintenance, StartDriver
<1>6. CASE UNCHANGED vars
  BY <1>6 DEF vars
<1> QED BY <1>1, <1>2, <1>3, <1>4, <1>5, <1>6 DEF Next, Drive

(* What CompletedIsAnswered and TruncationWins ask of one step. *)
Answered == pc' = "turnClosed" /\ turnEnds' = "completed" /\ step # 0 => stepEnd # "none"
NotTruncated == pc' = "turnClosed" /\ turnEnds' = "completed" => ~truncated

LEMMA ReasonCorrect == Spec => [](TypeOK /\ ReasonInv)
<1>1. Init => ReasonInv
  BY DEF Init, ReasonInv, TurnOpen
<1>2. TypeOK /\ ReasonInv /\ [Next]_vars => ReasonInv'
  BY ReasonStep DEF TypeOK
<1> QED BY <1>1, <1>2, TypeCorrect, PTL DEF Spec

LEMMA HonestStep ==
  ASSUME ReasonInv', [Next]_vars
  PROVE  Answered /\ NotTruncated
<1>1. SUFFICES ASSUME pc' = "turnClosed", turnEnds' = "completed"
               PROVE  (step = 0 \/ stepEnd # "none") /\ ~truncated
  BY DEF Answered, NotTruncated
<1>2. UNCHANGED <<step, stepEnd, truncated>>
  BY <1>1, CloseFrame
<1> QED BY <1>1, <1>2 DEF ReasonInv

(* A turn reported completed fed its last tool results back to the model,  *)
(* unless a tool concluded the turn.                                       *)
THEOREM CompletedMeansAnswered == Spec => CompletedIsAnswered
<1>1. ReasonInv' /\ [Next]_vars => [Answered]_vars
  BY HonestStep
<1>2. CompletedIsAnswered <=> [][Answered]_vars
  BY PTL DEF CompletedIsAnswered, Answered
<1> QED BY <1>1, <1>2, ReasonCorrect, PTL DEF Spec

(* One truncated step, and the turn is never reported completed.           *)
THEOREM TruncationIsReported == Spec => TruncationWins
<1>1. ReasonInv' /\ [Next]_vars => [NotTruncated]_vars
  BY HonestStep
<1>2. TruncationWins <=> [][NotTruncated]_vars
  BY PTL DEF TruncationWins, NotTruncated
<1> QED BY <1>1, <1>2, ReasonCorrect, PTL DEF Spec

-----------------------------------------------------------------------------
(***************************************************************************)
(* RoundSpec.  Outside a step's tools the round is closed with nothing     *)
(* counted, except that one that failed stays so until the step has ended. *)
(***************************************************************************)
Closed == ~InTools /\ ~(pc = "stepReturned" /\ thrown /\ calls # 0)

LEMMA RoundStep ==
  ASSUME TypeData, [Next]_vars
  PROVE  [Round!Next]_(Round!vars)
<1> USE DEF InTools, Closed, phase, inbox, frame, round, log, history
<1>0. /\ calls \in Nat /\ started \in Nat /\ committed \in Nat
      /\ committed <= started /\ started <= calls
      /\ pc \notin {"tools", "skipping", "stepReturned"} => calls = 0
  BY DEF TypeData
\* The agent is called: of the round, only the signal can change.
<1>1. ASSUME UNCHANGED <<pc, thrown, calls, started, committed>>,
             Aborted' = Aborted \/ Aborted' = TRUE
      PROVE  [Round!Next]_(Round!vars)
  BY <1>1 DEF Round!Next, Round!Abort, Round!vars
\* Nothing happens to a closed round but a new signal.
<1>2. ASSUME Closed, Closed', Aborted' = Aborted \/ Aborted' = FALSE
      PROVE  [Round!Next]_(Round!vars)
  BY <1>2 DEF Round!Next, Round!Rearm, Round!vars
<1>3. CASE Call
  <2>1. ASSUME NEW m \in Msgs, NEW target \in Targets, SendQuietly(m, target) \/ SendBusy(m, target)
        PROVE  [Round!Next]_(Round!vars)
    BY <2>1, <1>1 DEF SendQuietly, SendBusy, Aborted
  <2>2. ASSUME NEW m \in Msgs, NEW target \in Targets, SendIdle(m, target)
        PROVE  [Round!Next]_(Round!vars)
    <3>1. Closed /\ Closed' /\ Aborted' = FALSE
      BY <2>2 DEF SendIdle, StartDriver, Renew, Aborted
    <3> QED BY <3>1, <1>2
  <2>3. ASSUME NEW c \in Causes, NEW keepInbox \in BOOLEAN, Cancel(c, keepInbox)
        PROVE  [Round!Next]_(Round!vars)
    <3>1. Aborted' = Aborted \/ Aborted' = TRUE
      BY <2>3 DEF Cancel, Aborted, Causes
    <3> QED BY <3>1, <2>3, <1>1 DEF Cancel
  <2>4. ASSUME NEW m \in Msgs, Withdraw(m) PROVE [Round!Next]_(Round!vars)
    BY <2>4, <1>1 DEF Withdraw, Aborted
  <2>5. CASE RunMaintenance
    <3>1. Closed /\ Closed' /\ Aborted' = FALSE
      BY <2>5 DEF RunMaintenance, Aborted
    <3> QED BY <3>1, <1>2
  <2> QED BY <1>3, <2>1, <2>2, <2>3, <2>4, <2>5 DEF Call
<1>4. CASE BeginTurn \/ OpenLoop \/ Assembled \/ RestoreClaimed \/ PreStepped \/ PreStepFailed
  <2>1. Closed /\ Closed' /\ Aborted' = Aborted
    BY <1>4 DEF BeginTurn, OpenLoop, Assembled, RestoreClaimed, PreStepped, PreStepFailed,
       CatchInTurn, CloseTurn, Claim, Aborted
  <2> QED BY <2>1, <1>2
<1>5. CASE ErrorPublished \/ Decided \/ StepDone \/ Stopped
  <2>1. Closed /\ Closed' /\ Aborted' = Aborted
    BY <1>5 DEF ErrorPublished, Decided, StepDone, Stopped, CatchInTurn, CloseTurn, Claim, Aborted
  <2> QED BY <2>1, <1>2
<1>6. CASE EnterStep \/ RequestBuilt \/ Chunk \/ StreamThrows \/ StreamRefused \/ Recovered
  <2>1. Closed /\ Closed' /\ Aborted' = Aborted
    BY <1>0, <1>6 DEF EnterStep, RequestBuilt, Chunk, StreamThrows, StreamRefused, Recovered,
       ThrowInStep, LeaveStep, Aborted
  <2> QED BY <2>1, <1>2
<1>7. CASE StreamFinished
  <2>1. CASE pc' = "tools"
    <3>1. calls' \in Nat \ {0} /\ UNCHANGED <<started, committed, cause>> /\ pc = "streaming"
      BY <1>7, <2>1, AgentAssumption DEF StreamFinished, LeaveStep
    <3>2. Closed /\ started = 0 /\ committed = 0
      BY <1>0, <3>1
    <3>3. Round!Open
      BY <2>1, <3>1, <3>2 DEF Round!Open, Aborted
    <3> QED BY <3>3 DEF Round!Next
  <2>2. CASE pc' # "tools"
    <3>1. Closed /\ Closed' /\ Aborted' = Aborted
      BY <1>7, <2>2 DEF StreamFinished, LeaveStep, Aborted
    <3> QED BY <3>1, <1>2
  <2> QED BY <2>1, <2>2
<1>8. CASE StartCall
  <2>1. Round!Dispatch
    BY <1>8 DEF StartCall, CanDispatch, Aborted, Round!Dispatch
  <2> QED BY <2>1 DEF Round!Next
<1>9. CASE CommitCall
  <2>1. Round!Commit
    BY <1>9 DEF CommitCall, Aborted, Round!Commit
  <2> QED BY <2>1 DEF Round!Next
<1>10. CASE SkipCall
  <2>1. Round!SkipCall
    BY <1>0, <1>10 DEF SkipCall, CanSkip, Aborted, Round!SkipCall
  <2> QED BY <2>1 DEF Round!Next
<1>11. CASE SkipResult
  <2>1. pc' \in {"tools", "skipping"}
    BY <1>11 DEF SkipResult
  <2>2. Round!SkipResult
    BY <1>0, <1>11, <2>1 DEF SkipResult, Aborted, Round!SkipResult
  <2> QED BY <2>2 DEF Round!Next
<1>12. CASE ToolsDone
  <2>1. Round!Return
    BY <1>12 DEF ToolsDone, LeaveStep, Aborted, Round!Return, Round!Close
  <2> QED BY <2>1 DEF Round!Next
<1>13. CASE ToolsThrow
  <2>1. CASE calls # 0
    <3>1. Round!Fail
      BY <1>13, <2>1 DEF ToolsThrow, ThrowInStep, LeaveStep, Aborted, Round!Fail, Round!Close
    <3> QED BY <3>1 DEF Round!Next
  <2>2. CASE calls = 0
    <3>1. committed = 0
      BY <1>0, <2>2
    <3>2. Round!Return
      BY <1>13, <2>2, <3>1
      DEF ToolsThrow, ThrowInStep, LeaveStep, Aborted, Round!Return, Round!Close
    <3> QED BY <3>2 DEF Round!Next
  <2> QED BY <2>1, <2>2
<1>14. CASE EndStep
  <2>1. CASE Closed
    BY <1>2, <1>14, <2>1 DEF EndStep, Aborted
  <2>2. CASE ~Closed
    <3>1. Round!Forget
      BY <1>14, <2>2 DEF EndStep, Aborted, Round!Forget, Round!Close
    <3> QED BY <3>1 DEF Round!Next
  <2> QED BY <2>1, <2>2
<1>15. CASE LeaveTurn \/ Settle \/ Replay \/ EndMaintenance
  <2>1. Closed /\ Closed' /\ (Aborted' = Aborted \/ Aborted' = FALSE)
    BY <1>15 DEF LeaveTurn, Settle, Replay, EndMaintenance, StartDriver, Renew, Aborted
  <2> QED BY <2>1, <1>2
<1>16. CASE UNCHANGED vars
  BY <1>1, <1>16 DEF vars, Aborted
<1> QED
  BY <1>3, <1>4, <1>5, <1>6, <1>7, <1>8, <1>9, <1>10, <1>11, <1>12, <1>13, <1>14, <1>15, <1>16
  DEF Next, Drive

(* RoundSpec: the driver's view of a step's tool calls keeps the contract  *)
(* that ToolPool, the scheduler itself, is shown to implement.             *)
THEOREM DriverImplementsRound == Spec => RoundSpec
<1>1. Init => Round!Init
  BY DEF Init, InTools, Aborted, Round!Init
<1>2. TypeOK /\ [Next]_vars => [Round!Next]_(Round!vars)
  BY RoundStep DEF TypeOK
<1> QED BY <1>1, <1>2, TypeCorrect, PTL DEF Spec, RoundSpec, Round!Spec

-----------------------------------------------------------------------------
(* The driver's inbox, for every set of messages: a message is in one      *)
(* place at a time, however claims, restores, withdrawals and sends        *)
(* interleave.                                                             *)

(* OnePlace list by list.  What is sent later is new to all of them. *)
Apart(s, t) == ToSet(s) \cap ToSet(t) = {}

PlaceInv ==
  /\ IsInjective(claimed) /\ IsInjective(nextStep) /\ IsInjective(nextTurn)
  /\ Apart(claimed, nextStep) /\ Apart(claimed, nextTurn) /\ Apart(nextStep, nextTurn)
  /\ ToSet(claimed) \cup Pending \subseteq sent

-----------------------------------------------------------------------------
(* What the queue operations do to a list without repetitions. *)
LEMMA TailInjective ==
  ASSUME NEW S, NEW s \in Seq(S), s # <<>>, IsInjective(s)
  PROVE  IsInjective(Tail(s)) /\ Head(s) \notin ToSet(Tail(s))
<1>1. DOMAIN Tail(s) = 1 .. (Len(s) - 1) /\ \A i \in DOMAIN Tail(s) : Tail(s)[i] = s[i + 1]
  OBVIOUS
<1>2. Head(s) = s[1] /\ Len(s) \in Nat /\ Len(s) # 0 /\ DOMAIN s = 1 .. Len(s)
  OBVIOUS
<1>3. IsInjective(Tail(s))
  BY <1>1, <1>2 DEF IsInjective
<1>4. \A i \in DOMAIN Tail(s) : Tail(s)[i] # Head(s)
  BY <1>1, <1>2 DEF IsInjective
<1> QED BY <1>3, <1>4 DEF ToSet

LEMMA ConcatInjective ==
  ASSUME NEW S, NEW s \in Seq(S), NEW t \in Seq(S),
         IsInjective(s), IsInjective(t), Apart(s, t)
  PROVE  IsInjective(s \o t)
<1>1. /\ DOMAIN s = 1 .. Len(s) /\ DOMAIN t = 1 .. Len(t)
      /\ Len(s) \in Nat /\ Len(t) \in Nat
      /\ DOMAIN (s \o t) = 1 .. (Len(s) + Len(t))
      /\ \A i \in 1 .. Len(s) : (s \o t)[i] = s[i]
      /\ \A i \in 1 .. Len(s) + Len(t) : i > Len(s) => (s \o t)[i] = t[i - Len(s)]
  OBVIOUS
<1>2. \A i \in 1 .. Len(s), j \in 1 .. Len(t) : s[i] # t[j]
  BY <1>1 DEF Apart, ToSet
<1> SUFFICES ASSUME NEW i \in DOMAIN (s \o t), NEW j \in DOMAIN (s \o t),
                    (s \o t)[i] = (s \o t)[j]
             PROVE  i = j
  BY DEF IsInjective
<1>3. CASE i <= Len(s) /\ j <= Len(s)
  BY <1>1, <1>3 DEF IsInjective
<1>4. CASE i > Len(s) /\ j > Len(s)
  <2>1. /\ i - Len(s) \in 1 .. Len(t) /\ j - Len(s) \in 1 .. Len(t)
        /\ t[i - Len(s)] = t[j - Len(s)]
    BY <1>1, <1>4
  <2>2. i - Len(s) = j - Len(s)
    BY <1>1, <2>1 DEF IsInjective
  <2> QED BY <1>1, <2>2
<1>5. CASE i <= Len(s) /\ j > Len(s)
  <2>1. i \in 1 .. Len(s) /\ j - Len(s) \in 1 .. Len(t)
    BY <1>1, <1>5
  <2> QED BY <1>1, <1>2, <1>5, <2>1
<1>6. CASE i > Len(s) /\ j <= Len(s)
  <2>1. j \in 1 .. Len(s) /\ i - Len(s) \in 1 .. Len(t)
    BY <1>1, <1>6
  <2> QED BY <1>1, <1>2, <1>6, <2>1
<1> QED BY <1>1, <1>3, <1>4, <1>5, <1>6

LEMMA SmallInjective ==
  ASSUME NEW m
  PROVE  /\ IsInjective(<<>>) /\ ToSet(<<>>) = {}
         /\ IsInjective(<<m>>) /\ ToSet(<<m>>) = {m}
  BY DEF IsInjective, ToSet
LEMMA AppendIsInjective ==
  ASSUME NEW S, NEW s \in Seq(S), NEW m \in S, IsInjective(s), m \notin ToSet(s)
  PROVE  IsInjective(Append(s, m))
<1>1. Append(s, m) = s \o <<m>>
  OBVIOUS
<1>2. <<m>> \in Seq(S)
  OBVIOUS
<1>3. Apart(s, <<m>>)
  BY SmallInjective DEF Apart
<1>4. IsInjective(s \o <<m>>)
  BY <1>2, <1>3, SmallInjective, ConcatInjective
<1> QED BY <1>1, <1>4

LEMMA RemoveInjective ==
  ASSUME NEW S, NEW s \in Seq(S), NEW i \in DOMAIN s, IsInjective(s)
  PROVE  IsInjective(RemoveAt(s, i)) /\ ToSet(RemoveAt(s, i)) \subseteq ToSet(s)
<1> DEFINE a == SubSeq(s, 1, i - 1)
           b == SubSeq(s, i + 1, Len(s))
<1>1. Len(s) \in Nat /\ i \in 1 .. Len(s) /\ DOMAIN s = 1 .. Len(s)
  OBVIOUS
<1>2. /\ a \in Seq(S) /\ Len(a) = i - 1 /\ DOMAIN a = 1 .. i - 1
      /\ \A j \in 1 .. (i - 1) : a[j] = s[j]
  BY <1>1
<1>3. /\ b \in Seq(S) /\ Len(b) = Len(s) - i /\ DOMAIN b = 1 .. Len(s) - i
      /\ \A j \in 1 .. (Len(s) - i) : b[j] = s[i + j]
  BY <1>1
<1>4. RemoveAt(s, i) = a \o b
  BY DEF RemoveAt
<1> HIDE DEF a, b
<1>5. IsInjective(a) /\ IsInjective(b)
  <2>1. IsInjective(a)
    BY <1>1, <1>2 DEF IsInjective
  <2>2. ASSUME NEW j \in DOMAIN b, NEW k \in DOMAIN b, b[j] = b[k] PROVE j = k
    <3>1. i + j \in DOMAIN s /\ i + k \in DOMAIN s /\ s[i + j] = s[i + k]
      BY <1>1, <1>3, <2>2
    <3>2. i + j = i + k
      BY <3>1 DEF IsInjective
    <3> QED BY <3>2, <1>1, <1>3
  <2> QED BY <2>1, <2>2 DEF IsInjective
<1>6. Apart(a, b)
  <2>1. ASSUME NEW j \in 1 .. i - 1, NEW k \in 1 .. Len(s) - i PROVE s[j] # s[i + k]
    <3>1. j \in DOMAIN s /\ i + k \in DOMAIN s /\ j # i + k
      BY <1>1
    <3> QED BY <3>1 DEF IsInjective
  <2>2. ASSUME NEW j \in DOMAIN a, NEW k \in DOMAIN b PROVE a[j] # b[k]
    <3>1. j \in 1 .. i - 1 /\ a[j] = s[j]
      BY <1>2, <2>2
    <3>2. k \in 1 .. Len(s) - i /\ b[k] = s[i + k]
      BY <1>3, <2>2
    <3> QED BY <2>1, <3>1, <3>2
  <2> QED BY <2>2 DEF Apart, ToSet
<1>7. ToSet(a) \subseteq ToSet(s) /\ ToSet(b) \subseteq ToSet(s)
  <2>1. \A j \in DOMAIN a : j \in DOMAIN s /\ a[j] = s[j]
    BY <1>1, <1>2
  <2>2. \A j \in DOMAIN b : i + j \in DOMAIN s /\ b[j] = s[i + j]
    BY <1>1, <1>3
  <2> QED BY <2>1, <2>2 DEF ToSet
<1> QED BY <1>2, <1>3, <1>4, <1>5, <1>6, <1>7, ConcatInjective, ConcatSet

-----------------------------------------------------------------------------
LEMMA PlaceInit == Init => PlaceInv
<1> SUFFICES ASSUME Init PROVE PlaceInv
  OBVIOUS
<1>1. claimed = <<>> /\ nextStep = <<>> /\ sent = ToSet(nextTurn)
  BY DEF Init
<1>2. IsInjective(nextTurn)
  BY SmallInjective DEF Init
<1> QED BY <1>1, <1>2, SmallInjective DEF PlaceInv, Apart, Pending

LEMMA InsertPlace ==
  ASSUME TypeData, PlaceInv, NEW m \in Msgs, NEW target, Insert(m, target), claimed' = claimed
  PROVE  PlaceInv'
<1>1. /\ nextTurn \in Seq(Msgs) /\ nextStep \in Seq(Msgs)
      /\ sent' = sent \cup {m} /\ m \notin sent
  BY DEF TypeData, Insert
<1>2. /\ m \notin ToSet(nextTurn) /\ m \notin ToSet(nextStep) /\ m \notin ToSet(claimed)
      /\ IsInjective(nextTurn) /\ IsInjective(nextStep)
  BY <1>1 DEF PlaceInv, Pending
<1>3. CASE nextTurn' = Append(nextTurn, m) /\ nextStep' = nextStep
  <2>1. IsInjective(nextTurn') /\ ToSet(nextTurn') = ToSet(nextTurn) \cup {m}
    BY <1>1, <1>2, <1>3, AppendIsInjective, AppendSet
  <2> QED BY <1>1, <1>2, <1>3, <2>1 DEF PlaceInv, Apart, Pending
<1>4. CASE nextStep' = Append(nextStep, m) /\ nextTurn' = nextTurn
  <2>1. IsInjective(nextStep') /\ ToSet(nextStep') = ToSet(nextStep) \cup {m}
    BY <1>1, <1>2, <1>4, AppendIsInjective, AppendSet
  <2> QED BY <1>1, <1>2, <1>4, <2>1 DEF PlaceInv, Apart, Pending
<1> QED BY <1>3, <1>4 DEF Insert

LEMMA ClaimPlace ==
  ASSUME TypeData, PlaceInv, NEW target, Claim(target), sent' = sent
  PROVE  PlaceInv'
<1>1. nextTurn \in Seq(Msgs) /\ nextStep \in Seq(Msgs) /\ nextStep' = <<>>
  BY DEF TypeData, Claim
<1>2. CASE target = "next-turn" /\ nextTurn # <<>>
  <2> DEFINE h == Head(nextTurn)
             one == <<h>>
  <2>1. claimed' = nextStep \o one /\ nextTurn' = Tail(nextTurn)
    BY <1>2 DEF Claim
  <2>2. h \in Msgs /\ ToSet(nextTurn) = {h} \cup ToSet(nextTurn')
    BY <1>1, <1>2, <2>1, HeadTailSet
  <2>3. IsInjective(nextTurn') /\ h \notin ToSet(nextTurn')
    BY <1>1, <1>2, <2>1, TailInjective DEF PlaceInv
  <2>4. one \in Seq(Msgs) /\ IsInjective(one) /\ ToSet(one) = {h}
    BY <2>2, SmallInjective
  <2> HIDE DEF h, one
  <2>5. Apart(nextStep, one) /\ IsInjective(nextStep)
    BY <2>2, <2>4 DEF PlaceInv, Apart
  <2>6. IsInjective(claimed') /\ ToSet(claimed') = ToSet(nextStep) \cup {h}
    BY <1>1, <2>1, <2>4, <2>5, ConcatInjective, ConcatSet
  <2> QED
    BY ZenonT(60), <1>1, <2>2, <2>3, <2>6, SmallInjective DEF PlaceInv, Apart, Pending
<1>3. CASE ~(target = "next-turn" /\ nextTurn # <<>>)
  <2>1. claimed' = nextStep \o <<>> /\ nextTurn' = nextTurn
    BY <1>3 DEF Claim
  <2>2. claimed' = nextStep
    BY <1>1, <2>1
  <2> QED BY <1>1, <2>1, <2>2, SmallInjective DEF PlaceInv, Apart, Pending
<1> QED BY <1>2, <1>3

LEMMA WithdrawPlace ==
  ASSUME TypeData, PlaceInv, NEW m \in Msgs, Withdraw(m)
  PROVE  PlaceInv'
<1>1. nextTurn \in Seq(Msgs) /\ nextStep \in Seq(Msgs) /\ claimed' = claimed /\ sent' = sent
  BY DEF TypeData, Withdraw, frame
<1>2. ASSUME NEW i \in DOMAIN nextTurn,
             nextTurn' = RemoveAt(nextTurn, i), nextStep' = nextStep
      PROVE  PlaceInv'
  <2>1. IsInjective(nextTurn') /\ ToSet(nextTurn') \subseteq ToSet(nextTurn)
    BY <1>1, <1>2, RemoveInjective DEF PlaceInv
  <2> QED BY <1>1, <1>2, <2>1 DEF PlaceInv, Apart, Pending
<1>3. ASSUME NEW i \in DOMAIN nextStep,
             nextStep' = RemoveAt(nextStep, i), nextTurn' = nextTurn
      PROVE  PlaceInv'
  <2>1. IsInjective(nextStep') /\ ToSet(nextStep') \subseteq ToSet(nextStep)
    BY <1>1, <1>3, RemoveInjective DEF PlaceInv
  <2> QED BY <1>1, <1>3, <2>1 DEF PlaceInv, Apart, Pending
<1> QED BY <1>2, <1>3 DEF Withdraw

LEMMA RestorePlace ==
  ASSUME TypeData, PlaceInv, RestoreClaimed
  PROVE  PlaceInv'
<1>1. /\ claimed \in Seq(Msgs) /\ nextStep \in Seq(Msgs)
      /\ nextTurn' = nextTurn /\ claimed' = <<>> /\ sent' = sent
  BY DEF TypeData, RestoreClaimed, history
<1>2. PICK i \in DOMAIN claimed : nextStep' = RemoveAt(claimed, i) \o nextStep
  BY DEF RestoreClaimed
<1> DEFINE back == RemoveAt(claimed, i)
<1>3. back \in Seq(Msgs) /\ IsInjective(back) /\ ToSet(back) \subseteq ToSet(claimed)
  BY <1>1, RemoveAtSet, RemoveInjective DEF PlaceInv
<1> HIDE DEF back
<1>4. Apart(back, nextStep)
  BY <1>3 DEF PlaceInv, Apart
<1>5. nextStep' = back \o nextStep
  BY <1>2 DEF back
<1>6. IsInjective(nextStep') /\ ToSet(nextStep') = ToSet(back) \cup ToSet(nextStep)
  BY <1>1, <1>3, <1>4, <1>5, ConcatInjective, ConcatSet DEF PlaceInv
<1> QED BY <1>1, <1>3, <1>6, SmallInjective DEF PlaceInv, Apart, Pending

\* The driver's other steps move no message; some let go of what was claimed.
LEMMA StayPlace ==
  ASSUME PlaceInv, UNCHANGED <<inbox, sent>>, claimed' \in {claimed, <<>>}
  PROVE  PlaceInv'
  BY SmallInjective DEF PlaceInv, Apart, Pending, inbox

LEMMA PlaceStep ==
  ASSUME TypeData, PlaceInv, [Next]_vars
  PROVE  PlaceInv'
<1> USE DEF phase, inbox, frame, round, log, history
<1>1. ASSUME NEW m \in Msgs, NEW target \in Targets, SendQuietly(m, target) PROVE PlaceInv'
  BY <1>1, InsertPlace DEF SendQuietly
<1>2. ASSUME NEW m \in Msgs, NEW target \in Targets, SendIdle(m, target) PROVE PlaceInv'
  BY <1>2, InsertPlace DEF SendIdle
<1>3. ASSUME NEW m \in Msgs, NEW target \in Targets, SendBusy(m, target) PROVE PlaceInv'
  <2>1. Insert(m, IF Aborted THEN "next-turn" ELSE target) /\ claimed' = claimed
    BY <1>3 DEF SendBusy
  <2> QED BY <2>1, InsertPlace
<1>4. ASSUME NEW c \in Causes, NEW keepInbox \in BOOLEAN, Cancel(c, keepInbox) PROVE PlaceInv'
  <2>1. /\ claimed' = claimed /\ sent' = sent
        /\ nextTurn' \in {nextTurn, <<>>} /\ nextStep' \in {nextStep, <<>>}
    BY <1>4 DEF Cancel
  <2> QED BY <2>1, SmallInjective DEF PlaceInv, Apart, Pending
<1>5. ASSUME NEW m \in Msgs, Withdraw(m) PROVE PlaceInv'
  BY <1>5, WithdrawPlace
<1>6. CASE RunMaintenance BY <1>6, StayPlace DEF RunMaintenance
<1>7. CASE BeginTurn BY <1>7, StayPlace DEF BeginTurn
<1>8. CASE OpenLoop BY <1>8, StayPlace, ClaimPlace DEF OpenLoop
<1>9. CASE Assembled BY <1>9, StayPlace DEF Assembled
<1>10. CASE PreStepped BY <1>10, StayPlace DEF PreStepped
<1>11. CASE PreStepFailed BY <1>11, StayPlace DEF PreStepFailed
<1>12. CASE ErrorPublished BY <1>12, StayPlace DEF ErrorPublished
<1>13. CASE Decided BY <1>13, StayPlace DEF Decided
<1>14. CASE EnterStep BY <1>14, StayPlace DEF EnterStep
<1>15. CASE RequestBuilt BY <1>15, StayPlace DEF RequestBuilt
<1>16. CASE Chunk BY <1>16, StayPlace DEF Chunk
<1>17. CASE StreamThrows BY <1>17, StayPlace DEF StreamThrows
<1>18. CASE StreamRefused BY <1>18, StayPlace DEF StreamRefused
<1>19. CASE Recovered BY <1>19, StayPlace DEF Recovered
<1>20. CASE StreamFinished BY <1>20, StayPlace DEF StreamFinished
<1>21. CASE StartCall BY <1>21, StayPlace DEF StartCall
<1>22. CASE CommitCall
  <2>1. CASE UNCHANGED <<inbox, sent>>
    BY <1>22, <2>1, StayPlace DEF CommitCall
  <2>2. ASSUME NEW m \in Msgs, Insert(m, "next-step") PROVE PlaceInv'
    BY <1>22, <2>2, InsertPlace DEF CommitCall
  <2> QED BY <1>22, <2>1, <2>2 DEF CommitCall
<1>23. CASE SkipCall BY <1>23, StayPlace DEF SkipCall
<1>24. CASE SkipResult BY <1>24, StayPlace DEF SkipResult
<1>25. CASE ToolsDone BY <1>25, StayPlace DEF ToolsDone
<1>26. CASE EndStep BY <1>26, StayPlace DEF EndStep
<1>27. CASE StepDone BY <1>27, StayPlace, ClaimPlace DEF StepDone
<1>28. CASE Stopped BY <1>28, StayPlace, ClaimPlace DEF Stopped
<1>29. CASE LeaveTurn BY <1>29, StayPlace DEF LeaveTurn
<1>30. CASE Settle BY <1>30, StayPlace DEF Settle
<1>31. CASE Replay BY <1>31, StayPlace DEF Replay
<1>32. CASE EndMaintenance BY <1>32, StayPlace DEF EndMaintenance
<1>33. CASE RestoreClaimed BY <1>33, RestorePlace
<1>34. CASE ToolsThrow BY <1>34, StayPlace DEF ToolsThrow
<1>35. CASE UNCHANGED vars BY <1>35, StayPlace DEF vars
<1> QED
  BY <1>1, <1>2, <1>3, <1>4, <1>5, <1>6, <1>7, <1>8, <1>9, <1>10, <1>11, <1>12, <1>13, <1>14,
     <1>15, <1>16, <1>17, <1>18, <1>19, <1>20, <1>21, <1>22, <1>23, <1>24, <1>25, <1>26, <1>27,
     <1>28, <1>29, <1>30, <1>31, <1>32, <1>33, <1>34, <1>35 DEF Next, Call, Drive

LEMMA ApartSuffices ==
  ASSUME TypeData, PlaceInv
  PROVE  OnePlace
<1>1. claimed \in Seq(Msgs) /\ nextStep \in Seq(Msgs) /\ nextTurn \in Seq(Msgs)
  BY DEF TypeData
<1>2. /\ claimed \o nextStep \in Seq(Msgs) /\ IsInjective(claimed \o nextStep)
      /\ ToSet(claimed \o nextStep) = ToSet(claimed) \cup ToSet(nextStep)
  BY <1>1, ConcatInjective, ConcatSet DEF PlaceInv
<1>3. Apart(claimed \o nextStep, nextTurn)
  BY <1>2 DEF PlaceInv, Apart
<1>4. IsInjective((claimed \o nextStep) \o nextTurn)
  BY <1>1, <1>2, <1>3, ConcatInjective DEF PlaceInv
<1> QED BY <1>4 DEF OnePlace

(* OnePlace: no message is queued twice, or queued and claimed, whatever   *)
(* the agent's callers and the pre-step listeners do (inbox.js).           *)
THEOREM MessagesStayApart == Spec => []OnePlace
<1>1. Init => PlaceInv
  BY PlaceInit
<1>2. TypeOK /\ PlaceInv /\ [Next]_vars => PlaceInv'
  BY PlaceStep DEF TypeOK
<1>3. TypeOK /\ PlaceInv => OnePlace
  BY ApartSuffices DEF TypeOK
<1> QED BY <1>1, <1>2, <1>3, TypeCorrect, PTL DEF Spec
=============================================================================
