--------------------------- MODULE ToolPoolProofs ---------------------------
(***************************************************************************)
(* Proofs about ToolPool for every number of calls and every size of the   *)
(* pool: exclusive calls are barriers, an answer is the call's own, no     *)
(* tool runs on after the scheduler settled, and whatever the interleaving *)
(* of modes, settlements and aborts, the message's calls are one           *)
(* ToolRound.                                                              *)
(***************************************************************************)
EXTENDS ToolPool, SequenceTheorems, TLAPS

(* Where calls of the group are under way. *)
InGroup == pc \notin {"pick", "skipping", "done"}

(* The counters: everything before the group is answered, and an exclusive *)
(* group has one call.  Between groups, everything started is answered.    *)
Counters ==
  /\ first <= committed
  /\ InGroup => started <= last
  /\ InGroup => (mode = "exclusive" => last = first + 1)
  /\ pc = "pick" => first = started /\ committed = started
  /\ pc = "preparing" => committed < started
  /\ pc = "done" => committed = N
  /\ \A call \in exclusive : call <= committed \/ (InGroup /\ call = last)

(* The calls: unless the scheduler failed, a started call has an outcome   *)
(* or is in flight (the last one may still be prepared), so a pool that is *)
(* filled again and finds nothing in flight has answered all it started.   *)
Outcomes ==
  /\ pc \notin {"skipping", "done"} /\ ~failure =>
       /\ settled \subseteq slots
       /\ \A call \in 1 .. started :
            call \in slots \cup inFlight \/ (pc = "preparing" /\ call = started)
  /\ pc \in {"pick", "fill"} => ~failure
  /\ pc = "fill" => ~Ready
  /\ pc \in {"pick", "skipping", "done"} => inFlight = {}

(* The scheduler's copy of the signal is never ahead of it, and is current *)
(* whenever a call is about to be started.                                 *)
Halting ==
  /\ halted => aborted
  /\ pc = "fill" => (aborted => halted)
  /\ pc = "skipping" => aborted

PoolInv ==
  /\ TypeOK /\ Counters /\ Outcomes /\ Halting
  /\ AnswersAreOutcomes /\ NothingLeftRunning

LEMMA PoolInit == Init => PoolInv
<1> SUFFICES ASSUME Init PROVE PoolInv
  OBVIOUS
<1>1. aborted \in BOOLEAN /\ halted \in BOOLEAN /\ failure \in BOOLEAN
  BY Zenon DEF Init
<1>2. TypeOK
  BY <1>1, PoolAssumption DEF Init, TypeOK, Modes, Awaiting
<1>3. Counters
  BY PoolAssumption DEF Init, Counters, InGroup
<1>4. Outcomes /\ Halting
  BY DEF Init, Outcomes, Halting, InGroup
<1>5. AnswersAreOutcomes /\ NothingLeftRunning
  BY DEF Init, AnswersAreOutcomes, NothingLeftRunning
<1> QED BY <1>2, <1>3, <1>4, <1>5 DEF PoolInv

-----------------------------------------------------------------------------
LEMMA TypeStep ==
  ASSUME PoolInv, [Next]_vars
  PROVE  TypeOK'
<1> USE PoolAssumption DEF PoolInv, TypeOK, Modes, Awaiting, group, pool
<1>1. CASE OpenGroup BY <1>1 DEF OpenGroup
<1>2. CASE Return BY <1>2 DEF Return
<1>3. CASE StartCall
  <2>1. started' = started + 1 /\ started' \in 0 .. N
    BY <1>3 DEF StartCall, Room
  <2>2. exclusive' \subseteq 1 .. started'
    BY <1>3, <2>1 DEF StartCall
  <2> QED BY <1>3, <2>1, <2>2 DEF StartCall
<1>4. CASE Prepared
  <2>1. started \in 1 .. started
    BY <1>4 DEF Prepared, Counters
  <2>2. failure' \in BOOLEAN
    BY <1>4, Zenon DEF Prepared
  <2>3. inFlight' \subseteq 1 .. started /\ slots' \subseteq 1 .. started
    BY <1>4, <2>1 DEF Prepared
  <2> QED BY <1>4, <2>2, <2>3 DEF Prepared
<1>5. CASE CallStarted BY <1>5 DEF CallStarted
<1>6. CASE CommitNext
  <2>1. failure' \in BOOLEAN
    BY <1>6, Zenon DEF CommitNext
  <2>2. committed' \in 0 .. started
    BY <1>6 DEF CommitNext, Ready
  <2> QED BY <1>6, <2>1, <2>2 DEF CommitNext
<1>7. CASE CommitDone BY <1>7 DEF CommitDone
<1>8. CASE FillDone BY <1>8 DEF FillDone
<1>9. CASE Race BY <1>9 DEF Race
<1>10. CASE SkipCall BY <1>10 DEF SkipCall
<1>11. CASE SkipResult BY <1>11 DEF SkipResult
<1>12. CASE SkipDone BY <1>12 DEF SkipDone
<1>13. CASE Throw BY <1>13 DEF Throw
<1>14. CASE Abort BY <1>14 DEF Abort
<1>15. ASSUME NEW call \in 1 .. N, Settle(call) PROVE TypeOK'
  BY <1>15 DEF Settle
<1>16. CASE UNCHANGED vars BY <1>16 DEF vars
<1> QED
  BY <1>1, <1>2, <1>3, <1>4, <1>5, <1>6, <1>7, <1>8, <1>9, <1>10, <1>11, <1>12, <1>13, <1>14,
     <1>15, <1>16 DEF Next, Schedule

LEMMA CountersStep ==
  ASSUME PoolInv, [Next]_vars
  PROVE  Counters'
<1> USE PoolAssumption DEF PoolInv, TypeOK, Counters, InGroup, Modes, Awaiting, group, pool
<1>1. CASE OpenGroup BY <1>1 DEF OpenGroup
<1>2. CASE Return BY <1>2 DEF Return
<1>3. CASE StartCall
  <2>1. started' = started + 1 /\ started < last /\ pc = "fill" /\ pc' = "preparing"
    BY <1>3 DEF StartCall, Room
  <2>2. ASSUME NEW call \in exclusive' PROVE call <= committed \/ call = last
    <3>1. CASE call \in exclusive BY <3>1, <2>1
    <3>2. CASE call \notin exclusive
      <4>1. call = started + 1 /\ Joins("exclusive")
        BY <1>3, <2>2, <3>2 DEF StartCall
      <4>2. mode = "exclusive" /\ started = first
        BY <4>1 DEF Joins
      <4> QED BY <4>1, <4>2, <2>1
    <3> QED BY <3>1, <3>2
  <2> QED BY <1>3, <2>1, <2>2 DEF StartCall
<1>4. CASE Prepared BY <1>4 DEF Prepared
<1>5. CASE CallStarted BY <1>5 DEF CallStarted
<1>6. CASE CommitNext BY <1>6 DEF CommitNext
<1>7. CASE CommitDone BY <1>7 DEF CommitDone
<1>8. CASE FillDone
  <2>1. inFlight = {} => committed = started
    BY <1>8 DEF FillDone, Outcomes, Ready
  <2> QED BY <1>8, <2>1 DEF FillDone
<1>9. CASE Race BY <1>9 DEF Race
<1>10. CASE SkipCall BY <1>10 DEF SkipCall
<1>11. CASE SkipResult BY <1>11 DEF SkipResult
<1>12. CASE SkipDone BY <1>12 DEF SkipDone
<1>13. CASE Throw BY <1>13 DEF Throw
<1>14. CASE Abort BY <1>14 DEF Abort
<1>15. ASSUME NEW call \in 1 .. N, Settle(call) PROVE Counters'
  BY <1>15 DEF Settle
<1>16. CASE UNCHANGED vars BY <1>16 DEF vars
<1> QED
  BY <1>1, <1>2, <1>3, <1>4, <1>5, <1>6, <1>7, <1>8, <1>9, <1>10, <1>11, <1>12, <1>13, <1>14,
     <1>15, <1>16 DEF Next, Schedule

LEMMA OutcomesStep ==
  ASSUME PoolInv, [Next]_vars
  PROVE  Outcomes' /\ AnswersAreOutcomes' /\ NothingLeftRunning'
<1> DEFINE Goal == Outcomes' /\ AnswersAreOutcomes' /\ NothingLeftRunning'
<1> USE PoolAssumption DEF PoolInv, TypeOK, Counters, Outcomes, AnswersAreOutcomes,
        NothingLeftRunning, InGroup, Ready, Awaiting, group, pool
<1>1. CASE OpenGroup BY <1>1 DEF OpenGroup
<1>2. CASE Return BY <1>2 DEF Return
<1>3. CASE StartCall
  <2>1. started' = started + 1
    BY <1>3 DEF StartCall
  <2> QED BY <1>3, <2>1 DEF StartCall
<1>4. CASE Prepared BY <1>4 DEF Prepared
<1>5. CASE CallStarted BY <1>5 DEF CallStarted
<1>6. CASE CommitNext BY <1>6 DEF CommitNext
<1>7. CASE CommitDone BY <1>7 DEF CommitDone
<1>8. CASE FillDone BY <1>8 DEF FillDone
<1>9. CASE Race BY <1>9 DEF Race
<1>10. CASE SkipCall BY <1>10 DEF SkipCall
<1>11. CASE SkipResult BY <1>11 DEF SkipResult
<1>12. CASE SkipDone BY <1>12 DEF SkipDone
<1>13. CASE Throw BY <1>13 DEF Throw, AllSettled
<1>14. CASE Abort BY <1>14 DEF Abort
<1>15. ASSUME NEW call \in 1 .. N, Settle(call) PROVE Goal
  BY <1>15 DEF Settle
<1>16. CASE UNCHANGED vars BY <1>16 DEF vars
<1> QED
  BY <1>1, <1>2, <1>3, <1>4, <1>5, <1>6, <1>7, <1>8, <1>9, <1>10, <1>11, <1>12, <1>13, <1>14,
     <1>15, <1>16 DEF Next, Schedule

LEMMA HaltingStep ==
  ASSUME PoolInv, [Next]_vars
  PROVE  Halting'
<1> USE DEF PoolInv, Halting, Outcomes, Awaiting, group, pool
<1>1. CASE OpenGroup BY <1>1 DEF OpenGroup
<1>2. CASE Return BY <1>2 DEF Return
<1>3. CASE StartCall BY <1>3 DEF StartCall
<1>4. CASE Prepared BY <1>4 DEF Prepared
<1>5. CASE CallStarted BY <1>5 DEF CallStarted
<1>6. CASE CommitNext BY <1>6 DEF CommitNext
<1>7. CASE CommitDone
  <2>1. CASE failure
    BY <1>7, <2>1 DEF CommitDone
  <2>2. CASE ~failure
    <3>1. aborted' = aborted /\ halted' = (halted \/ aborted) /\ pc' = "fill"
      BY <1>7, <2>2 DEF CommitDone
    <3> QED BY <3>1
  <2> QED BY <2>1, <2>2
<1>8. CASE FillDone BY <1>8 DEF FillDone
<1>9. CASE Race BY <1>9 DEF Race
<1>10. CASE SkipCall BY <1>10 DEF SkipCall
<1>11. CASE SkipResult BY <1>11 DEF SkipResult
<1>12. CASE SkipDone BY <1>12 DEF SkipDone
<1>13. CASE Throw BY <1>13 DEF Throw
<1>14. CASE Abort BY <1>14 DEF Abort
<1>15. ASSUME NEW call \in 1 .. N, Settle(call) PROVE Halting'
  BY <1>15 DEF Settle
<1>16. CASE UNCHANGED vars BY <1>16 DEF vars
<1> QED
  BY <1>1, <1>2, <1>3, <1>4, <1>5, <1>6, <1>7, <1>8, <1>9, <1>10, <1>11, <1>12, <1>13, <1>14,
     <1>15, <1>16 DEF Next, Schedule

LEMMA PoolStep == PoolInv /\ [Next]_vars => PoolInv'
  BY TypeStep, CountersStep, OutcomesStep, HaltingStep DEF PoolInv

LEMMA PoolAlways == Spec => []PoolInv
  BY PoolInit, PoolStep, PTL DEF Spec

(* TypeOK: the scheduler's counters stay in their order and its sets among *)
(* the started calls, for every number of calls and size of the pool.      *)
THEOREM TypeCorrect == Spec => []TypeOK
<1>1. PoolInv => TypeOK
  BY DEF PoolInv
<1> QED BY <1>1, PoolAlways, PTL

(* AnswersAreOutcomes: commitReady() (tool-calls.js) appends no result of  *)
(* a call whose outcome is not known.                                      *)
THEOREM AnswersAreKnown == Spec => []AnswersAreOutcomes
<1>1. PoolInv => AnswersAreOutcomes
  BY DEF PoolInv
<1> QED BY <1>1, PoolAlways, PTL

(* NothingLeftRunning: whichever way executeToolCalls() settles, every     *)
(* tool it dispatched has settled before.                                  *)
THEOREM NothingOutlivesTheRound == Spec => []NothingLeftRunning
<1>1. PoolInv => NothingLeftRunning
  BY DEF PoolInv
<1> QED BY <1>1, PoolAlways, PTL

-----------------------------------------------------------------------------
(***************************************************************************)
(* BarrierHolds.  What the log has of the counters: no call beyond started *)
(* is recorded, and every call up to committed is answered.  A call is     *)
(* exclusive only as the first of its group (everything before the group   *)
(* is answered) and then the last of it (everything later waits).          *)
(***************************************************************************)
Recorded ==
  /\ log \in Seq([type : {"tool/call", "tool/result"}, call : Nat])
  /\ \A i \in DOMAIN log : log[i].type = "tool/call" => log[i].call <= started
  /\ \A call \in 1 .. committed :
       \E i \in DOMAIN log : log[i] = Entry("tool/result", call)

BarrierInv == PoolInv /\ Recorded /\ BarrierHolds

LEMMA BarrierInit == Init => BarrierInv
<1> SUFFICES ASSUME Init PROVE Recorded /\ BarrierHolds
  BY PoolInit DEF BarrierInv
<1> log = <<>> /\ committed = 0 /\ exclusive = {}
  BY DEF Init
<1> QED BY DEF Recorded, BarrierHolds

\* What appending one event leaves of the log.
LEMMA LogGrows ==
  ASSUME Recorded, NEW type \in {"tool/call", "tool/result"}, NEW call \in Nat,
         log' = Append(log, Entry(type, call))
  PROVE  /\ log' \in Seq([type : {"tool/call", "tool/result"}, call : Nat])
         /\ DOMAIN log = 1 .. Len(log) /\ Len(log) \in Nat
         /\ DOMAIN log' = 1 .. Len(log) + 1
         /\ \A i \in DOMAIN log : log'[i] = log[i]
         /\ log'[Len(log) + 1] = Entry(type, call)
  BY DEF Recorded, Entry

\* An answer disturbs no barrier.
LEMMA AnswerKeepsBarrier ==
  ASSUME BarrierInv, committed' = committed + 1, started' = started, exclusive' = exclusive,
         log' = Append(log, Entry("tool/result", committed'))
  PROVE  Recorded' /\ BarrierHolds'
<1> USE DEF BarrierInv, PoolInv, TypeOK
<1>0. committed \in Nat /\ committed' \in Nat
  BY PoolAssumption
<1>1. /\ log' \in Seq([type : {"tool/call", "tool/result"}, call : Nat])
      /\ DOMAIN log = 1 .. Len(log) /\ Len(log) \in Nat
      /\ DOMAIN log' = 1 .. Len(log) + 1
      /\ \A i \in DOMAIN log : log'[i] = log[i]
      /\ log'[Len(log) + 1] = Entry("tool/result", committed')
  BY <1>0, LogGrows
<1>2. Recorded'
  <2>1. \A i \in DOMAIN log' : log'[i].type = "tool/call" => log'[i].call <= started'
    BY <1>1 DEF Recorded, Entry
  <2>2. ASSUME NEW call \in 1 .. committed'
        PROVE  \E i \in DOMAIN log' : log'[i] = Entry("tool/result", call)
    <3>1. CASE call = committed' BY <3>1, <1>1
    <3>2. CASE call # committed'
      <4>1. PICK i \in DOMAIN log : log[i] = Entry("tool/result", call)
        BY <1>0, <3>2 DEF Recorded
      <4> QED BY <4>1, <1>1
    <3> QED BY <3>1, <3>2
  <2> QED BY <1>1, <2>1, <2>2 DEF Recorded
<1>3. BarrierHolds'
  <2> SUFFICES ASSUME NEW call \in exclusive, NEW i \in DOMAIN log',
                      log'[i] = Entry("tool/call", call)
               PROVE  /\ \A earlier \in 1 .. call - 1 :
                           \E j \in 1 .. i - 1 : log'[j] = Entry("tool/result", earlier)
                      /\ \A j \in DOMAIN log', later \in call + 1 .. N :
                           log'[j] = Entry("tool/call", later) =>
                             \E k \in 1 .. j - 1 : log'[k] = Entry("tool/result", call)
    BY DEF BarrierHolds
  <2>1. \A j \in DOMAIN log', c \in Nat :
          log'[j] = Entry("tool/call", c) => j \in DOMAIN log /\ log[j] = Entry("tool/call", c)
    BY <1>1 DEF Entry
  <2>2. i \in DOMAIN log /\ log[i] = Entry("tool/call", call)
    BY <2>1, PoolAssumption
  <2>3. ASSUME NEW earlier \in 1 .. call - 1
        PROVE  \E j \in 1 .. i - 1 : log'[j] = Entry("tool/result", earlier)
    <3>1. PICK j \in 1 .. i - 1 : log[j] = Entry("tool/result", earlier)
      BY <2>2 DEF BarrierHolds
    <3> QED BY <3>1, <2>2, <1>1
  <2>4. ASSUME NEW j \in DOMAIN log', NEW later \in call + 1 .. N,
               log'[j] = Entry("tool/call", later)
        PROVE  \E k \in 1 .. j - 1 : log'[k] = Entry("tool/result", call)
    <3>0. later \in Nat
      BY PoolAssumption
    <3>1. j \in DOMAIN log /\ log[j] = Entry("tool/call", later)
      BY <2>1, <2>4, <3>0
    <3>2. PICK k \in 1 .. j - 1 : log[k] = Entry("tool/result", call)
      BY <2>2, <3>1 DEF BarrierHolds
    <3> QED BY <3>1, <3>2, <1>1
  <2> QED BY <2>3, <2>4
<1> QED BY <1>2, <1>3

\* Nor does a call recorded when every exclusive one is answered, if it is
\* exclusive itself only when everything is.
LEMMA CallKeepsBarrier ==
  ASSUME BarrierInv, started' = started + 1, started' \in 1 .. N, committed' = committed,
         log' = Append(log, Entry("tool/call", started')),
         exclusive' \subseteq exclusive \cup {started'},
         started' \in exclusive' => committed = started,
         \A call \in exclusive : call <= committed
  PROVE  Recorded' /\ BarrierHolds'
<1> USE DEF BarrierInv, PoolInv, TypeOK
<1>0. committed \in Nat /\ started \in Nat /\ started' \in Nat /\ exclusive \subseteq 1 .. started
  BY PoolAssumption
<1>1. /\ log' \in Seq([type : {"tool/call", "tool/result"}, call : Nat])
      /\ DOMAIN log = 1 .. Len(log) /\ Len(log) \in Nat
      /\ DOMAIN log' = 1 .. Len(log) + 1
      /\ \A i \in DOMAIN log : log'[i] = log[i]
      /\ log'[Len(log) + 1] = Entry("tool/call", started')
  BY <1>0, LogGrows
<1>2. Recorded'
  <2>1. ASSUME NEW i \in DOMAIN log', log'[i].type = "tool/call"
        PROVE  log'[i].call <= started'
    <3>1. CASE i = Len(log) + 1 BY <3>1, <1>1, <1>0 DEF Entry
    <3>2. CASE i \in DOMAIN log
      <4>1. log[i] \in [type : {"tool/call", "tool/result"}, call : Nat]
        BY <3>2, <1>1, ElementOfSeq DEF Recorded
      <4>2. log[i].call <= started /\ log[i].call \in Nat
        BY <3>2, <2>1, <1>1, <4>1 DEF Recorded
      <4> QED BY <4>2, <3>2, <1>1, <1>0
    <3> QED BY <3>1, <3>2, <1>1
  <2>2. ASSUME NEW call \in 1 .. committed
        PROVE  \E i \in DOMAIN log' : log'[i] = Entry("tool/result", call)
    <3>1. PICK i \in DOMAIN log : log[i] = Entry("tool/result", call)
      BY DEF Recorded
    <3> QED BY <3>1, <1>1
  <2> QED BY <1>1, <2>1, <2>2 DEF Recorded
<1>3. BarrierHolds'
  <2> SUFFICES ASSUME NEW call \in exclusive', NEW i \in DOMAIN log',
                      log'[i] = Entry("tool/call", call)
               PROVE  /\ \A earlier \in 1 .. call - 1 :
                           \E j \in 1 .. i - 1 : log'[j] = Entry("tool/result", earlier)
                      /\ \A j \in DOMAIN log', later \in call + 1 .. N :
                           log'[j] = Entry("tool/call", later) =>
                             \E k \in 1 .. j - 1 : log'[k] = Entry("tool/result", call)
    BY DEF BarrierHolds
  <2>0. call \in 1 .. started'
    BY <1>0
  \* A call that was recorded is not the new one.
  <2>1. ASSUME NEW j \in DOMAIN log, NEW c, log[j] = Entry("tool/call", c)
        PROVE  c <= started
    <3>1. log[j].type = "tool/call" /\ log[j].call = c
      BY <2>1 DEF Entry
    <3> QED BY <3>1 DEF Recorded
  <2>2. ASSUME NEW earlier \in 1 .. call - 1
        PROVE  \E j \in 1 .. i - 1 : log'[j] = Entry("tool/result", earlier)
    <3>1. CASE i \in DOMAIN log
      <4>1. call <= started /\ call \in exclusive /\ log[i] = Entry("tool/call", call)
        BY <3>1, <2>1, <1>1, <1>0
      <4>2. PICK j \in 1 .. i - 1 : log[j] = Entry("tool/result", earlier)
        BY <3>1, <4>1 DEF BarrierHolds
      <4>3. j \in DOMAIN log
        BY <3>1, <1>1
      <4>4. log'[j] = Entry("tool/result", earlier)
        BY <4>2, <4>3, <1>1
      <4> QED BY <4>4
    <3>2. CASE i = Len(log) + 1
      <4>1. call = started'
        BY <3>2, <1>1 DEF Entry
      <4>2. earlier \in 1 .. committed
        BY <4>1, <1>0
      <4>3. PICK j \in DOMAIN log : log[j] = Entry("tool/result", earlier)
        BY <4>2 DEF Recorded
      <4> QED BY <4>3, <3>2, <1>1
    <3> QED BY <3>1, <3>2, <1>1
  <2>3. ASSUME NEW j \in DOMAIN log', NEW later \in call + 1 .. N,
               log'[j] = Entry("tool/call", later)
        PROVE  \E k \in 1 .. j - 1 : log'[k] = Entry("tool/result", call)
    <3>0. later \in Nat /\ later > call
      BY <2>0, PoolAssumption
    <3>1. call \in exclusive
      <4>1. later <= started'
        <5>1. CASE j \in DOMAIN log
          <6>1. log[j] = Entry("tool/call", later)
            BY <5>1, <2>3, <1>1
          <6> QED BY <5>1, <6>1, <2>1, <3>0, <1>0
        <5>2. CASE j = Len(log) + 1 BY <5>2, <2>3, <1>1 DEF Entry
        <5> QED BY SMTT(30), <5>1, <5>2, <1>1
      <4> QED BY <4>1, <3>0, <2>0, <1>0
    <3>2. i \in DOMAIN log /\ log[i] = Entry("tool/call", call)
      <4>1. call \in 1 .. started
        BY <3>1, <1>0
      <4>2. i # Len(log) + 1
        BY <4>1, <1>0, <1>1 DEF Entry
      <4> QED BY <4>2, <1>1
    <3>3. CASE j \in DOMAIN log
      <4>1. log[j] = Entry("tool/call", later)
        BY <3>3, <2>3, <1>1
      <4>2. PICK k \in 1 .. j - 1 : log[k] = Entry("tool/result", call)
        BY <3>1, <3>2, <3>3, <4>1 DEF BarrierHolds
      <4>3. k \in DOMAIN log
        BY <3>3, <1>1
      <4>4. log'[k] = Entry("tool/result", call)
        BY <4>2, <4>3, <1>1
      <4> QED BY <4>4
    <3>4. CASE j = Len(log) + 1
      <4>1. PICK k \in DOMAIN log : log[k] = Entry("tool/result", call)
        BY <3>1, <1>0 DEF Recorded
      <4> QED BY <4>1, <3>4, <1>1
    <3>5. j \in DOMAIN log \/ j = Len(log) + 1
      BY SMTT(30), <1>1
    <3> QED BY <3>3, <3>4, <3>5
  <2> QED BY <2>2, <2>3
<1> QED BY <1>2, <1>3

LEMMA BarrierStep == BarrierInv /\ [Next]_vars => BarrierInv'
<1> SUFFICES ASSUME BarrierInv, [Next]_vars PROVE Recorded' /\ BarrierHolds'
  BY PoolStep DEF BarrierInv
<1> PoolInv
  BY DEF BarrierInv
<1>1. CASE StartCall
  <2>1. started < last /\ InGroup
    BY <1>1 DEF StartCall, Room, InGroup
  <2>2. PICK m \in Modes : Joins(m) /\
          exclusive' = IF m = "exclusive" THEN exclusive \cup {started + 1} ELSE exclusive
    BY <1>1 DEF StartCall
  <2>3. started' = started + 1 /\ started' \in 1 .. N /\ committed' = committed
    BY <1>1, <2>1, PoolAssumption DEF StartCall, PoolInv, TypeOK
  <2>4. started' \in exclusive' => committed = started
    BY <2>2, <2>3 DEF PoolInv, TypeOK, Counters, Joins
  <2>5. \A call \in exclusive : call <= committed
    BY <2>1 DEF PoolInv, TypeOK, Counters
  <2> QED
    BY <1>1, <2>2, <2>3, <2>4, <2>5, CallKeepsBarrier DEF StartCall
<1>2. CASE SkipCall
  <2>1. started' = started + 1 /\ started' \in 1 .. N /\ committed' = committed
    BY <1>2, PoolAssumption DEF SkipCall, PoolInv, TypeOK
  <2>2. \A call \in exclusive : call <= committed
    BY <1>2 DEF SkipCall, PoolInv, TypeOK
  <2> QED
    BY <1>2, <2>1, <2>2, CallKeepsBarrier DEF SkipCall
<1>3. CASE CommitNext
  <2>1. CASE committed' = committed + 1 /\ log' = Append(log, Entry("tool/result", committed'))
    BY <1>3, <2>1, AnswerKeepsBarrier DEF CommitNext
  <2>2. CASE UNCHANGED <<committed, log>>
    BY <1>3, <2>2 DEF CommitNext, BarrierInv, Recorded, BarrierHolds
  <2> QED BY <1>3, <2>1, <2>2 DEF CommitNext
<1>4. CASE SkipResult
  BY <1>4, AnswerKeepsBarrier DEF SkipResult
<1>5. CASE UNCHANGED <<log, started, committed, exclusive>>
  BY <1>5 DEF BarrierInv, Recorded, BarrierHolds
<1>6. UNCHANGED <<log, started, committed, exclusive>> \/ StartCall \/ SkipCall \/ CommitNext \/ SkipResult
  BY DEF Next, Schedule, OpenGroup, Return, Prepared, CallStarted, CommitDone, FillDone, Race,
         SkipDone, Throw, Abort, Settle, vars
<1> QED BY <1>1, <1>2, <1>3, <1>4, <1>5, <1>6

(* BarrierHolds: whatever executionMode() answers when it is asked again   *)
(* (tool-calls.js), an exclusive call is recorded when all before it is    *)
(* answered, and nothing after it is recorded until it is.                 *)
THEOREM ExclusiveRunsAlone == Spec => []BarrierHolds
<1>1. BarrierInv => BarrierHolds
  BY DEF BarrierInv
<1> QED BY <1>1, BarrierInit, BarrierStep, PTL DEF Spec

-----------------------------------------------------------------------------
(***************************************************************************)
(* RoundSpec.  A round is open from the first pick until the scheduler     *)
(* settles, and skipping only between the record of a call that will not   *)
(* run and its answer.                                                     *)
(***************************************************************************)
RoundState ==
  CASE pc = "done" -> "closed"
    [] pc = "thrown" -> "failed"
    [] pc = "skipping" /\ committed # started -> "skipping"
    [] OTHER -> "open"

\* A step in which nothing a round knows of changes is a stutter.
LEMMA RoundStutters ==
  ASSUME ~Over, ~Over', UNCHANGED <<started, committed, aborted>>, RoundState' = RoundState
  PROVE  UNCHANGED Round!vars
  BY DEF RoundState, Over, Round!vars

LEMMA RoundStep == PoolInv /\ [Next]_vars => [Round!Next]_(Round!vars)
<1> SUFFICES ASSUME PoolInv, [Next]_vars PROVE Round!Next \/ UNCHANGED Round!vars
  OBVIOUS
<1> USE DEF group, pool
<1>1. ASSUME pc \in Awaiting \cup {"fill"}, pc' \in Awaiting \cup {"fill"},
             UNCHANGED <<started, committed, aborted>>
      PROVE  UNCHANGED Round!vars
  BY <1>1, RoundStutters DEF RoundState, Over, Awaiting
<1>2. CASE OpenGroup BY <1>2, <1>1 DEF OpenGroup, Awaiting
<1>3. CASE Return
  <2>1. Round!Return
    BY <1>3 DEF Return, PoolInv, TypeOK, Counters, Over, Round!Return, Round!Close
  <2> QED BY <2>1 DEF Round!Next
<1>4. CASE StartCall
  <2>1. ~aborted /\ started < N
    BY <1>4, PoolAssumption DEF StartCall, Room, PoolInv, TypeOK, Halting
  <2>2. Round!Dispatch
    BY <1>4, <2>1 DEF StartCall, Over, Round!Dispatch
  <2> QED BY <2>2 DEF Round!Next
<1>5. CASE Prepared BY <1>5, <1>1 DEF Prepared, Awaiting
<1>6. CASE CallStarted BY <1>6, <1>1 DEF CallStarted, Awaiting
<1>7. CASE CommitNext
  <2>1. CASE committed' = committed + 1 /\ UNCHANGED pc
    <3>1. committed < started
      BY <1>7 DEF CommitNext, Ready, PoolInv, TypeOK
    <3>2. Round!Commit
      BY <1>7, <2>1, <3>1 DEF CommitNext, Over, Round!Commit
    <3> QED BY <3>2 DEF Round!Next
  <2>2. CASE committed' = committed /\ pc' = "failing"
    BY <1>7, <2>2, <1>1 DEF CommitNext, Awaiting
  <2> QED BY <1>7, <2>1, <2>2 DEF CommitNext
<1>8. CASE CommitDone BY <1>8, <1>1 DEF CommitDone, Awaiting
<1>9. CASE FillDone
  <2>1. CASE pc' = "skipping"
    <3>1. inFlight = {} /\ pc = "fill"
      BY <1>9, <2>1 DEF FillDone
    <3>2. committed = started
      BY <3>1 DEF PoolInv, TypeOK, Counters, Outcomes, InGroup, Ready
    <3> QED BY <1>9, <2>1, <3>2, RoundStutters DEF FillDone, RoundState, Over
  <2>2. CASE pc' # "skipping"
    BY <1>9, <2>2, <1>1 DEF FillDone, Awaiting
  <2> QED BY <2>1, <2>2
<1>10. CASE Race BY <1>10, <1>1 DEF Race, Awaiting
<1>11. CASE SkipCall
  <2>1. aborted /\ started \in Nat
    BY <1>11, PoolAssumption DEF SkipCall, PoolInv, TypeOK, Halting
  <2>2. Round!SkipCall
    BY <1>11, <2>1 DEF SkipCall, Over, Round!SkipCall
  <2> QED BY <2>2 DEF Round!Next
<1>12. CASE SkipResult
  <2>1. Round!SkipResult
    BY <1>12 DEF SkipResult, PoolInv, TypeOK, Over, Round!SkipResult
  <2> QED BY <2>1 DEF Round!Next
<1>13. CASE SkipDone
  <2>1. committed = started
    BY <1>13, PoolAssumption DEF SkipDone, PoolInv, TypeOK
  <2>2. Round!Return
    BY <1>13, <2>1 DEF SkipDone, Over, Round!Return, Round!Close
  <2> QED BY <2>2 DEF Round!Next
<1>14. CASE Throw
  <2>1. Round!Fail
    BY <1>14 DEF Throw, Over, Round!Fail, Round!Close
  <2> QED BY <2>1 DEF Round!Next
<1>15. CASE Abort
  <2>1. Round!Abort
    BY <1>15 DEF Abort, Over, Awaiting, Round!Abort
  <2> QED BY <2>1 DEF Round!Next
<1>16. ASSUME NEW call \in 1 .. N, Settle(call) PROVE UNCHANGED Round!vars
  BY <1>16, <1>1 DEF Settle, Awaiting
<1>17. CASE UNCHANGED vars BY <1>17 DEF vars, Over, Round!vars
<1> QED
  BY <1>2, <1>3, <1>4, <1>5, <1>6, <1>7, <1>8, <1>9, <1>10, <1>11, <1>12, <1>13, <1>14, <1>15,
     <1>16, <1>17 DEF Next, Schedule

LEMMA RoundInit == Init => Round!Init
  BY PoolAssumption DEF Init, Over, Round!Init

(* RoundSpec: executeToolCalls() is one round of the contract AgentDriver  *)
(* models it by: started and answered in order, none dispatched after an   *)
(* abort, every call answered unless the scheduler failed.                 *)
THEOREM PoolImplementsRound == Spec => RoundSpec
  BY RoundInit, RoundStep, PoolAlways, PTL DEF Spec, RoundSpec, Round!Spec
=============================================================================
