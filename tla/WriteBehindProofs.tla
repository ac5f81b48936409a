------------------------- MODULE WriteBehindProofs -------------------------
(***************************************************************************)
(* Proofs about WriteBehind for every set of flushing callers and every    *)
(* number of events: no event is lost, duplicated or reordered, writes     *)
(* never overlap, nothing pending is forgotten, and a flush that resolves  *)
(* has stored what it was asked to (WriteBehind implements DurableLog).    *)
(***************************************************************************)
EXTENDS WriteBehind, SequenceTheorems, TLAPS

(* Why the properties hold, action by action.        Control: who may be   *)
(* writing in each state of the barrier; a barrier that failed left        *)
(* retries paused.  Order: EverythingInOrder queue by queue.               *)
Control ==
  /\ barrier \in {"overlap", "draining"} => active # "none"
  /\ barrier \in {"overlapped", "written", "refused"} => active = "none"
  /\ barrier = "none" /\ active # "none" => background
  /\ barrier = "none" /\ continueDue => active = "none"
  /\ barrier = "refused" \/ (barrier = "draining" /\ active = "failed") => automaticPaused

Order ==
  /\ \A i \in 1 .. Len(stored) : stored[i] = i
  /\ \A i \in 1 .. Len(pending) : pending[i] = accepted - Len(pending) + i
  /\ active = "running" =>
       \A i \in 1 .. Len(batch) : batch[i] = accepted - Len(pending) - Len(batch) + i
  /\ Len(stored) <= accepted
  /\ active = "running" => accepted <= Len(stored) + Len(batch) + Len(pending)
  /\ active # "running" => accepted <= Len(stored) + Len(pending)
  /\ init \in {"pending", "seeding"} => stored = <<>>
  /\ init = "seeding" => accepted # 0

Promised ==
  \A f \in Flushers :
    /\ asked[f] <= accepted
    /\ flusher[f] = "resolved" => asked[f] <= Len(stored)

(* The fresh tail of the batch being written ends where the batch ends.    *)
LEMMA FreshTail ==
  ASSUME TypeOK, Order, active = "running"
  PROVE  /\ Fresh \in Seq(Nat)
         /\ Len(stored) + Len(Fresh) <= accepted
         /\ accepted <= Len(stored) + Len(Fresh) + Len(pending)
<1> DEFINE k == Len(stored)
           n == Len(batch)
           b == accepted - Len(pending) - n
           P(i) == /\ \A j \in 1 .. i - 1 : batch[j] <= k
                   /\ i <= n => batch[i] > k
           w == IF k - b <= n THEN k - b + 1 ELSE n + 1
<1>1. /\ k \in Nat /\ n \in Nat /\ Len(pending) \in Nat /\ accepted \in Nat
      /\ b \in Int /\ b <= k /\ k <= accepted
      /\ \A i \in 1 .. n : batch[i] = b + i
  BY DEF TypeOK, Order
<1>2. w \in 1 .. n + 1
  BY <1>1
<1>3. P(w)
  <2>1. ASSUME NEW j \in 1 .. w - 1 PROVE batch[j] <= k
    <3>1. j \in 1 .. n /\ b + j <= k
      BY <1>1
    <3> QED BY <3>1, <1>1
  <2>2. ASSUME w <= n PROVE batch[w] > k
    <3>1. w = k - b + 1 /\ w \in 1 .. n
      BY <2>2, <1>1, <1>2
    <3> QED BY SMTT(30), <3>1, <1>1
  <2> QED BY <2>1, <2>2
<1>4. FirstNew \in 1 .. n + 1 /\ P(FirstNew)
  BY <1>2, <1>3 DEF FirstNew
<1> HIDE DEF w
<1>5. /\ Fresh \in Seq(Nat) /\ Len(Fresh) = n + 1 - FirstNew
  <2>1. \A i \in FirstNew .. n : batch[i] \in Nat
    BY SMTT(30), <1>1, <1>4 DEF TypeOK
  <2> QED BY <1>1, <1>4, <2>1, SubSeqProperties DEF Fresh
<1>6. b + FirstNew - 1 <= k
  <2>1. CASE FirstNew = 1
    BY <2>1, <1>1
  <2>2. CASE FirstNew # 1
    <3>1. FirstNew - 1 \in 1 .. FirstNew - 1 /\ FirstNew - 1 \in 1 .. n
      BY <2>2, <1>1, <1>4
    <3> QED BY <3>1, <1>1, <1>4
  <2> QED BY <2>1, <2>2
<1>7. FirstNew <= n => b + FirstNew > k
  BY <1>1, <1>4
<1> HIDE DEF P, b
<1>8. accepted = b + n + Len(pending)
  BY <1>1 DEF b
<1> QED BY SMTT(30), <1>1, <1>4, <1>5, <1>6, <1>7, <1>8

LEMMA TypeStep ==
  ASSUME TypeOK, Order, [Next]_vars
  PROVE  TypeOK'
<1> USE DEF TypeOK, window, write, callers
<1>0. <<>> \in Seq(Nat)
  OBVIOUS
<1>1. ASSUME Enqueue PROVE TypeOK'
  <2>1. accepted + 1 \in Nat /\ Append(pending, accepted + 1) \in Seq(Nat)
    BY AppendProperties
  <2>2. timer' \in BOOLEAN /\ deadlineExpired' \in BOOLEAN /\ automaticPaused' \in BOOLEAN
    BY <1>1, Zenon DEF Enqueue, OpensWindow
  <2> QED BY <1>1, <2>1, <2>2 DEF Enqueue
<1>2. ASSUME OnDeadline PROVE TypeOK'
  BY <1>0, <1>2 DEF OnDeadline, StartWrite
<1>3. ASSUME Land PROVE TypeOK'
  <2>1. stored \o Fresh \in Seq(Nat)
    BY <1>3, FreshTail, ConcatProperties DEF Land
  <2> QED BY <1>3, <2>1 DEF Land
<1>4. ASSUME Fail PROVE TypeOK'
  <2>1. batch \o pending \in Seq(Nat)
    BY ConcatProperties
  <2> QED BY <1>4, <2>1 DEF Fail, Retained
<1>5. ASSUME Finally PROVE TypeOK'
  <2>1. continueDue' \in BOOLEAN
    BY <1>5, Zenon DEF Finally
  <2> QED BY <1>5, <2>1 DEF Finally
<1>6. ASSUME ContinueAutomatic PROVE TypeOK'
  BY ZenonT(60), <1>0, <1>6 DEF ContinueAutomatic, StartWrite
<1>7. ASSUME BarrierResumed PROVE TypeOK'
  <2>1. automaticPaused' \in BOOLEAN
    BY <1>7, Zenon DEF BarrierResumed
  <2> QED BY <1>0, <1>7, <2>1 DEF BarrierResumed, StartWrite, Settle
<1>8. ASSUME BarrierRefused PROVE TypeOK'
  BY <1>8 DEF BarrierRefused, Settle
<1>9. ASSUME InitSettles PROVE TypeOK'
  <2>1. <<1>> \in Seq(Nat)
    OBVIOUS
  <2> QED BY ZenonT(60), <1>9, <2>1 DEF InitSettles
<1>10. ASSUME NEW f \in Flushers, FlushAsked(f) PROVE TypeOK'
  BY <1>10 DEF FlushAsked
<1>11. ASSUME NEW f \in Flushers, Flush(f) PROVE TypeOK'
  BY ZenonT(60), <1>0, <1>11 DEF Flush, StartWrite
<1>12. ASSUME NEW f \in Flushers, FlushRefused(f) PROVE TypeOK'
  BY <1>12 DEF FlushRefused
<1> QED
  BY <1>1, <1>2, <1>3, <1>4, <1>5, <1>6, <1>7, <1>8, <1>9, <1>10, <1>11, <1>12
  DEF Next, Continuation, vars

LEMMA ControlStep ==
  ASSUME TypeOK, Control, [Next]_vars
  PROVE  Control'
<1> USE DEF TypeOK, Control, window, write, callers
<1>1. ASSUME Enqueue PROVE Control'
  <2>1. barrier # "none" => automaticPaused' = automaticPaused
    BY <1>1 DEF Enqueue
  <2> QED BY <1>1, <2>1 DEF Enqueue
<1>2. ASSUME OnDeadline PROVE Control'
  BY <1>2 DEF OnDeadline, StartWrite, Quiet, WriteAtDeadline
<1>3. ASSUME Land PROVE Control'
  BY <1>3 DEF Land
<1>4. ASSUME Fail PROVE Control'
  BY <1>4 DEF Fail
<1>5. ASSUME Finally PROVE Control'
  BY <1>5 DEF Finally
<1>6. ASSUME ContinueAutomatic PROVE Control'
  BY <1>6 DEF ContinueAutomatic, Overdue, StartWrite
<1>7. ASSUME BarrierResumed PROVE Control'
  BY <1>7 DEF BarrierResumed, StartWrite
<1>8. ASSUME BarrierRefused PROVE Control'
  BY <1>8 DEF BarrierRefused
<1>9. ASSUME InitSettles PROVE Control'
  BY <1>9 DEF InitSettles
<1>10. ASSUME NEW f \in Flushers, FlushAsked(f) PROVE Control'
  BY <1>10 DEF FlushAsked
<1>11. ASSUME NEW f \in Flushers, Flush(f) PROVE Control'
  BY <1>11 DEF Flush, StartWrite
<1>12. ASSUME NEW f \in Flushers, FlushRefused(f) PROVE Control'
  BY <1>12 DEF FlushRefused
<1> QED
  BY <1>1, <1>2, <1>3, <1>4, <1>5, <1>6, <1>7, <1>8, <1>9, <1>10, <1>11, <1>12
  DEF Next, Continuation, vars

(* A write that starts when none is active takes over the pending events.  *)
LEMMA StartKeepsOrder ==
  ASSUME TypeOK, Order, active # "running", NEW byDeadline, StartWrite(byDeadline),
         UNCHANGED <<accepted, stored, init>>
  PROVE  Order'
<1>1. Len(pending') = 0 /\ batch' = pending /\ active' = "running"
  BY DEF StartWrite
<1>2. accepted \in Nat /\ Len(pending) \in Nat
  BY DEF TypeOK
<1> QED BY <1>1, <1>2 DEF Order

LEMMA OrderStep ==
  ASSUME TypeOK, Control, Order, [Next]_vars
  PROVE  Order'
<1> USE DEF window, write, callers
<1>0. ASSUME UNCHANGED <<accepted, stored, pending, batch, active, init>> PROVE Order'
  BY <1>0 DEF Order
<1>1. ASSUME Enqueue PROVE Order'
  <2>1. /\ Len(pending') = Len(pending) + 1
        /\ \A i \in 1 .. Len(pending) : pending'[i] = pending[i]
        /\ pending'[Len(pending) + 1] = accepted + 1
        /\ accepted' = accepted + 1
        /\ UNCHANGED <<stored, batch, active, init>>
    <3>1. accepted + 1 \in Nat /\ pending \in Seq(Nat)
      BY DEF TypeOK
    <3> QED BY <1>1, <3>1, AppendProperties DEF Enqueue
  <2>2. Len(pending) \in Nat /\ accepted \in Nat /\ Len(stored) \in Nat /\ Len(batch) \in Nat
    BY DEF TypeOK
  <2>3. ASSUME NEW i \in 1 .. Len(pending')
        PROVE  pending'[i] = accepted' - Len(pending') + i
    <3>1. CASE i = Len(pending) + 1
      BY <2>1, <2>2, <3>1
    <3>2. CASE i # Len(pending) + 1
      <4>1. i \in 1 .. Len(pending)
        BY <2>1, <2>2, <3>2
      <4> QED BY <2>1, <2>2, <4>1 DEF Order
    <3> QED BY <3>1, <3>2
  <2> QED BY <2>1, <2>2, <2>3 DEF Order
<1>2. ASSUME OnDeadline PROVE Order'
  <2>1. CASE WriteAtDeadline
    BY <1>2, <2>1, StartKeepsOrder DEF OnDeadline, WriteAtDeadline
  <2>2. CASE ~WriteAtDeadline
    BY <1>0, <1>2, <2>2 DEF OnDeadline
  <2> QED BY <2>1, <2>2
<1>3. ASSUME Land PROVE Order'
  <2>1. /\ stored \in Seq(Nat) /\ Fresh \in Seq(Nat)
        /\ Len(stored) + Len(Fresh) <= accepted
        /\ accepted <= Len(stored) + Len(Fresh) + Len(pending)
    BY <1>3, FreshTail DEF Land, TypeOK
  <2>2. /\ Len(stored') = Len(stored) + Len(Fresh)
        /\ \A i \in 1 .. Len(stored) + Len(Fresh) :
             stored'[i] = IF i <= Len(stored) THEN stored[i] ELSE Fresh[i - Len(stored)]
    BY <1>3, <2>1, ConcatProperties DEF Land
  <2>3. \A i \in 1 .. Len(Fresh) : Fresh[i] = Len(stored) + i
    BY <1>3, <2>1 DEF Land, Contiguous
  <2>4. \A i \in 1 .. Len(stored') : stored'[i] = i
    <3>1. Len(stored) \in Nat /\ Len(Fresh) \in Nat
      BY <2>1
    <3> QED BY <3>1, <2>2, <2>3 DEF Order
  <2>5. /\ active' = "landed" /\ init' = init /\ init = "ready"
        /\ UNCHANGED <<accepted, pending, batch>>
    BY <1>3 DEF Land
  <2> QED BY <2>1, <2>2, <2>4, <2>5 DEF Order
<1>4. ASSUME Fail PROVE Order'
  <2>1. /\ batch \in Seq(Nat) /\ pending \in Seq(Nat) /\ accepted \in Nat
        /\ Len(batch) \in Nat /\ Len(pending) \in Nat
    BY DEF TypeOK
  <2>2. /\ Len(pending') = Len(batch) + Len(pending)
        /\ \A i \in 1 .. Len(batch) + Len(pending) :
             pending'[i] = IF i <= Len(batch) THEN batch[i] ELSE pending[i - Len(batch)]
    BY <1>4, <2>1, ConcatProperties DEF Fail, Retained
  <2>3. ASSUME NEW i \in 1 .. Len(pending')
        PROVE  pending'[i] = accepted - Len(pending') + i
    <3>1. CASE i <= Len(batch)
      <4>1. i \in 1 .. Len(batch) /\ active = "running"
        BY <1>4, <2>1, <2>2, <3>1 DEF Fail
      <4>2. pending'[i] = batch[i]
        BY <2>2, <3>1
      <4>3. batch[i] = accepted - Len(pending) - Len(batch) + i
        BY <4>1 DEF Order
      <4> QED BY <2>1, <2>2, <4>1, <4>2, <4>3
    <3>2. CASE ~(i <= Len(batch))
      <4>1. i - Len(batch) \in 1 .. Len(pending)
        BY <2>1, <2>2, <3>2
      <4>2. pending'[i] = pending[i - Len(batch)]
        BY <2>2, <3>2
      <4>3. pending[i - Len(batch)] = accepted - Len(pending) + (i - Len(batch))
        BY <4>1 DEF Order
      <4> QED BY <2>1, <2>2, <4>1, <4>2, <4>3
    <3> QED BY <3>1, <3>2
  <2>4. active = "running" /\ active' = "failed" /\ UNCHANGED <<accepted, stored, init>>
    BY <1>4 DEF Fail
  <2> QED BY <2>1, <2>2, <2>3, <2>4 DEF Order, TypeOK
<1>5. ASSUME Finally PROVE Order'
  BY <1>5 DEF Finally, Order
<1>6. ASSUME ContinueAutomatic PROVE Order'
  <2>1. CASE Overdue
    BY <1>6, <2>1, StartKeepsOrder DEF ContinueAutomatic, Overdue, Control
  <2>2. CASE ~Overdue
    BY <1>0, <1>6, <2>2 DEF ContinueAutomatic
  <2> QED BY <2>1, <2>2
<1>7. ASSUME BarrierResumed PROVE Order'
  <2>1. CASE ~Drained
    BY <1>7, <2>1, StartKeepsOrder DEF BarrierResumed, Control
  <2>2. CASE Drained
    BY <1>0, <1>7, <2>2 DEF BarrierResumed
  <2> QED BY <2>1, <2>2
<1>8. ASSUME BarrierRefused PROVE Order'
  BY <1>0, <1>8 DEF BarrierRefused
<1>9. ASSUME InitSettles PROVE Order'
  <2>1. CASE stored' = stored
    BY <1>9, <2>1 DEF InitSettles, Order
  <2>2. CASE init = "seeding" /\ init' = "ready" /\ stored' = <<1>>
    <3>1. Len(stored') = 1 /\ stored'[1] = 1
      BY <2>2
    <3>2. stored = <<>> /\ accepted # 0 /\ accepted \in Nat /\ Len(pending) \in Nat
          /\ Len(batch) \in Nat
      BY <2>2 DEF Order, TypeOK
    <3>3. UNCHANGED <<accepted, pending, batch, active>>
      BY <1>9 DEF InitSettles
    <3> QED BY <2>2, <3>1, <3>2, <3>3 DEF Order
  <2> QED BY <1>9, <2>1, <2>2 DEF InitSettles
<1>10. ASSUME NEW f \in Flushers, FlushAsked(f) PROVE Order'
  BY <1>0, <1>10 DEF FlushAsked
<1>11. ASSUME NEW f \in Flushers, Flush(f) PROVE Order'
  <2>1. CASE UNCHANGED <<pending, write>>
    BY <1>0, <1>11, <2>1 DEF Flush
  <2>2. CASE active = "none" /\ StartWrite(FALSE)
    BY <1>11, <2>2, StartKeepsOrder DEF Flush
  <2> QED BY <1>11, <2>1, <2>2 DEF Flush
<1>12. ASSUME NEW f \in Flushers, FlushRefused(f) PROVE Order'
  BY <1>0, <1>12 DEF FlushRefused
<1>13. ASSUME UNCHANGED vars PROVE Order'
  BY <1>0, <1>13 DEF vars
<1> QED
  BY <1>1, <1>2, <1>3, <1>4, <1>5, <1>6, <1>7, <1>8, <1>9, <1>10, <1>11, <1>12, <1>13
  DEF Next, Continuation

LEMMA InitOrder == Init => TypeOK /\ Control /\ Order
<1> SUFFICES ASSUME Init PROVE TypeOK /\ Control /\ Order
  OBVIOUS
<1>1. <<>> \in Seq(Nat) /\ Len(<<>>) = 0
  OBVIOUS
<1>2. <<1>> \in Seq(Nat) /\ Len(<<1>>) = 1 /\ <<1>>[1] = 1
  OBVIOUS
<1>3. TypeOK
  <2>1. accepted \in Nat /\ stored \in Seq(Nat) /\ pending \in Seq(Nat) /\ batch \in Seq(Nat)
    <3>1. accepted \in Nat
      BY DEF Init
    <3>2. pending = <<>> \/ pending = <<1>>
      BY DEF Init
    <3>3. stored = <<>> /\ batch = <<>>
      BY DEF Init
    <3> QED BY <1>1, <1>2, <3>1, <3>2, <3>3, Zenon
  <2>2. timer \in BOOLEAN /\ init \in {"pending", "seeding", "ready", "failed"}
    BY DEF Init
  <2> QED BY <2>1, <2>2 DEF Init, TypeOK
<1>4. Control
  BY DEF Init, Control
<1>5. Order
  <2>1. CASE pending = <<>> /\ accepted = 0 /\ init # "seeding"
    BY <1>1, <2>1 DEF Init, Order
  <2>2. CASE pending = <<1>> /\ accepted = 1
    BY <1>1, <1>2, <2>2 DEF Init, Order
  <2> QED BY <2>1, <2>2 DEF Init
<1> QED BY <1>3, <1>4, <1>5

(* The inductive invariant: types, who may be writing, and the order.      *)
LEMMA Inductive == Spec => [](TypeOK /\ Control /\ Order)
<1>1. TypeOK /\ Control /\ Order /\ [Next]_vars => (TypeOK /\ Control /\ Order)'
  BY TypeStep, ControlStep, OrderStep
<1> QED BY <1>1, InitOrder, PTL DEF Spec

(* The types of SessionWriteBehind's fields.                               *)
THEOREM TypeCorrect == Spec => []TypeOK
BY Inductive, PTL

(* No event is lost, duplicated or reordered on its way to storage.        *)
THEOREM NothingLost == Spec => []EverythingInOrder
<1>1. TypeOK /\ Order => EverythingInOrder
  <2> SUFFICES ASSUME TypeOK, Order PROVE EverythingInOrder
    OBVIOUS
  <2> USE DEF EverythingInOrder, Unsettled
  <2>1. /\ stored \in Seq(Nat) /\ pending \in Seq(Nat) /\ batch \in Seq(Nat)
        /\ accepted \in Nat
        /\ Len(stored) \in Nat /\ Len(pending) \in Nat /\ Len(batch) \in Nat
        /\ DOMAIN stored = 1 .. Len(stored) /\ DOMAIN pending = 1 .. Len(pending)
    BY DEF TypeOK
  <2>2. CASE active = "running"
    <3>1. /\ Unsettled = batch \o pending
          /\ Len(Unsettled) = Len(batch) + Len(pending)
          /\ DOMAIN Unsettled = 1 .. Len(batch) + Len(pending)
          /\ \A i \in 1 .. Len(batch) + Len(pending) :
               Unsettled[i] = IF i <= Len(batch) THEN batch[i] ELSE pending[i - Len(batch)]
      BY <2>1, <2>2, ConcatProperties
    <3>2. ASSUME NEW i \in 1 .. Len(batch) + Len(pending)
          PROVE  Unsettled[i] = accepted - Len(Unsettled) + i
      <4>1. CASE i <= Len(batch)
        <5>1. i \in 1 .. Len(batch)
          BY <2>1, <4>1
        <5>2. batch[i] = accepted - Len(pending) - Len(batch) + i
          BY <2>2, <5>1 DEF Order
        <5>3. Unsettled[i] = batch[i]
          BY <3>1, <4>1
        <5> HIDE DEF Unsettled
        <5> QED BY <2>1, <3>1, <5>1, <5>2, <5>3
      <4>2. CASE ~(i <= Len(batch))
        <5>1. i - Len(batch) \in 1 .. Len(pending)
          BY <2>1, <4>2
        <5>2. pending[i - Len(batch)] = accepted - Len(pending) + (i - Len(batch))
          BY <5>1 DEF Order
        <5>3. Unsettled[i] = pending[i - Len(batch)]
          BY <3>1, <4>2
        <5> HIDE DEF Unsettled
        <5> QED BY <2>1, <3>1, <5>1, <5>2, <5>3
      <4> QED BY <4>1, <4>2
    <3> HIDE DEF Unsettled
    <3>3. \A i \in DOMAIN Unsettled : Unsettled[i] = accepted - Len(Unsettled) + i
      BY <3>1, <3>2
    <3>4. /\ \A i \in DOMAIN stored : stored[i] = i
          /\ Len(stored) <= accepted /\ accepted <= Len(stored) + Len(Unsettled)
      BY <2>1, <2>2, <3>1 DEF Order
    <3> QED BY <3>3, <3>4
  <2>3. CASE active # "running"
    <3>1. Unsettled = pending
      BY <2>1, <2>3, ConcatEmptySeq
    <3>2. \A i \in 1 .. Len(pending) : pending[i] = accepted - Len(pending) + i
      BY DEF Order
    <3> HIDE DEF Unsettled
    <3>3. \A i \in DOMAIN Unsettled : Unsettled[i] = accepted - Len(Unsettled) + i
      BY <2>1, <3>1, <3>2
    <3>4. /\ \A i \in DOMAIN stored : stored[i] = i
          /\ Len(stored) <= accepted /\ accepted <= Len(stored) + Len(Unsettled)
      BY <2>1, <2>3, <3>1 DEF Order
    <3> QED BY <3>3, <3>4
  <2> QED BY <2>2, <2>3
<1> QED BY <1>1, Inductive, PTL

(* Two writes of a session never overlap: every caller of startWrite()     *)
(* knows that none is active.                                              *)
THEOREM WritesAlternate == Spec => OneWriteAtATime
<1>1. ASSUME TypeOK, Control, [Next]_vars, active # "none", active' # "none"
      PROVE  batch' = batch
  <2> USE <1>1 DEF window, write, callers
  <2>1. CASE Enqueue
    BY <2>1 DEF Enqueue
  <2>2. CASE OnDeadline
    BY <2>2 DEF OnDeadline, WriteAtDeadline
  <2>3. CASE Land \/ Fail
    BY <2>3 DEF Land, Fail
  <2>4. CASE Continuation
    BY <2>4 DEF Continuation, Finally, ContinueAutomatic, Overdue, BarrierResumed,
                BarrierRefused, Control
  <2>5. CASE InitSettles
    BY <2>5 DEF InitSettles
  <2>6. ASSUME NEW f \in Flushers, FlushAsked(f) \/ Flush(f) \/ FlushRefused(f)
        PROVE  batch' = batch
    BY <2>6 DEF FlushAsked, Flush, FlushRefused
  <2>7. CASE UNCHANGED vars
    BY <2>7 DEF vars
  <2> QED BY <2>1, <2>2, <2>3, <2>4, <2>5, <2>6, <2>7 DEF Next
<1> QED BY <1>1, Inductive, PTL DEF Spec, OneWriteAtATime

LEMMA StrandedStep ==
  ASSUME TypeOK, Control, NothingStranded, [Next]_vars
  PROVE  NothingStranded'
<1> USE DEF NothingStranded, Awaited, window, write, callers
<1>1. ASSUME Enqueue PROVE NothingStranded'
  BY <1>1 DEF Enqueue, OpensWindow, TypeOK
<1>2. ASSUME OnDeadline PROVE NothingStranded'
  BY <1>2 DEF OnDeadline, StartWrite, Quiet, WriteAtDeadline, Control
<1>3. ASSUME Land PROVE NothingStranded'
  BY <1>3 DEF Land
<1>4. ASSUME Fail PROVE NothingStranded'
  BY <1>4 DEF Fail
<1>5. ASSUME Finally PROVE NothingStranded'
  BY <1>5 DEF Finally
<1>6. ASSUME ContinueAutomatic PROVE NothingStranded'
  BY <1>6 DEF ContinueAutomatic, Overdue, StartWrite, Control, TypeOK
<1>7. ASSUME BarrierResumed PROVE NothingStranded'
  BY <1>7 DEF BarrierResumed, StartWrite, Drained
<1>8. ASSUME BarrierRefused PROVE NothingStranded'
  BY <1>8 DEF BarrierRefused, Control
<1>9. ASSUME InitSettles PROVE NothingStranded'
  BY <1>9 DEF InitSettles
<1>10. ASSUME NEW f \in Flushers, FlushAsked(f) PROVE NothingStranded'
  BY <1>10 DEF FlushAsked, TypeOK
<1>11. ASSUME NEW f \in Flushers, Flush(f) PROVE NothingStranded'
  BY <1>11 DEF Flush, StartWrite, Drained, TypeOK
<1>12. ASSUME NEW f \in Flushers, FlushRefused(f) PROVE NothingStranded'
  BY <1>12 DEF FlushRefused
<1> QED
  BY <1>1, <1>2, <1>3, <1>4, <1>5, <1>6, <1>7, <1>8, <1>9, <1>10, <1>11, <1>12
  DEF Next, Continuation, vars

(* Pending events always have something that will pick them up, unless     *)
(* retries are paused or the session could not be started.                 *)
THEOREM NothingForgotten == Spec => []NothingStranded
<1>1. Init => NothingStranded
  BY DEF Init, NothingStranded, Awaited
<1>2. TypeOK /\ Control /\ NothingStranded /\ [Next]_vars => NothingStranded'
  BY StrandedStep
<1> QED BY <1>1, <1>2, Inductive, PTL DEF Spec

LEMMA PromiseStep ==
  ASSUME TypeOK, Control, Order, Order', Promised, [Next]_vars
  PROVE  Promised'
<1> USE DEF Promised, window, write, callers
<1>1. accepted \in Nat /\ Len(stored) \in Nat /\ Len(pending) \in Nat
  BY DEF TypeOK
<1>2. ASSUME active # "running", Drained PROVE accepted <= Len(stored)
  <2>1. Len(pending) = 0
    BY <1>2 DEF Drained
  <2> QED BY <1>1, <1>2, <2>1 DEF Order
<1>3. ASSUME Enqueue PROVE Promised'
  BY <1>1, <1>3 DEF Enqueue, TypeOK
<1>4. ASSUME OnDeadline PROVE Promised'
  BY <1>4 DEF OnDeadline
<1>5. ASSUME Land PROVE Promised'
  <2>1. Len(stored') \in Nat /\ Len(stored) <= Len(stored')
    <3>1. stored \in Seq(Nat) /\ Fresh \in Seq(Nat)
      BY <1>5, FreshTail DEF Land, TypeOK
    <3> QED BY <1>5, <3>1, ConcatProperties DEF Land
  <2> QED BY <1>1, <1>5, <2>1 DEF Land, TypeOK
<1>6. ASSUME Fail PROVE Promised'
  BY <1>6 DEF Fail
<1>7. ASSUME Finally PROVE Promised'
  BY <1>7 DEF Finally
<1>8. ASSUME ContinueAutomatic PROVE Promised'
  BY <1>8 DEF ContinueAutomatic
<1>9. ASSUME BarrierResumed PROVE Promised'
  <2>1. CASE ~Drained
    BY <1>9, <2>1 DEF BarrierResumed
  <2>2. CASE Drained
    <3>1. accepted <= Len(stored)
      BY <1>2, <1>9, <2>2 DEF BarrierResumed, Control
    <3> QED BY <1>1, <1>9, <2>2, <3>1 DEF BarrierResumed, Settle, TypeOK
  <2> QED BY <2>1, <2>2
<1>10. ASSUME BarrierRefused PROVE Promised'
  BY <1>10 DEF BarrierRefused, Settle, TypeOK
<1>11. ASSUME InitSettles PROVE Promised'
  <2>1. CASE stored' = stored
    BY <1>11, <2>1 DEF InitSettles
  <2>2. CASE stored = <<>> /\ stored' = <<1>>
    <3>1. Len(stored) = 0 /\ Len(stored') = 1
      BY <2>2
    <3> QED BY <1>1, <1>11, <3>1 DEF InitSettles, TypeOK
  <2> QED BY <1>11, <2>1, <2>2 DEF InitSettles, Order
<1>12. ASSUME NEW f \in Flushers, FlushAsked(f) PROVE Promised'
  BY <1>1, <1>12 DEF FlushAsked, TypeOK
<1>13. ASSUME NEW f \in Flushers, Flush(f) PROVE Promised'
  <2>1. CASE flusher' = [flusher EXCEPT ![f] = "waiting"]
    BY <1>13, <2>1 DEF Flush, TypeOK
  <2>2. CASE flusher' = [flusher EXCEPT ![f] = "resolved"] /\ active = "none" /\ Drained
    <3>1. accepted <= Len(stored)
      BY <1>2, <2>2
    <3> QED BY <1>1, <1>13, <2>2, <3>1 DEF Flush, TypeOK
  <2> QED BY <1>13, <2>1, <2>2 DEF Flush
<1>14. ASSUME NEW f \in Flushers, FlushRefused(f) PROVE Promised'
  BY <1>14 DEF FlushRefused, TypeOK
<1> QED
  BY <1>3, <1>4, <1>5, <1>6, <1>7, <1>8, <1>9, <1>10, <1>11, <1>12, <1>13, <1>14
  DEF Next, Continuation, vars

(* Every step is a step of DurableLog or changes nothing it can see.       *)
LEMMA LogStep ==
  ASSUME TypeOK, Control, Order, Order', Promised, [Next]_vars
  PROVE  [Log!Next]_(Log!vars)
<1> DEFINE F == [f \in Flushers |-> IF flusher[f] \in {"init", "waiting"}
                                    THEN "asked" ELSE flusher[f]]
<1> USE DEF window, write, callers
<1>0. ASSUME UNCHANGED <<accepted, Len(stored), F, asked>> PROVE UNCHANGED Log!vars
  BY <1>0 DEF Log!vars
<1>1. accepted \in Nat /\ Len(stored) \in Nat /\ Len(stored') \in Int
  BY TypeStep DEF TypeOK
<1>2. F' = [f \in Flushers |-> IF flusher'[f] \in {"init", "waiting"}
                               THEN "asked" ELSE flusher'[f]]
  OBVIOUS
<1>3. ASSUME Enqueue PROVE Log!Accept
  BY <1>3 DEF Enqueue, Log!Accept
<1>4. ASSUME OnDeadline \/ Fail \/ Finally \/ ContinueAutomatic PROVE UNCHANGED Log!vars
  BY <1>0, <1>4 DEF OnDeadline, Fail, Finally, ContinueAutomatic
<1>5. ASSUME Land PROVE Log!Store
  <2>1. Len(stored) <= Len(stored') /\ Len(stored') <= accepted
    <3>1. stored \in Seq(Nat) /\ Fresh \in Seq(Nat) /\ Len(stored) + Len(Fresh) <= accepted
      BY <1>5, FreshTail DEF Land, TypeOK
    <3> QED BY <1>5, <3>1, ConcatProperties DEF Land
  <2> QED BY <1>1, <1>5, <2>1 DEF Land, Log!Store
<1>6. ASSUME InitSettles PROVE Log!Store
  <2>1. Len(stored) <= Len(stored') /\ Len(stored') <= accepted
    <3>1. CASE stored' = stored
      BY <1>1, <3>1 DEF Order
    <3>2. CASE stored = <<>> /\ stored' = <<1>> /\ init = "seeding"
      <4>1. Len(stored) = 0 /\ Len(stored') = 1
        BY <3>2
      <4> QED BY <1>1, <3>2, <4>1 DEF Order
    <3> QED BY <1>6, <3>1, <3>2 DEF InitSettles, Order
  <2> QED BY <1>1, <1>6, <2>1 DEF InitSettles, Log!Store
<1>7. ASSUME NEW f \in Flushers, FlushAsked(f) PROVE Log!Ask(f)
  <2>1. F[f] # "asked" /\ F' = [F EXCEPT ![f] = "asked"]
    BY <1>2, <1>7 DEF FlushAsked, TypeOK
  <2> QED BY <1>7, <2>1 DEF FlushAsked, Log!Ask
<1>8. ASSUME UNCHANGED <<accepted, stored, asked>>,
             flusher' \in [Flushers -> {"idle", "init", "waiting", "resolved", "rejected"}],
             \A f \in Flushers :
               \/ flusher'[f] = flusher[f]
               \/ /\ flusher[f] \in {"init", "waiting"}
                  /\ \/ flusher'[f] \in {"waiting", "rejected"}
                     \/ flusher'[f] = "resolved" /\ asked[f] <= Len(stored)
      PROVE  Log!Answer
  <2>1. F' \in [Flushers -> {"idle", "asked", "resolved", "rejected"}]
    BY <1>2, <1>8
  <2>2. \A f \in Flushers :
          \/ F'[f] = F[f]
          \/ /\ F[f] = "asked"
             /\ F'[f] = "rejected" \/ (F'[f] = "resolved" /\ asked[f] <= Len(stored))
    BY <1>2, <1>8
  <2> QED BY <1>8, <2>1, <2>2 DEF Log!Answer
<1>9. TypeOK' /\ Promised'
  BY TypeStep, PromiseStep
<1>10. ASSUME BarrierResumed \/ BarrierRefused PROVE Log!Answer
  BY <1>8, <1>9, <1>10 DEF BarrierResumed, BarrierRefused, Settle, TypeOK, Promised
<1>11. ASSUME NEW f \in Flushers, Flush(f) \/ FlushRefused(f) PROVE Log!Answer
  BY <1>8, <1>9, <1>11 DEF Flush, FlushRefused, TypeOK, Promised
<1>12. ASSUME UNCHANGED vars PROVE UNCHANGED Log!vars
  BY <1>0, <1>12 DEF vars
<1> QED
  BY <1>3, <1>4, <1>5, <1>6, <1>7, <1>10, <1>11, <1>12
  DEF Next, Continuation, Log!Next

(* The write-behind controller is a durable log: flushes keep their promise. *)
THEOREM FlushKeepsItsPromise == Spec => LogSpec
<1>1. Init => Promised /\ Log!Init
  <2> SUFFICES ASSUME Init PROVE Promised /\ Log!Init
    OBVIOUS
  <2>1. Len(stored) = 0 /\ accepted \in Nat
    BY DEF Init
  <2>2. Promised
    <3>1. \A f \in Flushers : flusher[f] = "idle" /\ asked[f] = 0
      BY DEF Init
    <3>2. 0 <= accepted /\ "idle" # "resolved"
      BY <2>1
    <3> QED BY <3>1, <3>2, Zenon DEF Promised
  <2>3. Log!Init
    <3>1. [f \in Flushers |-> IF flusher[f] \in {"init", "waiting"}
                              THEN "asked" ELSE flusher[f]] = [f \in Flushers |-> "idle"]
      BY DEF Init
    <3>2. asked = [f \in Flushers |-> 0]
      BY DEF Init
    <3> QED BY <2>1, <3>1, <3>2 DEF Log!Init
  <2> QED BY <2>2, <2>3
<1>2. TypeOK /\ Control /\ Order /\ Order' /\ Promised /\ [Next]_vars
        => Promised' /\ [Log!Next]_(Log!vars)
  BY PromiseStep, LogStep
<1> QED BY <1>1, <1>2, Inductive, PTL DEF Spec, LogSpec, Log!Spec
=============================================================================
