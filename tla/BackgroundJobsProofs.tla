------------------------ MODULE BackgroundJobsProofs ------------------------
(***************************************************************************)
(* What BackgroundJobs.tla promises, for any jobs, agents and callers.     *)
(***************************************************************************)
EXTENDS BackgroundJobs, TLAPS

USE JobAssumption

(***************************************************************************)
(* Types                                                                   *)
(***************************************************************************)
LEMMA NoticeType ==
  ASSUME NEW j, NEW rep, NEW closed
  PROVE  Notice(j, rep, closed) \in {"sent", "spared", "unheard"}
  BY DEF Notice

LEMMA TypeInit == Init => TypeOK
  BY DEF Init, TypeOK, Terminal

\* The part of the type invariant that CancelForTeardown() must keep.
JobTypes ==
  /\ status \in [Jobs -> {"unstarted", "running", "stopping", "settled"}]
  /\ owner \in [Jobs -> Agents \cup {None}] /\ reported \in [Jobs -> BOOLEAN]
  /\ pc \in [Callers -> {"idle", "waiting", "expired", "resolved"}]
  /\ on \in [Callers -> Jobs \cup {None}]
  /\ notice \in [Jobs -> {"none", "sent", "spared", "unheard"}]
  /\ heard \in [Jobs -> BOOLEAN]
  /\ \A j \in Jobs : notice[j] # "none" <=> Terminal(j)
  /\ \A w \in Callers : (pc[w] = "idle" <=> on[w] = None)
  /\ \A w \in Callers : pc[w] = "resolved" => Terminal(on[w])

LEMMA TeardownTypes ==
  ASSUME TypeOK, NEW js \in SUBSET Jobs, NEW broken \in SUBSET Jobs, NEW closed \in BOOLEAN,
         CancelForTeardown(js, broken, closed)
  PROVE  JobTypes'
<1>1. /\ status' \in [Jobs -> {"unstarted", "running", "stopping", "settled"}]
      /\ owner' \in [Jobs -> Agents \cup {None}] /\ on' \in [Callers -> Jobs \cup {None}]
      /\ pc' \in [Callers -> {"idle", "waiting", "expired", "resolved"}]
  BY DEF TypeOK, CancelForTeardown, ToStop
<1>2. reported' \in [Jobs -> BOOLEAN] /\ heard' \in [Jobs -> BOOLEAN]
  BY Zenon DEF TypeOK, CancelForTeardown
<1>3. notice' \in [Jobs -> {"none", "sent", "spared", "unheard"}]
  BY ZenonT(60), NoticeType DEF TypeOK, CancelForTeardown
<1>4. \A j \in Jobs : notice'[j] # "none" <=> Terminal(j)'
  BY NoticeType DEF TypeOK, CancelForTeardown, ToStop, Terminal
<1>5. \A w \in Callers : (pc'[w] = "idle" <=> on'[w] = None)
  BY DEF TypeOK, CancelForTeardown
<1>6. \A w \in Callers : pc'[w] = "resolved" => Terminal(on[w])'
  BY DEF TypeOK, CancelForTeardown, ToStop, Terminal
<1> QED BY <1>1, <1>2, <1>3, <1>4, <1>5, <1>6 DEF JobTypes

LEMMA TypeStep == TypeOK /\ [Next]_vars => TypeOK'
<1> SUFFICES ASSUME TypeOK, [Next]_vars PROVE TypeOK'
  OBVIOUS
<1> USE DEF TypeOK, Terminal, registry, wait, agents, unit, told
<1>1. ASSUME NEW j \in Jobs, NEW a \in Agents \cup {None}, Start(j, a) PROVE TypeOK'
  BY <1>1 DEF Start
<1>2. ASSUME NEW j \in Jobs, NEW a \in Agents, Read(j, a) PROVE TypeOK'
  BY <1>2 DEF Read
<1>3. ASSUME NEW j \in Jobs, NEW a \in Agents, Kill(j, a) PROVE TypeOK'
  <2>1. CASE Terminal(j)
    BY <1>3, <2>1 DEF Kill
  <2>2. CASE ~Terminal(j)
    <3>1. reported' \in [Jobs -> BOOLEAN] /\ heard' \in [Jobs -> BOOLEAN]
      BY ZenonT(60), <1>3, <2>2 DEF Kill
    <3>2. status' = [status EXCEPT ![j] = "stopping"]
      BY <1>3, <2>2 DEF Kill
    <3>3. UNCHANGED <<store, owner, wait, agents, unit, serving, notice>>
      BY <1>3 DEF Kill
    <3> QED BY <2>2, <3>1, <3>2, <3>3
  <2> QED BY <2>1, <2>2
<1>4. ASSUME NEW j \in Jobs, Settle(j) PROVE TypeOK'
  BY <1>4, NoticeType DEF Settle, Active
<1>5. ASSUME NEW w \in Callers, NEW j \in Jobs, Wait(w, j) PROVE TypeOK'
  BY <1>5 DEF Wait
<1>6. ASSUME NEW w \in Callers, Expire(w) PROVE TypeOK'
  BY <1>6 DEF Expire
<1>7. ASSUME NEW w \in Callers, AbortWait(w) PROVE TypeOK'
  BY <1>7 DEF AbortWait, Back
<1>8. ASSUME NEW w \in Callers, Return(w) PROVE TypeOK'
  <2>1. CASE Terminal(on[w])
    <3>1. reported' \in [Jobs -> BOOLEAN] /\ heard' \in [Jobs -> BOOLEAN]
      BY ZenonT(60), <1>8, <2>1 DEF Return
    <3>2. Back(w) /\ UNCHANGED <<store, status, owner, agents, unit, serving, notice>>
      BY <1>8 DEF Return
    <3> QED BY <3>1, <3>2 DEF Back
  <2>2. CASE ~Terminal(on[w])
    BY <1>8, <2>2 DEF Return, Back
  <2> QED BY <2>1, <2>2
<1>9. ASSUME NEW a \in Agents, CloseScope(a) PROVE TypeOK'
  BY <1>9 DEF CloseScope
<1>10. ASSUME NEW a \in Agents, DisposeOwned(a) PROVE TypeOK'
  <2>1. OwnedBy(a) \in SUBSET Jobs
    BY DEF OwnedBy
  <2>2. CASE a \in cleanup
    <3>1. PICK broken \in SUBSET OwnedBy(a) :
            CancelForTeardown(OwnedBy(a), broken, ListenersClosed)
      BY <1>10, <2>2 DEF DisposeOwned
    <3>2. broken \in SUBSET Jobs /\ ListenersClosed \in BOOLEAN
      BY <2>1 DEF ListenersClosed
    <3>3. /\ cleanup' = cleanup \ {a} /\ store' = store
          /\ leaving' = [leaving EXCEPT ![a] = OwnedBy(a)]
          /\ life' = [life EXCEPT ![a] = "cleaning"]
          /\ unit' = unit /\ serving' = serving
      BY <1>10, <2>2 DEF DisposeOwned
    <3>4. /\ store' \subseteq Jobs /\ cleanup' \subseteq Agents
          /\ life' \in [Agents -> {"live", "closing", "cleaning", "clean", "gone"}]
          /\ leaving' \in [Agents -> SUBSET Jobs]
      BY <2>1, <3>3
    <3>5. /\ service' \in {"open", "unloading", "closing", "closed"}
          /\ ending' \subseteq Jobs /\ serving' \in BOOLEAN
      BY <3>3
    <3>6. JobTypes'
      BY <2>1, <3>1, <3>2, TeardownTypes
    <3> HIDE DEF Terminal
    <3> QED BY <3>4, <3>5, <3>6 DEF JobTypes
  <2>3. CASE a \notin cleanup
    BY <1>10, <2>3 DEF DisposeOwned
  <2> QED BY <2>2, <2>3
<1>11. ASSUME NEW a \in Agents, FinishCleanup(a) PROVE TypeOK'
  BY <1>11 DEF FinishCleanup
<1>12. ASSUME NEW a \in Agents, Detach(a) PROVE TypeOK'
  BY <1>12 DEF Detach
<1>13. ASSUME Unload PROVE TypeOK'
  BY <1>13 DEF Unload
<1>17. ASSUME DisposeAll PROVE TypeOK'
  BY <1>17, TeardownTypes DEF DisposeAll, JobTypes
<1>14. ASSUME FinishAll PROVE TypeOK'
  BY <1>14 DEF FinishAll
<1>15. ASSUME Reload PROVE TypeOK'
  BY <1>15, Zenon DEF Reload
<1>16. ASSUME UNCHANGED vars PROVE TypeOK'
  BY <1>16 DEF vars
<1> QED
  BY <1>1, <1>2, <1>3, <1>4, <1>5, <1>6, <1>7, <1>8, <1>9, <1>10, <1>11, <1>12,
     <1>13, <1>17, <1>14, <1>15, <1>16 DEF Next

(* Spec => []TypeOK: in particular a job has a notice exactly once it has  *)
(* settled, and no waiter is released before (settle()).                   *)
THEOREM TypeCorrect == Spec => []TypeOK
  BY TypeInit, TypeStep, PTL DEF Spec
-----------------------------------------------------------------------------
(***************************************************************************)
(* NoneOutlives.  A job on record either has an owner whose effect is      *)
(* attached, or is one of those its cleanup awaits.  An agent whose        *)
(* cleanup has begun takes no effect again: HasCleanup().  Nothing comes on *)
(* record once disposeAll() has looked, so what it awaits is all there is:  *)
(* that is Visible, which no starter passes when the fiber has left ACTIVE. *)
(***************************************************************************)
Recorded ==
  /\ \A j \in store : status[j] # "unstarted"
  /\ \A j \in Jobs : Active(j) => j \in store
  /\ \A j \in Jobs : owner[j] # None => status[j] # "unstarted"

Cleaned ==
  /\ \A a \in cleanup : life[a] \in {"live", "closing"}
  /\ \A j \in store : owner[j] # None =>
       \/ owner[j] \in cleanup
       \/ life[owner[j]] = "cleaning" /\ j \in leaving[owner[j]]
  /\ service = "closing" => store \subseteq ending
  /\ service = "closed" => store = {}

OutliveInv == TypeOK /\ Recorded /\ Cleaned

LEMMA OutliveInit == Init => OutliveInv
  BY TypeInit DEF Init, OutliveInv, Recorded, Cleaned, Active

\* What the teardown of js leaves of the jobs' states.
LEMMA TeardownKeepsRecords ==
  ASSUME TypeOK, Recorded, NEW js \in SUBSET store, NEW broken, NEW closed,
         CancelForTeardown(js, broken, closed), store' = store
  PROVE  Recorded'
  BY DEF TypeOK, Recorded, CancelForTeardown, ToStop, Terminal, Active

LEMMA OutliveStep == OutliveInv /\ [Next]_vars => OutliveInv'
<1> SUFFICES ASSUME OutliveInv, [Next]_vars PROVE Recorded' /\ Cleaned'
  BY TypeStep DEF OutliveInv
<1> USE DEF OutliveInv, TypeOK, Terminal, Active, registry, wait, agents, unit, told
<1>1. ASSUME NEW j \in Jobs, NEW a \in Agents \cup {None}, Start(j, a)
      PROVE  Recorded' /\ Cleaned'
  <2>1. Recorded'
    BY <1>1 DEF Start, Recorded
  <2>2. \A b \in cleanup' : life'[b] \in {"live", "closing"}
    BY <1>1 DEF Start, Cleaned, HasCleanup
  <2>3. ASSUME NEW i \in store', owner'[i] # None
        PROVE  \/ owner'[i] \in cleanup'
               \/ life'[owner'[i]] = "cleaning" /\ i \in leaving'[owner'[i]]
    BY <1>1, <2>3 DEF Start, Cleaned
  <2> QED BY <1>1, <2>1, <2>2, <2>3 DEF Start, Visible, Cleaned
<1>2. ASSUME NEW j \in Jobs, NEW a \in Agents, Read(j, a) PROVE Recorded' /\ Cleaned'
  BY <1>2 DEF Read, Recorded, Cleaned
<1>3. ASSUME NEW j \in Jobs, NEW a \in Agents, Kill(j, a) PROVE Recorded' /\ Cleaned'
  <2>1. Recorded'
    BY <1>3 DEF Kill, Recorded
  <2>2. Cleaned'
    BY <1>3 DEF Kill, Cleaned
  <2> QED BY <2>1, <2>2
<1>4. ASSUME NEW j \in Jobs, Settle(j) PROVE Recorded' /\ Cleaned'
  BY <1>4 DEF Settle, Recorded, Cleaned
<1>5. ASSUME NEW w \in Callers, NEW j \in Jobs, Wait(w, j) PROVE Recorded' /\ Cleaned'
  BY <1>5 DEF Wait, Recorded, Cleaned
<1>6. ASSUME NEW w \in Callers, Expire(w) \/ AbortWait(w) PROVE Recorded' /\ Cleaned'
  BY <1>6 DEF Expire, AbortWait, Recorded, Cleaned
<1>7. ASSUME NEW w \in Callers, Return(w) PROVE Recorded' /\ Cleaned'
  BY <1>7 DEF Return, Recorded, Cleaned
<1>8. ASSUME NEW a \in Agents, CloseScope(a) PROVE Recorded' /\ Cleaned'
  BY <1>8 DEF CloseScope, Recorded, Cleaned
<1>9. ASSUME NEW a \in Agents, DisposeOwned(a) PROVE Recorded' /\ Cleaned'
  <2>1. CASE a \in cleanup
    <3>1. PICK broken : CancelForTeardown(OwnedBy(a), broken, ListenersClosed)
      BY <1>9, <2>1 DEF DisposeOwned
    <3>2. Recorded'
      BY <1>9, <3>1, TeardownKeepsRecords DEF DisposeOwned, OwnedBy
    <3>3. Cleaned'
      <4>1. /\ cleanup' = cleanup \ {a} /\ leaving' = [leaving EXCEPT ![a] = OwnedBy(a)]
            /\ life' = [life EXCEPT ![a] = "cleaning"]
            /\ store' = store /\ unit' = unit
        BY <1>9, <2>1 DEF DisposeOwned
      <4>2. owner' = owner
        BY <3>1 DEF CancelForTeardown
      <4>3. ASSUME NEW j \in store, owner[j] # None
            PROVE  \/ owner[j] \in cleanup'
                   \/ life'[owner[j]] = "cleaning" /\ j \in leaving'[owner[j]]
        BY <4>1, <4>3 DEF OwnedBy, Cleaned
      <4>4. \A b \in cleanup' : life'[b] \in {"live", "closing"}
        BY <4>1 DEF Cleaned
      <4> QED BY <4>1, <4>2, <4>3, <4>4 DEF Cleaned
    <3> QED BY <3>2, <3>3
  <2>2. CASE a \notin cleanup
    BY <1>9, <2>2 DEF DisposeOwned, Recorded, Cleaned
  <2> QED BY <2>1, <2>2
<1>10. ASSUME NEW a \in Agents, FinishCleanup(a) PROVE Recorded' /\ Cleaned'
  BY <1>10 DEF FinishCleanup, Recorded, Cleaned
<1>11. ASSUME NEW a \in Agents, Detach(a) PROVE Recorded' /\ Cleaned'
  BY <1>11 DEF Detach, Recorded, Cleaned
<1>12. ASSUME DisposeAll PROVE Recorded' /\ Cleaned'
  <2>1. PICK broken : CancelForTeardown(store, broken, TRUE)
    BY <1>12 DEF DisposeAll
  <2>2. Recorded'
    BY <1>12, <2>1, TeardownKeepsRecords DEF DisposeAll
  <2>3. Cleaned'
    BY <1>12, <2>1 DEF DisposeAll, CancelForTeardown, Cleaned
  <2> QED BY <2>2, <2>3
<1>13. ASSUME FinishAll PROVE Recorded' /\ Cleaned'
  BY <1>13 DEF FinishAll, Recorded, Cleaned
<1>14. ASSUME Unload \/ Reload \/ UNCHANGED vars PROVE Recorded' /\ Cleaned'
  BY <1>14 DEF Unload, Reload, vars, Recorded, Cleaned
<1> QED
  BY <1>1, <1>2, <1>3, <1>4, <1>5, <1>6, <1>7, <1>8, <1>9, <1>10, <1>11, <1>12,
     <1>13, <1>14 DEF Next

LEMMA CleanedSuffices == OutliveInv => NoneOutlives
<1> SUFFICES ASSUME OutliveInv PROVE NoneOutlives
  OBVIOUS
<1>1. ASSUME NEW j \in Jobs, owner[j] # None, life[owner[j]] = "gone"
      PROVE  j \notin store /\ Terminal(j)
  <2>1. j \notin store
    BY <1>1 DEF OutliveInv, Cleaned
  <2> QED BY <1>1, <2>1 DEF OutliveInv, TypeOK, Recorded, Active, Terminal
<1>2. service = "closed" => store = {} /\ \A j \in Jobs : ~Active(j)
  BY DEF OutliveInv, Recorded, Cleaned
<1> QED BY <1>1, <1>2 DEF NoneOutlives

(* Spec => []NoneOutlives: no job is left running or on record by an agent *)
(* that is gone, nor by a registry that is closed (disposeOwned(),         *)
(* disposeAll(), ensureOwnerCleanup()), start() having no check of its own *)
(* against either teardown.                                                *)
THEOREM JobsEndWithTheirOwner == Spec => []NoneOutlives
<1>1. OutliveInv /\ [Next]_vars => OutliveInv'
  BY OutliveStep
<1>2. Spec => []OutliveInv
  BY OutliveInit, <1>1, PTL DEF Spec
<1> QED BY <1>2, CleanedSuffices, PTL
-----------------------------------------------------------------------------
(***************************************************************************)
(* ToldOnce.  Until a job settles, reported says just that somebody had it *)
(* stopped; who waits for it then waits for its end.                       *)
(***************************************************************************)
Telling ==
  /\ \A j \in Jobs : ~Terminal(j) => (reported[j] <=> heard[j])
  /\ \A w \in Callers : pc[w] = "waiting" => ~Terminal(on[w])

ToldInv == TypeOK /\ Telling /\ ToldOnce

LEMMA ToldInit == Init => ToldInv
  BY TypeInit DEF Init, ToldInv, Telling, ToldOnce, Terminal

\* A step that says nothing more of the jobs and leaves those who hear alone.
LEMMA ToldKept ==
  ASSUME ToldInv, UNCHANGED <<status, reported, pc, on, told>>,
         \A j \in Jobs : Terminal(j) => owner'[j] = owner[j]
  PROVE  Telling' /\ ToldOnce'
  BY DEF ToldInv, TypeOK, Telling, ToldOnce, Hears, Terminal, told

LEMMA TeardownTells ==
  ASSUME ToldInv, NEW js \in SUBSET Jobs, NEW broken, NEW closed,
         CancelForTeardown(js, broken, closed)
  PROVE  Telling' /\ ToldOnce'
<1>1. \A j \in Jobs : ~Terminal(j)' => (reported'[j] <=> heard'[j])
  <2> SUFFICES ASSUME NEW j \in Jobs, ~Terminal(j)' PROVE reported'[j] <=> heard'[j]
    OBVIOUS
  <2>1. ~Terminal(j)
    BY DEF CancelForTeardown, ToStop, Terminal
  <2>2. reported[j] <=> heard[j]
    BY <2>1 DEF ToldInv, Telling
  <2>3. /\ reported'[j] = (reported[j] \/ j \in ToStop(js))
        /\ heard'[j] = (heard[j] \/ j \in ToStop(js))
    BY DEF CancelForTeardown
  <2> QED BY <2>2, <2>3
<1>2. \A w \in Callers : pc'[w] = "waiting" => ~Terminal(on[w])'
  BY DEF ToldInv, TypeOK, Telling, CancelForTeardown, ToStop, Terminal
<1>3. ToldOnce'
  <2> SUFFICES ASSUME NEW j \in Jobs, owner'[j] # None, notice'[j] \in {"sent", "spared"}
               PROVE  notice'[j] = "sent" <=> ~(heard'[j] \/ Hears(j)')
    BY DEF ToldOnce
  <2>1. CASE j \in ToStop(js) \cap broken
    <3>1. notice'[j] # "sent"
      BY <2>1 DEF CancelForTeardown, Notice
    <3>2. heard'[j]
      BY <2>1 DEF CancelForTeardown
    <3> QED BY <3>1, <3>2
  <2>2. CASE j \notin ToStop(js) \cap broken
    <3>1. notice'[j] = notice[j] /\ owner' = owner
      BY <2>2 DEF CancelForTeardown
    <3>2. Terminal(j)
      BY <3>1 DEF ToldInv, TypeOK
    <3>3. j \notin ToStop(js)
      BY <3>2 DEF ToStop
    <3>4. heard'[j] = heard[j]
      BY <3>3, Zenon DEF CancelForTeardown, ToldInv, TypeOK
    <3>5. Hears(j)' <=> Hears(j)
      BY <3>3 DEF CancelForTeardown, Hears, ToldInv, TypeOK
    <3>6. notice[j] = "sent" <=> ~(heard[j] \/ Hears(j))
      BY <3>1 DEF ToldInv, ToldOnce
    <3> QED BY <3>1, <3>4, <3>5, <3>6
  <2> QED BY <2>1, <2>2
<1> QED BY <1>1, <1>2, <1>3 DEF Telling

\* The callers but w, for whom nothing changes.
LEMMA OtherCallers ==
  ASSUME ToldInv, NEW w \in Callers, NEW j \in Jobs, on[w] # j, on'[w] # j,
         \A v \in Callers \ {w} : pc'[v] = pc[v] /\ on'[v] = on[v]
  PROVE  Hears(j)' <=> Hears(j)
  BY DEF Hears

LEMMA ToldStep == ToldInv /\ [Next]_vars => ToldInv'
<1> SUFFICES ASSUME ToldInv, [Next]_vars PROVE Telling' /\ ToldOnce'
  BY TypeStep DEF ToldInv
<1> TypeOK
  BY DEF ToldInv
<1>1. ASSUME NEW j \in Jobs, NEW a \in Agents \cup {None}, Start(j, a)
      PROVE  Telling' /\ ToldOnce'
  <2>1. \A i \in Jobs : Terminal(i)' <=> Terminal(i)
    BY <1>1 DEF Start, TypeOK, Terminal
  <2>2. UNCHANGED <<reported, pc, on, told>>
    BY <1>1 DEF Start, wait
  <2>3. Telling'
    BY <2>1, <2>2 DEF ToldInv, TypeOK, Telling, Terminal, told
  <2>4. \A i \in Jobs : notice[i] # "none" => owner'[i] = owner[i]
    BY <1>1 DEF Start, TypeOK, Terminal
  <2>5. ToldOnce'
    BY <2>2, <2>4 DEF ToldInv, TypeOK, ToldOnce, Hears, told
  <2> QED BY <2>3, <2>5
<1>2. ASSUME NEW j \in Jobs, NEW a \in Agents, Read(j, a) PROVE Telling' /\ ToldOnce'
  <2>1. Telling'
    BY <1>2 DEF Read, ToldInv, TypeOK, Telling, Terminal, wait, told
  <2>2. ToldOnce'
    BY <1>2 DEF Read, ToldInv, ToldOnce, Hears, wait, told
  <2> QED BY <2>1, <2>2
<1>3. ASSUME NEW j \in Jobs, NEW a \in Agents, Kill(j, a) PROVE Telling' /\ ToldOnce'
  <2>1. Telling'
    <3>1. \A i \in Jobs : Terminal(i)' <=> Terminal(i)
      BY <1>3 DEF Kill, TypeOK, Terminal
    <3>2. ASSUME NEW i \in Jobs, ~Terminal(i) PROVE reported'[i] <=> heard'[i]
      <4>1. CASE i = j
        BY ZenonT(60), <1>3, <3>2, <4>1 DEF Kill, TypeOK
      <4>2. CASE i # j
        <5>1. reported'[i] = reported[i] /\ heard'[i] = heard[i]
          BY <1>3, <4>2, ZenonT(60) DEF Kill, TypeOK, told
        <5> QED BY <5>1, <3>2 DEF ToldInv, Telling
      <4> QED BY <4>1, <4>2
    <3>3. \A w \in Callers : pc'[w] = "waiting" => ~Terminal(on[w])'
      BY <1>3, <3>1 DEF Kill, wait, ToldInv, TypeOK, Telling
    <3> QED BY <3>1, <3>2, <3>3 DEF Telling
  <2>2. ToldOnce'
    <3>1. ASSUME NEW i \in Jobs, Terminal(i) PROVE heard'[i] = heard[i]
      <4>1. CASE Terminal(j)
        BY <1>3, <4>1 DEF Kill
      <4>2. CASE ~Terminal(j)
        <5>1. i # j
          BY <3>1, <4>2
        <5> QED BY <1>3, <4>2, <5>1, Zenon DEF Kill, TypeOK
      <4> QED BY <4>1, <4>2
    <3>2. UNCHANGED <<owner, pc, on, notice>>
      BY <1>3 DEF Kill, wait
    <3> QED BY <3>1, <3>2 DEF ToldInv, TypeOK, ToldOnce, Hears
  <2> QED BY <2>1, <2>2
<1>4. ASSUME NEW j \in Jobs, Settle(j) PROVE Telling' /\ ToldOnce'
  <2>1. /\ status' = [status EXCEPT ![j] = "settled"]
        /\ pc' = [w \in Callers |-> IF on[w] = j /\ pc[w] = "waiting" THEN "resolved" ELSE pc[w]]
        /\ UNCHANGED <<owner, on, heard>>
    BY <1>4 DEF Settle
  <2>2. /\ reported' = [reported EXCEPT ![j] = reported[j] \/ Waiters(j) # {}]
        /\ notice' = [notice EXCEPT ![j] =
                        Notice(j, reported[j] \/ Waiters(j) # {}, ListenersClosed)]
    BY <1>4 DEF Settle
  <2>3. ~Terminal(j)
    BY <1>4 DEF Settle, Active, Terminal
  <2>4. Telling'
    <3>1. ASSUME NEW i \in Jobs, ~Terminal(i)' PROVE reported'[i] <=> heard'[i]
      <4>1. i # j /\ ~Terminal(i)
        BY <2>1, <3>1 DEF TypeOK, Terminal
      <4>2. reported'[i] = reported[i] /\ heard'[i] = heard[i]
        BY <2>1, <2>2, <4>1, Zenon DEF TypeOK
      <4> QED BY <4>1, <4>2 DEF ToldInv, Telling
    <3>2. \A w \in Callers : pc'[w] = "waiting" => ~Terminal(on[w])'
      BY <2>1 DEF ToldInv, TypeOK, Telling, Terminal
    <3> QED BY <3>1, <3>2 DEF Telling
  <2>5. ToldOnce'
    <3> SUFFICES ASSUME NEW i \in Jobs, owner'[i] # None, notice'[i] \in {"sent", "spared"}
                 PROVE  notice'[i] = "sent" <=> ~(heard'[i] \/ Hears(i)')
      BY DEF ToldOnce
    <3>1. CASE i # j
      <4>1. notice'[i] = notice[i] /\ heard'[i] = heard[i] /\ owner'[i] = owner[i]
        BY <2>1, <2>2, <3>1 DEF TypeOK
      <4>2. Hears(i)' <=> Hears(i)
        BY <2>1, <3>1 DEF Hears, TypeOK
      <4> QED BY <4>1, <4>2 DEF ToldInv, ToldOnce
    <3>2. CASE i = j
      <4>1. Hears(j)' <=> Waiters(j) # {}
        BY <2>1, <2>3 DEF Hears, Waiters, TypeOK
      <4>2. notice'[j] = Notice(j, reported[j] \/ Waiters(j) # {}, ListenersClosed)
        BY <2>2 DEF TypeOK
      <4>3. notice'[j] = "sent" <=> ~(reported[j] \/ Waiters(j) # {})
        BY <2>1, <3>2, <4>2 DEF Notice
      <4>4. reported[j] <=> heard[j]
        BY <2>3 DEF ToldInv, Telling
      <4>5. heard' = heard
        BY <2>1
      <4> QED BY <3>2, <4>1, <4>3, <4>4, <4>5
    <3> QED BY <3>1, <3>2
  <2> QED BY <2>4, <2>5
<1>5. ASSUME NEW w \in Callers, NEW j \in Jobs, Wait(w, j) PROVE Telling' /\ ToldOnce'
  <2>1. Telling'
    BY <1>5 DEF Wait, ToldInv, TypeOK, Telling, Terminal, registry, told
  <2>2. \A i \in Jobs : Hears(i)' <=> Hears(i)
    BY <1>5 DEF Wait, Hears, TypeOK
  <2>3. UNCHANGED <<owner, notice, heard>>
    BY <1>5 DEF Wait, registry, told
  <2> QED BY <2>1, <2>2, <2>3 DEF ToldInv, ToldOnce
<1>6. ASSUME NEW w \in Callers, Expire(w) \/ AbortWait(w) PROVE Telling' /\ ToldOnce'
  <2>1. /\ pc[w] = "waiting"
        /\ \A v \in Callers \ {w} : pc'[v] = pc[v] /\ on'[v] = on[v]
        /\ pc'[w] # "waiting" /\ on'[w] \in {on[w], None}
        /\ UNCHANGED <<status, owner, reported, notice, heard>>
    BY <1>6 DEF Expire, AbortWait, Back, TypeOK, registry, told
  <2>2. Telling'
    BY <2>1 DEF ToldInv, Telling, Terminal
  <2>3. \A i \in Jobs : Terminal(i) => on[w] # i /\ on'[w] # i
    BY <2>1 DEF ToldInv, Telling, TypeOK
  <2>4. \A i \in Jobs : Terminal(i) => (Hears(i)' <=> Hears(i))
    BY <2>1, <2>3, OtherCallers
  <2>5. ToldOnce'
    BY <2>1, <2>4 DEF ToldInv, TypeOK, ToldOnce
  <2> QED BY <2>2, <2>5
<1>7. ASSUME NEW w \in Callers, Return(w) PROVE Telling' /\ ToldOnce'
  <2>1. /\ pc[w] \in {"expired", "resolved"}
        /\ \A v \in Callers \ {w} : pc'[v] = pc[v] /\ on'[v] = on[v]
        /\ pc'[w] = "idle" /\ on'[w] = None
        /\ UNCHANGED <<status, owner, notice>>
    BY <1>7 DEF Return, Back, TypeOK
  <2>2. on[w] \in Jobs
    BY <2>1 DEF TypeOK
  <2>3. \A i \in Jobs \ {on[w]} : reported'[i] = reported[i] /\ heard'[i] = heard[i]
    BY <1>7, <2>2, ZenonT(60) DEF Return, TypeOK
  <2>4. CASE Terminal(on[w])
    <3>1. heard'[on[w]]
      BY <1>7, <2>2, <2>4, Zenon DEF Return, TypeOK
    <3>2. \A i \in Jobs : ~Terminal(i) => (reported'[i] <=> heard'[i])
      BY <2>3, <2>4 DEF ToldInv, Telling
    <3>3. Telling'
      BY <2>1, <3>2 DEF ToldInv, Telling, Terminal
    <3>4. ASSUME NEW i \in Jobs, i # on[w] PROVE Hears(i)' <=> Hears(i)
      BY <2>1, <3>4, OtherCallers
    <3>5. Hears(on[w])
      BY <2>1 DEF Hears
    <3>6. ToldOnce'
      BY <2>1, <2>2, <2>3, <3>1, <3>4, <3>5 DEF ToldInv, ToldOnce
    <3> QED BY <3>3, <3>6
  <2>5. CASE ~Terminal(on[w])
    <3>1. UNCHANGED <<reported, heard>>
      BY <1>7, <2>5 DEF Return
    <3>2. Telling'
      BY <2>1, <3>1 DEF ToldInv, Telling, Terminal
    <3>3. \A i \in Jobs : Terminal(i) => (Hears(i)' <=> Hears(i))
      BY <2>1, <2>5, OtherCallers
    <3>4. ToldOnce'
      BY <2>1, <3>1, <3>3 DEF ToldInv, TypeOK, ToldOnce
    <3> QED BY <3>2, <3>4
  <2> QED BY <2>4, <2>5
<1>8. ASSUME NEW a \in Agents,
             \/ CloseScope(a) \/ FinishCleanup(a) \/ Detach(a)
             \/ DisposeOwned(a) /\ a \notin cleanup
      PROVE  Telling' /\ ToldOnce'
  BY <1>8, ToldKept DEF CloseScope, FinishCleanup, Detach, DisposeOwned, registry, wait, told
<1>9. ASSUME NEW a \in Agents, DisposeOwned(a), a \in cleanup PROVE Telling' /\ ToldOnce'
  <2>1. PICK broken : CancelForTeardown(OwnedBy(a), broken, ListenersClosed)
    BY <1>9 DEF DisposeOwned
  <2>2. OwnedBy(a) \in SUBSET Jobs
    BY DEF OwnedBy, TypeOK
  <2> QED BY <2>1, <2>2, TeardownTells
<1>10. ASSUME DisposeAll PROVE Telling' /\ ToldOnce'
  <2>1. PICK broken : CancelForTeardown(store, broken, TRUE)
    BY <1>10 DEF DisposeAll
  <2> QED BY <2>1, TeardownTells DEF TypeOK
<1>11. ASSUME Unload \/ FinishAll \/ Reload \/ UNCHANGED vars PROVE Telling' /\ ToldOnce'
  BY <1>11, ToldKept DEF Unload, FinishAll, Reload, vars, registry, wait, told
<1> QED
  BY <1>1, <1>2, <1>3, <1>4, <1>5, <1>6, <1>7, <1>8, <1>9, <1>10, <1>11 DEF Next

(* Spec => []ToldOnce: the end of an agent's job is told by a notice, or   *)
(* heard by one who stopped it or waits for it, and never both (settle()). *)
THEOREM EndsAreToldOnce == Spec => []ToldOnce
<1>1. Spec => []ToldInv
  BY ToldInit, ToldStep, PTL DEF Spec
<1>2. ToldInv => ToldOnce
  BY DEF ToldInv
<1> QED BY <1>1, <1>2, PTL
=============================================================================
