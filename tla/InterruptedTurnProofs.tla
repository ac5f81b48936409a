---------------------- MODULE InterruptedTurnProofs ----------------------
(***************************************************************************)
(* Proofs about InterruptedTurn for every bound: wherever crashes cut the  *)
(* log, and however often the repair of it is cut in turn, the log stays   *)
(* legal for the session's own validator, its results are true of the      *)
(* bodies that ran, the stored part tells every body that ran, and each    *)
(* call is answered once.                                                  *)
(*                                                                         *)
(* The two readers of the log, repair's scan and the validator's trace,    *)
(* are recursive functions over it; the first part shows that they exist   *)
(* and go on event by event (ScanAppend, TraceAppend).  The second states  *)
(* when the two agree and what they know of the events (Whole), of every   *)
(* prefix of the log (Cuts), and that an event that fits keeps it          *)
(* (CutsStep), as all that repair appends do (ClosersClose).  The third    *)
(* is the inductive invariant IInv, action by action.                      *)
(***************************************************************************)
EXTENDS InterruptedTurn, FiniteSetTheorems, SequenceTheorems, WellFoundedInduction, TLAPS

-----------------------------------------------------------------------------
(* What the events, the repair's scan and the validator's trace are made of. *)
EventTypes == {"turn/start", "turn/end", "step/start", "step/end",
               "assistant/message", "tool/call", "tool/result"}

Codes == {"none", "not-started", "outcome-unknown", "ok", "failed", "denied",
          "aborted", "aborted-before"}

Events == [type : EventTypes, turn : 0 .. MaxTurns, step : 0 .. MaxSteps,
           call : 0 .. MaxCalls, code : Codes]

Opens == [turn : 0 .. MaxTurns, step : 0 .. MaxSteps, named : SUBSET Calls,
          within : 0 .. MaxSteps, started : SUBSET Calls]

Traces == [turn : Nat, step : Nat, nextTurn : Nat, nextStep : Nat,
           pending : SUBSET Nat, legal : BOOLEAN]

CallNamed(e) == <<e.turn, e.step, e.call>>

(* The repair's scan and the validator agree on what is open; what a step  *)
(* has left to answer is a run of its calls, up to the last.               *)
Tracks(o, t) ==
  /\ t.legal
  /\ t.turn = o.turn /\ t.step = o.step
  /\ o.turn = 0 => o.step = 0
  /\ o.step = 0 => o.named = {} /\ o.started = {}
  /\ o.named # {} => o.within = o.step
  /\ t.pending = o.named \cap o.started
  /\ t.nextTurn # 0 /\ t.nextStep # 0
  /\ o.turn # 0 => t.nextTurn = o.turn
  /\ o.step # 0 => t.nextStep = o.step
  /\ \E lo \in 1 .. MaxCalls + 1, hi \in 0 .. MaxCalls : o.named = lo .. hi

(* No event of the log is ahead of the numbering. *)
Reached(e, t) ==
  \/ e.turn < t.nextTurn
  \/ e.turn = t.turn /\ (e.step < t.nextStep \/ e.step = t.step)

Within(e, o) == e.turn = o.turn /\ e.step = o.step

TurnsBegun(t) == IF t.turn = 0 THEN t.nextTurn - 1 ELSE t.turn

Starts(s) == {i \in DOMAIN s : s[i].type = "turn/start"}

NothingAhead(s, t) == \A i \in DOMAIN s : Reached(s[i], t)

(* A recorded call is answered or still open, an open one that is recorded *)
(* is known as started and the other way round.                            *)
CallsAnswered(s, o) ==
  \A i \in DOMAIN s : s[i].type = "tool/call" =>
    \/ Within(s[i], o) /\ s[i].call \in o.named
    \/ \E j \in DOMAIN s : s[j].type = "tool/result" /\ CallNamed(s[j]) = CallNamed(s[i])

CallsStarted(s, o) ==
  \A i \in DOMAIN s :
    s[i].type = "tool/call" /\ o.step # 0 /\ Within(s[i], o) => s[i].call \in o.started

StartsRecorded(s, o) ==
  \A c \in o.started : \E i \in DOMAIN s :
    s[i].type = "tool/call" /\ CallNamed(s[i]) = <<o.turn, o.step, c>>

(* Results answer different calls, none of them still open. *)
ResultsDiffer(s) ==
  \A i, j \in DOMAIN s :
    /\ s[i].type = "tool/result" /\ s[j].type = "tool/result"
    /\ CallNamed(s[i]) = CallNamed(s[j])
    => i = j

ResultsClose(s, o) ==
  \A i \in DOMAIN s :
    s[i].type = "tool/result" /\ o.step # 0 /\ Within(s[i], o) => s[i].call \notin o.named

TurnsCounted(s, t) ==
  \/ Starts(s) = {} /\ TurnsBegun(t) = 0
  \/ \E m \in Starts(s) : s[m].turn = TurnsBegun(t) /\ \A i \in Starts(s) : i <= m

(* What the events say of the calls is what the scan made of them.         *)
Told(s, o, t) ==
  /\ NothingAhead(s, t) /\ TurnsCounted(s, t)
  /\ CallsAnswered(s, o) /\ CallsStarted(s, o) /\ StartsRecorded(s, o)
  /\ ResultsDiffer(s) /\ ResultsClose(s, o)

Whole(s) == Tracks(Scan(s), Traced(s)) /\ Told(s, Scan(s), Traced(s))

(* A log wherever it may be cut. *)
Cuts(s) == \A n \in 0 .. Len(s) : Whole(SubSeq(s, 1, n))

(* The two claims about bodies, of any log. *)
Honest(e, bodies) ==
  e.type = "tool/result" =>
    /\ e.code \in {"not-started", "aborted-before", "denied"} => CallNamed(e) \notin bodies
    /\ e.code \in {"ok", "aborted"} => CallNamed(e) \in bodies

HonestOver(s, bodies) == \A i \in DOMAIN s : Honest(s[i], bodies)

RecordedIn(s, n, bodies) ==
  \A b \in bodies : \E i \in 1 .. n : s[i].type = "tool/call" /\ CallNamed(s[i]) = b

(* A log and what is claimed of it: what an append, a crash and a load     *)
(* hand on.                                                                *)
Sound(s, n, bodies) ==
  /\ s \in Seq(Events) /\ n \in 0 .. Len(s)
  /\ Cuts(s) /\ HonestOver(s, bodies) /\ RecordedIn(s, n, bodies)

(* Where a call of the open step stands, against the bodies that ran.      *)
CallInv(c) ==
  /\ stage[c] \in {"unstarted", "deciding", "gate"} => <<turn, step, c>> \notin ran
  /\ stage[c] = "body" => <<turn, step, c>> \in ran
  /\ stage[c] = "settled" =>
       /\ outcome[c] \in {"denied", "aborted-before"} => <<turn, step, c>> \notin ran
       /\ outcome[c] \in {"ok", "aborted"} => <<turn, step, c>> \in ran
       /\ outcome[c] # "not-started"
  /\ stage[c] = "gate" => \E i \in DOMAIN log :
       i <= needs[c] /\ log[i].type = "tool/call" /\ CallNamed(log[i]) = <<turn, step, c>>

CallsInv ==
  /\ Scan(log).named = {c \in asked : stage[c] # "committed"}
  /\ Scan(log).started = {c \in asked : stage[c] # "unstarted"}
  /\ \A c \in Calls \ asked : stage[c] = "unstarted"
  /\ \A c \in asked : CallInv(c)

(* The driver's numbering and the calls of its step against the log. *)
DriverInv ==
  /\ at = "idle" => Scan(log).turn = 0 /\ turn = Traced(log).nextTurn - 1
  /\ at # "idle" => turn # 0 /\ Scan(log).turn = turn /\ step <= Steps
  /\ at \in {"pre-step", "stepped"} => Scan(log).step = 0 /\ step = Traced(log).nextStep - 1
  /\ at \in {"request", "calls", "step-end"} => step # 0 /\ Scan(log).step = step
  /\ at = "request" =>
       /\ Scan(log).named = {}
       /\ \A i \in DOMAIN log : log[i].type \in {"tool/call", "tool/result"} =>
            ~(log[i].turn = turn /\ log[i].step = step)
  /\ at = "step-end" => Scan(log).named \cap Scan(log).started = {}
  /\ at = "calls" => CallsInv

TypeInv ==
  /\ torn \in BOOLEAN
  /\ mode \in {"up", "down", "repairing"}
  /\ at \in {"idle", "pre-step", "request", "calls", "step-end", "stepped"}
  /\ mode # "up" => at = "idle"
  /\ aborted \in BOOLEAN
  /\ turn \in 0 .. MaxTurns /\ step \in 0 .. MaxSteps
  /\ asked \subseteq Calls
  /\ stage \in [Calls -> {"unstarted", "deciding", "gate", "body", "settled", "committed"}]
  /\ needs \in [Calls -> Nat]
  /\ outcome \in [Calls -> Codes]
  /\ ran \subseteq (1 .. MaxTurns) \X (1 .. MaxSteps) \X Calls
  /\ crashes \in Nat

(* The inductive invariant. *)
IInv ==
  /\ TypeInv
  /\ Sound(log, durable, ran)
  /\ mode = "up" => DriverInv

-----------------------------------------------------------------------------
(* Induction without an operator: a set of numbers that holds 0 and is     *)
(* closed under successor up to N holds the interval.                      *)
LEMMA LeastNatural ==
  ASSUME NEW T, T \subseteq Nat, T # {}
  PROVE  \E m \in T : \A y \in T : ~(y < m)
<1> DEFINE R == OpToRel(<, Nat)
<1>1. IsWellFoundedOn(R, Nat)
  BY NatLessThanWellFounded
<1>2. \A y, m \in Nat : y < m => <<y, m>> \in R
  BY DEF OpToRel
<1> HIDE DEF R
<1>3. PICK m \in T : \A y \in T : ~(<<y, m>> \in R)
  BY <1>1, WFMin
<1> QED BY <1>2, <1>3

LEMMA IntervalInduction ==
  ASSUME NEW N \in Nat, NEW T, 0 \in T, \A i \in 0 .. N : i \in T /\ i < N => i + 1 \in T
  PROVE  0 .. N \subseteq T
<1> DEFINE Missing == {i \in 0 .. N : i \notin T}
<1> SUFFICES ASSUME Missing # {} PROVE FALSE
  OBVIOUS
<1>1. Missing \subseteq Nat
  OBVIOUS
<1> HIDE DEF Missing
<1>2. PICK m \in Missing : \A y \in Missing : ~(y < m)
  BY <1>1, LeastNatural
<1>3. m \in 0 .. N /\ m \notin T
  BY DEF Missing
<1>4. m # 0
  BY <1>3
<1>5. m - 1 \in 0 .. N /\ m - 1 < m /\ m - 1 < N /\ (m - 1) + 1 = m
  BY <1>3, <1>4
<1>6. m - 1 \in T
  BY <1>2, <1>5 DEF Missing
<1> QED BY <1>3, <1>5, <1>6

(* A recursion over an interval whose step is a function has a solution. *)
Solves(f, n, S, base, next) ==
  f \in [0 .. n -> S] /\ f[0] = base /\ \A i \in 1 .. n : f[i] = next[i][f[i - 1]]

StepsOn(N, S) == [1 .. N -> [S -> S]]

LEMMA RecursionExists ==
  ASSUME NEW N \in Nat, NEW S, NEW base \in S, NEW next \in StepsOn(N, S)
  PROVE  \E f : Solves(f, N, S, base, next)
<1> USE DEF Solves, StepsOn
<1> DEFINE Upto(n, f) == Solves(f, n, S, base, next)
           T == {n \in 0 .. N : \E f : Upto(n, f)}
<1>1. 0 \in T
  <2>1. PICK f : f = [i \in 0 .. 0 |-> base]
    OBVIOUS
  <2>2. f \in [0 .. 0 -> S] /\ f[0] = base /\ 1 .. 0 = {}
    BY <2>1
  <2>3. Upto(0, f)
    BY <2>2
  <2>4. \E g : Upto(0, g)
    BY <2>3
  <2> QED BY <2>4
<1>2. ASSUME NEW n \in 0 .. N, n \in T, n < N PROVE n + 1 \in T
  <2>1. PICK f : Upto(n, f)
    BY <1>2
  <2>2. f[n] \in S /\ next[n + 1] \in [S -> S]
    BY <2>1, <1>2
  <2> DEFINE g == [i \in 0 .. n + 1 |-> IF i = n + 1 THEN next[n + 1][f[n]] ELSE f[i]]
  <2>3. g \in [0 .. n + 1 -> S]
    BY <2>1, <2>2
  <2>4. g[0] = base
    BY <2>1
  <2>5. ASSUME NEW i \in 1 .. n + 1 PROVE g[i] = next[i][g[i - 1]]
    <3>1. CASE i = n + 1
      <4>1. i - 1 = n /\ n \in 0 .. n + 1 /\ n # n + 1
        BY <3>1
      <4>2. g[i - 1] = f[n]
        BY <4>1
      <4> QED BY <3>1, <4>2
    <3>2. CASE i # n + 1
      <4>1. i \in 1 .. n /\ i - 1 \in 0 .. n /\ i - 1 # n + 1
        BY <3>2
      <4>2. g[i] = f[i] /\ g[i - 1] = f[i - 1]
        BY <4>1, <3>2
      <4> QED BY <2>1, <4>1, <4>2
    <3> QED BY <3>1, <3>2
  <2>6. Upto(n + 1, g)
    BY <2>3, <2>4, <2>5
  <2>7. n + 1 \in 0 .. N
    BY <1>2
  <2> QED BY <2>6, <2>7
<1>3. 0 .. N \subseteq T
  <2> HIDE DEF T
  <2> QED BY <1>1, <1>2, IntervalInduction
<1>4. N \in T
  BY <1>3
<1> QED BY <1>4

(* Two recursions that start alike and step alike agree. *)
Alike(f, g, n) ==
  f[0] = g[0] /\ \A i \in 1 .. n : f[i - 1] = g[i - 1] => f[i] = g[i]

LEMMA RecursionAgrees ==
  ASSUME NEW N \in Nat, NEW f, NEW g, Alike(f, g, N)
  PROVE  \A i \in 0 .. N : f[i] = g[i]
<1> DEFINE T == {i \in 0 .. N : f[i] = g[i]}
<1>1. 0 \in T
  BY DEF Alike
<1>2. ASSUME NEW i \in 0 .. N, i \in T, i < N PROVE i + 1 \in T
  <2>1. i + 1 \in 1 .. N /\ (i + 1) - 1 = i
    BY <1>2
  <2> QED BY <1>2, <2>1 DEF Alike
<1> HIDE DEF T
<1>3. 0 .. N \subseteq T
  BY <1>1, <1>2, IntervalInduction
<1> QED BY <1>3 DEF T

-----------------------------------------------------------------------------
(* What interruptedTurnClosers() and the validator compute, event by event. *)
LEMMA EventType ==
  ASSUME NEW e \in Events
  PROVE  \/ e.type = "turn/start" \/ e.type = "turn/end" \/ e.type = "step/start"
         \/ e.type = "step/end" \/ e.type = "assistant/message"
         \/ e.type = "tool/call" \/ e.type = "tool/result"
  BY DEF Events, EventTypes

LEMMA ScanCases ==
  ASSUME NEW o \in Opens, NEW e \in Events
  PROVE  /\ e.type = "turn/start" => ScanEvent(o, e) =
              [turn |-> e.turn, step |-> 0, named |-> {}, within |-> 0, started |-> {}]
         /\ e.type = "turn/end" => ScanEvent(o, e) = NothingOpen
         /\ e.type = "step/start" => ScanEvent(o, e) =
              [turn |-> o.turn, step |-> e.step, named |-> o.named, within |-> o.within,
               started |-> o.started]
         /\ e.type = "step/end" => ScanEvent(o, e) =
              [turn |-> o.turn, step |-> 0, named |-> {}, within |-> 0, started |-> {}]
         /\ e.type = "assistant/message" => ScanEvent(o, e) =
              [turn |-> o.turn, step |-> o.step, named |-> o.named \cup 1 .. e.call,
               within |-> e.step, started |-> {}]
         /\ e.type = "tool/call" => ScanEvent(o, e) =
              [turn |-> o.turn, step |-> o.step, named |-> o.named, within |-> o.within,
               started |-> o.started \cup ({e.call} \cap o.named)]
         /\ e.type = "tool/result" => ScanEvent(o, e) =
              [turn |-> o.turn, step |-> o.step, named |-> o.named \ {e.call},
               within |-> o.within, started |-> o.started]
<1> USE DEF Events
<1>1. CASE e.type = "turn/start"
  BY <1>1 DEF ScanEvent, Opens, NothingOpen
<1>2. CASE e.type = "turn/end"
  BY <1>2 DEF ScanEvent
<1>3. CASE e.type = "step/start"
  BY <1>3 DEF ScanEvent, Opens
<1>4. CASE e.type = "step/end"
  BY <1>4 DEF ScanEvent, NothingOpen
<1>5. CASE e.type = "assistant/message"
  BY <1>5 DEF ScanEvent, Opens
<1>6. CASE e.type = "tool/call"
  BY <1>6 DEF ScanEvent, Opens
<1>7. CASE e.type = "tool/result"
  BY <1>7 DEF ScanEvent, Opens
<1> QED BY <1>1, <1>2, <1>3, <1>4, <1>5, <1>6, <1>7 DEF EventTypes

LEMMA Bounds ==
  /\ MaxCalls \in Nat /\ MaxTurns \in Nat /\ MaxSteps \in Nat /\ MaxAsked \in Nat
  /\ 0 \in 0 .. MaxTurns /\ 0 \in 0 .. MaxSteps
  /\ \A n \in 0 .. MaxCalls : 1 .. n \subseteq Calls
<1>1. MaxCalls \in Nat /\ MaxTurns \in Nat /\ MaxSteps \in Nat /\ MaxAsked \in Nat
  BY InterruptedAssumption
<1> QED BY <1>1 DEF Calls

LEMMA NothingTyped == NothingOpen \in Opens
  BY Bounds DEF Opens, NothingOpen

LEMMA ScanTyped ==
  ASSUME NEW o \in Opens, NEW e \in Events
  PROVE  ScanEvent(o, e) \in Opens
<1>1. CASE e.type = "turn/start"
  BY <1>1, ScanCases, Bounds DEF Opens, Events
<1>2. CASE e.type = "turn/end"
  BY <1>2, ScanCases, NothingTyped
<1>3. CASE e.type = "step/start"
  BY <1>3, ScanCases DEF Opens, Events
<1>4. CASE e.type = "step/end"
  BY <1>4, ScanCases, Bounds DEF Opens
<1>5. CASE e.type = "assistant/message"
  <2>1. o.named \cup 1 .. e.call \subseteq Calls
    BY Bounds DEF Opens, Events
  <2> QED BY <1>5, <2>1, ScanCases DEF Opens, Events
<1>6. CASE e.type = "tool/call"
  BY <1>6, ScanCases DEF Opens
<1>7. CASE e.type = "tool/result"
  BY <1>7, ScanCases DEF Opens
<1> QED BY <1>1, <1>2, <1>3, <1>4, <1>5, <1>6, <1>7 DEF Events, EventTypes

LEMMA TraceCases ==
  ASSUME NEW t \in Traces, NEW e \in Events, Follows(t, e)
  PROVE  /\ e.type = "turn/start" => TraceEvent(t, e) =
              [turn |-> e.turn, step |-> t.step, nextTurn |-> t.nextTurn, nextStep |-> 1,
               pending |-> t.pending, legal |-> t.legal]
         /\ e.type = "turn/end" => TraceEvent(t, e) =
              [turn |-> 0, step |-> t.step, nextTurn |-> t.nextTurn + 1,
               nextStep |-> t.nextStep, pending |-> t.pending, legal |-> t.legal]
         /\ e.type = "step/start" => TraceEvent(t, e) =
              [turn |-> t.turn, step |-> e.step, nextTurn |-> t.nextTurn,
               nextStep |-> t.nextStep, pending |-> t.pending, legal |-> t.legal]
         /\ e.type = "step/end" => TraceEvent(t, e) =
              [turn |-> t.turn, step |-> 0, nextTurn |-> t.nextTurn,
               nextStep |-> t.nextStep + 1, pending |-> {}, legal |-> t.legal]
         /\ e.type = "assistant/message" => TraceEvent(t, e) = t
         /\ e.type = "tool/call" => TraceEvent(t, e) =
              [turn |-> t.turn, step |-> t.step, nextTurn |-> t.nextTurn,
               nextStep |-> t.nextStep, pending |-> t.pending \cup {e.call},
               legal |-> t.legal]
         /\ e.type = "tool/result" => TraceEvent(t, e) =
              [turn |-> t.turn, step |-> t.step, nextTurn |-> t.nextTurn,
               nextStep |-> t.nextStep, pending |-> t.pending \ {e.call},
               legal |-> t.legal]
<1>1. [t EXCEPT !.legal = @ /\ Follows(t, e)] = t
  <2>1. CASE t.legal = TRUE
    BY <2>1 DEF Traces
  <2>2. CASE t.legal = FALSE
    BY <2>2 DEF Traces
  <2> QED BY <2>1, <2>2 DEF Traces
<1> HIDE DEF Follows
<1> USE DEF Traces
<1>2. CASE e.type = "turn/start"
  BY <1>1, <1>2 DEF TraceEvent
<1>3. CASE e.type = "turn/end"
  BY <1>1, <1>3 DEF TraceEvent
<1>4. CASE e.type = "step/start"
  BY <1>1, <1>4 DEF TraceEvent
<1>5. CASE e.type = "step/end"
  BY <1>1, <1>5 DEF TraceEvent
<1>6. CASE e.type = "assistant/message"
  BY <1>1, <1>6 DEF TraceEvent
<1>7. CASE e.type = "tool/call"
  BY <1>1, <1>7 DEF TraceEvent
<1>8. CASE e.type = "tool/result"
  BY <1>1, <1>8 DEF TraceEvent
<1> QED BY <1>2, <1>3, <1>4, <1>5, <1>6, <1>7, <1>8 DEF Events, EventTypes

LEMMA NewTraceTyped == NewTrace \in Traces
  BY DEF Traces, NewTrace

LEMMA TraceTyped ==
  ASSUME NEW t \in Traces, NEW e \in Events
  PROVE  TraceEvent(t, e) \in Traces
<1>1. PICK next \in Traces : next = [t EXCEPT !.legal = @ /\ Follows(t, e)]
  <2>1. CASE t.legal = TRUE /\ Follows(t, e)
    <3>1. [t EXCEPT !.legal = @ /\ Follows(t, e)] = [t EXCEPT !.legal = TRUE]
      BY <2>1
    <3> QED BY <3>1 DEF Traces
  <2>2. CASE ~(t.legal = TRUE /\ Follows(t, e))
    <3>1. [t EXCEPT !.legal = @ /\ Follows(t, e)] = [t EXCEPT !.legal = FALSE]
      BY <2>2 DEF Traces
    <3> QED BY <3>1 DEF Traces
  <2> QED BY <2>1, <2>2
<1>2. e.turn \in Nat /\ e.step \in Nat /\ e.call \in Nat
  BY Bounds DEF Events
<1> HIDE DEF Follows
<1> USE DEF Traces
<1>3. CASE e.type = "turn/start"
  BY <1>1, <1>2, <1>3 DEF TraceEvent
<1>4. CASE e.type = "turn/end"
  <2>1. PICK n \in Nat : n = next.nextTurn + 1
    BY <1>1
  <2>2. TraceEvent(t, e) = [turn |-> 0, step |-> next.step, nextTurn |-> n,
          nextStep |-> next.nextStep, pending |-> next.pending, legal |-> next.legal]
    BY <1>1, <1>4, <2>1 DEF TraceEvent
  <2> QED BY <1>1, <2>1, <2>2
<1>5. CASE e.type = "step/start"
  BY <1>1, <1>2, <1>5 DEF TraceEvent
<1>6. CASE e.type = "step/end"
  <2>1. PICK n \in Nat : n = next.nextStep + 1
    BY <1>1
  <2>2. TraceEvent(t, e) = [turn |-> next.turn, step |-> 0, nextTurn |-> next.nextTurn,
          nextStep |-> n, pending |-> {}, legal |-> next.legal]
    BY <1>1, <1>6, <2>1 DEF TraceEvent
  <2> QED BY <1>1, <2>1, <2>2
<1>7. CASE e.type = "assistant/message"
  BY <1>1, <1>7 DEF TraceEvent
<1>8. CASE e.type = "tool/call"
  BY <1>1, <1>2, <1>8 DEF TraceEvent
<1>9. CASE e.type = "tool/result"
  BY <1>1, <1>9 DEF TraceEvent
<1> QED BY <1>3, <1>4, <1>5, <1>6, <1>7, <1>8, <1>9 DEF Events, EventTypes

ScanOf(s, f) ==
  f = [i \in 0 .. Len(s) |-> IF i = 0 THEN NothingOpen ELSE ScanEvent(f[i - 1], s[i])]

TraceOf(s, f) ==
  f = [i \in 0 .. Len(s) |-> IF i = 0 THEN NewTrace ELSE TraceEvent(f[i - 1], s[i])]

LEMMA ScanSolves ==
  ASSUME NEW s \in Seq(Events)
  PROVE  \E f : /\ ScanOf(s, f) /\ Scan(s) = f[Len(s)]
                /\ f \in [0 .. Len(s) -> Opens]
<1>1. Len(s) \in Nat /\ \A i \in 1 .. Len(s) : s[i] \in Events
  OBVIOUS
<1>2. PICK next : next = [i \in 1 .. Len(s) |-> [o \in Opens |-> ScanEvent(o, s[i])]]
  OBVIOUS
<1>3. next \in StepsOn(Len(s), Opens)
  BY <1>1, <1>2, ScanTyped DEF StepsOn
<1>4. \E f : Solves(f, Len(s), Opens, NothingOpen, next)
  BY <1>1, <1>3, NothingTyped, RecursionExists
<1>5. PICK f \in [0 .. Len(s) -> Opens] :
        f[0] = NothingOpen /\ \A i \in 1 .. Len(s) : f[i] = next[i][f[i - 1]]
  BY <1>4 DEF Solves
<1>6. \A i \in 1 .. Len(s) : f[i] = ScanEvent(f[i - 1], s[i])
  BY <1>1, <1>2, <1>5
<1>7. \A i \in 0 .. Len(s) : f[i] = IF i = 0 THEN NothingOpen ELSE ScanEvent(f[i - 1], s[i])
  BY <1>1, <1>5, <1>6
<1>8. f = [i \in 0 .. Len(s) |-> f[i]]
  BY <1>5
<1>9. ScanOf(s, f)
  BY <1>7, <1>8 DEF ScanOf
<1>10. Scan(s) = (CHOOSE g : ScanOf(s, g))[Len(s)]
  BY DEF Scan, ScanOf
<1>11. PICK g : g = CHOOSE h : ScanOf(s, h)
  OBVIOUS
<1>12. ScanOf(s, g)
  <2> HIDE DEF ScanOf
  <2> QED BY <1>9, <1>11
<1>13. f[0] = g[0] /\ \A i \in 1 .. Len(s) : f[i - 1] = g[i - 1] => f[i] = g[i]
  BY <1>1, <1>5, <1>6, <1>12 DEF ScanOf
<1>14. \A i \in 0 .. Len(s) : f[i] = g[i]
  <2>1. Len(s) \in Nat
    BY <1>1
  <2>2. Alike(f, g, Len(s))
    BY <1>13 DEF Alike
  <2> QED BY <2>1, <2>2, RecursionAgrees
<1>15. f[Len(s)] = g[Len(s)]
  BY <1>1, <1>14
<1> QED BY <1>5, <1>9, <1>10, <1>11, <1>15

LEMMA TraceSolves ==
  ASSUME NEW s \in Seq(Events)
  PROVE  \E f : /\ TraceOf(s, f) /\ Traced(s) = f[Len(s)]
                /\ f \in [0 .. Len(s) -> Traces]
<1>1. Len(s) \in Nat /\ \A i \in 1 .. Len(s) : s[i] \in Events
  OBVIOUS
<1>2. PICK next : next = [i \in 1 .. Len(s) |-> [t \in Traces |-> TraceEvent(t, s[i])]]
  OBVIOUS
<1>3. next \in StepsOn(Len(s), Traces)
  BY <1>1, <1>2, TraceTyped DEF StepsOn
<1>4. \E f : Solves(f, Len(s), Traces, NewTrace, next)
  BY <1>1, <1>3, NewTraceTyped, RecursionExists
<1>5. PICK f \in [0 .. Len(s) -> Traces] :
        f[0] = NewTrace /\ \A i \in 1 .. Len(s) : f[i] = next[i][f[i - 1]]
  BY <1>4 DEF Solves
<1>6. \A i \in 1 .. Len(s) : f[i] = TraceEvent(f[i - 1], s[i])
  BY <1>1, <1>2, <1>5
<1>7. \A i \in 0 .. Len(s) : f[i] = IF i = 0 THEN NewTrace ELSE TraceEvent(f[i - 1], s[i])
  BY <1>1, <1>5, <1>6
<1>8. f = [i \in 0 .. Len(s) |-> f[i]]
  BY <1>5
<1>9. TraceOf(s, f)
  BY <1>7, <1>8 DEF TraceOf
<1>10. Traced(s) = (CHOOSE g : TraceOf(s, g))[Len(s)]
  BY DEF Traced, TraceOf
<1>11. PICK g : g = CHOOSE h : TraceOf(s, h)
  OBVIOUS
<1>12. TraceOf(s, g)
  <2> HIDE DEF TraceOf
  <2> QED BY <1>9, <1>11
<1>13. f[0] = g[0] /\ \A i \in 1 .. Len(s) : f[i - 1] = g[i - 1] => f[i] = g[i]
  BY <1>1, <1>5, <1>6, <1>12 DEF TraceOf
<1>14. \A i \in 0 .. Len(s) : f[i] = g[i]
  <2>1. Len(s) \in Nat
    BY <1>1
  <2>2. Alike(f, g, Len(s))
    BY <1>13 DEF Alike
  <2> QED BY <2>1, <2>2, RecursionAgrees
<1>15. f[Len(s)] = g[Len(s)]
  BY <1>1, <1>14
<1> QED BY <1>5, <1>9, <1>10, <1>11, <1>15

LEMMA ScanOfNothing == Scan(<<>>) = NothingOpen
<1>1. <<>> \in Seq(Events) /\ Len(<<>>) = 0
  OBVIOUS
<1>2. PICK f : ScanOf(<<>>, f) /\ Scan(<<>>) = f[Len(<<>>)]
  BY <1>1, ScanSolves
<1> QED BY <1>1, <1>2 DEF ScanOf

LEMMA TraceOfNothing == Traced(<<>>) = NewTrace
<1>1. <<>> \in Seq(Events) /\ Len(<<>>) = 0
  OBVIOUS
<1>2. PICK f : TraceOf(<<>>, f) /\ Traced(<<>>) = f[Len(<<>>)]
  BY <1>1, TraceSolves
<1> QED BY <1>1, <1>2 DEF TraceOf

LEMMA ScanIsOpen ==
  ASSUME NEW s \in Seq(Events) PROVE Scan(s) \in Opens
<1>1. PICK f : f \in [0 .. Len(s) -> Opens] /\ Scan(s) = f[Len(s)]
  BY ScanSolves
<1>2. Len(s) \in 0 .. Len(s)
  OBVIOUS
<1> HIDE DEF Opens
<1> QED BY <1>1, <1>2

LEMMA TracedIsTrace ==
  ASSUME NEW s \in Seq(Events) PROVE Traced(s) \in Traces
<1>1. PICK f : f \in [0 .. Len(s) -> Traces] /\ Traced(s) = f[Len(s)]
  BY TraceSolves
<1>2. Len(s) \in 0 .. Len(s)
  OBVIOUS
<1> HIDE DEF Traces
<1> QED BY <1>1, <1>2

(* One more event is one more step of the pass. *)
LEMMA ScanAppend ==
  ASSUME NEW s \in Seq(Events), NEW e \in Events
  PROVE  Scan(Append(s, e)) = ScanEvent(Scan(s), e)
<1>1. PICK r : r = Append(s, e)
  OBVIOUS
<1>2. /\ r \in Seq(Events) /\ Len(r) = Len(s) + 1 /\ Len(s) \in Nat
      /\ \A i \in 1 .. Len(s) : r[i] = s[i]
      /\ r[Len(s) + 1] = e
  BY <1>1
<1>3. PICK f : ScanOf(s, f) /\ Scan(s) = f[Len(s)]
  BY ScanSolves
<1>4. PICK g : ScanOf(r, g) /\ Scan(r) = g[Len(r)]
  BY <1>2, ScanSolves
<1>5. f[0] = NothingOpen /\ \A i \in 1 .. Len(s) : f[i] = ScanEvent(f[i - 1], s[i])
  BY <1>2, <1>3 DEF ScanOf
<1>6. g[0] = NothingOpen /\ \A i \in 1 .. Len(s) + 1 : g[i] = ScanEvent(g[i - 1], r[i])
  <2>0. Len(r) \in Nat
    BY <1>2
  <2>1. g[0] = NothingOpen /\ \A i \in 1 .. Len(r) : g[i] = ScanEvent(g[i - 1], r[i])
    <3>1. g = [i \in 0 .. Len(r) |-> IF i = 0 THEN NothingOpen ELSE ScanEvent(g[i - 1], r[i])]
      BY <1>4 DEF ScanOf
    <3>2. 0 \in 0 .. Len(r) /\ \A i \in 1 .. Len(r) : i \in 0 .. Len(r) /\ i # 0
      BY <2>0
    <3> QED BY <3>1, <3>2
  <2>2. Len(r) = Len(s) + 1
    BY <1>2
  <2> QED BY <2>1, <2>2
<1>7. f[0] = g[0] /\ \A i \in 1 .. Len(s) : f[i - 1] = g[i - 1] => f[i] = g[i]
  BY <1>2, <1>5, <1>6
<1>8. f[Len(s)] = g[Len(s)]
  <2>1. Len(s) \in Nat
    BY <1>2
  <2>2. Alike(f, g, Len(s))
    BY <1>7 DEF Alike
  <2>3. \A i \in 0 .. Len(s) : f[i] = g[i]
    BY <2>1, <2>2, RecursionAgrees
  <2> QED BY <1>2, <2>3
<1>9. Len(s) + 1 \in 1 .. Len(s) + 1 /\ (Len(s) + 1) - 1 = Len(s)
  BY <1>2
<1>10. g[Len(s) + 1] = ScanEvent(g[Len(s)], e)
  BY <1>2, <1>6, <1>9
<1> QED BY <1>1, <1>2, <1>3, <1>4, <1>8, <1>10

LEMMA TraceAppend ==
  ASSUME NEW s \in Seq(Events), NEW e \in Events
  PROVE  Traced(Append(s, e)) = TraceEvent(Traced(s), e)
<1>1. PICK r : r = Append(s, e)
  OBVIOUS
<1>2. /\ r \in Seq(Events) /\ Len(r) = Len(s) + 1 /\ Len(s) \in Nat
      /\ \A i \in 1 .. Len(s) : r[i] = s[i]
      /\ r[Len(s) + 1] = e
  BY <1>1
<1>3. PICK f : TraceOf(s, f) /\ Traced(s) = f[Len(s)]
  BY TraceSolves
<1>4. PICK g : TraceOf(r, g) /\ Traced(r) = g[Len(r)]
  BY <1>2, TraceSolves
<1>5. f[0] = NewTrace /\ \A i \in 1 .. Len(s) : f[i] = TraceEvent(f[i - 1], s[i])
  BY <1>2, <1>3 DEF TraceOf
<1>6. g[0] = NewTrace /\ \A i \in 1 .. Len(s) + 1 : g[i] = TraceEvent(g[i - 1], r[i])
  <2>0. Len(r) \in Nat
    BY <1>2
  <2>1. g[0] = NewTrace /\ \A i \in 1 .. Len(r) : g[i] = TraceEvent(g[i - 1], r[i])
    BY SMTT(30), <1>4, <2>0 DEF TraceOf
  <2>2. Len(r) = Len(s) + 1
    BY <1>2
  <2> QED BY <2>1, <2>2
<1>7. f[0] = g[0] /\ \A i \in 1 .. Len(s) : f[i - 1] = g[i - 1] => f[i] = g[i]
  BY <1>2, <1>5, <1>6
<1>8. f[Len(s)] = g[Len(s)]
  <2>1. Len(s) \in Nat
    BY <1>2
  <2>2. Alike(f, g, Len(s))
    BY <1>7 DEF Alike
  <2>3. \A i \in 0 .. Len(s) : f[i] = g[i]
    BY <2>1, <2>2, RecursionAgrees
  <2> QED BY <1>2, <2>3
<1>9. Len(s) + 1 \in 1 .. Len(s) + 1 /\ (Len(s) + 1) - 1 = Len(s)
  BY <1>2
<1>10. g[Len(s) + 1] = TraceEvent(g[Len(s)], e)
  BY <1>2, <1>6, <1>9
<1> QED BY <1>1, <1>2, <1>3, <1>4, <1>8, <1>10

-----------------------------------------------------------------------------
(* What may be appended: the events that keep the two readings together.   *)
Fits(s, o, t, e) ==
  \/ /\ e.type = "turn/start" /\ o.turn = 0
     /\ e.turn = t.nextTurn /\ e.step = 0
  \/ /\ e.type = "turn/end" /\ o.turn # 0 /\ o.step = 0
     /\ e.turn = o.turn /\ e.step = 0
  \/ /\ e.type = "step/start" /\ o.turn # 0 /\ o.step = 0
     /\ e.turn = o.turn /\ e.step = t.nextStep
  \/ /\ o.step # 0 /\ Within(e, o)
     /\ \/ e.type = "step/end" /\ o.named \cap o.started = {}
        \/ /\ e.type = "assistant/message" /\ o.named = {}
           /\ \A i \in DOMAIN s :
                s[i].type \in {"tool/call", "tool/result"} => ~Within(s[i], o)
        \/ e.type = "tool/call" /\ e.call \in o.named
        \/ /\ e.type = "tool/result" /\ e.call \in o.named
           /\ \A c \in o.named : e.call <= c
           /\ e.call \in o.started \/ e.code = "not-started"

LEMMA FitsFollows ==
  ASSUME NEW s, NEW o \in Opens, NEW t \in Traces, NEW e \in Events,
         Tracks(o, t), Fits(s, o, t, e)
  PROVE  Follows(t, e)
<1> USE DEF Tracks, Follows, Names
<1>1. CASE e.type = "turn/start"
  BY <1>1 DEF Fits
<1>2. CASE e.type = "turn/end"
  BY <1>2 DEF Fits
<1>3. CASE e.type = "step/start"
  BY <1>3 DEF Fits
<1>4. CASE e.type \in {"step/end", "assistant/message", "tool/call"}
  BY <1>4 DEF Fits, Within
<1>5. CASE e.type = "tool/result"
  BY <1>5 DEF Fits, Within
<1> QED BY <1>1, <1>2, <1>3, <1>4, <1>5 DEF Events, EventTypes

LEMMA TracksStep ==
  ASSUME NEW s, NEW o \in Opens, NEW t \in Traces, NEW e \in Events,
         Tracks(o, t), Fits(s, o, t, e)
  PROVE  Tracks(ScanEvent(o, e), TraceEvent(t, e))
<1>0. Follows(t, e)
  BY FitsFollows
<1>1. PICK p : p = ScanEvent(o, e)
  OBVIOUS
<1>2. PICK u : u = TraceEvent(t, e)
  OBVIOUS
<1>3. /\ o.turn \in Nat /\ o.step \in Nat /\ t.nextTurn \in Nat /\ t.nextStep \in Nat
      /\ e.turn \in Nat /\ e.step \in Nat /\ e.call \in Nat
      /\ o.named \subseteq Calls /\ o.started \subseteq Calls
  BY Bounds DEF Opens, Traces, Events
<1>4. {} = 1 .. 0 /\ 1 \in 1 .. MaxCalls + 1 /\ 0 \in 0 .. MaxCalls
  BY Bounds
<1>5. CASE e.type = "turn/start"
  <2>1. p = [turn |-> e.turn, step |-> 0, named |-> {}, within |-> 0, started |-> {}]
    BY <1>1, <1>5, ScanCases
  <2>2. u = [turn |-> e.turn, step |-> t.step, nextTurn |-> t.nextTurn, nextStep |-> 1,
             pending |-> t.pending, legal |-> t.legal]
    BY <1>0, <1>2, <1>5, TraceCases
  <2>3. o.turn = 0 /\ e.turn = t.nextTurn
    BY <1>5 DEF Fits
  <2>4. Tracks(p, u)
    BY <1>4, <2>1, <2>2, <2>3 DEF Tracks
  <2> QED BY <1>1, <1>2, <2>4
<1>6. CASE e.type = "turn/end"
  <2>1. p = [turn |-> 0, step |-> 0, named |-> {}, within |-> 0, started |-> {}]
    BY <1>1, <1>6, ScanCases DEF NothingOpen
  <2>2. u = [turn |-> 0, step |-> t.step, nextTurn |-> t.nextTurn + 1,
             nextStep |-> t.nextStep, pending |-> t.pending, legal |-> t.legal]
    BY <1>0, <1>2, <1>6, TraceCases
  <2>3. o.turn # 0 /\ o.step = 0 /\ e.turn = o.turn
    BY <1>6 DEF Fits
  <2>4. t.nextTurn + 1 # 0
    BY <1>3
  <2>5. Tracks(p, u)
    BY <1>4, <2>1, <2>2, <2>3, <2>4 DEF Tracks
  <2> QED BY <1>1, <1>2, <2>5
<1>7. CASE e.type = "step/start"
  <2>1. p = [turn |-> o.turn, step |-> e.step, named |-> o.named, within |-> o.within,
             started |-> o.started]
    BY <1>1, <1>7, ScanCases
  <2>2. u = [turn |-> t.turn, step |-> e.step, nextTurn |-> t.nextTurn,
             nextStep |-> t.nextStep, pending |-> t.pending, legal |-> t.legal]
    BY <1>0, <1>2, <1>7, TraceCases
  <2>3. o.turn # 0 /\ o.step = 0 /\ e.step = t.nextStep
    BY <1>7 DEF Fits
  <2>4. Tracks(p, u)
    BY <1>4, <2>1, <2>2, <2>3 DEF Tracks
  <2> QED BY <1>1, <1>2, <2>4
<1>8. CASE e.type = "step/end"
  <2>1. p = [turn |-> o.turn, step |-> 0, named |-> {}, within |-> 0, started |-> {}]
    BY <1>1, <1>8, ScanCases
  <2>2. u = [turn |-> t.turn, step |-> 0, nextTurn |-> t.nextTurn,
             nextStep |-> t.nextStep + 1, pending |-> {}, legal |-> t.legal]
    BY <1>0, <1>2, <1>8, TraceCases
  <2>3. t.nextStep + 1 # 0
    BY <1>3
  <2>4. Tracks(p, u)
    BY <1>4, <2>1, <2>2, <2>3 DEF Tracks
  <2> QED BY <1>1, <1>2, <2>4
<1>9. CASE e.type = "assistant/message"
  <2>1. p = [turn |-> o.turn, step |-> o.step, named |-> 1 .. e.call,
             within |-> e.step, started |-> {}]
    <3>1. o.named = {}
      BY <1>9 DEF Fits
    <3>2. p = [turn |-> o.turn, step |-> o.step, named |-> o.named \cup 1 .. e.call,
               within |-> e.step, started |-> {}]
      BY <1>1, <1>9, ScanCases
    <3> QED BY <3>1, <3>2
  <2>2. u = t
    BY <1>0, <1>2, <1>9, TraceCases
  <2>3. o.step # 0 /\ o.named = {} /\ e.step = o.step
    BY <1>9 DEF Fits, Within
  <2>4. e.call \in 0 .. MaxCalls
    BY DEF Events
  <2>5. Tracks(p, u)
    BY <1>4, <2>1, <2>2, <2>3, <2>4 DEF Tracks
  <2> QED BY <1>1, <1>2, <2>5
<1>10. CASE e.type = "tool/call"
  <2>1. p = [turn |-> o.turn, step |-> o.step, named |-> o.named, within |-> o.within,
             started |-> o.started \cup ({e.call} \cap o.named)]
    BY <1>1, <1>10, ScanCases
  <2>2. u = [turn |-> t.turn, step |-> t.step, nextTurn |-> t.nextTurn,
             nextStep |-> t.nextStep, pending |-> t.pending \cup {e.call}, legal |-> t.legal]
    BY <1>0, <1>2, <1>10, TraceCases
  <2>3. o.step # 0 /\ e.call \in o.named
    BY <1>10 DEF Fits
  <2>4. u.pending = p.named \cap p.started
    BY <2>1, <2>2, <2>3 DEF Tracks
  <2>5. Tracks(p, u)
    BY <2>1, <2>2, <2>3, <2>4 DEF Tracks
  <2> QED BY <1>1, <1>2, <2>5
<1>11. CASE e.type = "tool/result"
  <2>1. p = [turn |-> o.turn, step |-> o.step, named |-> o.named \ {e.call},
             within |-> o.within, started |-> o.started]
    BY <1>1, <1>11, ScanCases
  <2>2. u = [turn |-> t.turn, step |-> t.step, nextTurn |-> t.nextTurn,
             nextStep |-> t.nextStep, pending |-> t.pending \ {e.call}, legal |-> t.legal]
    BY <1>0, <1>2, <1>11, TraceCases
  <2>3. o.step # 0 /\ e.call \in o.named /\ \A c \in o.named : e.call <= c
    BY <1>11 DEF Fits
  <2>4. u.pending = p.named \cap p.started
    BY <2>1, <2>2, <2>3 DEF Tracks
  <2>5. PICK lo \in 1 .. MaxCalls + 1, hi \in 0 .. MaxCalls : o.named = lo .. hi
    BY DEF Tracks
  <2>6. e.call = lo /\ lo <= hi
    <3>1. e.call \in lo .. hi /\ \A c \in lo .. hi : e.call <= c
      BY <2>3, <2>5
    <3>2. lo \in Nat /\ hi \in Nat /\ e.call \in Nat
      BY Bounds, <1>3
    <3> QED BY <3>1, <3>2
  <2>7. lo + 1 \in 1 .. MaxCalls + 1 /\ p.named = lo + 1 .. hi
    BY Bounds, <2>1, <2>5, <2>6
  <2>8. Tracks(p, u)
    BY <2>1, <2>2, <2>3, <2>4, <2>5, <2>7 DEF Tracks
  <2> QED BY <1>1, <1>2, <2>8
<1> QED BY <1>5, <1>6, <1>7, <1>8, <1>9, <1>10, <1>11 DEF Events, EventTypes

(* The same for what the events tell, a part at a time. *)
LEMMA AppendTo ==
  ASSUME NEW s \in Seq(Events), NEW e \in Events
  PROVE  /\ Append(s, e) \in Seq(Events) /\ Len(s) \in Nat
         /\ DOMAIN s = 1 .. Len(s) /\ DOMAIN Append(s, e) = 1 .. Len(s) + 1
         /\ \A i \in 1 .. Len(s) : Append(s, e)[i] = s[i] /\ s[i] \in Events
         /\ Append(s, e)[Len(s) + 1] = e
  OBVIOUS

LEMMA AheadStep ==
  ASSUME NEW s \in Seq(Events), NEW o \in Opens, NEW t \in Traces, NEW e \in Events,
         Tracks(o, t), Fits(s, o, t, e), NothingAhead(s, t)
  PROVE  NothingAhead(Append(s, e), TraceEvent(t, e))
<1>1. Follows(t, e)
  BY FitsFollows
<1>2. PICK u : u = TraceEvent(t, e)
  OBVIOUS
<1>3. t.nextTurn \in Nat /\ t.nextStep \in Nat /\ t.turn \in Nat /\ t.step \in Nat
  BY DEF Traces
<1>4. \A x \in Events : x.turn \in Nat /\ x.step \in Nat
  BY Bounds DEF Events
<1>5. ASSUME NEW x \in Events, Reached(x, t) PROVE Reached(x, u)
  <2>1. CASE e.type = "turn/start"
    <3>1. u.nextTurn = t.nextTurn /\ u.turn = e.turn
      BY <1>1, <1>2, <2>1, TraceCases
    <3>2. t.turn = 0 /\ t.nextTurn # 0
      BY <2>1 DEF Fits, Tracks
    <3> QED BY <1>3, <1>4, <1>5, <3>1, <3>2 DEF Reached
  <2>2. CASE e.type = "turn/end"
    <3>1. u.nextTurn = t.nextTurn + 1
      BY <1>1, <1>2, <2>2, TraceCases
    <3>2. t.turn = t.nextTurn
      BY <2>2 DEF Fits, Tracks
    <3> QED BY <1>3, <1>4, <1>5, <3>1, <3>2 DEF Reached
  <2>3. CASE e.type = "step/start"
    <3>1. u.nextTurn = t.nextTurn /\ u.turn = t.turn /\ u.nextStep = t.nextStep
      BY <1>1, <1>2, <2>3, TraceCases
    <3>2. t.step = 0 /\ t.nextStep # 0
      BY <2>3 DEF Fits, Tracks
    <3> QED BY <1>3, <1>4, <1>5, <3>1, <3>2 DEF Reached
  <2>4. CASE e.type = "step/end"
    <3>1. u.nextTurn = t.nextTurn /\ u.turn = t.turn /\ u.nextStep = t.nextStep + 1
      BY <1>1, <1>2, <2>4, TraceCases
    <3>2. t.step = t.nextStep
      BY <2>4 DEF Fits, Tracks
    <3> QED BY <1>3, <1>4, <1>5, <3>1, <3>2 DEF Reached
  <2>5. CASE e.type \in {"assistant/message", "tool/call", "tool/result"}
    <3>1. u.nextTurn = t.nextTurn /\ u.turn = t.turn /\ u.nextStep = t.nextStep
          /\ u.step = t.step
      BY <1>1, <1>2, <2>5, TraceCases
    <3> QED BY <1>5, <3>1 DEF Reached
  <2> QED BY <2>1, <2>2, <2>3, <2>4, <2>5 DEF Events, EventTypes
<1>6. Reached(e, u)
  <2>1. CASE e.type = "turn/start"
    <3>1. u.turn = e.turn /\ u.nextStep = 1 /\ e.step = 0
      BY <1>1, <1>2, <2>1, TraceCases DEF Fits
    <3> QED BY <3>1 DEF Reached
  <2>2. CASE e.type = "turn/end"
    <3>1. u.nextTurn = t.nextTurn + 1 /\ e.turn = t.nextTurn
      BY <1>1, <1>2, <2>2, TraceCases DEF Fits, Tracks
    <3> QED BY <1>3, <3>1 DEF Reached
  <2>3. CASE e.type = "step/start"
    <3>1. u.turn = e.turn /\ u.step = e.step
      BY <1>1, <1>2, <2>3, TraceCases DEF Fits, Tracks
    <3> QED BY <3>1 DEF Reached
  <2>4. CASE e.type = "step/end"
    <3>1. u.turn = e.turn /\ u.nextStep = t.nextStep + 1 /\ e.step = t.nextStep
      BY <1>1, <1>2, <2>4, TraceCases DEF Fits, Tracks, Within
    <3> QED BY <1>3, <3>1 DEF Reached
  <2>5. CASE e.type \in {"assistant/message", "tool/call", "tool/result"}
    <3>1. u.turn = e.turn /\ u.step = e.step
      BY <1>1, <1>2, <2>5, TraceCases DEF Fits, Tracks, Within
    <3> QED BY <3>1 DEF Reached
  <2> QED BY <2>1, <2>2, <2>3, <2>4, <2>5 DEF Events, EventTypes
<1>7. ASSUME NEW i \in 1 .. Len(s) + 1 PROVE Reached(Append(s, e)[i], u)
  <2>1. CASE i = Len(s) + 1
    BY <1>6, <2>1, AppendTo
  <2>2. CASE i # Len(s) + 1
    <3>1. i \in 1 .. Len(s)
      BY <2>2, AppendTo
    <3> QED BY <1>5, <3>1, AppendTo DEF NothingAhead
  <2> QED BY <2>1, <2>2
<1> QED BY <1>2, <1>7, AppendTo DEF NothingAhead

LEMMA TurnsStep ==
  ASSUME NEW s \in Seq(Events), NEW o \in Opens, NEW t \in Traces, NEW e \in Events,
         Tracks(o, t), Fits(s, o, t, e), TurnsCounted(s, t)
  PROVE  TurnsCounted(Append(s, e), TraceEvent(t, e))
<1>1. Follows(t, e)
  BY FitsFollows
<1>2. PICK u : u = TraceEvent(t, e)
  OBVIOUS
<1>3. PICK r : r = Append(s, e)
  OBVIOUS
<1>4. t.nextTurn \in Nat /\ t.turn \in Nat
  BY DEF Traces
<1>5. CASE e.type = "turn/start"
  <2>1. u.turn = e.turn /\ e.turn # 0
    BY <1>1, <1>2, <1>5, TraceCases DEF Fits, Tracks
  <2>2. Len(s) + 1 \in Starts(r) /\ \A i \in Starts(r) : i <= Len(s) + 1
    BY <1>3, <1>5, AppendTo DEF Starts
  <2>3. r[Len(s) + 1].turn = TurnsBegun(u)
    BY <1>3, <2>1, AppendTo DEF TurnsBegun
  <2>4. TurnsCounted(r, u)
    BY <2>2, <2>3 DEF TurnsCounted
  <2> QED BY <1>2, <1>3, <2>4
<1>6. CASE e.type # "turn/start"
  <2>1. Starts(r) = Starts(s) /\ \A i \in Starts(s) : r[i] = s[i]
    BY <1>3, <1>6, AppendTo DEF Starts
  <2>2. TurnsBegun(u) = TurnsBegun(t)
    <3>1. CASE e.type = "turn/end"
      <4>1. u.turn = 0 /\ u.nextTurn = t.nextTurn + 1
        BY <1>1, <1>2, <3>1, TraceCases
      <4>2. t.turn = t.nextTurn /\ t.turn # 0
        BY <3>1 DEF Fits, Tracks
      <4> QED BY <1>4, <4>1, <4>2 DEF TurnsBegun
    <3>2. CASE e.type # "turn/end"
      <4>1. u.turn = t.turn /\ u.nextTurn = t.nextTurn
        BY <1>1, <1>2, <1>6, <3>2, TraceCases DEF Events, EventTypes
      <4> QED BY <4>1 DEF TurnsBegun
    <3> QED BY <3>1, <3>2
  <2>3. TurnsCounted(r, u)
    BY <2>1, <2>2 DEF TurnsCounted
  <2> QED BY <1>2, <1>3, <2>3
<1> QED BY <1>5, <1>6

LEMMA AnsweredStep ==
  ASSUME NEW s \in Seq(Events), NEW o \in Opens, NEW t \in Traces, NEW e \in Events,
         Tracks(o, t), Fits(s, o, t, e), CallsAnswered(s, o), CallsStarted(s, o)
  PROVE  CallsAnswered(Append(s, e), ScanEvent(o, e))
<1>1. PICK p : p = ScanEvent(o, e)
  OBVIOUS
<1>2. PICK r : r = Append(s, e)
  OBVIOUS
<1>3. /\ DOMAIN r = 1 .. Len(s) + 1 /\ r[Len(s) + 1] = e /\ Len(s) \in Nat
      /\ DOMAIN s = 1 .. Len(s) /\ \A i \in 1 .. Len(s) : r[i] = s[i]
  BY <1>2, AppendTo
<1>4. ASSUME NEW i \in DOMAIN s, s[i].type = "tool/call"
      PROVE  \/ Within(s[i], p) /\ s[i].call \in p.named
             \/ \E j \in DOMAIN r : r[j].type = "tool/result" /\ CallNamed(r[j]) = CallNamed(s[i])
  <2>1. CASE \E j \in DOMAIN s : s[j].type = "tool/result" /\ CallNamed(s[j]) = CallNamed(s[i])
    <3>1. PICK j \in DOMAIN s : s[j].type = "tool/result" /\ CallNamed(s[j]) = CallNamed(s[i])
      BY <2>1
    <3>2. j \in DOMAIN r /\ r[j] = s[j]
      BY <1>3
    <3> QED BY <3>1, <3>2
  <2>2. CASE Within(s[i], o) /\ s[i].call \in o.named
    <3>1. o.step # 0
      BY <2>2 DEF Tracks
    <3>2. s[i].call \in o.started
      BY <1>4, <2>2, <3>1 DEF CallsStarted
    <3>3. \/ e.type = "tool/call"
          \/ e.type = "tool/result" /\ Within(e, o)
      BY <2>2, <3>1, <3>2 DEF Fits, Tracks
    <3>4. CASE e.type = "tool/call"
      <4>1. p.turn = o.turn /\ p.step = o.step /\ p.named = o.named
        BY <1>1, <3>4, ScanCases
      <4> QED BY <2>2, <4>1 DEF Within
    <3>5. CASE e.type = "tool/result" /\ Within(e, o)
      <4>1. p.turn = o.turn /\ p.step = o.step /\ p.named = o.named \ {e.call}
        BY <1>1, <3>5, ScanCases
      <4>2. CASE s[i].call = e.call
        <5>1. CallNamed(e) = CallNamed(s[i])
          BY <2>2, <3>5, <4>2 DEF CallNamed, Within
        <5>2. Len(s) + 1 \in DOMAIN r
          BY <1>3
        <5> QED BY <1>3, <3>5, <5>1, <5>2
      <4>3. CASE s[i].call # e.call
        BY <2>2, <4>1, <4>3 DEF Within
      <4> QED BY <4>2, <4>3
    <3> QED BY <3>3, <3>4, <3>5
  <2> QED BY <1>4, <2>1, <2>2 DEF CallsAnswered
<1>5. ASSUME e.type = "tool/call" PROVE Within(e, p) /\ e.call \in p.named
  <2>1. p.turn = o.turn /\ p.step = o.step /\ p.named = o.named
    BY <1>1, <1>5, ScanCases
  <2> QED BY <1>5, <2>1 DEF Fits, Within
<1>6. ASSUME NEW i \in DOMAIN r, r[i].type = "tool/call"
      PROVE  \/ Within(r[i], p) /\ r[i].call \in p.named
             \/ \E j \in DOMAIN r : r[j].type = "tool/result" /\ CallNamed(r[j]) = CallNamed(r[i])
  <2>1. CASE i = Len(s) + 1
    BY <1>3, <1>5, <1>6, <2>1
  <2>2. CASE i # Len(s) + 1
    <3>1. i \in DOMAIN s /\ r[i] = s[i]
      BY <1>3, <2>2
    <3> QED BY <1>4, <1>6, <3>1
  <2> QED BY <2>1, <2>2
<1> QED BY <1>1, <1>2, <1>6 DEF CallsAnswered

LEMMA StartedStep ==
  ASSUME NEW s \in Seq(Events), NEW o \in Opens, NEW t \in Traces, NEW e \in Events,
         Tracks(o, t), Fits(s, o, t, e), CallsStarted(s, o), NothingAhead(s, t)
  PROVE  CallsStarted(Append(s, e), ScanEvent(o, e))
<1>1. PICK p : p = ScanEvent(o, e)
  OBVIOUS
<1>2. PICK r : r = Append(s, e)
  OBVIOUS
<1>3. /\ DOMAIN r = 1 .. Len(s) + 1 /\ r[Len(s) + 1] = e /\ Len(s) \in Nat
      /\ DOMAIN s = 1 .. Len(s) /\ \A i \in 1 .. Len(s) : r[i] = s[i] /\ s[i] \in Events
  BY <1>2, AppendTo
<1>4. ASSUME NEW i \in DOMAIN s, s[i].type = "tool/call", p.step # 0, Within(s[i], p)
      PROVE  s[i].call \in p.started
  <2>1. e.type \notin {"turn/start", "turn/end", "step/end"}
    BY <1>1, <1>4, ScanCases DEF NothingOpen
  <2>2. e.type # "step/start"
    <3> SUFFICES ASSUME e.type = "step/start" PROVE FALSE
      OBVIOUS
    <3>1. p.turn = o.turn /\ p.step = e.step
      BY <1>1, ScanCases
    <3>2. o.turn # 0 /\ o.step = 0 /\ e.step = t.nextStep
      BY DEF Fits
    <3>3. Reached(s[i], t)
      BY DEF NothingAhead
    <3>4. t.turn = o.turn /\ t.nextTurn = o.turn /\ t.step = 0 /\ t.nextStep # 0
      BY <3>2 DEF Tracks
    <3>5. s[i].turn = o.turn /\ s[i].step = t.nextStep
      BY <1>4, <3>1, <3>2 DEF Within
    <3>6. t.nextStep \in Nat /\ t.nextTurn \in Nat
      BY DEF Traces
    <3> QED BY <3>3, <3>4, <3>5, <3>6 DEF Reached
  <2>3. p.turn = o.turn /\ p.step = o.step
    BY <1>1, <2>1, <2>2, ScanCases, EventType
  <2>4. Within(s[i], o) /\ o.step # 0
    BY <1>4, <2>3 DEF Within
  <2>5. e.type # "assistant/message"
    BY <1>4, <2>4 DEF Fits
  <2>6. o.started \subseteq p.started
    BY <1>1, <2>1, <2>2, <2>5, ScanCases, EventType
  <2> QED BY <1>4, <2>4, <2>6 DEF CallsStarted
<1>5. ASSUME e.type = "tool/call" PROVE e.call \in p.started
  BY <1>1, <1>5, ScanCases DEF Fits
<1>6. ASSUME NEW i \in DOMAIN r, r[i].type = "tool/call", p.step # 0, Within(r[i], p)
      PROVE  r[i].call \in p.started
  <2>1. CASE i = Len(s) + 1
    BY <1>3, <1>5, <1>6, <2>1
  <2>2. CASE i # Len(s) + 1
    <3>1. i \in DOMAIN s /\ r[i] = s[i]
      BY <1>3, <2>2
    <3> QED BY <1>4, <1>6, <3>1
  <2> QED BY <2>1, <2>2
<1> QED BY <1>1, <1>2, <1>6 DEF CallsStarted

LEMMA RecordedStep ==
  ASSUME NEW s \in Seq(Events), NEW o \in Opens, NEW t \in Traces, NEW e \in Events,
         Tracks(o, t), Fits(s, o, t, e), StartsRecorded(s, o)
  PROVE  StartsRecorded(Append(s, e), ScanEvent(o, e))
<1>1. PICK p : p = ScanEvent(o, e)
  OBVIOUS
<1>2. PICK r : r = Append(s, e)
  OBVIOUS
<1>3. /\ DOMAIN r = 1 .. Len(s) + 1 /\ r[Len(s) + 1] = e /\ Len(s) \in Nat
      /\ DOMAIN s = 1 .. Len(s) /\ \A i \in 1 .. Len(s) : r[i] = s[i]
  BY <1>2, AppendTo
<1>4. ASSUME NEW c \in p.started
      PROVE  \E i \in DOMAIN r : r[i].type = "tool/call" /\ CallNamed(r[i]) = <<p.turn, p.step, c>>
  <2>1. e.type \in {"step/start", "tool/call", "tool/result"}
    BY <1>1, <1>4, ScanCases DEF NothingOpen, Events, EventTypes
  <2>2. e.type # "step/start"
    BY <1>1, <1>4, ScanCases DEF Fits, Tracks
  <2>3. p.turn = o.turn /\ p.step = o.step
    BY <1>1, <2>1, <2>2, ScanCases
  <2>4. CASE c \in o.started
    <3>1. PICK i \in DOMAIN s :
            s[i].type = "tool/call" /\ CallNamed(s[i]) = <<o.turn, o.step, c>>
      BY <2>4 DEF StartsRecorded
    <3>2. i \in DOMAIN r /\ r[i] = s[i]
      BY <1>3
    <3> QED BY <2>3, <3>1, <3>2
  <2>5. CASE c \notin o.started
    <3>1. e.type = "tool/call" /\ c = e.call
      BY <1>1, <1>4, <2>1, <2>2, <2>5, ScanCases
    <3>2. CallNamed(e) = <<o.turn, o.step, c>>
      BY <3>1 DEF Fits, Within, CallNamed
    <3>3. Len(s) + 1 \in DOMAIN r
      BY <1>3
    <3> QED BY <1>3, <2>3, <3>1, <3>2, <3>3
  <2> QED BY <2>4, <2>5
<1> QED BY <1>1, <1>2, <1>4 DEF StartsRecorded

LEMMA ResultsStep ==
  ASSUME NEW s \in Seq(Events), NEW o \in Opens, NEW t \in Traces, NEW e \in Events,
         Tracks(o, t), Fits(s, o, t, e), ResultsDiffer(s), ResultsClose(s, o)
  PROVE  /\ ResultsDiffer(Append(s, e))
         /\ ResultsClose(Append(s, e), ScanEvent(o, e))
<1>1. PICK p : p = ScanEvent(o, e)
  OBVIOUS
<1>2. PICK r : r = Append(s, e)
  OBVIOUS
<1>3. /\ DOMAIN r = 1 .. Len(s) + 1 /\ r[Len(s) + 1] = e /\ Len(s) \in Nat
      /\ DOMAIN s = 1 .. Len(s) /\ \A i \in 1 .. Len(s) : r[i] = s[i]
  BY <1>2, AppendTo
<1>4. ASSUME NEW i \in DOMAIN s, s[i].type = "tool/result", e.type = "tool/result"
      PROVE  CallNamed(s[i]) # CallNamed(e)
  <2>1. o.step # 0 /\ Within(e, o) /\ e.call \in o.named
    BY <1>4 DEF Fits
  <2>2. Within(s[i], o) => s[i].call \notin o.named
    BY <1>4, <2>1 DEF ResultsClose
  <2> QED BY <2>1, <2>2 DEF CallNamed, Within
<1>5. ASSUME NEW i \in DOMAIN r, NEW j \in DOMAIN r,
             r[i].type = "tool/result", r[j].type = "tool/result",
             CallNamed(r[i]) = CallNamed(r[j])
      PROVE  i = j
  <2>1. CASE i = Len(s) + 1 /\ j # Len(s) + 1
    <3>1. j \in DOMAIN s /\ r[j] = s[j]
      BY <1>3, <2>1
    <3> QED BY <1>3, <1>4, <1>5, <2>1, <3>1
  <2>2. CASE i # Len(s) + 1 /\ j = Len(s) + 1
    <3>1. i \in DOMAIN s /\ r[i] = s[i]
      BY <1>3, <2>2
    <3> QED BY <1>3, <1>4, <1>5, <2>2, <3>1
  <2>3. CASE i # Len(s) + 1 /\ j # Len(s) + 1
    <3>1. i \in DOMAIN s /\ r[i] = s[i] /\ j \in DOMAIN s /\ r[j] = s[j]
      BY <1>3, <2>3
    <3> QED BY <1>5, <3>1 DEF ResultsDiffer
  <2> QED BY <2>1, <2>2, <2>3
<1>6. ASSUME NEW i \in DOMAIN s, s[i].type = "tool/result", p.step # 0, Within(s[i], p)
      PROVE  s[i].call \notin p.named
  <2>1. e.type \notin {"turn/start", "turn/end", "step/end"}
    BY <1>1, <1>6, ScanCases DEF NothingOpen
  <2>2. CASE e.type = "step/start"
    <3>1. o.named = {}
      BY <2>2 DEF Fits, Tracks
    <3>2. p.named = o.named
      BY <1>1, <2>2, ScanCases
    <3> QED BY <3>1, <3>2
  <2>3. CASE e.type # "step/start"
    <3>1. p.turn = o.turn /\ p.step = o.step
      BY <1>1, <2>1, <2>3, ScanCases, EventType
    <3>2. Within(s[i], o) /\ o.step # 0
      BY <1>6, <3>1 DEF Within
    <3>3. e.type # "assistant/message"
      BY <1>6, <3>2 DEF Fits
    <3>4. p.named \subseteq o.named
      BY <1>1, <2>1, <2>3, <3>3, ScanCases, EventType
    <3> QED BY <1>6, <3>2, <3>4 DEF ResultsClose
  <2> QED BY <2>2, <2>3
<1>7. ASSUME e.type = "tool/result" PROVE e.call \notin p.named
  BY <1>1, <1>7, ScanCases
<1>8. ASSUME NEW i \in DOMAIN r, r[i].type = "tool/result", p.step # 0, Within(r[i], p)
      PROVE  r[i].call \notin p.named
  <2>1. CASE i = Len(s) + 1
    BY <1>3, <1>7, <1>8, <2>1
  <2>2. CASE i # Len(s) + 1
    <3>1. i \in DOMAIN s /\ r[i] = s[i]
      BY <1>3, <2>2
    <3> QED BY <1>6, <1>8, <3>1
  <2> QED BY <2>1, <2>2
<1>9. ResultsDiffer(r)
  BY <1>5 DEF ResultsDiffer
<1>10. ResultsClose(r, p)
  BY <1>8 DEF ResultsClose
<1> QED BY <1>1, <1>2, <1>9, <1>10

LEMMA WholeStep ==
  ASSUME NEW s \in Seq(Events), NEW e \in Events, Whole(s),
         Fits(s, Scan(s), Traced(s), e)
  PROVE  Whole(Append(s, e))
<1>1. PICK o \in Opens : o = Scan(s)
  BY ScanIsOpen
<1>2. PICK t \in Traces : t = Traced(s)
  BY TracedIsTrace
<1>3. Tracks(o, t) /\ Told(s, o, t) /\ Fits(s, o, t, e)
  BY <1>1, <1>2 DEF Whole
<1>4. Tracks(ScanEvent(o, e), TraceEvent(t, e))
  BY <1>3, TracksStep
<1>5. NothingAhead(Append(s, e), TraceEvent(t, e)) /\ TurnsCounted(Append(s, e), TraceEvent(t, e))
  BY <1>3, AheadStep, TurnsStep DEF Told
<1>6. /\ CallsAnswered(Append(s, e), ScanEvent(o, e))
      /\ CallsStarted(Append(s, e), ScanEvent(o, e))
      /\ StartsRecorded(Append(s, e), ScanEvent(o, e))
  BY <1>3, AnsweredStep, StartedStep, RecordedStep DEF Told
<1>7. ResultsDiffer(Append(s, e)) /\ ResultsClose(Append(s, e), ScanEvent(o, e))
  BY <1>3, ResultsStep DEF Told
<1>8. Told(Append(s, e), ScanEvent(o, e), TraceEvent(t, e))
  BY <1>5, <1>6, <1>7 DEF Told
<1> QED BY <1>1, <1>2, <1>4, <1>8, ScanAppend, TraceAppend DEF Whole

-----------------------------------------------------------------------------
(* Logs that may be cut anywhere. *)
LEMMA WholeEmpty == Whole(<<>>)
<1>1. Scan(<<>>) = NothingOpen /\ Traced(<<>>) = NewTrace
  BY ScanOfNothing, TraceOfNothing
<1>2. {} = 1 .. 0 /\ 1 \in 1 .. MaxCalls + 1 /\ 0 \in 0 .. MaxCalls
  BY Bounds
<1>3. Tracks(NothingOpen, NewTrace)
  BY <1>2 DEF Tracks, NothingOpen, NewTrace
<1>4. DOMAIN <<>> = {}
  OBVIOUS
<1>5. Starts(<<>>) = {} /\ TurnsBegun(NewTrace) = 0
  BY <1>4 DEF Starts, TurnsBegun, NewTrace
<1>6. Told(<<>>, NothingOpen, NewTrace)
  BY <1>4, <1>5 DEF Told, NothingAhead, TurnsCounted, CallsAnswered, CallsStarted, StartsRecorded,
                    ResultsDiffer, ResultsClose, NothingOpen
<1> QED BY <1>1, <1>3, <1>6 DEF Whole

LEMMA CutAt ==
  ASSUME NEW S, NEW s \in Seq(S), NEW n \in 0 .. Len(s)
  PROVE  /\ SubSeq(s, 1, n) \in Seq(S) /\ Len(SubSeq(s, 1, n)) = n
         /\ \A i \in 1 .. n : SubSeq(s, 1, n)[i] = s[i]
         /\ n = Len(s) => SubSeq(s, 1, n) = s
         /\ \A m \in 0 .. n : SubSeq(SubSeq(s, 1, n), 1, m) = SubSeq(s, 1, m)
<1>1. Len(s) \in Nat /\ n \in Nat /\ DOMAIN s = 1 .. Len(s)
  OBVIOUS
<1>2. SubSeq(s, 1, n) \in Seq(S) /\ Len(SubSeq(s, 1, n)) = n
  BY <1>1
<1>3. \A i \in 1 .. n : SubSeq(s, 1, n)[i] = s[i]
  BY <1>1
<1>4. n = Len(s) => SubSeq(s, 1, n) = s
  BY <1>1, <1>2, <1>3, SeqEqual
<1>5. ASSUME NEW m \in 0 .. n PROVE SubSeq(SubSeq(s, 1, n), 1, m) = SubSeq(s, 1, m)
  <2>1. PICK r \in Seq(S) : r = SubSeq(s, 1, n)
    BY <1>2
  <2>2. Len(r) = n /\ \A i \in 1 .. n : r[i] = s[i]
    BY <1>2, <1>3, <2>1
  <2>3. SubSeq(r, 1, m) \in Seq(S) /\ Len(SubSeq(r, 1, m)) = m
        /\ \A i \in 1 .. m : SubSeq(r, 1, m)[i] = r[i]
    BY <1>1, <2>1, <2>2
  <2>4. SubSeq(s, 1, m) \in Seq(S) /\ Len(SubSeq(s, 1, m)) = m
        /\ \A i \in 1 .. m : SubSeq(s, 1, m)[i] = s[i]
    BY <1>1
  <2>5. \A i \in 1 .. m : SubSeq(r, 1, m)[i] = SubSeq(s, 1, m)[i]
    BY <1>1, <2>2, <2>3, <2>4
  <2> QED BY <2>1, <2>3, <2>4, <2>5, SeqEqual
<1> QED BY <1>2, <1>3, <1>4, <1>5

LEMMA CutsEmpty == Cuts(<<>>)
<1>1. \A n \in 0 .. Len(<<>>) : SubSeq(<<>>, 1, n) = <<>>
  OBVIOUS
<1> QED BY <1>1, WholeEmpty DEF Cuts

LEMMA CutsWhole ==
  ASSUME NEW s \in Seq(Events), Cuts(s)
  PROVE  Whole(s)
<1>1. Len(s) \in 0 .. Len(s) /\ SubSeq(s, 1, Len(s)) = s
  <2>1. Len(s) \in 0 .. Len(s)
    OBVIOUS
  <2> QED BY <2>1, CutAt
<1> QED BY <1>1 DEF Cuts

LEMMA CutsCut ==
  ASSUME NEW s \in Seq(Events), Cuts(s), NEW n \in 0 .. Len(s)
  PROVE  Cuts(SubSeq(s, 1, n))
<1>1. Len(SubSeq(s, 1, n)) = n /\ \A m \in 0 .. n : SubSeq(SubSeq(s, 1, n), 1, m) = SubSeq(s, 1, m)
  BY CutAt
<1>2. \A m \in 0 .. n : m \in 0 .. Len(s)
  OBVIOUS
<1> QED BY <1>1, <1>2 DEF Cuts

LEMMA CutsStep ==
  ASSUME NEW s \in Seq(Events), NEW e \in Events, Cuts(s),
         Fits(s, Scan(s), Traced(s), e)
  PROVE  Cuts(Append(s, e))
<1>1. PICK r : r = Append(s, e)
  OBVIOUS
<1>2. r \in Seq(Events) /\ Len(r) = Len(s) + 1 /\ Len(s) \in Nat
      /\ \A i \in 1 .. Len(s) : r[i] = s[i]
  BY <1>1
<1>3. Whole(r)
  BY <1>1, CutsWhole, WholeStep
<1>4. ASSUME NEW n \in 0 .. Len(r) PROVE Whole(SubSeq(r, 1, n))
  <2>1. CASE n = Len(r)
    BY <1>2, <1>3, <2>1, CutAt
  <2>2. CASE n # Len(r)
    <3>1. n \in 0 .. Len(s)
      BY <1>2, <2>2
    <3>2. SubSeq(r, 1, n) \in Seq(Events) /\ Len(SubSeq(r, 1, n)) = n
          /\ \A i \in 1 .. n : SubSeq(r, 1, n)[i] = r[i]
      BY <1>2, CutAt
    <3>3. SubSeq(s, 1, n) \in Seq(Events) /\ Len(SubSeq(s, 1, n)) = n
          /\ \A i \in 1 .. n : SubSeq(s, 1, n)[i] = s[i]
      BY <3>1, CutAt
    <3>4. \A i \in 1 .. n : SubSeq(r, 1, n)[i] = SubSeq(s, 1, n)[i]
      BY <1>2, <3>1, <3>2, <3>3
    <3>5. SubSeq(r, 1, n) = SubSeq(s, 1, n)
      BY <3>2, <3>3, <3>4, SeqEqual
    <3> QED BY <3>1, <3>5 DEF Cuts
  <2> QED BY <2>1, <2>2
<1> QED BY <1>1, <1>4 DEF Cuts

-----------------------------------------------------------------------------
(* interruptedTurnClosers(). *)
LEMMA IntervalOrder ==
  ASSUME NEW lo \in Nat, NEW hi \in Nat
  PROVE  /\ Cardinality(lo .. hi) = (IF lo > hi THEN 0 ELSE hi - lo + 1)
         /\ InOrder(lo .. hi) = [i \in 1 .. Cardinality(lo .. hi) |-> lo + i - 1]
<1>1. \A a, b \in Nat : Cardinality(a .. b) = IF a > b THEN 0 ELSE b - a + 1
  BY FS_Interval
<1>2. PICK n \in Nat : n = Cardinality(lo .. hi)
  BY <1>1
<1>3. \A c \in lo .. hi : Cardinality({d \in lo .. hi : d < c}) = c - lo
  <2> TAKE c \in lo .. hi
  <2>1. CASE c = lo
    <3>1. {d \in lo .. hi : d < c} = {}
      BY <2>1
    <3> QED BY <2>1, <3>1, FS_EmptySet
  <2>2. CASE c # lo
    <3>1. PICK b \in Nat : b = c - 1
      BY <2>2
    <3>2. {d \in lo .. hi : d < c} = lo .. b /\ ~(lo > b) /\ b - lo + 1 = c - lo
      BY <2>2, <3>1
    <3> QED BY <1>1, <3>1, <3>2
  <2> QED BY <2>1, <2>2
<1>4. ASSUME NEW i \in 1 .. n
      PROVE  (CHOOSE c \in lo .. hi : Cardinality({d \in lo .. hi : d < c}) = i - 1) = lo + i - 1
  <2>0. n = IF lo > hi THEN 0 ELSE hi - lo + 1
    BY <1>1, <1>2
  <2>1. lo + i - 1 \in lo .. hi /\ (lo + i - 1) - lo = i - 1
    BY <2>0
  <2>2. \A c \in lo .. hi : c - lo = i - 1 => c = lo + i - 1
    OBVIOUS
  <2>3. \E c \in lo .. hi : Cardinality({d \in lo .. hi : d < c}) = i - 1
    BY <1>3, <2>1
  <2>4. PICK x : x = CHOOSE c \in lo .. hi : Cardinality({d \in lo .. hi : d < c}) = i - 1
    OBVIOUS
  <2>5. x \in lo .. hi /\ Cardinality({d \in lo .. hi : d < x}) = i - 1
    BY <2>3, <2>4
  <2>6. Cardinality({d \in lo .. hi : d < x}) = x - lo
    BY <1>3, <2>5
  <2>7. x = lo + i - 1
    BY <2>2, <2>5, <2>6
  <2> QED BY <2>4, <2>7
<1> QED BY ZenonT(60), <1>1, <1>2, <1>4 DEF InOrder

LEMMA Regrouped ==
  ASSUME NEW s \in Seq(Events), NEW t \in Seq(Events), NEW u \in Seq(Events)
  PROVE  (s \o t) \o u = s \o (t \o u)
  BY SMTT(30), ConcatAssociative

LEMMA ConcatGrows ==
  ASSUME NEW s \in Seq(Events), NEW a \in Seq(Events), NEW k \in Nat, k < Len(a)
  PROVE  s \o SubSeq(a, 1, k + 1) = Append(s \o SubSeq(a, 1, k), a[k + 1])
<1>1. Len(s) \in Nat /\ Len(a) \in Nat /\ k + 1 \in 1 .. Len(a) /\ k \in 0 .. Len(a)
      /\ k + 1 \in 0 .. Len(a) /\ a[k + 1] \in Events
  OBVIOUS
<1>2. PICK p : p = SubSeq(a, 1, k)
  OBVIOUS
<1>3. PICK q : q = SubSeq(a, 1, k + 1)
  OBVIOUS
<1>4. p \in Seq(Events) /\ Len(p) = k /\ \A i \in 1 .. k : p[i] = a[i]
  BY <1>1, <1>2, CutAt
<1>5. q \in Seq(Events) /\ Len(q) = k + 1 /\ \A i \in 1 .. k + 1 : q[i] = a[i]
  BY <1>1, <1>3, CutAt
<1>6. PICK x : x = s \o p
  OBVIOUS
<1>7. PICK y : y = s \o q
  OBVIOUS
<1>8. /\ x \in Seq(Events) /\ Len(x) = Len(s) + k
      /\ \A i \in 1 .. Len(s) + k : x[i] = IF i <= Len(s) THEN s[i] ELSE p[i - Len(s)]
  <2>1. /\ s \o p \in Seq(Events) /\ Len(s \o p) = Len(s) + Len(p)
        /\ \A i \in 1 .. Len(s) + Len(p) :
             (s \o p)[i] = IF i <= Len(s) THEN s[i] ELSE p[i - Len(s)]
    BY <1>4, ConcatProperties
  <2> QED BY <1>4, <1>6, <2>1
<1>9. /\ y \in Seq(Events) /\ Len(y) = Len(s) + (k + 1)
      /\ \A i \in 1 .. Len(s) + (k + 1) : y[i] = IF i <= Len(s) THEN s[i] ELSE q[i - Len(s)]
  <2>1. /\ s \o q \in Seq(Events) /\ Len(s \o q) = Len(s) + Len(q)
        /\ \A i \in 1 .. Len(s) + Len(q) :
             (s \o q)[i] = IF i <= Len(s) THEN s[i] ELSE q[i - Len(s)]
    BY <1>5, ConcatProperties
  <2> QED BY <1>5, <1>7, <2>1
<1>10. PICK z : z = Append(x, a[k + 1])
  OBVIOUS
<1>11. /\ z \in Seq(Events) /\ Len(z) = Len(s) + k + 1
       /\ \A i \in 1 .. Len(s) + k : z[i] = x[i]
       /\ z[Len(s) + k + 1] = a[k + 1]
  <2>1. Len(x) = Len(s) + k /\ x \in Seq(Events) /\ a[k + 1] \in Events
    BY <1>1, <1>8
  <2> QED BY <1>10, <2>1, AppendProperties
<1>12. Len(s) + (k + 1) = Len(s) + k + 1
  BY <1>1
<1>13. ASSUME NEW i \in 1 .. Len(s) + k + 1 PROVE y[i] = z[i]
  <2>1. CASE i <= Len(s)
    <3>1. i \in 1 .. Len(s) + k
      BY <1>1, <2>1
    <3> QED BY <1>8, <1>9, <1>11, <1>12, <2>1, <3>1
  <2>2. CASE ~(i <= Len(s)) /\ i # Len(s) + k + 1
    <3>1. PICK j \in Nat : j = i - Len(s)
      BY <1>1, <2>2
    <3>2. j \in 1 .. k /\ j \in 1 .. k + 1 /\ i \in 1 .. Len(s) + k
      BY <1>1, <2>2, <3>1
    <3>3. y[i] = q[j] /\ z[i] = p[j]
      BY <1>8, <1>9, <1>11, <1>12, <2>2, <3>1, <3>2
    <3> QED BY <1>4, <1>5, <3>2, <3>3
  <2>3. CASE i = Len(s) + k + 1
    <3>1. i - Len(s) = k + 1 /\ ~(i <= Len(s)) /\ k + 1 \in 1 .. k + 1
      BY <1>1, <2>3
    <3> QED BY <1>5, <1>9, <1>11, <1>12, <2>3, <3>1
  <2> QED BY <2>1, <2>2, <2>3
<1>14. y = z
  BY <1>8, <1>9, <1>11, <1>12, <1>13, SeqEqual
<1> QED BY <1>2, <1>3, <1>6, <1>7, <1>10, <1>14

(* The results repair gives to what is left open. *)
LEMMA AnswerFits ==
  ASSUME NEW s \in Seq(Events), NEW o \in Opens, NEW p \in Opens, NEW t,
         NEW c \in p.named, o.step # 0, o.within = o.step,
         p.turn = o.turn, p.step = o.step, p.started = o.started,
         \A d \in p.named : c <= d
  PROVE  /\ Answer(o, c) \in Events
         /\ Fits(s, p, t, Answer(o, c))
         /\ Answer(o, c).type = "tool/result" /\ Answer(o, c).call = c
<1>1. PICK e : e = Answer(o, c)
  OBVIOUS
<1>2. /\ e.type = "tool/result" /\ e.turn = o.turn /\ e.step = o.within /\ e.call = c
      /\ e.code = IF c \in o.started THEN "outcome-unknown" ELSE "not-started"
  BY <1>1 DEF Answer, Event
<1>3. e \in Events
  <2>1. c \in 0 .. MaxCalls /\ o.turn \in 0 .. MaxTurns /\ o.within \in 0 .. MaxSteps
    BY Bounds DEF Opens, Calls
  <2>2. (IF c \in o.started THEN "outcome-unknown" ELSE "not-started") \in Codes
    BY DEF Codes
  <2> QED BY <1>1, <2>1, <2>2 DEF Answer, Event, Events, EventTypes
<1>4. Fits(s, p, t, e)
  BY <1>2 DEF Fits, Within
<1> QED BY <1>1, <1>2, <1>3, <1>4

LEMMA IntervalRest ==
  ASSUME NEW c \in Nat, NEW hi \in Nat
  PROVE  (c .. hi) \ {c} = c + 1 .. hi
  OBVIOUS

LEMMA AnswerStep ==
  ASSUME NEW r \in Seq(Events), Cuts(r), NEW o \in Opens, NEW c \in Nat, NEW hi \in Nat, c <= hi,
         Scan(r) = [turn |-> o.turn, step |-> o.step, named |-> c .. hi,
                    within |-> o.within, started |-> o.started],
         o.step # 0, o.within = o.step
  PROVE  /\ Answer(o, c) \in Events /\ Append(r, Answer(o, c)) \in Seq(Events)
         /\ Cuts(Append(r, Answer(o, c)))
         /\ Scan(Append(r, Answer(o, c))) =
              [turn |-> o.turn, step |-> o.step, named |-> c + 1 .. hi,
               within |-> o.within, started |-> o.started]
<1>1. PICK p : p = Scan(r)
  OBVIOUS
<1>2. p \in Opens
  BY <1>1, ScanIsOpen
<1>3. /\ p.turn = o.turn /\ p.step = o.step /\ p.named = c .. hi
      /\ p.within = o.within /\ p.started = o.started
  BY <1>1
<1>4. c \in p.named /\ \A d \in p.named : c <= d
  BY <1>3
<1>5. PICK e : e = Answer(o, c)
  OBVIOUS
<1>6. e \in Events /\ Fits(r, p, Traced(r), e) /\ e.type = "tool/result" /\ e.call = c
  <2>1. /\ o.within = o.step /\ o.step # 0 /\ p.turn = o.turn /\ p.step = o.step
        /\ p.started = o.started
    BY <1>3
  <2>2. /\ Answer(o, c) \in Events /\ Fits(r, p, Traced(r), Answer(o, c))
        /\ Answer(o, c).type = "tool/result" /\ Answer(o, c).call = c
    BY <1>2, <1>4, <2>1, AnswerFits
  <2> QED BY <1>5, <2>2
<1>7. Append(r, e) \in Seq(Events) /\ Cuts(Append(r, e))
  BY <1>1, <1>6, CutsStep
<1>8. ScanEvent(p, e) = [turn |-> p.turn, step |-> p.step, named |-> p.named \ {e.call},
                         within |-> p.within, started |-> p.started]
  BY <1>2, <1>6, ScanCases
<1>9. p.named \ {e.call} = c + 1 .. hi
  BY <1>3, <1>6, IntervalRest
<1>10. Scan(Append(r, e)) = ScanEvent(p, e)
  BY <1>1, <1>6, ScanAppend
<1> QED BY <1>3, <1>5, <1>6, <1>7, <1>8, <1>9, <1>10

AnswersTo(o, lo, n) == [i \in 1 .. n |-> Answer(o, lo + i - 1)]

AnsweredBy(s, a) ==
  /\ a \in Seq(Events)
  /\ \A i \in 1 .. Len(a) : \E c \in Scan(s).named : a[i] = Answer(Scan(s), c)
  /\ s \o a \in Seq(Events) /\ Cuts(s \o a)
  /\ Scan(s \o a).turn = Scan(s).turn /\ Scan(s \o a).step = Scan(s).step
  /\ Scan(s \o a).named = {}

LEMMA AnswersClose ==
  ASSUME NEW s \in Seq(Events), Cuts(s), NEW a,
         NEW lo \in 1 .. MaxCalls + 1, NEW hi \in 0 .. MaxCalls, NEW n \in Nat,
         Scan(s).named = lo .. hi, n = Cardinality(lo .. hi),
         a = AnswersTo(Scan(s), lo, n)
  PROVE  AnsweredBy(s, a)
<1>1. PICK o \in Opens : o = Scan(s)
  BY ScanIsOpen
<1>2. lo \in Nat /\ hi \in Nat
  BY Bounds
<1>3. n = IF lo > hi THEN 0 ELSE hi - lo + 1
  BY <1>2, IntervalOrder
<1>4. Tracks(o, Traced(s))
  BY <1>1, CutsWhole DEF Whole
<1>5. \A i \in 1 .. n : lo + i - 1 \in lo .. hi
  BY <1>2, <1>3
<1>6. DOMAIN a = 1 .. n /\ \A i \in 1 .. n : a[i] = Answer(o, lo + i - 1)
  BY <1>1 DEF AnswersTo
<1>7. n # 0 => o.step # 0 /\ o.within = o.step
  <2>1. n # 0 => lo \in o.named
    BY <1>1, <1>2, <1>3
  <2> QED BY <1>4, <2>1 DEF Tracks
<1>8. ASSUME NEW i \in 1 .. n PROVE a[i] \in Events
  <2>1. PICK p : p = [turn |-> o.turn, step |-> o.step, named |-> {lo + i - 1},
                      within |-> o.within, started |-> o.started]
    OBVIOUS
  <2>2. p \in Opens /\ lo + i - 1 \in p.named /\ \A d \in p.named : lo + i - 1 <= d
    <3>1. lo + i - 1 \in Calls
      BY <1>1, <1>5 DEF Opens
    <3> QED BY <2>1, <3>1, Bounds DEF Opens, Calls
  <2>3. n # 0
    BY <1>3
  <2>4. o.step # 0 /\ o.within = o.step
    BY <1>7, <2>3
  <2>5. p.turn = o.turn /\ p.step = o.step /\ p.started = o.started
    BY <2>1
  <2>6. Answer(o, lo + i - 1) \in Events
    BY <1>1, <2>2, <2>4, <2>5, AnswerFits
  <2> QED BY <1>6, <2>6
<1>9. a \in Seq(Events) /\ Len(a) = n
  BY <1>8 DEF AnswersTo
<1> DEFINE Sofar(k) == s \o SubSeq(a, 1, k)
           Good(k) == /\ Sofar(k) \in Seq(Events) /\ Cuts(Sofar(k))
                      /\ Scan(Sofar(k)) = [turn |-> o.turn, step |-> o.step, named |-> lo + k .. hi,
                                           within |-> o.within, started |-> o.started]
<1>10. Good(0)
  <2>1. Sofar(0) = s
    <3>1. SubSeq(a, 1, 0) = <<>>
      BY <1>9
    <3> QED BY <3>1, ConcatEmptySeq
  <2>2. lo + 0 = lo
    BY <1>2
  <2>3. Scan(s) = [turn |-> o.turn, step |-> o.step, named |-> lo .. hi,
                   within |-> o.within, started |-> o.started]
    BY <1>1 DEF Opens
  <2> HIDE DEF Sofar
  <2> QED BY <2>1, <2>2, <2>3
<1>11. ASSUME NEW k \in 0 .. n, Good(k), k < n PROVE Good(k + 1)
  <2>1. PICK r : r = Sofar(k)
    OBVIOUS
  <2>2. PICK c : c = lo + k
    OBVIOUS
  <2>3. c \in Nat /\ c <= hi /\ lo + (k + 1) = c + 1 /\ k + 1 \in 1 .. n
        /\ lo + (k + 1) - 1 = c /\ n # 0
    BY <1>2, <1>3, <1>11, <2>2
  <2>4. r \in Seq(Events) /\ Cuts(r)
        /\ Scan(r) = [turn |-> o.turn, step |-> o.step, named |-> c .. hi,
                      within |-> o.within, started |-> o.started]
    BY <1>11, <2>1, <2>2
  <2>5. a[k + 1] = Answer(o, c)
    BY <1>6, <2>3
  <2>6. Sofar(k + 1) = Append(r, Answer(o, c))
    <3>1. k \in Nat /\ k < Len(a)
      BY <1>9, <1>11
    <3>2. s \o SubSeq(a, 1, k + 1) = Append(s \o SubSeq(a, 1, k), a[k + 1])
      BY <1>9, <3>1, ConcatGrows
    <3>3. Sofar(k + 1) = s \o SubSeq(a, 1, k + 1) /\ r = s \o SubSeq(a, 1, k)
      BY <2>1
    <3> HIDE DEF Sofar
    <3> QED BY <2>5, <3>2, <3>3
  <2>7. o.step # 0 /\ o.within = o.step
    BY <1>7, <2>3
  <2>8. /\ Append(r, Answer(o, c)) \in Seq(Events) /\ Cuts(Append(r, Answer(o, c)))
        /\ Scan(Append(r, Answer(o, c))) =
             [turn |-> o.turn, step |-> o.step, named |-> c + 1 .. hi,
              within |-> o.within, started |-> o.started]
    <3>1. o \in Opens /\ hi \in Nat /\ c \in Nat /\ c <= hi
      BY <1>1, <1>2, <2>3
    <3> QED BY <2>4, <2>7, <3>1, AnswerStep
  <2> HIDE DEF Sofar
  <2> QED BY <2>3, <2>6, <2>8
<1>12. Good(n)
  <2> DEFINE T == {k \in 0 .. n : Good(k)}
  <2>1. 0 \in T
    BY <1>10
  <2>2. ASSUME NEW k \in 0 .. n, k \in T, k < n PROVE k + 1 \in T
    <3>1. Good(k)
      BY <2>2
    <3>2. Good(k + 1)
      BY <1>11, <2>2, <3>1
    <3>3. k + 1 \in 0 .. n
      BY <2>2
    <3> HIDE DEF Good
    <3> QED BY <3>2, <3>3
  <2> HIDE DEF T
  <2>3. 0 .. n \subseteq T
    BY <2>1, <2>2, IntervalInduction
  <2>4. n \in T
    BY <2>3
  <2> HIDE DEF Good
  <2> QED BY <2>4 DEF T
<1>13. Sofar(n) = s \o a
  <2>1. n \in 0 .. Len(a) /\ n = Len(a)
    BY <1>9
  <2>2. SubSeq(a, 1, n) = a
    BY <1>9, <2>1, CutAt
  <2> QED BY <2>2
<1>14. lo + n .. hi = {}
  BY <1>2, <1>3
<1>15. \A i \in 1 .. n : \E c \in Scan(s).named : a[i] = Answer(Scan(s), c)
  BY <1>1, <1>5, <1>6
<1>16. s \o a \in Seq(Events) /\ Cuts(s \o a)
  BY <1>12, <1>13
<1>17. Scan(s \o a) = [turn |-> o.turn, step |-> o.step, named |-> {},
                       within |-> o.within, started |-> o.started]
  <2> HIDE DEF Sofar
  <2> QED BY <1>12, <1>13, <1>14
<1> HIDE DEF Good, Sofar
<1> QED BY <1>1, <1>9, <1>15, <1>16, <1>17 DEF AnsweredBy

(* Whatever the log left open, repair closes, and no cut in between is     *)
(* worse than the log was.                                                 *)
LEMMA ClosersClose ==
  ASSUME NEW s \in Seq(Events), Cuts(s)
  PROVE  /\ s \o Closers(s) \in Seq(Events) /\ Cuts(s \o Closers(s))
         /\ Closers(s) \in Seq(Events)
         /\ \A i \in 1 .. Len(Closers(s)) : Closers(s)[i].type = "tool/result" =>
              \E c \in Scan(s).named : Closers(s)[i] = Answer(Scan(s), c)
         /\ Closers(s) = <<>> => Scan(s).turn = 0
<1>1. CASE Scan(s).turn = 0
  <2>1. Closers(s) = <<>>
    BY <1>1 DEF Closers
  <2>2. s \o <<>> = s /\ Len(<<>>) = 0 /\ <<>> \in Seq(Events)
    BY ConcatEmptySeq
  <2> QED BY <1>1, <2>1, <2>2
<1>2. CASE Scan(s).turn # 0
  <2>1. PICK o : o = Scan(s)
    OBVIOUS
  <2>2. o \in Opens /\ Tracks(o, Traced(s))
    BY <2>1, ScanIsOpen, CutsWhole DEF Whole
  <2>3. PICK lo \in 1 .. MaxCalls + 1, hi \in 0 .. MaxCalls : o.named = lo .. hi
    BY <2>2 DEF Tracks
  <2>4. PICK n : n = Cardinality(lo .. hi)
    OBVIOUS
  <2>5. lo \in Nat /\ hi \in Nat /\ n \in Nat /\ InOrder(lo .. hi) = [i \in 1 .. n |-> lo + i - 1]
    BY Bounds, <2>3, <2>4, IntervalOrder
  <2>6. PICK a : a = AnswersTo(o, lo, n)
    OBVIOUS
  <2>7. PICK z : z = IF o.step # 0 THEN <<Event("step/end", o.turn, o.step, 0, "none")>> ELSE <<>>
    OBVIOUS
  <2>8. PICK f : f = Event("turn/end", o.turn, 0, 0, "none")
    OBVIOUS
  <2>9. Closers(s) = a \o z \o <<f>>
    <3>1. Closers(s) = ClosersOf(o)
      BY <1>2, <2>1 DEF Closers
    <3>2. [i \in DOMAIN InOrder(o.named) |-> Answer(o, InOrder(o.named)[i])] = a
      BY <2>3, <2>5, <2>6 DEF AnswersTo
    <3> QED BY <2>7, <2>8, <3>1, <3>2 DEF ClosersOf
  <2>10. /\ a \in Seq(Events)
         /\ \A i \in 1 .. Len(a) : \E c \in o.named : a[i] = Answer(o, c)
         /\ s \o a \in Seq(Events) /\ Cuts(s \o a)
         /\ Scan(s \o a).turn = o.turn /\ Scan(s \o a).step = o.step
         /\ Scan(s \o a).named = {}
    <3>1. Scan(s).named = lo .. hi /\ a = AnswersTo(Scan(s), lo, n)
      BY <2>1, <2>3, <2>6
    <3>2. n \in Nat /\ n = Cardinality(lo .. hi)
      BY <2>4, <2>5
    <3>3. AnsweredBy(s, a)
      BY <3>1, <3>2, AnswersClose
    <3> QED BY <2>1, <3>3 DEF AnsweredBy
  <2>11. PICK r : r = s \o a
    OBVIOUS
  <2>12. PICK x : x = r \o z
    OBVIOUS
  <2>24. /\ r \in Seq(Events) /\ Cuts(r)
         /\ Scan(r).turn = o.turn /\ Scan(r).step = o.step /\ Scan(r).named = {}
    BY <2>10, <2>11
  <2>13. /\ o.turn \in 0 .. MaxTurns /\ o.step \in 0 .. MaxSteps /\ 0 \in 0 .. MaxCalls
         /\ 0 \in 0 .. MaxSteps /\ o.turn # 0
    BY <1>2, <2>1, <2>2, Bounds DEF Opens
  <2>14. f \in Events /\ f.type = "turn/end" /\ f.turn = o.turn /\ f.step = 0
    BY <2>8, <2>13 DEF Event, Events, EventTypes, Codes
  <2>15. /\ x \in Seq(Events) /\ Cuts(x) /\ z \in Seq(Events)
         /\ Scan(x).turn = o.turn /\ Scan(x).step = 0
         /\ \A i \in 1 .. Len(z) : z[i].type = "step/end"
    <3>1. CASE o.step = 0
      <4>1. z = <<>> /\ r \o <<>> = r /\ Len(<<>>) = 0 /\ <<>> \in Seq(Events)
        BY <2>7, <2>24, <3>1, ConcatEmptySeq
      <4> QED BY <2>12, <2>24, <3>1, <4>1
    <3>2. CASE o.step # 0
      <4>1. PICK e : e = Event("step/end", o.turn, o.step, 0, "none")
        OBVIOUS
      <4>2. e \in Events /\ e.type = "step/end" /\ e.turn = o.turn /\ e.step = o.step
        BY <2>13, <4>1 DEF Event, Events, EventTypes, Codes
      <4>0. z = <<e>>
        BY <2>7, <3>2, <4>1
      <4>3. Len(z) = 1 /\ z[1] = e /\ z \in Seq(Events)
        BY <4>0, <4>2
      <4>4. x = Append(r, e)
        BY <2>12, <2>24, <4>0, <4>2
      <4>5. Fits(r, Scan(r), Traced(r), e)
        BY <2>24, <3>2, <4>2 DEF Fits, Within
      <4>6. Append(r, e) \in Seq(Events) /\ Cuts(Append(r, e))
        BY <2>24, <4>2, <4>5, CutsStep
      <4>7. Scan(Append(r, e)) = [turn |-> Scan(r).turn, step |-> 0, named |-> {},
                                  within |-> 0, started |-> {}]
        <5>1. Scan(Append(r, e)) = ScanEvent(Scan(r), e)
          BY <2>24, <4>2, ScanAppend
        <5>2. Scan(r) \in Opens
          BY <2>24, ScanIsOpen
        <5> QED BY <4>2, <5>1, <5>2, ScanCases
      <4> QED BY <2>24, <4>2, <4>3, <4>4, <4>6, <4>7
    <3> QED BY <3>1, <3>2
  <2>16. Fits(x, Scan(x), Traced(x), f)
    BY <2>13, <2>14, <2>15 DEF Fits
  <2>17. Append(x, f) \in Seq(Events) /\ Cuts(Append(x, f))
    BY <2>14, <2>15, <2>16, CutsStep
  <2>18. s \o Closers(s) = Append(x, f)
    <3>1. (s \o a) \o z = s \o (a \o z)
      <4>1. a \in Seq(Events) /\ z \in Seq(Events)
        BY <2>10, <2>15
      <4> QED BY <4>1, Regrouped
    <3>2. a \o z \in Seq(Events) /\ <<f>> \in Seq(Events)
      <4>1. a \in Seq(Events) /\ z \in Seq(Events) /\ f \in Events
        BY <2>10, <2>14, <2>15
      <4>2. a \o z \in Seq(Events)
        BY <4>1, ConcatProperties
      <4> QED BY <4>1, <4>2
    <3>3. (s \o (a \o z)) \o <<f>> = s \o ((a \o z) \o <<f>>)
      <4>1. PICK y : y = a \o z
        OBVIOUS
      <4>2. y \in Seq(Events)
        BY <3>2, <4>1
      <4>3. (s \o y) \o <<f>> = s \o (y \o <<f>>)
        BY <3>2, <4>2, Regrouped
      <4> QED BY <4>1, <4>3
    <3>4. Append(x, f) = x \o <<f>>
      BY <2>14, <2>15
    <3> QED BY <2>9, <2>11, <2>12, <3>1, <3>3, <3>4
  <2>19. PICK b : b = a \o z
    OBVIOUS
  <2>20. b \in Seq(Events) /\ Len(b) = Len(a) + Len(z)
         /\ \A i \in 1 .. Len(a) + Len(z) : b[i] = IF i <= Len(a) THEN a[i] ELSE z[i - Len(a)]
    <3>1. a \in Seq(Events) /\ z \in Seq(Events)
      BY <2>10, <2>15
    <3> QED BY <2>19, <3>1, ConcatProperties
  <2>21. Closers(s) = Append(b, f)
    BY <2>9, <2>14, <2>19, <2>20
  <2>22. /\ Closers(s) \in Seq(Events) /\ Closers(s) # <<>> /\ Len(Closers(s)) = Len(b) + 1
         /\ (\A i \in 1 .. Len(b) : Closers(s)[i] = b[i]) /\ Closers(s)[Len(b) + 1] = f
    <3>1. b \in Seq(Events) /\ f \in Events
      BY <2>14, <2>20
    <3>2. /\ Append(b, f) \in Seq(Events) /\ Append(b, f) # <<>> /\ Len(Append(b, f)) = Len(b) + 1
          /\ (\A i \in 1 .. Len(b) : Append(b, f)[i] = b[i]) /\ Append(b, f)[Len(b) + 1] = f
      BY <3>1, AppendProperties
    <3> QED BY <2>21, <3>2
  <2>23. ASSUME NEW i \in 1 .. Len(Closers(s)), Closers(s)[i].type = "tool/result"
         PROVE  \E c \in o.named : Closers(s)[i] = Answer(o, c)
    <3>1. Len(a) \in Nat /\ Len(z) \in Nat
      BY <2>10, <2>15
    <3>2. i # Len(b) + 1
      BY <2>14, <2>22, <2>23
    <3>3. i \in 1 .. Len(a) + Len(z) /\ Closers(s)[i] = b[i]
      <4>1. Len(b) = Len(a) + Len(z) /\ Len(Closers(s)) = Len(b) + 1
        BY <2>20, <2>22
      <4>2. i \in 1 .. Len(b)
        BY <2>23, <3>1, <3>2, <4>1
      <4> QED BY <2>22, <4>1, <4>2
    <3>4. CASE i <= Len(a)
      <4>1. i \in 1 .. Len(a) /\ Closers(s)[i] = a[i]
        BY <2>10, <2>20, <3>1, <3>3, <3>4
      <4> QED BY <2>10, <4>1
    <3>5. CASE ~(i <= Len(a))
      <4>1. i - Len(a) \in 1 .. Len(z) /\ Closers(s)[i] = z[i - Len(a)]
        BY <2>20, <3>1, <3>3, <3>5
      <4> QED BY <2>15, <2>23, <4>1
    <3> QED BY <3>4, <3>5
  <2> QED BY <2>1, <2>17, <2>18, <2>22, <2>23
<1> QED BY <1>1, <1>2

-----------------------------------------------------------------------------
(* The claims about bodies, of any log. *)
LEMMA HonestIs ==
  ASSUME NEW s, NEW bodies, s = log, bodies = ran
  PROVE  HonestAnswers <=> HonestOver(s, bodies)
  BY DEF HonestAnswers, HonestOver, Honest, Results, CallOf, CallNamed

LEMMA RecordedIs ==
  ASSUME NEW s, NEW n, NEW bodies, s = log, n = durable, bodies = ran
  PROVE  RanIsRecorded <=> RecordedIn(s, n, bodies)
  BY DEF RanIsRecorded, RecordedIn, CallOf, CallNamed

LEMMA SoundAppend ==
  ASSUME NEW s, NEW n, NEW bodies, NEW e \in Events, Sound(s, n, bodies),
         Fits(s, Scan(s), Traced(s), e), Honest(e, bodies)
  PROVE  Sound(Append(s, e), n, bodies)
<1>1. /\ s \in Seq(Events) /\ n \in 0 .. Len(s)
      /\ Cuts(s) /\ HonestOver(s, bodies) /\ RecordedIn(s, n, bodies)
  BY DEF Sound
<1>2. PICK r : r = Append(s, e)
  OBVIOUS
<1>3. /\ r \in Seq(Events) /\ Len(r) = Len(s) + 1 /\ Len(s) \in Nat
      /\ DOMAIN s = 1 .. Len(s) /\ DOMAIN r = 1 .. Len(s) + 1
      /\ \A i \in 1 .. Len(s) : r[i] = s[i]
      /\ r[Len(s) + 1] = e
  BY <1>1, <1>2
<1>4. Cuts(r)
  BY <1>1, <1>2, CutsStep
<1>5. ASSUME NEW i \in DOMAIN r PROVE Honest(r[i], bodies)
  <2>1. CASE i = Len(s) + 1
    BY <1>3, <2>1
  <2>2. CASE i # Len(s) + 1
    <3>1. i \in DOMAIN s /\ r[i] = s[i]
      BY <1>3, <2>2
    <3> QED BY <1>1, <3>1 DEF HonestOver
  <2> QED BY <2>1, <2>2
<1>6. RecordedIn(r, n, bodies)
  <2>1. \A i \in 1 .. n : r[i] = s[i]
    BY <1>1, <1>3
  <2> QED BY <1>1, <2>1 DEF RecordedIn
<1>7. n \in 0 .. Len(r)
  BY <1>1, <1>3
<1> QED BY <1>2, <1>3, <1>4, <1>5, <1>6, <1>7 DEF Sound, HonestOver

LEMMA SoundCut ==
  ASSUME NEW s, NEW n, NEW bodies, Sound(s, n, bodies), NEW k \in n .. Len(s)
  PROVE  Sound(SubSeq(s, 1, k), n, bodies)
<1>1. /\ s \in Seq(Events) /\ n \in 0 .. Len(s) /\ Len(s) \in Nat /\ DOMAIN s = 1 .. Len(s)
      /\ Cuts(s) /\ HonestOver(s, bodies) /\ RecordedIn(s, n, bodies)
  BY DEF Sound
<1>2. k \in 0 .. Len(s) /\ n \in 0 .. k /\ k \in Nat
  BY <1>1
<1>3. PICK r : r = SubSeq(s, 1, k)
  OBVIOUS
<1>4. r \in Seq(Events) /\ Len(r) = k /\ \A i \in 1 .. k : r[i] = s[i]
  BY <1>1, <1>2, <1>3, CutAt
<1>5. Cuts(r)
  BY <1>1, <1>2, <1>3, CutsCut
<1>6. \A i \in DOMAIN r : i \in DOMAIN s /\ r[i] = s[i]
  BY <1>1, <1>2, <1>4
<1>7. \A i \in 1 .. n : r[i] = s[i]
  BY <1>2, <1>4
<1> QED BY <1>1, <1>2, <1>3, <1>4, <1>5, <1>6, <1>7 DEF Sound, HonestOver, RecordedIn

LEMMA SoundDurable ==
  ASSUME NEW s, NEW n, NEW bodies, Sound(s, n, bodies), NEW k \in n .. Len(s)
  PROVE  Sound(s, k, bodies)
<1>1. s \in Seq(Events) /\ n \in 0 .. Len(s) /\ Len(s) \in Nat /\ RecordedIn(s, n, bodies)
  BY DEF Sound
<1>2. k \in 0 .. Len(s) /\ 1 .. n \subseteq 1 .. k
  BY <1>1
<1>3. RecordedIn(s, k, bodies)
  BY <1>1, <1>2 DEF RecordedIn
<1> QED BY <1>2, <1>3 DEF Sound

(* The answers of repair are honest: a body that ran was recorded, so its  *)
(* call is known as started.                                               *)
LEMMA SoundClosed ==
  ASSUME NEW s, NEW n, NEW bodies, Sound(s, n, bodies)
  PROVE  Sound(s \o Closers(s), n, bodies)
<1>1. /\ s \in Seq(Events) /\ n \in 0 .. Len(s) /\ Len(s) \in Nat /\ DOMAIN s = 1 .. Len(s)
      /\ Cuts(s) /\ HonestOver(s, bodies) /\ RecordedIn(s, n, bodies)
  BY DEF Sound
<1>2. PICK a : a = Closers(s)
  OBVIOUS
<1>3. PICK r : r = s \o a
  OBVIOUS
<1>4. PICK o : o = Scan(s)
  OBVIOUS
<1>5. /\ r \in Seq(Events) /\ Cuts(r) /\ a \in Seq(Events)
      /\ \A i \in 1 .. Len(a) : a[i].type = "tool/result" =>
           \E c \in o.named : a[i] = Answer(o, c)
  BY <1>1, <1>2, <1>3, <1>4, ClosersClose
<1>6. /\ Len(r) = Len(s) + Len(a) /\ Len(a) \in Nat
      /\ \A i \in 1 .. Len(s) + Len(a) : r[i] = IF i <= Len(s) THEN s[i] ELSE a[i - Len(s)]
  BY <1>1, <1>3, <1>5, ConcatProperties
<1>7. Tracks(o, Traced(s)) /\ CallsStarted(s, o)
  BY <1>1, <1>4, CutsWhole DEF Whole, Told
<1>8. ASSUME NEW c \in o.named PROVE Honest(Answer(o, c), bodies)
  <2>1. o.step # 0 /\ o.within = o.step
    BY <1>7 DEF Tracks
  <2>2. CASE c \in o.started
    BY <2>2 DEF Answer, Event, Honest
  <2>3. CASE c \notin o.started
    <3>1. CallNamed(Answer(o, c)) = <<o.turn, o.step, c>> /\ Answer(o, c).code = "not-started"
      BY <2>1, <2>3 DEF Answer, Event, CallNamed
    <3>2. <<o.turn, o.step, c>> \notin bodies
      <4> SUFFICES ASSUME <<o.turn, o.step, c>> \in bodies PROVE FALSE
        OBVIOUS
      <4>1. PICK i \in 1 .. n : s[i].type = "tool/call" /\ CallNamed(s[i]) = <<o.turn, o.step, c>>
        BY <1>1 DEF RecordedIn
      <4>2. i \in DOMAIN s
        BY <1>1
      <4> QED BY <1>7, <2>1, <2>3, <4>1, <4>2 DEF CallsStarted, CallNamed, Within
    <3> QED BY <3>1, <3>2 DEF Honest
  <2> QED BY <2>2, <2>3
<1>9. ASSUME NEW i \in DOMAIN r PROVE Honest(r[i], bodies)
  <2>0. i \in 1 .. Len(s) + Len(a)
    BY <1>5, <1>6
  <2>1. CASE i <= Len(s)
    <3>1. i \in DOMAIN s /\ r[i] = s[i]
      BY <1>1, <1>6, <2>0, <2>1
    <3> QED BY <1>1, <3>1 DEF HonestOver
  <2>2. CASE ~(i <= Len(s))
    <3>1. i - Len(s) \in 1 .. Len(a) /\ r[i] = a[i - Len(s)]
      BY <1>1, <1>6, <2>0, <2>2
    <3>2. CASE r[i].type = "tool/result"
      <4>1. PICK c \in o.named : r[i] = Answer(o, c)
        BY <1>5, <3>1, <3>2
      <4> QED BY <1>8, <4>1
    <3>3. CASE r[i].type # "tool/result"
      BY <3>3 DEF Honest
    <3> QED BY <3>2, <3>3
  <2> QED BY <2>1, <2>2
<1>10. n \in 0 .. Len(r) /\ \A i \in 1 .. n : r[i] = s[i]
  BY <1>1, <1>6
<1>11. RecordedIn(r, n, bodies)
  BY <1>1, <1>10 DEF RecordedIn
<1> QED BY <1>2, <1>3, <1>5, <1>9, <1>10, <1>11 DEF Sound, HonestOver

-----------------------------------------------------------------------------
(* What an append of the driver does to the two readings of the log. *)
LEMMA AppendReads ==
  ASSUME IInv, NEW e \in Events, log' = Append(log, e),
         durable' = durable, ran' = ran,
         Fits(log, Scan(log), Traced(log), e), Honest(e, ran)
  PROVE  /\ Sound(log', durable', ran')
         /\ Scan(log') = ScanEvent(Scan(log), e)
         /\ Traced(log') = TraceEvent(Traced(log), e)
<1>1. Sound(log, durable, ran) /\ log \in Seq(Events)
  BY DEF IInv, Sound
<1>2. Sound(Append(log, e), durable, ran)
  BY <1>1, SoundAppend
<1> QED BY <1>1, <1>2, ScanAppend, TraceAppend

LEMMA LogFacts ==
  ASSUME IInv
  PROVE  /\ log \in Seq(Events) /\ Len(log) \in Nat /\ DOMAIN log = 1 .. Len(log)
         /\ durable \in 0 .. Len(log)
         /\ Scan(log) \in Opens /\ Traced(log) \in Traces
         /\ Tracks(Scan(log), Traced(log)) /\ Told(log, Scan(log), Traced(log))
         /\ RecordedIn(log, durable, ran)
<1>1. log \in Seq(Events) /\ durable \in 0 .. Len(log) /\ Cuts(log)
      /\ RecordedIn(log, durable, ran)
  BY DEF IInv, Sound
<1>2. Whole(log)
  BY <1>1, CutsWhole
<1>3. Scan(log) \in Opens /\ Traced(log) \in Traces
  BY <1>1, ScanIsOpen, TracedIsTrace
<1>4. Tracks(Scan(log), Traced(log)) /\ Told(log, Scan(log), Traced(log))
  BY <1>2 DEF Whole
<1> QED BY <1>1, <1>3, <1>4

LEMMA StepsCount ==
  ASSUME log \in Seq(Events)
  PROVE  /\ Steps \in Nat
         /\ \A e \in Events : log' = Append(log, e) =>
              Steps' = IF e.type = "step/start" THEN Steps + 1 ELSE Steps
<1>1. PICK S : S = {i \in DOMAIN log : log[i].type = "step/start"}
  OBVIOUS
<1>2. Len(log) \in Nat /\ DOMAIN log = 1 .. Len(log) /\ S \subseteq 1 .. Len(log)
  BY <1>1
<1>3. IsFiniteSet(S)
  <2>1. IsFiniteSet(1 .. Len(log))
    BY <1>2, FS_Interval
  <2> QED BY <1>2, <2>1, FS_Subset
<1>4. Steps = Cardinality(S) /\ Cardinality(S) \in Nat
  BY <1>1, <1>3, FS_CardinalityType DEF Steps
<1>5. ASSUME NEW e \in Events, log' = Append(log, e)
      PROVE  Steps' = IF e.type = "step/start" THEN Steps + 1 ELSE Steps
  <2>1. PICK R : R = {i \in DOMAIN log' : log'[i].type = "step/start"}
    OBVIOUS
  <2>2. Steps' = Cardinality(R)
    BY <2>1 DEF Steps
  <2>3. /\ DOMAIN log' = 1 .. Len(log) + 1 /\ log'[Len(log) + 1] = e
        /\ \A i \in 1 .. Len(log) : log'[i] = log[i]
    BY <1>5, AppendTo
  <2>4. CASE e.type = "step/start"
    <3>1. R = S \cup {Len(log) + 1} /\ Len(log) + 1 \notin S
      BY <1>1, <1>2, <2>1, <2>3, <2>4
    <3> QED BY <1>3, <1>4, <2>2, <2>4, <3>1, FS_AddElement
  <2>5. CASE e.type # "step/start"
    <3>1. R = S
      BY <1>1, <1>2, <2>1, <2>3, <2>5
    <3> QED BY <1>4, <2>2, <2>5, <3>1
  <2> QED BY <2>4, <2>5
<1> QED BY <1>4, <1>5

LEMMA EventFields ==
  ASSUME NEW type \in EventTypes, NEW a \in 0 .. MaxTurns, NEW b \in 0 .. MaxSteps,
         NEW c \in 0 .. MaxCalls, NEW code \in Codes
  PROVE  /\ Event(type, a, b, c, code) \in Events
         /\ Event(type, a, b, c, code).type = type /\ Event(type, a, b, c, code).turn = a
         /\ Event(type, a, b, c, code).step = b /\ Event(type, a, b, c, code).call = c
         /\ Event(type, a, b, c, code).code = code
  BY DEF Event, Events

LEMMA CodesAre ==
  /\ "none" \in Codes /\ "not-started" \in Codes /\ "outcome-unknown" \in Codes /\ "ok" \in Codes
  /\ "failed" \in Codes /\ "denied" \in Codes /\ "aborted" \in Codes /\ "aborted-before" \in Codes
  BY DEF Codes

LEMMA TypesAre ==
  /\ "turn/start" \in EventTypes /\ "turn/end" \in EventTypes /\ "step/start" \in EventTypes
  /\ "step/end" \in EventTypes /\ "assistant/message" \in EventTypes
  /\ "tool/call" \in EventTypes /\ "tool/result" \in EventTypes
  BY DEF EventTypes

LEMMA ZeroFits ==
  0 \in 0 .. MaxTurns /\ 0 \in 0 .. MaxSteps /\ 0 \in 0 .. MaxCalls
  BY Bounds

LEMMA NextFits ==
  ASSUME NEW n \in Nat, NEW k \in 0 .. n, k < n
  PROVE  k + 1 \in 0 .. n /\ k + 1 # 0 /\ k \in Nat
  OBVIOUS

LEMMA EventNumbers ==
  ASSUME NEW e \in Events
  PROVE  /\ e.turn \in Nat /\ e.step \in Nat /\ e.call \in Nat
         /\ e.turn \in 0 .. MaxTurns /\ e.step \in 0 .. MaxSteps
<1>1. e.turn \in 0 .. MaxTurns /\ e.step \in 0 .. MaxSteps /\ e.call \in 0 .. MaxCalls
  BY DEF Events
<1> QED BY <1>1, Bounds

(* An event that is no result. *)
LEMMA NoResult ==
  ASSUME NEW type \in EventTypes, type # "tool/result",
         NEW a \in 0 .. MaxTurns, NEW b \in 0 .. MaxSteps, NEW c \in 0 .. MaxCalls
  PROVE  \E e : /\ e = Event(type, a, b, c, "none") /\ e \in Events
                /\ e.type = type /\ e.turn = a /\ e.step = b /\ e.call = c
                /\ Honest(e, ran)
<1>1. PICK e : e = Event(type, a, b, c, "none")
  OBVIOUS
<1>2. e \in Events /\ e.type = type /\ e.turn = a /\ e.step = b /\ e.call = c
  <2>1. "none" \in Codes
    BY CodesAre
  <2> QED BY <1>1, <2>1, EventFields
<1>3. Honest(e, ran)
  BY <1>2 DEF Honest
<1> QED BY <1>1, <1>2, <1>3

LEMMA TypeFacts ==
  ASSUME TypeInv
  PROVE  /\ turn \in 0 .. MaxTurns /\ step \in 0 .. MaxSteps
         /\ turn \in Nat /\ step \in Nat
<1>1. turn \in 0 .. MaxTurns /\ step \in 0 .. MaxSteps
  BY DEF TypeInv
<1> QED BY <1>1, Bounds

-----------------------------------------------------------------------------
(* The turns and steps of the driver. *)
LEMMA InitKeeps == Init => IInv
<1> SUFFICES ASSUME Init PROVE IInv
  OBVIOUS
<1>1. log = <<>> /\ durable = 0 /\ ran = {}
  BY DEF Init
<1>2. Len(<<>>) = 0 /\ DOMAIN <<>> = {} /\ <<>> \in Seq(Events)
  OBVIOUS
<1>3. Sound(<<>>, 0, {})
  BY <1>2, CutsEmpty DEF Sound, HonestOver, RecordedIn
<1>4. TypeInv
  BY Bounds, CodesAre DEF Init, TypeInv
<1>5. Scan(log).turn = 0 /\ Traced(log).nextTurn = 1
  BY <1>1, ScanOfNothing, TraceOfNothing DEF NothingOpen, NewTrace
<1>6. at = "idle" /\ turn = 0
  BY DEF Init
<1>7. DriverInv
  BY <1>5, <1>6 DEF DriverInv
<1> QED BY <1>1, <1>3, <1>4, <1>7 DEF IInv

LEMMA StartTurnKeeps ==
  ASSUME IInv, StartTurn PROVE IInv'
<1>1. /\ mode = "up" /\ at = "idle" /\ turn < MaxTurns
      /\ log' = Append(log, Event("turn/start", turn + 1, 0, 0, "none"))
      /\ at' = "pre-step" /\ aborted' = FALSE /\ turn' = turn + 1 /\ step' = 0
      /\ mode' = mode /\ durable' = durable /\ torn' = torn /\ asked' = asked
      /\ stage' = stage /\ needs' = needs /\ outcome' = outcome /\ ran' = ran /\ crashes' = crashes
  BY DEF StartTurn, storage, calls
<1>2. TypeInv /\ DriverInv
  BY <1>1 DEF IInv
<1>3. turn \in 0 .. MaxTurns /\ turn + 1 \in 0 .. MaxTurns /\ turn + 1 # 0
  BY <1>1, <1>2, Bounds, TypeFacts, NextFits
<1>4. Scan(log).turn = 0 /\ turn = Traced(log).nextTurn - 1
  BY <1>1, <1>2 DEF DriverInv
<1>5. PICK e : /\ e = Event("turn/start", turn + 1, 0, 0, "none") /\ e \in Events
               /\ e.type = "turn/start" /\ e.turn = turn + 1 /\ e.step = 0 /\ e.call = 0
               /\ Honest(e, ran)
  BY <1>3, ZeroFits, TypesAre, NoResult
<1>6. /\ e \in Events /\ e.type = "turn/start" /\ e.turn = turn + 1 /\ e.step = 0
      /\ Honest(e, ran)
  BY <1>5
<1>7. /\ log \in Seq(Events) /\ Scan(log) \in Opens /\ Traced(log) \in Traces
      /\ Tracks(Scan(log), Traced(log))
  BY LogFacts
<1>8. Traced(log).nextTurn = turn + 1
  BY <1>3, <1>4, <1>7 DEF Traces
<1>9. Fits(log, Scan(log), Traced(log), e)
  BY <1>4, <1>6, <1>8 DEF Fits
<1>10. /\ Sound(log', durable', ran')
       /\ Scan(log') = ScanEvent(Scan(log), e) /\ Traced(log') = TraceEvent(Traced(log), e)
  BY <1>1, <1>5, <1>6, <1>9, AppendReads
<1>11. Follows(Traced(log), e)
  BY <1>6, <1>7, <1>9, FitsFollows
<1>12. Scan(log').turn = turn + 1 /\ Scan(log').step = 0
  BY <1>6, <1>7, <1>10, ScanCases
<1>13. Traced(log').nextStep = 1
  BY <1>6, <1>7, <1>10, <1>11, TraceCases
<1>14. Steps' \in Nat
  BY <1>1, <1>5, <1>6, <1>7, StepsCount
<1>15. at' = "pre-step" /\ turn' # 0 /\ Scan(log').turn = turn' /\ step' <= Steps'
       /\ Scan(log').step = 0 /\ step' = Traced(log').nextStep - 1
  <2>1. step' <= Steps'
    BY <1>1, <1>14
  <2>2. step' = Traced(log').nextStep - 1
    BY <1>1, <1>13
  <2> QED BY <1>1, <1>3, <1>12, <2>1, <2>2
<1>17. DriverInv'
  BY <1>15 DEF DriverInv
<1>16. TypeInv'
  BY <1>1, <1>2, <1>3, Bounds DEF TypeInv
<1> QED BY <1>10, <1>16, <1>17 DEF IInv

LEMMA OpenStepKeeps ==
  ASSUME IInv, OpenStep PROVE IInv'
<1>1. /\ mode = "up" /\ at = "pre-step" /\ Steps < MaxSteps
      /\ log' = Append(log, Event("step/start", turn, step + 1, 0, "none"))
      /\ at' = "request" /\ step' = step + 1 /\ aborted' = aborted /\ turn' = turn
      /\ mode' = mode /\ durable' = durable /\ torn' = torn /\ asked' = asked
      /\ stage' = stage /\ needs' = needs /\ outcome' = outcome /\ ran' = ran /\ crashes' = crashes
  BY DEF OpenStep, Append1, storage, calls
<1>2. TypeInv /\ DriverInv
  BY <1>1 DEF IInv
<1>3. /\ log \in Seq(Events) /\ Scan(log) \in Opens /\ Traced(log) \in Traces
      /\ Tracks(Scan(log), Traced(log)) /\ NothingAhead(log, Traced(log))
      /\ Len(log) \in Nat /\ DOMAIN log = 1 .. Len(log)
  BY LogFacts DEF Told
<1>4. /\ turn # 0 /\ Scan(log).turn = turn /\ step <= Steps
      /\ Scan(log).step = 0 /\ step = Traced(log).nextStep - 1
  BY <1>1, <1>2 DEF DriverInv
<1>5. Steps \in Nat
  BY <1>3, StepsCount
<1>6. turn \in 0 .. MaxTurns /\ step + 1 \in 0 .. MaxSteps /\ step + 1 # 0 /\ step \in Nat
  <2>1. turn \in 0 .. MaxTurns /\ step \in Nat
    BY <1>2, TypeFacts
  <2>2. step < MaxSteps /\ MaxSteps \in Nat
    <3>1. Steps < MaxSteps /\ step <= Steps
      BY <1>1, <1>4
    <3> QED BY <1>5, <2>1, <3>1, Bounds
  <2> QED BY <2>1, <2>2
<1>7. PICK e : /\ e = Event("step/start", turn, step + 1, 0, "none") /\ e \in Events
               /\ e.type = "step/start" /\ e.turn = turn /\ e.step = step + 1 /\ e.call = 0
               /\ Honest(e, ran)
  BY <1>6, ZeroFits, TypesAre, NoResult
<1>8. /\ e \in Events /\ e.type = "step/start" /\ e.turn = turn /\ e.step = step + 1
      /\ Honest(e, ran)
  BY <1>7
<1>9. Traced(log).nextStep = step + 1
  BY <1>3, <1>4, <1>6 DEF Traces
<1>10. Fits(log, Scan(log), Traced(log), e)
  BY <1>4, <1>8, <1>9 DEF Fits
<1>11. Sound(log', durable', ran') /\ Scan(log') = ScanEvent(Scan(log), e)
  BY <1>1, <1>7, <1>8, <1>10, AppendReads
<1>12. /\ Scan(log').turn = turn /\ Scan(log').step = step + 1 /\ Scan(log').named = {}
  <2>1. ScanEvent(Scan(log), e) =
          [turn |-> Scan(log).turn, step |-> e.step, named |-> Scan(log).named,
           within |-> Scan(log).within, started |-> Scan(log).started]
    BY <1>3, <1>8, ScanCases
  <2>2. Scan(log).named = {}
    BY <1>3, <1>4 DEF Tracks
  <2> QED BY <1>4, <1>8, <1>11, <2>1, <2>2
<1>13. Steps' = Steps + 1
  BY <1>1, <1>3, <1>7, <1>8, StepsCount
<1>14. ASSUME NEW i \in DOMAIN log', log'[i].type \in {"tool/call", "tool/result"}
       PROVE  ~(log'[i].turn = turn /\ log'[i].step = step + 1)
  <2>1. i \in DOMAIN log /\ log'[i] = log[i]
    <3>1. log' = Append(log, e)
      BY <1>1, <1>7
    <3>2. /\ DOMAIN Append(log, e) = 1 .. Len(log) + 1 /\ Append(log, e)[Len(log) + 1] = e
          /\ \A k \in 1 .. Len(log) : Append(log, e)[k] = log[k]
      BY <1>3, <1>7, AppendTo
    <3>3. i # Len(log) + 1
      BY <1>8, <1>14, <3>1, <3>2
    <3> QED BY <1>3, <1>14, <3>1, <3>2, <3>3
  <2>2. Reached(log[i], Traced(log))
    BY <1>3, <2>1 DEF NothingAhead
  <2>3. Traced(log).nextTurn = turn /\ Traced(log).step = 0
    BY <1>3, <1>4 DEF Tracks
  <2>4. log[i].turn \in Nat /\ log[i].step \in Nat
    BY <1>3, <2>1, EventNumbers
  <2> QED BY <1>6, <1>9, <2>1, <2>2, <2>3, <2>4 DEF Reached
<1>15. step + 1 <= Steps'
  BY <1>4, <1>5, <1>6, <1>13
<1>16. DriverInv'
  BY <1>1, <1>4, <1>6, <1>12, <1>14, <1>15 DEF DriverInv
<1>17. TypeInv'
  BY <1>1, <1>2, <1>6 DEF TypeInv
<1> QED BY <1>11, <1>16, <1>17 DEF IInv
-----------------------------------------------------------------------------
(* The calls of the open step. *)
LogGrows == /\ DOMAIN log \subseteq DOMAIN log'
            /\ \A i \in DOMAIN log : log'[i] = log[i]

OthersStay(c) ==
  \A d \in Calls \ {c} : /\ stage'[d] = stage[d] /\ needs'[d] = needs[d]
                         /\ outcome'[d] = outcome[d]

BodiesGrow(c) ==
  /\ ran \subseteq ran'
  /\ \A d \in Calls \ {c} : <<turn, step, d>> \in ran' => <<turn, step, d>> \in ran

StaysInStep == at' = at /\ turn' = turn /\ step' = step /\ asked' = asked /\ mode' = mode

LEMMA GrowsBy ==
  ASSUME log \in Seq(Events), NEW e \in Events, log' = Append(log, e)
  PROVE  LogGrows /\ log' \in Seq(Events)
<1>1. /\ DOMAIN log = 1 .. Len(log) /\ DOMAIN log' = 1 .. Len(log) + 1 /\ Len(log) \in Nat
      /\ \A i \in 1 .. Len(log) : log'[i] = log[i]
  BY AppendTo
<1>2. log' \in Seq(Events)
  BY AppendTo
<1> QED BY <1>1, <1>2 DEF LogGrows

LEMMA StepsGrow ==
  ASSUME log \in Seq(Events), log' \in Seq(Events), LogGrows
  PROVE  Steps \in Nat /\ Steps' \in Nat /\ Steps <= Steps'
<1>1. PICK S : S = {i \in DOMAIN log : log[i].type = "step/start"}
  OBVIOUS
<1>2. PICK R : R = {i \in DOMAIN log' : log'[i].type = "step/start"}
  OBVIOUS
<1>3. Steps = Cardinality(S) /\ Steps' = Cardinality(R)
  BY <1>1, <1>2 DEF Steps
<1>4. S \subseteq R
  BY <1>1, <1>2 DEF LogGrows
<1>5. IsFiniteSet(R)
  <2>1. Len(log') \in Nat /\ DOMAIN log' = 1 .. Len(log')
    OBVIOUS
  <2>2. R \subseteq 1 .. Len(log')
    BY <1>2, <2>1
  <2>3. IsFiniteSet(1 .. Len(log'))
    BY <2>1, FS_Interval
  <2> QED BY <2>2, <2>3, FS_Subset
<1>6. IsFiniteSet(S) /\ Cardinality(S) <= Cardinality(R)
  BY <1>4, <1>5, FS_Subset
<1>7. Cardinality(S) \in Nat /\ Cardinality(R) \in Nat
  BY <1>5, <1>6, FS_CardinalityType
<1> QED BY <1>3, <1>6, <1>7

LEMMA CallKept ==
  ASSUME NEW c, NEW d \in Calls, d # c, CallInv(d),
         OthersStay(c), BodiesGrow(c), LogGrows, turn' = turn, step' = step
  PROVE  CallInv(d)'
<1>1. stage'[d] = stage[d] /\ needs'[d] = needs[d] /\ outcome'[d] = outcome[d]
  BY DEF OthersStay
<1>2. <<turn, step, d>> \in ran' <=> <<turn, step, d>> \in ran
  BY DEF BodiesGrow
<1>3. <<turn', step', d>> \in ran' <=> <<turn, step, d>> \in ran
  BY <1>2
<1>4. stage[d] = "gate" => \E i \in DOMAIN log' :
        i <= needs[d] /\ log'[i].type = "tool/call" /\ CallNamed(log'[i]) = <<turn, step, d>>
  <2> SUFFICES ASSUME stage[d] = "gate"
               PROVE  \E i \in DOMAIN log' :
                 i <= needs[d] /\ log'[i].type = "tool/call"
                 /\ CallNamed(log'[i]) = <<turn, step, d>>
    OBVIOUS
  <2>1. PICK i \in DOMAIN log :
          i <= needs[d] /\ log[i].type = "tool/call" /\ CallNamed(log[i]) = <<turn, step, d>>
    BY DEF CallInv
  <2>2. i \in DOMAIN log' /\ log'[i] = log[i]
    BY DEF LogGrows
  <2> QED BY <2>1, <2>2
<1> QED BY <1>1, <1>3, <1>4 DEF CallInv

LEMMA InCalls ==
  ASSUME IInv, mode = "up", at = "calls"
  PROVE  /\ CallsInv /\ TypeInv /\ asked \subseteq Calls
         /\ Scan(log).turn = turn /\ Scan(log).step = step /\ step <= Steps
         /\ turn \in 1 .. MaxTurns /\ step \in 1 .. MaxSteps
         /\ turn # 0 /\ step # 0
<1>1. TypeInv /\ DriverInv
  BY DEF IInv
<1>2. CallsInv /\ Scan(log).turn = turn /\ Scan(log).step = step /\ step <= Steps
      /\ turn # 0 /\ step # 0
  BY <1>1 DEF DriverInv
<1>3. turn \in 0 .. MaxTurns /\ step \in 0 .. MaxSteps
  BY <1>1, TypeFacts
<1>4. turn \in 1 .. MaxTurns /\ step \in 1 .. MaxSteps
  BY <1>2, <1>3, Bounds
<1>5. asked \subseteq Calls
  BY <1>1 DEF TypeInv
<1> QED BY <1>1, <1>2, <1>4, <1>5

(* What is left to show of a step of one call. *)
LEMMA CallSteps ==
  ASSUME IInv, mode = "up", at = "calls", StaysInStep,
         LogGrows, log' \in Seq(Events),
         NEW c \in asked, OthersStay(c), BodiesGrow(c),
         Scan(log').turn = turn, Scan(log').step = step,
         Scan(log').named = {d \in asked : stage'[d] # "committed"},
         Scan(log').started = {d \in asked : stage'[d] # "unstarted"},
         CallInv(c)'
  PROVE  DriverInv'
<1>1. /\ at' = at /\ turn' = turn /\ step' = step /\ asked' = asked
  BY DEF StaysInStep
<1>2. /\ CallsInv /\ asked \subseteq Calls /\ step <= Steps
      /\ turn # 0 /\ step # 0
  BY InCalls
<1>3. \A d \in asked' : CallInv(d)'
  <2> SUFFICES ASSUME NEW d \in asked PROVE CallInv(d)'
    BY <1>1
  <2>1. CASE d = c
    BY <2>1
  <2>2. CASE d # c
    <3>1. d \in Calls /\ CallInv(d)
      BY <1>2 DEF CallsInv
    <3> QED BY <1>1, <2>2, <3>1, CallKept
  <2> QED BY <2>1, <2>2
<1>4. \A d \in Calls \ asked' : stage'[d] = "unstarted"
  BY <1>1, <1>2 DEF CallsInv, OthersStay
<1>5. CallsInv'
  BY <1>1, <1>3, <1>4 DEF CallsInv
<1>6. step \in Nat /\ Steps \in Nat /\ Steps' \in Nat /\ Steps <= Steps'
  BY InCalls, LogFacts, StepsGrow, TypeFacts
<1>7. step' <= Steps'
  BY <1>1, <1>2, <1>6
<1>8. /\ at' = "calls" /\ turn' # 0 /\ step' # 0
      /\ Scan(log').turn = turn' /\ Scan(log').step = step'
  BY <1>1, <1>2
<1> QED BY <1>5, <1>7, <1>8 DEF DriverInv

LEMMA SameLog ==
  ASSUME log' = log
  PROVE  /\ Scan(log') = Scan(log) /\ Traced(log') = Traced(log) /\ Steps' = Steps
         /\ LogGrows
  BY DEF Steps, LogGrows

LEMMA DriverKept ==
  ASSUME DriverInv, log' = log, ran' = ran, at' = at, turn' = turn, step' = step, asked' = asked,
         stage' = stage, needs' = needs, outcome' = outcome
  PROVE  DriverInv'
<1>1. Scan(log') = Scan(log) /\ Traced(log') = Traced(log) /\ Steps' = Steps
  BY SameLog
<1>2. CallsInv => CallsInv'
  <2> SUFFICES ASSUME CallsInv PROVE CallsInv'
    OBVIOUS
  <2>1. \A c \in asked' : CallInv(c)'
    BY DEF CallsInv, CallInv
  <2> QED BY <1>1, <2>1 DEF CallsInv
<1> QED BY <1>1, <1>2 DEF DriverInv

LEMMA AbortKeeps ==
  ASSUME IInv, Abort PROVE IInv'
<1>1. /\ mode = "up" /\ at # "idle" /\ aborted' = TRUE /\ log' = log
      /\ at' = at /\ turn' = turn /\ step' = step /\ mode' = mode
      /\ durable' = durable /\ torn' = torn /\ asked' = asked
      /\ stage' = stage /\ needs' = needs /\ outcome' = outcome /\ ran' = ran /\ crashes' = crashes
  BY DEF Abort, storage, calls
<1>2. TypeInv /\ DriverInv /\ Sound(log, durable, ran)
  BY <1>1 DEF IInv
<1>3. DriverInv'
  BY <1>1, <1>2, DriverKept
<1>4. TypeInv'
  BY <1>1, <1>2 DEF TypeInv
<1>5. Sound(log', durable', ran')
  BY <1>1, <1>2
<1> QED BY <1>3, <1>4, <1>5 DEF IInv

LEMMA AnsweredKeeps ==
  ASSUME IInv, NEW n \in 0 .. MaxCalls, Answered(n) PROVE IInv'
<1>1. /\ mode = "up" /\ at = "request"
      /\ log' = Append(log, Event("assistant/message", turn, step, n, "none"))
      /\ asked' = 1 .. n /\ at' \in {"calls", "step-end"}
      /\ stage' = [c \in Calls |-> "unstarted"]
      /\ mode' = mode /\ durable' = durable /\ torn' = torn /\ aborted' = aborted
      /\ turn' = turn /\ step' = step
      /\ needs' = needs /\ outcome' = outcome /\ ran' = ran /\ crashes' = crashes
  BY DEF Answered, Append1, storage
<1>2. TypeInv /\ DriverInv
  BY <1>1 DEF IInv
<1>3. /\ log \in Seq(Events) /\ Scan(log) \in Opens /\ DOMAIN log = 1 .. Len(log)
      /\ Len(log) \in Nat /\ durable \in 0 .. Len(log) /\ RecordedIn(log, durable, ran)
  BY LogFacts
<1>4. /\ turn # 0 /\ Scan(log).turn = turn /\ step <= Steps
      /\ step # 0 /\ Scan(log).step = step /\ Scan(log).named = {}
      /\ \A i \in DOMAIN log : log[i].type \in {"tool/call", "tool/result"} =>
            ~(log[i].turn = turn /\ log[i].step = step)
  BY <1>1, <1>2 DEF DriverInv
<1>5. turn \in 0 .. MaxTurns /\ step \in 0 .. MaxSteps /\ step \in Nat
  BY <1>2, TypeFacts
<1>6. PICK e : /\ e = Event("assistant/message", turn, step, n, "none") /\ e \in Events
               /\ e.type = "assistant/message" /\ e.turn = turn /\ e.step = step /\ e.call = n
               /\ Honest(e, ran)
  BY <1>5, TypesAre, NoResult
<1>7. log' = Append(log, e)
  BY <1>1, <1>6
<1>8. Fits(log, Scan(log), Traced(log), e)
  BY <1>4, <1>6 DEF Fits, Within
<1>9. Sound(log', durable', ran') /\ Scan(log') = ScanEvent(Scan(log), e)
  BY <1>1, <1>6, <1>7, <1>8, AppendReads
<1>10. ScanEvent(Scan(log), e) =
         [turn |-> Scan(log).turn, step |-> Scan(log).step,
          named |-> Scan(log).named \cup 1 .. e.call, within |-> e.step, started |-> {}]
  BY <1>3, <1>6, ScanCases
<1>11. /\ Scan(log').turn = turn /\ Scan(log').step = step
       /\ Scan(log').named = 1 .. n /\ Scan(log').started = {}
  BY <1>4, <1>6, <1>9, <1>10
<1>12. 1 .. n \subseteq Calls
  BY Bounds
<1>13. \A c \in 1 .. n : <<turn, step, c>> \notin ran
  <2> SUFFICES ASSUME NEW c \in 1 .. n, <<turn, step, c>> \in ran PROVE FALSE
    OBVIOUS
  <2>1. PICK i \in 1 .. durable :
          log[i].type = "tool/call" /\ CallNamed(log[i]) = <<turn, step, c>>
    BY <1>3 DEF RecordedIn
  <2>2. i \in DOMAIN log /\ log[i].turn = turn /\ log[i].step = step
    BY <1>3, <2>1 DEF CallNamed
  <2> QED BY <1>4, <2>1, <2>2
<1>14. CallsInv'
  <2>1. \A c \in asked' : CallInv(c)'
    BY <1>1, <1>12, <1>13 DEF CallInv
  <2> QED BY <1>1, <1>11, <1>12, <2>1 DEF CallsInv
<1>15. step' <= Steps'
  <2>1. Steps \in Nat /\ Steps' \in Nat /\ Steps <= Steps'
    BY <1>3, <1>6, <1>7, GrowsBy, StepsGrow
  <2> QED BY <1>1, <1>4, <1>5, <2>1
<1>16. DriverInv'
  BY <1>1, <1>4, <1>11, <1>14, <1>15 DEF DriverInv
<1>17. TypeInv'
  <2>1. at' \in {"idle", "pre-step", "request", "calls", "step-end", "stepped"}
    BY <1>1
  <2>2. stage' \in [Calls -> {"unstarted", "deciding", "gate", "body", "settled", "committed"}]
    BY <1>1
  <2> QED BY <1>1, <1>2, <1>12, <2>1, <2>2 DEF TypeInv
<1> QED BY <1>9, <1>16, <1>17 DEF IInv

LEMMA GiveUpKeeps ==
  ASSUME IInv, GiveUp PROVE IInv'
<1>1. /\ mode = "up" /\ at = "request" /\ at' = "step-end" /\ log' = log
      /\ aborted' = aborted /\ turn' = turn /\ step' = step /\ mode' = mode
      /\ durable' = durable /\ torn' = torn /\ asked' = asked
      /\ stage' = stage /\ needs' = needs /\ outcome' = outcome /\ ran' = ran /\ crashes' = crashes
  BY DEF GiveUp, storage, calls
<1>2. TypeInv /\ DriverInv /\ Sound(log, durable, ran)
  BY <1>1 DEF IInv
<1>3. Scan(log') = Scan(log) /\ Steps' = Steps
  BY <1>1, SameLog
<1>4. /\ turn # 0 /\ Scan(log).turn = turn /\ step <= Steps
      /\ step # 0 /\ Scan(log).step = step /\ Scan(log).named = {}
  BY <1>1, <1>2 DEF DriverInv
<1>5. DriverInv'
  BY <1>1, <1>3, <1>4 DEF DriverInv
<1>6. TypeInv'
  BY <1>1, <1>2 DEF TypeInv
<1>7. Sound(log', durable', ran')
  BY <1>1, <1>2
<1> QED BY <1>5, <1>6, <1>7 DEF IInv

LEMMA EndStepKeeps ==
  ASSUME IInv, EndStep PROVE IInv'
<1>1. /\ mode = "up" /\ log' = Append(log, Event("step/end", turn, step, 0, "none"))
      /\ at' = "stepped" /\ aborted' = aborted /\ turn' = turn /\ step' = step /\ mode' = mode
      /\ durable' = durable /\ torn' = torn /\ asked' = asked
      /\ stage' = stage /\ needs' = needs /\ outcome' = outcome /\ ran' = ran /\ crashes' = crashes
  BY DEF EndStep, Append1, storage, calls
<1>2. at = "step-end" \/ (at = "calls" /\ \A c \in asked : stage[c] = "committed")
  BY DEF EndStep
<1>3. TypeInv /\ DriverInv
  BY <1>1 DEF IInv
<1>4. /\ log \in Seq(Events) /\ Scan(log) \in Opens /\ Traced(log) \in Traces
      /\ Tracks(Scan(log), Traced(log))
  BY LogFacts
<1>5. /\ turn # 0 /\ Scan(log).turn = turn /\ step <= Steps
      /\ step # 0 /\ Scan(log).step = step
  BY <1>2, <1>3 DEF DriverInv
<1>6. Scan(log).named \cap Scan(log).started = {}
  <2>1. CASE at = "step-end"
    BY <1>3, <2>1 DEF DriverInv
  <2>2. CASE at = "calls" /\ \A c \in asked : stage[c] = "committed"
    BY <1>3, <2>2 DEF DriverInv, CallsInv
  <2> QED BY <1>2, <2>1, <2>2
<1>7. turn \in 0 .. MaxTurns /\ step \in 0 .. MaxSteps /\ step \in Nat
  BY <1>3, TypeFacts
<1>8. PICK e : /\ e = Event("step/end", turn, step, 0, "none") /\ e \in Events
               /\ e.type = "step/end" /\ e.turn = turn /\ e.step = step /\ e.call = 0
               /\ Honest(e, ran)
  BY <1>7, ZeroFits, TypesAre, NoResult
<1>9. log' = Append(log, e)
  BY <1>1, <1>8
<1>10. Fits(log, Scan(log), Traced(log), e)
  BY <1>5, <1>6, <1>8 DEF Fits, Within
<1>11. /\ Sound(log', durable', ran')
       /\ Scan(log') = ScanEvent(Scan(log), e) /\ Traced(log') = TraceEvent(Traced(log), e)
  BY <1>1, <1>8, <1>9, <1>10, AppendReads
<1>12. Follows(Traced(log), e)
  BY <1>4, <1>8, <1>10, FitsFollows
<1>13. Scan(log').turn = turn /\ Scan(log').step = 0
  BY <1>4, <1>5, <1>8, <1>11, ScanCases
<1>14. Traced(log').nextStep = Traced(log).nextStep + 1
  BY <1>4, <1>8, <1>11, <1>12, TraceCases
<1>15. Traced(log).nextStep = step
  BY <1>4, <1>5 DEF Tracks
<1>16. step' = Traced(log').nextStep - 1
  BY <1>1, <1>7, <1>14, <1>15
<1>17. step' <= Steps'
  <2>1. Steps \in Nat /\ Steps' \in Nat /\ Steps <= Steps'
    BY <1>4, <1>8, <1>9, GrowsBy, StepsGrow
  <2> QED BY <1>1, <1>5, <1>7, <2>1
<1>18. DriverInv'
  BY <1>1, <1>5, <1>13, <1>16, <1>17 DEF DriverInv
<1>19. TypeInv'
  BY <1>1, <1>3 DEF TypeInv
<1> QED BY <1>11, <1>18, <1>19 DEF IInv

LEMMA EndTurnKeeps ==
  ASSUME IInv, EndTurn PROVE IInv'
<1>1. /\ mode = "up" /\ at \in {"pre-step", "stepped"} /\ turn' = turn /\ mode' = mode
      /\ durable' = durable /\ torn' = torn /\ asked' = asked
      /\ stage' = stage /\ needs' = needs /\ outcome' = outcome /\ ran' = ran /\ crashes' = crashes
  BY DEF EndTurn, storage, calls
<1>2. TypeInv /\ DriverInv /\ Sound(log, durable, ran)
  BY <1>1 DEF IInv
<1>3. /\ turn # 0 /\ Scan(log).turn = turn /\ step <= Steps
      /\ Scan(log).step = 0 /\ step = Traced(log).nextStep - 1
  BY <1>1, <1>2 DEF DriverInv
<1>4. turn \in 0 .. MaxTurns /\ turn \in Nat
  BY <1>2, TypeFacts
<1>5. CASE /\ log' = Append(log, Event("turn/end", turn, 0, 0, "none"))
           /\ at' = "idle" /\ aborted' = FALSE /\ step' = 0
  <2>1. /\ log \in Seq(Events) /\ Scan(log) \in Opens /\ Traced(log) \in Traces
        /\ Tracks(Scan(log), Traced(log))
    BY LogFacts
  <2>2. PICK e : /\ e = Event("turn/end", turn, 0, 0, "none") /\ e \in Events
                 /\ e.type = "turn/end" /\ e.turn = turn /\ e.step = 0 /\ e.call = 0
                 /\ Honest(e, ran)
    BY <1>4, ZeroFits, TypesAre, NoResult
  <2>3. log' = Append(log, e)
    BY <1>5, <2>2
  <2>4. Fits(log, Scan(log), Traced(log), e)
    BY <1>3, <2>2 DEF Fits
  <2>5. /\ Sound(log', durable', ran')
        /\ Scan(log') = ScanEvent(Scan(log), e) /\ Traced(log') = TraceEvent(Traced(log), e)
    BY <1>1, <2>2, <2>3, <2>4, AppendReads
  <2>6. Follows(Traced(log), e)
    BY <2>1, <2>2, <2>4, FitsFollows
  <2>7. Scan(log').turn = 0
    BY <2>1, <2>2, <2>5, ScanCases DEF NothingOpen
  <2>8. Traced(log').nextTurn = Traced(log).nextTurn + 1
    BY <2>1, <2>2, <2>5, <2>6, TraceCases
  <2>9. Traced(log).nextTurn = turn
    BY <1>3, <2>1 DEF Tracks
  <2>10. turn' = Traced(log').nextTurn - 1
    BY <1>1, <1>4, <2>8, <2>9
  <2>11. DriverInv'
    BY <1>5, <2>7, <2>10 DEF DriverInv
  <2>12. TypeInv'
    BY <1>1, <1>2, <1>5, ZeroFits DEF TypeInv
  <2> QED BY <2>5, <2>11, <2>12 DEF IInv
<1>6. CASE at' = "pre-step" /\ log' = log /\ aborted' = aborted /\ step' = step
  <2>1. Scan(log') = Scan(log) /\ Traced(log') = Traced(log) /\ Steps' = Steps
    BY <1>6, SameLog
  <2>2. DriverInv'
    BY <1>1, <1>3, <1>6, <2>1 DEF DriverInv
  <2>3. TypeInv'
    BY <1>1, <1>2, <1>6 DEF TypeInv
  <2>4. Sound(log', durable', ran')
    BY <1>1, <1>2, <1>6
  <2> QED BY <2>2, <2>3, <2>4 DEF IInv
<1>7. \/ /\ log' = Append(log, Event("turn/end", turn, 0, 0, "none"))
         /\ at' = "idle" /\ aborted' = FALSE /\ step' = 0
      \/ at' = "pre-step" /\ log' = log /\ aborted' = aborted /\ step' = step
  BY DEF EndTurn, Append1
<1> QED BY <1>5, <1>6, <1>7

-----------------------------------------------------------------------------
(* The stages of a call. *)
LEMMA BodiesStay ==
  ASSUME ran' = ran, NEW c PROVE BodiesGrow(c)
  BY DEF BodiesGrow

LEMMA OneSettles ==
  ASSUME TypeInv, NEW c \in Calls, NEW code \in Codes, Settles(c, code)
  PROVE  /\ OthersStay(c) /\ stage'[c] = "settled" /\ outcome'[c] = code
         /\ stage' \in [Calls -> {"unstarted", "deciding", "gate", "body", "settled",
                                  "committed"}]
         /\ needs' \in [Calls -> Nat] /\ outcome' \in [Calls -> Codes]
<1>1. /\ stage \in [Calls -> {"unstarted", "deciding", "gate", "body", "settled", "committed"}]
      /\ needs \in [Calls -> Nat] /\ outcome \in [Calls -> Codes]
  BY DEF TypeInv
<1>2. /\ stage' = [stage EXCEPT ![c] = "settled"]
      /\ outcome' = [outcome EXCEPT ![c] = code]
      /\ needs' = [needs EXCEPT ![c] = 0]
  BY DEF Settles
<1>3. OthersStay(c)
  BY <1>1, <1>2 DEF OthersStay
<1> QED BY <1>1, <1>2, <1>3

LEMMA OneMoves ==
  ASSUME TypeInv, NEW c \in Calls,
         NEW to \in {"deciding", "body", "committed"}, stage' = [stage EXCEPT ![c] = to],
         needs' = needs, outcome' = outcome
  PROVE  /\ OthersStay(c) /\ stage'[c] = to
         /\ stage' \in [Calls -> {"unstarted", "deciding", "gate", "body", "settled",
                                  "committed"}]
         /\ needs' \in [Calls -> Nat] /\ outcome' \in [Calls -> Codes]
<1>1. /\ stage \in [Calls -> {"unstarted", "deciding", "gate", "body", "settled", "committed"}]
      /\ needs \in [Calls -> Nat] /\ outcome \in [Calls -> Codes]
  BY DEF TypeInv
<1>2. OthersStay(c)
  BY <1>1 DEF OthersStay
<1> QED BY <1>1, <1>2

(* A call that moves on without an event. *)
LEMMA QuietStep ==
  ASSUME IInv, mode = "up", at = "calls", StaysInStep, log' = log,
         NEW c \in asked, stage[c] \notin {"unstarted", "committed"},
         stage'[c] \notin {"unstarted", "committed"},
         OthersStay(c), BodiesGrow(c), CallInv(c)'
  PROVE  DriverInv'
<1>1. /\ CallsInv /\ asked \subseteq Calls
      /\ Scan(log).turn = turn /\ Scan(log).step = step
  BY InCalls
<1>2. Scan(log') = Scan(log) /\ LogGrows
  BY SameLog
<1>3. \A d \in asked : d # c => stage'[d] = stage[d]
  BY <1>1 DEF OthersStay
<1>4. Scan(log').named = {d \in asked : stage'[d] # "committed"}
  BY <1>1, <1>2, <1>3 DEF CallsInv
<1>5. Scan(log').started = {d \in asked : stage'[d] # "unstarted"}
  BY <1>1, <1>2, <1>3 DEF CallsInv
<1>6. log' \in Seq(Events)
  BY LogFacts
<1> QED BY <1>1, <1>2, <1>4, <1>5, <1>6, CallSteps

LEMMA IsAsked ==
  ASSUME IInv, mode = "up", at = "calls", NEW c \in Calls, stage[c] # "unstarted"
  PROVE  c \in asked /\ CallInv(c)
  BY InCalls DEF CallsInv

LEMMA StartKeeps ==
  ASSUME IInv, NEW c \in Calls, Start(c) PROVE IInv'
<1>1. /\ mode = "up" /\ at = "calls" /\ c \in asked /\ stage[c] = "unstarted"
      /\ log' = Append(log, Event("tool/call", turn, step, c, "none"))
      /\ stage' = [stage EXCEPT ![c] = "deciding"]
      /\ at' = at /\ aborted' = aborted /\ turn' = turn /\ step' = step /\ mode' = mode
      /\ durable' = durable /\ torn' = torn /\ asked' = asked
      /\ needs' = needs /\ outcome' = outcome /\ ran' = ran /\ crashes' = crashes
  BY DEF Start, Append1, storage, driver
<1>2. /\ CallsInv /\ TypeInv /\ asked \subseteq Calls /\ turn # 0 /\ step # 0
      /\ Scan(log).turn = turn /\ Scan(log).step = step
      /\ turn \in 0 .. MaxTurns /\ step \in 0 .. MaxSteps
  BY <1>1, InCalls, TypeFacts
<1>3. /\ log \in Seq(Events) /\ Scan(log) \in Opens
  BY LogFacts
<1>4. c \in Scan(log).named
  BY <1>1, <1>2 DEF CallsInv
<1>5. PICK e : /\ e = Event("tool/call", turn, step, c, "none") /\ e \in Events
               /\ e.type = "tool/call" /\ e.turn = turn /\ e.step = step /\ e.call = c
               /\ Honest(e, ran)
  <2>1. c \in 0 .. MaxCalls
    BY Bounds DEF Calls
  <2> QED BY <1>2, <2>1, TypesAre, NoResult
<1>6. log' = Append(log, e)
  BY <1>1, <1>5
<1>7. Fits(log, Scan(log), Traced(log), e)
  BY <1>2, <1>4, <1>5 DEF Fits, Within
<1>8. Sound(log', durable', ran') /\ Scan(log') = ScanEvent(Scan(log), e)
  BY <1>1, <1>5, <1>6, <1>7, AppendReads
<1>9. ScanEvent(Scan(log), e) =
        [turn |-> Scan(log).turn, step |-> Scan(log).step, named |-> Scan(log).named,
         within |-> Scan(log).within,
         started |-> Scan(log).started \cup ({e.call} \cap Scan(log).named)]
  BY <1>3, <1>5, ScanCases
<1>10. /\ Scan(log').turn = turn /\ Scan(log').step = step
       /\ Scan(log').named = Scan(log).named
       /\ Scan(log').started = Scan(log).started \cup {c}
  BY <1>2, <1>4, <1>5, <1>8, <1>9
<1>11. /\ OthersStay(c) /\ stage'[c] = "deciding"
       /\ stage' \in [Calls -> {"unstarted", "deciding", "gate", "body", "settled", "committed"}]
  BY <1>1, <1>2, OneMoves
<1>12. \A d \in asked : d # c => stage'[d] = stage[d]
  BY <1>2, <1>11 DEF OthersStay
<1>13. Scan(log').named = {d \in asked : stage'[d] # "committed"}
  BY <1>1, <1>2, <1>10, <1>11, <1>12 DEF CallsInv
<1>14. Scan(log').started = {d \in asked : stage'[d] # "unstarted"}
  BY <1>1, <1>2, <1>10, <1>11, <1>12 DEF CallsInv
<1>15. <<turn, step, c>> \notin ran
  BY <1>1, <1>2 DEF CallsInv, CallInv
<1>16. CallInv(c)'
  BY <1>1, <1>11, <1>15 DEF CallInv
<1>17. BodiesGrow(c) /\ LogGrows /\ log' \in Seq(Events) /\ StaysInStep
  BY <1>1, <1>3, <1>5, <1>6, BodiesStay, GrowsBy DEF StaysInStep
<1>18. DriverInv'
  BY <1>1, <1>10, <1>11, <1>13, <1>14, <1>16, <1>17, CallSteps
<1>19. TypeInv'
  BY <1>1, <1>2, <1>11 DEF TypeInv
<1> QED BY <1>8, <1>18, <1>19 DEF IInv

LEMMA DecideKeeps ==
  ASSUME IInv, NEW c \in Calls, Decide(c) PROVE IInv'
<1>1. /\ mode = "up" /\ at = "calls" /\ stage[c] = "deciding" /\ log' = log
      /\ at' = at /\ aborted' = aborted /\ turn' = turn /\ step' = step /\ mode' = mode
      /\ durable' = durable /\ torn' = torn /\ asked' = asked /\ ran' = ran /\ crashes' = crashes
  BY DEF Decide, storage, driver
<1>2. /\ CallsInv /\ TypeInv /\ asked \subseteq Calls
      /\ Scan(log).turn = turn /\ Scan(log).step = step
  BY <1>1, InCalls
<1>3. c \in asked /\ <<turn, step, c>> \notin ran
  BY <1>1, IsAsked DEF CallInv
<1>4. BodiesGrow(c) /\ StaysInStep
  BY <1>1, BodiesStay DEF StaysInStep
<1>5. ASSUME NEW code \in {"aborted-before", "denied", "failed"}, Settles(c, code)
      PROVE  IInv'
  <2>1. code \in Codes
    BY <1>5, CodesAre
  <2>2. /\ OthersStay(c) /\ stage'[c] = "settled" /\ outcome'[c] = code
        /\ stage' \in [Calls -> {"unstarted", "deciding", "gate", "body", "settled",
                                 "committed"}]
        /\ needs' \in [Calls -> Nat] /\ outcome' \in [Calls -> Codes]
    BY <1>2, <1>5, <2>1, OneSettles
  <2>3. CallInv(c)'
    BY <1>1, <1>3, <1>5, <2>2 DEF CallInv
  <2>4. DriverInv'
    BY <1>1, <1>3, <1>4, <2>2, <2>3, QuietStep
  <2>5. TypeInv'
    BY <1>1, <1>2, <2>2 DEF TypeInv
  <2>6. Sound(log', durable', ran')
    BY <1>1 DEF IInv
  <2> QED BY <2>4, <2>5, <2>6 DEF IInv
<1>6. ASSUME Dispatch(c)
      PROVE  IInv'
  <2>1. /\ stage' = [stage EXCEPT ![c] = "gate"]
        /\ needs' = [needs EXCEPT ![c] = Len(log)] /\ outcome' = outcome
    BY <1>6 DEF Dispatch
  <2>2. /\ stage \in [Calls -> {"unstarted", "deciding", "gate", "body", "settled", "committed"}]
        /\ needs \in [Calls -> Nat] /\ outcome \in [Calls -> Codes]
    BY <1>2 DEF TypeInv
  <2>3. Len(log) \in Nat /\ DOMAIN log = 1 .. Len(log) /\ StartsRecorded(log, Scan(log))
    BY LogFacts DEF Told
  <2>4. OthersStay(c) /\ stage'[c] = "gate" /\ needs'[c] = Len(log)
    BY <2>1, <2>2 DEF OthersStay
  <2>5. /\ stage' \in [Calls -> {"unstarted", "deciding", "gate", "body", "settled",
                                 "committed"}]
        /\ needs' \in [Calls -> Nat] /\ outcome' \in [Calls -> Codes]
    BY <2>1, <2>2, <2>3
  <2>6. c \in Scan(log).started
    BY <1>1, <1>2, <1>3 DEF CallsInv
  <2>7. \E i \in DOMAIN log : log[i].type = "tool/call" /\ CallNamed(log[i]) = <<turn, step, c>>
    BY <1>2, <2>3, <2>6 DEF StartsRecorded
  <2>8. \E i \in DOMAIN log' :
          i <= needs'[c] /\ log'[i].type = "tool/call" /\ CallNamed(log'[i]) = <<turn', step', c>>
    BY <1>1, <2>3, <2>4, <2>7
  <2>9. CallInv(c)'
    BY <1>1, <1>3, <2>4, <2>8 DEF CallInv
  <2>10. DriverInv'
    BY <1>1, <1>3, <1>4, <2>4, <2>9, QuietStep
  <2>11. TypeInv'
    BY <1>1, <1>2, <2>5 DEF TypeInv
  <2>12. Sound(log', durable', ran')
    BY <1>1 DEF IInv
  <2> QED BY <2>10, <2>11, <2>12 DEF IInv
<1> QED BY <1>5, <1>6 DEF Decide, Allowed

(* A call that settles without an event, with a code true of its body. *)
LEMMA SettleKeeps ==
  ASSUME IInv, mode = "up", at = "calls", StaysInStep, log' = log,
         aborted' = aborted, durable' = durable, torn' = torn, ran' = ran, crashes' = crashes,
         NEW c \in Calls, stage[c] \in {"gate", "body"},
         NEW code \in Codes \ {"not-started"}, Settles(c, code),
         code \in {"denied", "aborted-before"} => <<turn, step, c>> \notin ran,
         code \in {"ok", "aborted"} => <<turn, step, c>> \in ran
  PROVE  IInv'
<1>1. /\ at' = at /\ turn' = turn /\ step' = step /\ mode' = mode /\ asked' = asked
  BY DEF StaysInStep
<1>2. TypeInv /\ c \in asked
  BY InCalls, IsAsked
<1>3. /\ OthersStay(c) /\ stage'[c] = "settled" /\ outcome'[c] = code
      /\ stage' \in [Calls -> {"unstarted", "deciding", "gate", "body", "settled",
                               "committed"}]
      /\ needs' \in [Calls -> Nat] /\ outcome' \in [Calls -> Codes]
  BY <1>2, OneSettles
<1>4. CallInv(c)'
  BY <1>1, <1>3 DEF CallInv
<1>5. DriverInv'
  BY <1>2, <1>3, <1>4, BodiesStay, QuietStep
<1>6. TypeInv'
  BY <1>1, <1>2, <1>3 DEF TypeInv
<1>7. Sound(log', durable', ran')
  BY DEF IInv
<1> QED BY <1>5, <1>6, <1>7 DEF IInv

LEMMA BodyEntered ==
  ASSUME NEW s, NEW n, NEW bodies, Sound(s, n, bodies), NEW c \in Scan(s).named,
         Scan(s).step # 0,
         NEW b, b = <<Scan(s).turn, Scan(s).step, c>>,
         \E i \in DOMAIN s : i <= n /\ s[i].type = "tool/call" /\ CallNamed(s[i]) = b
  PROVE  Sound(s, n, bodies \cup {b})
<1>1. /\ s \in Seq(Events) /\ n \in 0 .. Len(s) /\ Cuts(s)
      /\ HonestOver(s, bodies) /\ RecordedIn(s, n, bodies)
      /\ DOMAIN s = 1 .. Len(s) /\ Len(s) \in Nat
  BY DEF Sound
<1>2. ResultsClose(s, Scan(s))
  BY <1>1, CutsWhole DEF Whole, Told
<1>3. ASSUME NEW i \in DOMAIN s PROVE Honest(s[i], bodies \cup {b})
  <2>1. s[i].type = "tool/result" => CallNamed(s[i]) # b
    BY <1>2 DEF ResultsClose, CallNamed, Within
  <2>2. Honest(s[i], bodies)
    BY <1>1 DEF HonestOver
  <2> QED BY <2>1, <2>2 DEF Honest
<1>4. \E i \in 1 .. n : s[i].type = "tool/call" /\ CallNamed(s[i]) = b
  BY <1>1
<1>5. RecordedIn(s, n, bodies \cup {b})
  BY <1>1, <1>4 DEF RecordedIn
<1> QED BY <1>1, <1>3, <1>5 DEF Sound, HonestOver

LEMMA EnterBodyKeeps ==
  ASSUME IInv, NEW c \in Calls, EnterBody(c) PROVE IInv'
<1>1. /\ mode = "up" /\ at = "calls" /\ stage[c] = "gate" /\ log' = log
      /\ at' = at /\ aborted' = aborted /\ turn' = turn /\ step' = step /\ mode' = mode
      /\ durable' = durable /\ torn' = torn /\ asked' = asked /\ crashes' = crashes
      /\ durable >= needs[c]
  BY DEF EnterBody, Checkpointed, storage, driver
<1>2. /\ CallsInv /\ TypeInv /\ asked \subseteq Calls
      /\ Scan(log).turn = turn /\ Scan(log).step = step /\ step # 0
      /\ turn \in 1 .. MaxTurns /\ step \in 1 .. MaxSteps
  BY <1>1, InCalls
<1>3. c \in asked /\ CallInv(c)
  BY <1>1, IsAsked
<1>4. <<turn, step, c>> \notin ran
  BY <1>1, <1>3 DEF CallInv
<1>5. CASE Settles(c, "aborted-before") /\ ran' = ran
  <2>1. "aborted-before" \in Codes \ {"not-started"}
    BY CodesAre
  <2>2. StaysInStep
    BY <1>1 DEF StaysInStep
  <2> QED BY <1>1, <1>4, <1>5, <2>1, <2>2, SettleKeeps
<1>6. CASE /\ stage' = [stage EXCEPT ![c] = "body"]
           /\ ran' = ran \cup {<<turn, step, c>>}
           /\ needs' = needs /\ outcome' = outcome
  <2>1. /\ OthersStay(c) /\ stage'[c] = "body"
        /\ stage' \in [Calls -> {"unstarted", "deciding", "gate", "body", "settled",
                                 "committed"}]
    BY <1>2, <1>6, OneMoves
  <2>2. PICK i \in DOMAIN log :
          i <= needs[c] /\ log[i].type = "tool/call" /\ CallNamed(log[i]) = <<turn, step, c>>
    BY <1>1, <1>3 DEF CallInv
  <2>3. i <= durable
    <3>1. needs[c] \in Nat
      BY <1>2 DEF TypeInv
    <3>2. durable \in Nat /\ i \in Nat
      BY LogFacts
    <3> QED BY <1>1, <2>2, <3>1, <3>2
  <2>4. c \in Scan(log).named
    BY <1>1, <1>2, <1>3 DEF CallsInv
  <2>5. Sound(log, durable, ran)
    BY DEF IInv
  <2>6. PICK b : b = <<Scan(log).turn, Scan(log).step, c>>
    OBVIOUS
  <2>7. b = <<turn, step, c>>
    BY <1>2, <2>6
  <2>8. Sound(log, durable, ran \cup {b})
    BY <1>2, <2>2, <2>3, <2>4, <2>5, <2>6, <2>7, BodyEntered
  <2>9. Sound(log', durable', ran')
    BY <1>1, <1>6, <2>7, <2>8
  <2>10. BodiesGrow(c) /\ StaysInStep
    BY <1>1, <1>6 DEF BodiesGrow, StaysInStep
  <2>11. CallInv(c)'
    BY <1>1, <1>6, <2>1 DEF CallInv
  <2>12. DriverInv'
    BY <1>1, <1>3, <2>1, <2>10, <2>11, QuietStep
  <2>13. TypeInv'
    <3>1. <<turn, step, c>> \in (1 .. MaxTurns) \X (1 .. MaxSteps) \X Calls
      BY <1>2
    <3>2. ran' \subseteq (1 .. MaxTurns) \X (1 .. MaxSteps) \X Calls
      BY <1>2, <1>6, <3>1 DEF TypeInv
    <3> QED BY <1>1, <1>2, <1>6, <2>1, <3>2 DEF TypeInv
  <2> QED BY <2>9, <2>12, <2>13 DEF IInv
<1> QED BY <1>5, <1>6 DEF EnterBody

LEMMA DispatchFailsKeeps ==
  ASSUME IInv, NEW c \in Calls, DispatchFails(c) PROVE IInv'
<1>1. /\ mode = "up" /\ at = "calls" /\ stage[c] = "gate" /\ log' = log
      /\ aborted' = aborted /\ durable' = durable /\ torn' = torn
      /\ ran' = ran /\ crashes' = crashes /\ Settles(c, "failed")
  BY DEF DispatchFails, storage, driver
<1>2. StaysInStep
  BY DEF DispatchFails, driver, StaysInStep
<1>3. "failed" \in Codes \ {"not-started"}
  BY CodesAre
<1> QED BY <1>1, <1>2, <1>3, SettleKeeps

LEMMA LeaveKeeps ==
  ASSUME IInv, NEW c \in Calls, Leave(c) PROVE IInv'
<1>1. /\ mode = "up" /\ at = "calls" /\ stage[c] = "body" /\ log' = log
      /\ aborted' = aborted /\ durable' = durable /\ torn' = torn
      /\ ran' = ran /\ crashes' = crashes
  BY DEF Leave, storage, driver
<1>2. StaysInStep
  BY DEF Leave, driver, StaysInStep
<1>3. <<turn, step, c>> \in ran
  BY <1>1, IsAsked DEF CallInv
<1>4. PICK code \in {"failed", "aborted", "ok"} : Settles(c, code)
  BY <1>3 DEF Leave, Cancelled
<1>5. code \in Codes \ {"not-started"}
  BY <1>4, CodesAre
<1> QED BY <1>1, <1>2, <1>3, <1>4, <1>5, SettleKeeps

LEMMA ResultHonest ==
  ASSUME NEW c \in Calls, turn \in 0 .. MaxTurns, step \in 0 .. MaxSteps, NEW code \in Codes,
         code \in {"not-started", "aborted-before", "denied"} => <<turn, step, c>> \notin ran,
         code \in {"ok", "aborted"} => <<turn, step, c>> \in ran
  PROVE  \E e : /\ e = Event("tool/result", turn, step, c, code) /\ e \in Events
                /\ e.type = "tool/result" /\ e.turn = turn /\ e.step = step /\ e.call = c
                /\ Honest(e, ran)
<1>1. PICK e : e = Event("tool/result", turn, step, c, code)
  OBVIOUS
<1>2. c \in 0 .. MaxCalls /\ "tool/result" \in EventTypes
  BY Bounds, TypesAre DEF Calls
<1>3. /\ e \in Events /\ e.type = "tool/result" /\ e.turn = turn /\ e.step = step
      /\ e.call = c /\ e.code = code
  BY <1>1, <1>2, EventFields
<1>4. Honest(e, ran)
  BY <1>3 DEF Honest, CallNamed
<1> QED BY <1>1, <1>3, <1>4

LEMMA CallRead ==
  ASSUME NEW s, NEW n, NEW bodies, Sound(s, n, bodies), NEW e \in Events,
         e.type = "tool/call", Within(e, Scan(s)), Scan(s).step # 0,
         e.call \in Scan(s).named
  PROVE  /\ Sound(Append(s, e), n, bodies)
         /\ Scan(Append(s, e)).turn = Scan(s).turn /\ Scan(Append(s, e)).step = Scan(s).step
         /\ Scan(Append(s, e)).named = Scan(s).named
         /\ Scan(Append(s, e)).started = Scan(s).started \cup {e.call}
<1>1. s \in Seq(Events) /\ Scan(s) \in Opens
  BY ScanIsOpen DEF Sound
<1>2. Fits(s, Scan(s), Traced(s), e)
  BY DEF Fits
<1>3. Honest(e, bodies)
  BY DEF Honest
<1>4. Sound(Append(s, e), n, bodies)
  BY <1>2, <1>3, SoundAppend
<1>5. Scan(Append(s, e)) =
        [turn |-> Scan(s).turn, step |-> Scan(s).step, named |-> Scan(s).named,
         within |-> Scan(s).within,
         started |-> Scan(s).started \cup ({e.call} \cap Scan(s).named)]
  BY <1>1, ScanAppend, ScanCases
<1>6. {e.call} \cap Scan(s).named = {e.call}
  OBVIOUS
<1> QED BY <1>4, <1>5, <1>6

LEMMA ResultRead ==
  ASSUME NEW s, NEW n, NEW bodies, Sound(s, n, bodies), NEW e \in Events,
         e.type = "tool/result", Within(e, Scan(s)), Scan(s).step # 0,
         e.call \in Scan(s).named, e.call \in Scan(s).started,
         \A d \in Scan(s).named : e.call <= d, Honest(e, bodies)
  PROVE  /\ Sound(Append(s, e), n, bodies)
         /\ Scan(Append(s, e)).turn = Scan(s).turn /\ Scan(Append(s, e)).step = Scan(s).step
         /\ Scan(Append(s, e)).named = Scan(s).named \ {e.call}
         /\ Scan(Append(s, e)).started = Scan(s).started
<1>1. s \in Seq(Events) /\ Scan(s) \in Opens
  BY ScanIsOpen DEF Sound
<1>2. Fits(s, Scan(s), Traced(s), e)
  BY DEF Fits
<1>3. Sound(Append(s, e), n, bodies)
  BY <1>2, SoundAppend
<1>4. Scan(Append(s, e)) =
        [turn |-> Scan(s).turn, step |-> Scan(s).step, named |-> Scan(s).named \ {e.call},
         within |-> Scan(s).within, started |-> Scan(s).started]
  BY <1>1, ScanAppend, ScanCases
<1> QED BY <1>3, <1>4

LEMMA CommittedBefore ==
  ASSUME CallsInv, TypeInv, NEW c \in asked, stage[c] # "committed",
         \A d \in 1 .. c - 1 : stage[d] = "committed"
  PROVE  c \in Scan(log).named /\ \A d \in Scan(log).named : c <= d
<1>1. c \in Scan(log).named
  BY DEF CallsInv
<1>2. asked \subseteq Calls
  BY DEF TypeInv
<1>3. ASSUME NEW d \in Scan(log).named PROVE c <= d
  <2>1. d \in asked /\ stage[d] # "committed"
    BY DEF CallsInv
  <2>2. c \in Nat /\ d \in Nat /\ d >= 1
    BY <1>2, <2>1, Bounds DEF Calls
  <2> QED BY <2>1, <2>2
<1> QED BY <1>1, <1>3

LEMMA CommitKeeps ==
  ASSUME IInv, NEW c \in Calls, Commit(c) PROVE IInv'
<1>1. /\ mode = "up" /\ at = "calls" /\ stage[c] = "settled"
      /\ \A d \in 1 .. c - 1 : stage[d] = "committed"
      /\ stage' = [stage EXCEPT ![c] = "committed"]
      /\ at' = at /\ aborted' = aborted /\ turn' = turn /\ step' = step /\ mode' = mode
      /\ durable' = durable /\ torn' = torn /\ asked' = asked
      /\ needs' = needs /\ outcome' = outcome /\ ran' = ran /\ crashes' = crashes
  BY DEF Commit, storage, driver
<1>2. PICK code \in {"failed", IF aborted /\ outcome[c] = "ok" THEN Cancelled(c) ELSE outcome[c]} :
        log' = Append(log, Event("tool/result", turn, step, c, code))
  BY DEF Commit, Append1
<1>3. /\ CallsInv /\ TypeInv /\ asked \subseteq Calls /\ turn # 0 /\ step # 0
      /\ Scan(log).turn = turn /\ Scan(log).step = step
      /\ turn \in 0 .. MaxTurns /\ step \in 0 .. MaxSteps
  BY <1>1, InCalls, TypeFacts
<1>4. c \in asked /\ CallInv(c)
  BY <1>1, IsAsked
<1>5. /\ outcome[c] \in {"denied", "aborted-before"} => <<turn, step, c>> \notin ran
      /\ outcome[c] \in {"ok", "aborted"} => <<turn, step, c>> \in ran
      /\ outcome[c] # "not-started"
  BY <1>1, <1>4 DEF CallInv
<1>6. outcome[c] \in Codes
  BY <1>3 DEF TypeInv
<1>7. /\ code \in Codes
      /\ code \in {"not-started", "aborted-before", "denied"} => <<turn, step, c>> \notin ran
      /\ code \in {"ok", "aborted"} => <<turn, step, c>> \in ran
  <2>1. CASE code = "failed"
    BY <2>1, CodesAre
  <2>2. CASE code = Cancelled(c)
    <3>1. CASE <<turn, step, c>> \in ran
      BY <2>2, <3>1, CodesAre DEF Cancelled
    <3>2. CASE <<turn, step, c>> \notin ran
      BY <2>2, <3>2, CodesAre DEF Cancelled
    <3> QED BY <3>1, <3>2
  <2>3. CASE code = outcome[c]
    BY <1>5, <1>6, <2>3
  <2>4. code = "failed" \/ code = Cancelled(c) \/ code = outcome[c]
    BY <1>2
  <2> QED BY <2>1, <2>2, <2>3, <2>4
<1>8. PICK e : /\ e = Event("tool/result", turn, step, c, code) /\ e \in Events
               /\ e.type = "tool/result" /\ e.turn = turn /\ e.step = step /\ e.call = c
               /\ Honest(e, ran)
  BY <1>3, <1>7, ResultHonest
<1>9. log' = Append(log, e)
  BY <1>2, <1>8
<1>10. c \in Scan(log).named /\ \A d \in Scan(log).named : c <= d
  BY <1>1, <1>3, <1>4, CommittedBefore
<1>11. c \in Scan(log).started
  BY <1>1, <1>3, <1>4 DEF CallsInv
<1>12. Sound(log, durable, ran) /\ Within(e, Scan(log))
  BY <1>3, <1>8 DEF IInv, Within
<1>13. /\ Sound(Append(log, e), durable, ran)
       /\ Scan(Append(log, e)).turn = Scan(log).turn /\ Scan(Append(log, e)).step = Scan(log).step
       /\ Scan(Append(log, e)).named = Scan(log).named \ {e.call}
       /\ Scan(Append(log, e)).started = Scan(log).started
  <2>1. e.call \in Scan(log).named /\ e.call \in Scan(log).started /\ Scan(log).step # 0
        /\ \A d \in Scan(log).named : e.call <= d
    BY <1>3, <1>8, <1>10, <1>11
  <2> QED BY <1>8, <1>12, <2>1, ResultRead
<1>14. /\ Sound(log', durable', ran')
       /\ Scan(log').turn = turn /\ Scan(log').step = step
       /\ Scan(log').named = Scan(log).named \ {c} /\ Scan(log').started = Scan(log).started
  BY <1>1, <1>3, <1>8, <1>9, <1>13
<1>15. /\ OthersStay(c) /\ stage'[c] = "committed"
       /\ stage' \in [Calls -> {"unstarted", "deciding", "gate", "body", "settled", "committed"}]
  BY <1>1, <1>3, OneMoves
<1>16. \A d \in asked : d # c => stage'[d] = stage[d]
  BY <1>3, <1>15 DEF OthersStay
<1>17. Scan(log').named = {d \in asked : stage'[d] # "committed"}
  BY <1>3, <1>14, <1>15, <1>16 DEF CallsInv
<1>18. Scan(log').started = {d \in asked : stage'[d] # "unstarted"}
  BY <1>1, <1>3, <1>4, <1>14, <1>15, <1>16 DEF CallsInv
<1>19. CallInv(c)'
  BY <1>15 DEF CallInv
<1>20. BodiesGrow(c) /\ LogGrows /\ log' \in Seq(Events) /\ StaysInStep
  BY <1>1, <1>8, <1>9, LogFacts, BodiesStay, GrowsBy DEF StaysInStep
<1>21. DriverInv'
  BY <1>1, <1>4, <1>14, <1>15, <1>17, <1>18, <1>19, <1>20, CallSteps
<1>22. TypeInv'
  BY <1>1, <1>3, <1>15 DEF TypeInv
<1> QED BY <1>14, <1>21, <1>22 DEF IInv

LEMMA TwoAppends ==
  ASSUME NEW s \in Seq(Events), NEW e \in Events, NEW f \in Events
  PROVE  s \o <<e, f>> = Append(Append(s, e), f)
<1>1. /\ Append(s, e) \in Seq(Events) /\ Len(s) \in Nat /\ Len(Append(s, e)) = Len(s) + 1
      /\ Append(Append(s, e), f) \in Seq(Events)
      /\ Len(Append(Append(s, e), f)) = Len(s) + 2
  OBVIOUS
<1>2. <<e, f>> \in Seq(Events) /\ Len(<<e, f>>) = 2 /\ <<e, f>>[1] = e /\ <<e, f>>[2] = f
  OBVIOUS
<1>3. /\ s \o <<e, f>> \in Seq(Events) /\ Len(s \o <<e, f>>) = Len(s) + 2
      /\ \A i \in 1 .. Len(s) + 2 : (s \o <<e, f>>)[i] =
           IF i <= Len(s) THEN s[i] ELSE <<e, f>>[i - Len(s)]
  BY <1>1, <1>2, ConcatProperties
<1>4. ASSUME NEW i \in 1 .. Len(s) + 2
      PROVE  (s \o <<e, f>>)[i] = Append(Append(s, e), f)[i]
  <2>1. CASE i <= Len(s)
    BY <1>1, <1>3, <2>1
  <2>2. CASE i = Len(s) + 1
    BY <1>1, <1>2, <1>3, <2>2
  <2>3. CASE i = Len(s) + 2
    BY <1>1, <1>2, <1>3, <2>3
  <2> QED BY <1>1, <2>1, <2>2, <2>3
<1> QED BY <1>1, <1>3, <1>4, SeqEqual

LEMMA SkipKeeps ==
  ASSUME IInv, NEW c \in Calls, Skip(c) PROVE IInv'
<1>1. /\ mode = "up" /\ at = "calls" /\ c \in asked /\ stage[c] = "unstarted"
      /\ \A d \in 1 .. c - 1 : stage[d] = "committed"
      /\ log' = log \o <<Event("tool/call", turn, step, c, "none"),
                         Event("tool/result", turn, step, c, "aborted-before")>>
      /\ stage' = [stage EXCEPT ![c] = "committed"]
      /\ at' = at /\ aborted' = aborted /\ turn' = turn /\ step' = step /\ mode' = mode
      /\ durable' = durable /\ torn' = torn /\ asked' = asked
      /\ needs' = needs /\ outcome' = outcome /\ ran' = ran /\ crashes' = crashes
  BY DEF Skip, storage, driver
<1>2. /\ CallsInv /\ TypeInv /\ asked \subseteq Calls /\ turn # 0 /\ step # 0
      /\ Scan(log).turn = turn /\ Scan(log).step = step
      /\ turn \in 0 .. MaxTurns /\ step \in 0 .. MaxSteps
  BY <1>1, InCalls, TypeFacts
<1>3. <<turn, step, c>> \notin ran
  BY <1>1, <1>2 DEF CallsInv, CallInv
<1>4. c \in Scan(log).named /\ \A d \in Scan(log).named : c <= d
  BY <1>1, <1>2, CommittedBefore
<1>5. PICK e : /\ e = Event("tool/call", turn, step, c, "none") /\ e \in Events
               /\ e.type = "tool/call" /\ e.turn = turn /\ e.step = step /\ e.call = c
  <2>1. c \in 0 .. MaxCalls
    BY Bounds DEF Calls
  <2> QED BY <1>2, <2>1, TypesAre, NoResult
<1>6. PICK f : /\ f = Event("tool/result", turn, step, c, "aborted-before") /\ f \in Events
               /\ f.type = "tool/result" /\ f.turn = turn /\ f.step = step /\ f.call = c
               /\ Honest(f, ran)
  BY <1>2, <1>3, CodesAre, ResultHonest
<1>7. log \in Seq(Events) /\ Sound(log, durable, ran)
  BY DEF IInv, Sound
<1>8. PICK m : m = Append(log, e)
  OBVIOUS
<1>9. m \in Seq(Events)
  BY <1>5, <1>7, <1>8, AppendTo
<1>10. log' = Append(m, f)
  BY <1>1, <1>5, <1>6, <1>7, <1>8, TwoAppends
<1>11. /\ Sound(m, durable, ran)
       /\ Scan(m).turn = turn /\ Scan(m).step = step
       /\ Scan(m).named = Scan(log).named
       /\ Scan(m).started = Scan(log).started \cup {c}
  <2>1. Within(e, Scan(log)) /\ Scan(log).step # 0 /\ e.call \in Scan(log).named
    BY <1>2, <1>4, <1>5 DEF Within
  <2> QED BY <1>2, <1>5, <1>7, <1>8, <2>1, CallRead
<1>12. /\ Sound(Append(m, f), durable, ran)
       /\ Scan(Append(m, f)).turn = Scan(m).turn /\ Scan(Append(m, f)).step = Scan(m).step
       /\ Scan(Append(m, f)).named = Scan(m).named \ {f.call}
       /\ Scan(Append(m, f)).started = Scan(m).started
  <2>1. /\ Within(f, Scan(m)) /\ Scan(m).step # 0 /\ f.call \in Scan(m).named
        /\ f.call \in Scan(m).started /\ \A d \in Scan(m).named : f.call <= d
    BY <1>2, <1>4, <1>6, <1>11 DEF Within
  <2> QED BY <1>6, <1>11, <2>1, ResultRead
<1>13. /\ Sound(log', durable', ran')
       /\ Scan(log').turn = turn /\ Scan(log').step = step
       /\ Scan(log').named = Scan(log).named \ {c}
       /\ Scan(log').started = Scan(log).started \cup {c}
  BY <1>1, <1>6, <1>10, <1>11, <1>12
<1>14. /\ OthersStay(c) /\ stage'[c] = "committed"
       /\ stage' \in [Calls -> {"unstarted", "deciding", "gate", "body", "settled", "committed"}]
  BY <1>1, <1>2, OneMoves
<1>15. \A d \in asked : d # c => stage'[d] = stage[d]
  BY <1>2, <1>14 DEF OthersStay
<1>16. Scan(log').named = {d \in asked : stage'[d] # "committed"}
  BY <1>2, <1>13, <1>14, <1>15 DEF CallsInv
<1>17. Scan(log').started = {d \in asked : stage'[d] # "unstarted"}
  <2>1. Scan(log).started = {d \in asked : stage[d] # "unstarted"}
    BY <1>2 DEF CallsInv
  <2>2. c \in asked /\ stage'[c] # "unstarted"
    BY <1>1, <1>14
  <2>3. Scan(log).started \cup {c} = {d \in asked : stage'[d] # "unstarted"}
    BY <1>15, <2>1, <2>2
  <2> QED BY <1>13, <2>3
<1>18. CallInv(c)'
  BY <1>14 DEF CallInv
<1>19. LogGrows /\ log' \in Seq(Events)
  <2>1. /\ DOMAIN log = 1 .. Len(log) /\ DOMAIN m = 1 .. Len(log) + 1 /\ Len(log) \in Nat
        /\ \A i \in 1 .. Len(log) : m[i] = log[i]
    BY <1>5, <1>7, <1>8, AppendTo
  <2>2. /\ DOMAIN m = 1 .. Len(m) /\ DOMAIN log' = 1 .. Len(m) + 1 /\ Len(m) \in Nat
        /\ \A i \in 1 .. Len(m) : log'[i] = m[i]
        /\ log' \in Seq(Events)
    BY <1>6, <1>9, <1>10, AppendTo
  <2>3. Len(m) = Len(log) + 1
    BY <1>5, <1>7, <1>8
  <2> QED BY <2>1, <2>2, <2>3 DEF LogGrows
<1>20. BodiesGrow(c) /\ StaysInStep
  BY <1>1, BodiesStay DEF StaysInStep
<1>21. DriverInv'
  BY <1>1, <1>13, <1>14, <1>16, <1>17, <1>18, <1>19, <1>20, CallSteps
<1>22. TypeInv'
  BY <1>1, <1>2, <1>14 DEF TypeInv
<1> QED BY <1>13, <1>21, <1>22 DEF IInv

-----------------------------------------------------------------------------
(* Storage, crashes and loads. *)
LEMMA StoreKeeps ==
  ASSUME IInv, Store PROVE IInv'
<1>1. /\ mode = "up" /\ durable' \in durable + 1 .. Len(log) /\ log' = log
      /\ at' = at /\ aborted' = aborted /\ turn' = turn /\ step' = step /\ mode' = mode
      /\ torn' = torn /\ asked' = asked
      /\ stage' = stage /\ needs' = needs /\ outcome' = outcome /\ ran' = ran /\ crashes' = crashes
  BY DEF Store, driver, calls
<1>2. TypeInv /\ DriverInv /\ Sound(log, durable, ran)
  BY <1>1 DEF IInv
<1>3. durable' \in durable .. Len(log)
  <2>1. durable \in Nat /\ Len(log) \in Nat
    BY LogFacts
  <2> QED BY <1>1, <2>1
<1>4. Sound(log', durable', ran')
  BY <1>1, <1>2, <1>3, SoundDurable
<1>5. DriverInv'
  BY <1>1, <1>2, DriverKept
<1>6. TypeInv'
  BY <1>1, <1>2 DEF TypeInv
<1> QED BY <1>4, <1>5, <1>6 DEF IInv

LEMMA CrashKeeps ==
  ASSUME IInv, Crash PROVE IInv'
<1>1. /\ crashes' = crashes + 1 /\ mode' = "down" /\ at' = "idle" /\ aborted' = FALSE
      /\ turn' = 0 /\ step' = 0 /\ asked' = {}
      /\ stage' = [c \in Calls |-> "unstarted"] /\ outcome' = [c \in Calls |-> "none"]
      /\ needs' = [c \in Calls |-> 0] /\ durable' = durable /\ ran' = ran
  BY DEF Crash
<1>2. PICK n \in durable .. Len(log) :
        log' = SubSeq(log, 1, n) /\ torn' \in {FALSE, n < Len(log)}
  BY DEF Crash, Survivors
<1>3. Sound(log, durable, ran) /\ TypeInv
  BY DEF IInv
<1>4. Sound(log', durable', ran')
  BY <1>1, <1>2, <1>3, SoundCut
<1>5. torn' \in BOOLEAN
  <2>1. (n < Len(log)) \in BOOLEAN
    OBVIOUS
  <2>2. torn' \in {FALSE, n < Len(log)}
    BY <1>2
  <2> QED BY <2>1, <2>2, Zenon
<1>6. TypeInv'
  <2>1. /\ stage' \in [Calls -> {"unstarted", "deciding", "gate", "body", "settled", "committed"}]
        /\ needs' \in [Calls -> Nat] /\ outcome' \in [Calls -> Codes]
    BY <1>1, CodesAre
  <2>2. crashes' \in Nat
    BY <1>1, <1>3 DEF TypeInv
  <2>3. ran' \subseteq (1 .. MaxTurns) \X (1 .. MaxSteps) \X Calls
    BY <1>1, <1>3 DEF TypeInv
  <2> QED BY <1>1, <1>5, <2>1, <2>2, <2>3, ZeroFits DEF TypeInv
<1> QED BY <1>1, <1>4, <1>6 DEF IInv

(* The numbering a loaded session goes on with. *)
LEMMA LastTurnIs ==
  ASSUME IInv
  PROVE  LastTurn = TurnsBegun(Traced(log)) /\ LastTurn \in 0 .. MaxTurns
<1>1. /\ log \in Seq(Events) /\ TurnsCounted(log, Traced(log))
      /\ DOMAIN log = 1 .. Len(log) /\ Len(log) \in Nat
  BY LogFacts DEF Told
<1>2. LastTurn = IF Starts(log) = {} THEN 0 ELSE log[Max(Starts(log))].turn
  BY DEF LastTurn, Starts
<1>3. CASE Starts(log) = {}
  BY <1>1, <1>2, <1>3, ZeroFits DEF TurnsCounted
<1>4. CASE Starts(log) # {}
  <2>1. PICK m \in Starts(log) :
          log[m].turn = TurnsBegun(Traced(log)) /\ \A i \in Starts(log) : i <= m
    BY <1>1, <1>4 DEF TurnsCounted
  <2>2. Starts(log) \subseteq Nat
    BY <1>1 DEF Starts
  <2>3. Max(Starts(log)) = m
    <3>1. \A x \in Starts(log) : (\A y \in Starts(log) : x >= y) => x = m
      BY <2>1, <2>2
    <3>2. \A y \in Starts(log) : m >= y
      BY <2>1, <2>2
    <3>3. Max(Starts(log)) \in Starts(log) /\ \A y \in Starts(log) : Max(Starts(log)) >= y
      BY <2>1, <3>2 DEF Max
    <3> QED BY <3>1, <3>3
  <2>4. log[m] \in Events
    BY <1>1, <2>1 DEF Starts
  <2>5. log[m].turn \in 0 .. MaxTurns
    BY <2>4, EventNumbers
  <2> QED BY <1>2, <1>4, <2>1, <2>3, <2>5
<1> QED BY <1>3, <1>4

LEMMA LoadKeeps ==
  ASSUME IInv, Load PROVE IInv'
<1>1. /\ mode = "down" /\ torn' = FALSE
      /\ at' = at /\ aborted' = aborted /\ step' = step /\ asked' = asked
      /\ stage' = stage /\ needs' = needs /\ outcome' = outcome /\ ran' = ran /\ crashes' = crashes
  BY DEF Load, calls
<1>2. TypeInv /\ Sound(log, durable, ran) /\ at = "idle"
  BY <1>1 DEF IInv, TypeInv
<1>3. durable \in Nat /\ Len(log) \in Nat /\ durable <= Len(log)
  BY LogFacts
<1>4. CASE /\ Closers(log) = <<>> /\ mode' = "up" /\ durable' = Len(log)
           /\ turn' = LastTurn /\ log' = log
  <2>1. Sound(log', durable', ran')
    <3>1. Len(log) \in durable .. Len(log)
      BY <1>3
    <3> QED BY <1>1, <1>2, <1>4, <3>1, SoundDurable
  <2>2. Scan(log).turn = 0
    BY <1>2, <1>4, ClosersClose DEF Sound
  <2>3. /\ Tracks(Scan(log), Traced(log)) /\ Traced(log) \in Traces
    BY LogFacts
  <2>4. turn' = Traced(log).nextTurn - 1
    <3>1. Traced(log).turn = 0
      BY <2>2, <2>3 DEF Tracks
    <3> QED BY <1>4, <3>1, LastTurnIs DEF TurnsBegun
  <2>5. Scan(log') = Scan(log) /\ Traced(log') = Traced(log)
    BY <1>4, SameLog
  <2>6. DriverInv'
    BY <1>1, <1>2, <2>2, <2>4, <2>5 DEF DriverInv
  <2>7. turn' \in 0 .. MaxTurns
    BY <1>4, LastTurnIs
  <2>8. TypeInv'
    BY <1>1, <1>2, <1>4, <2>7 DEF TypeInv
  <2> QED BY <2>1, <2>6, <2>8 DEF IInv
<1>5. CASE /\ mode' = "repairing" /\ durable' \in {durable, Len(log)}
           /\ log' = log \o Closers(log) /\ turn' = turn
  <2>1. durable' \in durable .. Len(log)
    BY <1>3, <1>5
  <2>2. Sound(log, durable', ran)
    BY <1>2, <2>1, SoundDurable
  <2>3. Sound(log \o Closers(log), durable', ran)
    BY <2>2, SoundClosed
  <2>4. Sound(log', durable', ran')
    BY <1>1, <1>5, <2>3
  <2>5. TypeInv'
    BY <1>1, <1>2, <1>5 DEF TypeInv
  <2> QED BY <1>5, <2>4, <2>5 DEF IInv
<1>6. \/ /\ Closers(log) = <<>> /\ mode' = "up" /\ durable' = Len(log)
         /\ turn' = LastTurn /\ log' = log
      \/ /\ mode' = "repairing" /\ durable' \in {durable, Len(log)}
         /\ log' = log \o Closers(log) /\ turn' = turn
  BY DEF Load
<1> QED BY <1>4, <1>5, <1>6

LEMMA RepairedKeeps ==
  ASSUME IInv, Repaired PROVE IInv'
<1>1. /\ mode = "repairing" /\ durable' = Len(log) /\ mode' = "down" /\ log' = log /\ torn' = torn
      /\ at' = at /\ aborted' = aborted /\ turn' = turn /\ step' = step /\ asked' = asked
      /\ stage' = stage /\ needs' = needs /\ outcome' = outcome /\ ran' = ran /\ crashes' = crashes
  BY DEF Repaired, driver, calls
<1>2. TypeInv /\ Sound(log, durable, ran)
  BY DEF IInv
<1>3. Len(log) \in durable .. Len(log)
  BY LogFacts
<1>4. Sound(log', durable', ran')
  BY <1>1, <1>2, <1>3, SoundDurable
<1>5. TypeInv'
  BY <1>1, <1>2 DEF TypeInv
<1> QED BY <1>1, <1>4, <1>5 DEF IInv

LEMMA StutterKeeps ==
  ASSUME IInv, UNCHANGED vars PROVE IInv'
<1>1. /\ log' = log /\ durable' = durable /\ torn' = torn /\ mode' = mode
      /\ at' = at /\ aborted' = aborted /\ turn' = turn /\ step' = step /\ asked' = asked
      /\ stage' = stage /\ needs' = needs /\ outcome' = outcome /\ ran' = ran /\ crashes' = crashes
  BY DEF vars, storage, driver, calls
<1>2. TypeInv /\ Sound(log, durable, ran)
  BY DEF IInv
<1>3. mode' = "up" => DriverInv'
  BY <1>1, DriverKept DEF IInv
<1>4. Sound(log', durable', ran')
  BY <1>1, <1>2
<1>5. TypeInv'
  BY <1>1, <1>2 DEF TypeInv
<1> QED BY <1>3, <1>4, <1>5 DEF IInv

-----------------------------------------------------------------------------
(* Every step, whoever takes it. *)
LEMMA NextKeeps ==
  ASSUME IInv, [Next]_vars PROVE IInv'
<1>1. CASE Drive
  BY <1>1, StartTurnKeeps, OpenStepKeeps, GiveUpKeeps, EndStepKeeps, EndTurnKeeps, AnsweredKeeps
     DEF Drive
<1>2. ASSUME NEW c \in Calls, Execute(c) PROVE IInv'
  BY <1>2, StartKeeps, DecideKeeps, EnterBodyKeeps, DispatchFailsKeeps, LeaveKeeps, CommitKeeps,
     SkipKeeps DEF Execute
<1>3. CASE Abort \/ Store \/ Crash \/ Load \/ Repaired
  BY <1>3, AbortKeeps, StoreKeeps, CrashKeeps, LoadKeeps, RepairedKeeps
<1>4. CASE UNCHANGED vars
  BY <1>4, StutterKeeps
<1> QED BY <1>1, <1>2, <1>3, <1>4 DEF Next

(* The invariant behind the claims below holds in every state: the log is  *)
(* whole wherever it may be cut, and the driver and its calls stand where  *)
(* the log says they do.                                                   *)
THEOREM Inductive == Spec => []IInv
<1>1. IInv /\ [Next]_vars => IInv'
  BY NextKeeps
<1> QED BY <1>1, InitKeeps, PTL DEF Spec

-----------------------------------------------------------------------------
(* What every log the program reaches is. *)
LEMMA LegalIs == IInv => LegalLog
<1> SUFFICES ASSUME IInv PROVE LegalLog
  OBVIOUS
<1>1. Tracks(Scan(log), Traced(log))
  BY LogFacts
<1>2. Traced(log).legal
  BY <1>1 DEF Tracks
<1>3. mode = "up" /\ at = "idle" => Scan(log).turn = 0
  BY DEF IInv, DriverInv
<1> QED BY <1>2, <1>3 DEF LegalLog

LEMMA TypeIs == IInv => TypeOK
<1> SUFFICES ASSUME IInv PROVE TypeOK
  OBVIOUS
<1>1. TypeInv /\ log \in Seq(Events) /\ durable \in 0 .. Len(log) /\ DOMAIN log = 1 .. Len(log)
  BY LogFacts DEF IInv
<1>2. \A i \in DOMAIN log : log[i].turn \in 0 .. MaxTurns /\ log[i].step \in 0 .. MaxSteps
  <2> SUFFICES ASSUME NEW i \in DOMAIN log
               PROVE  log[i].turn \in 0 .. MaxTurns /\ log[i].step \in 0 .. MaxSteps
    OBVIOUS
  <2>1. log[i] \in Events
    BY <1>1
  <2> QED BY <2>1, EventNumbers
<1> QED BY <1>1, <1>2 DEF TypeOK, TypeInv

LEMMA OnceIs == IInv => AnsweredOnce
<1> SUFFICES ASSUME IInv PROVE AnsweredOnce
  OBVIOUS
<1>1. /\ Tracks(Scan(log), Traced(log)) /\ ResultsDiffer(log) /\ CallsAnswered(log, Scan(log))
  BY LogFacts DEF Told
<1>2. \A i \in DOMAIN log : CallOf(i) = CallNamed(log[i])
  BY DEF CallOf, CallNamed
<1>3. \A i, j \in Results : CallOf(i) = CallOf(j) => i = j
  BY <1>1, <1>2 DEF Results, ResultsDiffer
<1>4. ASSUME mode = "up", at = "idle", NEW i \in DOMAIN log, log[i].type = "tool/call"
      PROVE  \E j \in Results : CallOf(j) = CallOf(i)
  <2>1. Scan(log).turn = 0
    BY <1>4 DEF IInv, DriverInv
  <2>2. Scan(log).named = {}
    BY <1>1, <2>1 DEF Tracks
  <2>3. PICK j \in DOMAIN log :
          log[j].type = "tool/result" /\ CallNamed(log[j]) = CallNamed(log[i])
    BY <1>1, <1>4, <2>2 DEF CallsAnswered
  <2>4. j \in Results
    BY <2>3 DEF Results
  <2> QED BY <1>2, <2>3, <2>4
<1> QED BY <1>3, <1>4 DEF AnsweredOnce

LEMMA HonestHolds == IInv => HonestAnswers
<1>1. IInv => HonestOver(log, ran)
  BY DEF IInv, Sound
<1> QED BY <1>1, HonestIs

LEMMA RecordedHolds == IInv => RanIsRecorded
<1>1. IInv => RecordedIn(log, durable, ran)
  BY DEF IInv, Sound
<1> QED BY <1>1, RecordedIs

(* The driver's turns and steps stay within the bounds, and the storage    *)
(* never counts more as stored than the log has.                           *)
THEOREM TypeCorrect == Spec => []TypeOK
  BY Inductive, TypeIs, PTL

(* A log the crash cut anywhere and repair completed, or was cut in turn   *)
(* while completing, is one validateEvent() accepts; a session whose       *)
(* driver is idle has no open turn.                                        *)
THEOREM LogStaysLegal == Spec => []LegalLog
  BY Inductive, LegalIs, PTL

(* No result says of a body what is not so: "not started", "denied" and    *)
(* "aborted before dispatch" are said only of calls that never ran in any  *)
(* process, "ok" and "aborted" only of calls that did.                     *)
THEOREM AnswersAreHonest == Spec => []HonestAnswers
  BY Inductive, HonestHolds, PTL

(* The stored log tells every body that was ever entered. *)
THEOREM BodiesAreRecorded == Spec => []RanIsRecorded
  BY Inductive, RecordedHolds, PTL

(* No call is answered twice, whoever answers: its tool, the scheduler or  *)
(* repair; and when a session is idle each recorded call has its answer.   *)
THEOREM CallsAreAnsweredOnce == Spec => []AnsweredOnce
  BY Inductive, OnceIs, PTL

=============================================================================
