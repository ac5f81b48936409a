---------------------------- MODULE WriteBehind ----------------------------
(***************************************************************************)
(* How one live session's events reach storage: SessionWriteBehind of      *)
(* packages/session/session-persistence/src/write-behind.js, with the      *)
(* coordinator's flush() and write callback around it (coordinator.js).    *)
(*                                                                         *)
(* Events are numbered as they are accepted.  Each promise continuation is *)
(* an action of its own: a microtask of anyone else may run in between,    *)
(* while a timer only fires when no continuation is due (Quiet).           *)
(* The backend is external: appendBatch() stores a whole batch or throws.  *)
(***************************************************************************)
EXTENDS Naturals, Sequences

CONSTANTS
  Flushers,            \* callers of flush(), one request at a time each
  MaxEvents            \* bound: events the session records

ASSUME WriteAssumption == MaxEvents \in Nat

VARIABLES
  accepted,            \* events admitted: 1 .. accepted
  stored,              \* the session's stored log
  pending,             \* this.pending
  timer,               \* a deadline is armed
  deadlineExpired,
  automaticPaused,
  active,              \* the active write's promise: "none", "running",
                       \* "landed" or "failed" (settled, finally() still due)
  batch,               \* what the active write writes
  background,          \* it was started by a deadline
  continueDue,         \* continueAutomatic() is queued
  barrier,             \* drainBarrier(): "none", "overlap" or "draining" at
                       \* its awaits, "overlapped", "written" or "refused" after
  init,                \* live.init: "pending", "seeding", "ready" or "failed"
  flusher,             \* per caller: "idle", "init", "waiting", "resolved", "rejected"
  asked                \* per caller: accepted when it asked

window  == <<timer, deadlineExpired, automaticPaused>>
write   == <<active, batch, background>>
callers == <<flusher, asked>>
vars    == <<accepted, stored, pending, window, write, continueDue, barrier, init, callers>>

(* initFor(): a session is met when it is announced, with nothing to store *)
(* yet, or by its first event, which is then both the seed that onCreated  *)
(* stores and the first event enqueued.                                    *)
Init ==
  /\ \/ accepted = 0 /\ pending = <<>> /\ timer = FALSE /\ init \in {"pending", "ready"}
     \/ accepted = 1 /\ pending = <<1>> /\ timer = TRUE /\ init = "seeding"
  /\ stored = <<>>
  /\ deadlineExpired = FALSE /\ automaticPaused = FALSE
  /\ active = "none" /\ batch = <<>> /\ background = FALSE
  /\ continueDue = FALSE
  /\ barrier = "none"
  /\ flusher = [f \in Flushers |-> "idle"] /\ asked = [f \in Flushers |-> 0]

-----------------------------------------------------------------------------
(* enqueue(): the first pending event opens a window, and so does the      *)
(* first event after a failed write; a barrier takes care of its own.      *)
MutOpensWindowWhenEmpty == barrier = "none" /\ pending = <<>>
OpensWindow == barrier = "none" /\ (automaticPaused \/ pending = <<>>)

Enqueue ==
  /\ accepted < MaxEvents
  /\ accepted' = accepted + 1
  /\ pending' = Append(pending, accepted')
  /\ timer' = (timer \/ OpensWindow)
  /\ deadlineExpired' = (deadlineExpired /\ ~(barrier = "none" /\ automaticPaused))
  /\ automaticPaused' = (automaticPaused /\ barrier # "none")
  /\ UNCHANGED <<stored, write, continueDue, barrier, init, callers>>

(* startWrite(): everything pending becomes one batch. *)
StartWrite(byDeadline) ==
  /\ batch' = pending
  /\ pending' = <<>>
  /\ active' = "running"
  /\ background' = byDeadline
  /\ timer' = FALSE
  /\ deadlineExpired' = FALSE

Quiet ==
  /\ ~continueDue
  /\ active \in {"none", "running"}
  /\ barrier \in {"none", "overlap", "draining"}

MutWriteAtDeadline == TRUE
WriteAtDeadline == active = "none"

OnDeadline ==
  /\ timer /\ Quiet
  /\ \/ /\ WriteAtDeadline
        /\ StartWrite(TRUE)
     \/ /\ ~WriteAtDeadline
        /\ timer' = FALSE
        /\ deadlineExpired' = TRUE
        /\ UNCHANGED <<pending, write>>
  /\ UNCHANGED <<accepted, stored, automaticPaused, continueDue, barrier, init, callers>>

(* The write callback: appendLiveBatch() keeps what is not stored yet (the *)
(* tail of an ascending batch) and appendCore() refuses a gap.             *)
FirstNew ==
  CHOOSE i \in 1 .. Len(batch) + 1 :
    /\ \A j \in 1 .. i - 1 : batch[j] <= Len(stored)
    /\ i <= Len(batch) => batch[i] > Len(stored)

Fresh == SubSeq(batch, FirstNew, Len(batch))

Contiguous == \A i \in DOMAIN Fresh : Fresh[i] = Len(stored) + i

Land ==
  /\ active = "running"
  /\ init = "ready"
  /\ Contiguous
  /\ stored' = stored \o Fresh
  /\ active' = "landed"
  /\ UNCHANGED <<accepted, pending, window, batch, background, continueDue>>
  /\ UNCHANGED <<barrier, init, callers>>

(* startWrite()'s catch: the batch goes back in front, retries pause. *)
MutRetained == pending \o batch
Retained == batch \o pending

Fail ==
  /\ active = "running"
  /\ init \in {"ready", "failed"}
  /\ pending' = Retained
  /\ timer' = FALSE /\ deadlineExpired' = FALSE /\ automaticPaused' = TRUE
  /\ active' = "failed"
  /\ UNCHANGED <<accepted, stored, batch, background, continueDue, barrier, init, callers>>

(* startWrite()'s finally, and whoever waits on the promise is queued. *)
Finally ==
  /\ active \in {"landed", "failed"}
  /\ active' = "none" /\ batch' = <<>>
  /\ continueDue' = (continueDue \/ (background /\ active = "landed"))
  /\ barrier' = CASE barrier = "overlap" -> "overlapped"
                  [] barrier = "draining" /\ active = "landed" -> "written"
                  [] barrier = "draining" /\ active = "failed" -> "refused"
                  [] OTHER -> barrier
  /\ UNCHANGED <<accepted, stored, pending, window, background, init, callers>>

(* continueAutomatic(): the window of what was admitted during the write   *)
(* has passed already.                                                     *)
MutOverdue == barrier = "none" /\ pending # <<>> /\ timer
Overdue == barrier = "none" /\ pending # <<>> /\ deadlineExpired

ContinueAutomatic ==
  /\ continueDue
  /\ continueDue' = FALSE
  /\ \/ /\ Overdue
        /\ StartWrite(TRUE)
     \/ /\ ~Overdue
        /\ UNCHANGED <<pending, timer, deadlineExpired, write>>
  /\ UNCHANGED <<accepted, stored, automaticPaused, barrier, init, callers>>

-----------------------------------------------------------------------------
(* drainBarrier()'s promise settles for everyone who waits on it. *)
MutSettleForgets(outcome) ==
  flusher' = [f \in {g \in Flushers : flusher[g] = "waiting"} |-> outcome]
MutSettleResolves(outcome) ==
  flusher' = [f \in Flushers |-> IF flusher[f] = "waiting" /\ outcome = "resolved"
                                 THEN outcome ELSE flusher[f]]
Settle(outcome) ==
  flusher' = [f \in Flushers |-> IF flusher[f] = "waiting" THEN outcome ELSE flusher[f]]

(* drainBarrier()'s loop: one more write, or the barrier is reached. *)
MutDrained == TRUE
Drained == pending = <<>>

(* Coordinator flush(f): the automatic wait ends, live.init is awaited.    *)
FlushAsked(f) ==
  /\ flusher[f] \notin {"init", "waiting"}
  /\ flusher' = [flusher EXCEPT ![f] = "init"]
  /\ asked' = [asked EXCEPT ![f] = accepted]
  /\ timer' = FALSE /\ deadlineExpired' = FALSE
  /\ UNCHANGED <<accepted, stored, pending, automaticPaused, write, continueDue>>
  /\ UNCHANGED <<barrier, init>>

(* writes.flush(): joins the barrier, or raises one behind the active      *)
(* write, with a write of its own, or with nothing to do at all.           *)
Flush(f) ==
  /\ flusher[f] = "init" /\ init = "ready"
  /\ \/ /\ barrier # "none"
        /\ flusher' = [flusher EXCEPT ![f] = "waiting"]
        /\ UNCHANGED <<pending, window, write, barrier>>
     \/ /\ barrier = "none" /\ active # "none"
        /\ flusher' = [flusher EXCEPT ![f] = "waiting"]
        /\ timer' = FALSE /\ deadlineExpired' = FALSE /\ automaticPaused' = FALSE
        /\ barrier' = "overlap"
        /\ UNCHANGED <<pending, write>>
     \/ /\ barrier = "none" /\ active = "none" /\ ~Drained
        /\ flusher' = [flusher EXCEPT ![f] = "waiting"]
        /\ StartWrite(FALSE) /\ automaticPaused' = FALSE
        /\ barrier' = "draining"
     \/ /\ barrier = "none" /\ active = "none" /\ Drained
        /\ flusher' = [flusher EXCEPT ![f] = "resolved"]
        /\ timer' = FALSE /\ deadlineExpired' = FALSE /\ automaticPaused' = FALSE
        /\ UNCHANGED <<pending, write, barrier>>
  /\ UNCHANGED <<accepted, stored, continueDue, init, asked>>

FlushRefused(f) ==
  /\ flusher[f] = "init" /\ init = "failed"
  /\ flusher' = [flusher EXCEPT ![f] = "rejected"]
  /\ timer' = FALSE /\ deadlineExpired' = FALSE
  /\ UNCHANGED <<accepted, stored, pending, automaticPaused, write, continueDue>>
  /\ UNCHANGED <<barrier, init, asked>>

(* drainBarrier() resumed: after the overlapping write, a write of its own *)
(* that landed, or one that failed.                                        *)
BarrierResumed ==
  /\ barrier \in {"overlapped", "written"}
  /\ automaticPaused' = (automaticPaused /\ barrier = "written")
  /\ \/ /\ ~Drained
        /\ StartWrite(FALSE)
        /\ barrier' = "draining"
        /\ UNCHANGED flusher
     \/ /\ Drained
        /\ barrier' = "none"
        /\ Settle("resolved")
        /\ UNCHANGED <<pending, timer, deadlineExpired, write>>
  /\ UNCHANGED <<accepted, stored, continueDue, init, asked>>

BarrierRefused ==
  /\ barrier = "refused"
  /\ barrier' = "none"
  /\ Settle("rejected")
  /\ UNCHANGED <<accepted, stored, pending, window, write, continueDue, init, asked>>

(* The coordinator's own start of the session's log (onCreated). *)
InitSettles ==
  /\ \/ /\ init \in {"pending", "seeding"}
        /\ init' = "failed"
        /\ UNCHANGED stored
     \/ /\ init = "pending"
        /\ init' = "ready"
        /\ UNCHANGED stored
     \/ /\ init = "seeding"
        /\ init' = "ready"
        /\ stored' = <<1>>
  /\ UNCHANGED <<accepted, pending, window, write, continueDue, barrier, callers>>

-----------------------------------------------------------------------------
Continuation == Finally \/ ContinueAutomatic \/ BarrierResumed \/ BarrierRefused

Next ==
  \/ Enqueue \/ OnDeadline \/ Land \/ Fail \/ Continuation \/ InitSettles
  \/ \E f \in Flushers : FlushAsked(f) \/ Flush(f) \/ FlushRefused(f)

Spec == Init /\ [][Next]_vars

(* Timers fire, continuations run, a write and the session's start settle  *)
(* one way or the other; nobody has to flush and no write has to fail.     *)
FairSpec ==
  /\ Spec
  /\ WF_vars(OnDeadline) /\ WF_vars(Land \/ Fail) /\ WF_vars(InitSettles)
  /\ WF_vars(Continuation)
  /\ \A f \in Flushers : WF_vars(Flush(f) \/ FlushRefused(f))

-----------------------------------------------------------------------------
TypeOK ==
  /\ accepted \in Nat
  /\ stored \in Seq(Nat) /\ pending \in Seq(Nat) /\ batch \in Seq(Nat)
  /\ timer \in BOOLEAN /\ deadlineExpired \in BOOLEAN /\ automaticPaused \in BOOLEAN
  /\ active \in {"none", "running", "landed", "failed"}
  /\ background \in BOOLEAN /\ continueDue \in BOOLEAN
  /\ barrier \in {"none", "overlap", "draining", "overlapped", "written", "refused"}
  /\ init \in {"pending", "seeding", "ready", "failed"}
  /\ flusher \in [Flushers -> {"idle", "init", "waiting", "resolved", "rejected"}]
  /\ asked \in [Flushers -> Nat]

(* No event is lost, duplicated or reordered between the log in memory and *)
(* the stored one, whatever fails and whoever flushes: the stored log is   *)
(* the first events in order, what is being written and what is pending    *)
(* follow each other up to the last one accepted, and the two meet (the    *)
(* splices and concat of write-behind.js, the seq checks of coordinator.js).*)
Unsettled == (IF active = "running" THEN batch ELSE <<>>) \o pending

EverythingInOrder ==
  /\ \A i \in DOMAIN stored : stored[i] = i
  /\ \A i \in DOMAIN Unsettled : Unsettled[i] = accepted - Len(Unsettled) + i
  /\ Len(stored) <= accepted /\ accepted <= Len(stored) + Len(Unsettled)

(* "At most one write for a Session is active" (note                       *)
(* 2026-08-08-bounded-session-persistence-write-batching): no caller of    *)
(* startWrite() looks at the active write, so each must know there is none. *)
OneWriteAtATime ==
  [][active # "none" /\ active' # "none" => batch' = batch]_vars

(* Pending events are never forgotten: unless retries are paused after a   *)
(* failure, or the session could not be started at all, a window, a write, *)
(* a barrier or a flush under way is going to pick them up.                *)
Awaited ==
  \/ timer
  \/ deadlineExpired /\ (continueDue \/ (background /\ active \in {"running", "landed"}))
  \/ barrier # "none"
  \/ \E f \in Flushers : flusher[f] = "init"

NothingStranded ==
  pending # <<>> => automaticPaused \/ init = "failed" \/ Awaited

(* A flush that resolves has stored every event accepted before it was     *)
(* asked for, also when it joined another caller's barrier.                *)
Log == INSTANCE DurableLog WITH
  stored <- Len(stored),
  flusher <- [f \in Flushers |-> IF flusher[f] \in {"init", "waiting"}
                                 THEN "asked" ELSE flusher[f]]

LogSpec == Log!Spec

(* Every event is stored in the end, or retries are paused with a failed   *)
(* batch retained.                                                         *)
EventuallyStored ==
  pending # <<>> ~> (pending = <<>> /\ active = "none") \/ automaticPaused \/ init = "failed"

(* A flush settles. *)
FlushSettles ==
  \A f \in Flushers : flusher[f] \in {"init", "waiting"} ~> flusher[f] \in {"resolved", "rejected"}
=============================================================================
