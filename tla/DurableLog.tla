----------------------------- MODULE DurableLog -----------------------------
(***************************************************************************)
(* What a session's producer may rely on of its persistence, whatever the  *)
(* batching: the stored log is always a prefix of the accepted events, it  *)
(* only grows, and a flush that resolves has stored every event accepted   *)
(* before the flush was asked for; a flush may be rejected at any time.    *)
(* WriteBehind is shown to implement this.                                 *)
(***************************************************************************)
EXTENDS Naturals

CONSTANT Flushers      \* callers of flush(), one request at a time each

VARIABLES
  accepted,            \* events admitted
  stored,              \* events durably stored
  flusher,             \* "idle", "asked", "resolved" or "rejected"
  asked                \* accepted when the caller last asked

vars == <<accepted, stored, flusher, asked>>

Init ==
  /\ accepted \in Nat /\ stored = 0
  /\ flusher = [f \in Flushers |-> "idle"]
  /\ asked = [f \in Flushers |-> 0]

Accept ==
  /\ accepted' = accepted + 1
  /\ UNCHANGED <<stored, flusher, asked>>

Store ==
  /\ stored' \in stored .. accepted
  /\ UNCHANGED <<accepted, flusher, asked>>

Ask(f) ==
  /\ flusher[f] # "asked"
  /\ flusher' = [flusher EXCEPT ![f] = "asked"]
  /\ asked' = [asked EXCEPT ![f] = accepted]
  /\ UNCHANGED <<accepted, stored>>

(* Some of the callers are answered, together or one by one. *)
Answer ==
  /\ flusher' \in [Flushers -> {"idle", "asked", "resolved", "rejected"}]
  /\ \A f \in Flushers :
       \/ flusher'[f] = flusher[f]
       \/ /\ flusher[f] = "asked"
          /\ \/ flusher'[f] = "rejected"
             \/ flusher'[f] = "resolved" /\ asked[f] <= stored
  /\ UNCHANGED <<accepted, stored, asked>>

Next == Accept \/ Store \/ Answer \/ \E f \in Flushers : Ask(f)

Spec == Init /\ [][Next]_vars
=============================================================================
