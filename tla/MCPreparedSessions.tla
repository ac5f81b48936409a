------------------------- MODULE MCPreparedSessions -------------------------
EXTENDS PreparedSessions, TLC

(* The callers are interchangeable; the Sessions, which are counted, not. *)
Interchangeable == Permutations(Clients)

(* Bounds of the larger instance: one of the callers inspects, and a log   *)
(* that a queued append or a repair has made longer than MaxStored is      *)
(* checked and not continued.                                              *)
Bounded ==
  /\ Len(stored) <= MaxStored
  /\ Cardinality({c \in Clients : want[c] = "inspect"}) <= 1

(* What is left of a Session nobody refers to is read by no action.  The   *)
(* log of one is read while it is prepared, is to become the owner, or is  *)
(* it; of an owner others have intruded on, its length, and of one that is *)
(* stuck not even that.  entered is read by HasWork only, of the owner,    *)
(* until the cursor has passed it.                                         *)
Prepared(s) ==
  \/ s = entry \/ Queued({"suffix"}, s)
  \/ \E c \in Clients : on[c] = s /\ pc[c] # "waiting"
Log(s) ==
  CASE Prepared(s) -> <<events[s], phase[s], base[s], balanced[s]>>
    [] Queued({"created"}, s) \/ (state.owner = s /\ ~state.intruded) -> <<events[s]>>
    [] state.owner = s /\ state.intruded /\ status[s] # "stuck" -> <<Len(events[s])>>
    [] OTHER -> <<>>
Ahead(s) ==
  IF (state.owner = s /\ state.cursor < entered[s]) \/ Queued({"created", "suffix"}, s)
    THEN entered[s] ELSE 0

Remainder ==
  LET free == Free IN
  << stored, open, entry, state, retirement, chain, client,
     [s \in Sessions \ free |->
        << IF status[s] = "unbuilt" THEN "cold" ELSE status[s],
           IF status[s] \in {"live", "retiring"} THEN init[s] ELSE "none",
           Log(s), Ahead(s) >>] >>
=============================================================================
