-------------------------- MODULE PreparedSessions --------------------------
(***************************************************************************)
(* One stored session and everybody who wants it: callers of prepare(),    *)
(* load(), inspect() and append(), Sessions created under its id, and      *)
(* Sessions that retire.  PersistenceCoordinator of                        *)
(* packages/session/session-persistence/src/coordinator.js, which runs the *)
(* operations of an id one after the other, and the cache of prepared      *)
(* Sessions of preparations.js, which no such order protects.              *)
(*                                                                         *)
(* A Session object is a number; prepareCore() builds one per cache entry, *)
(* so that an entry is named by its Session.  An event is the number of    *)
(* the Session that appended it, 0 for everybody else.  Each change of the *)
(* stored log lengthens it, so that its length is its revision.            *)
(***************************************************************************)
EXTENDS Naturals, Sequences, FiniteSets, SequencesExt

CONSTANTS
  Clients,             \* callers of prepare(), load() and inspect()
  Sessions,            \* the Session objects alive at a time
  Spare,               \* bound: Sessions that only a load may use
  OpenAppends,         \* callers of append() may leave a turn open
  MaxStored            \* bound: events of a log

ASSUME PreparedAssumption ==
  /\ Sessions \subseteq Nat \ {0} /\ 0 \notin Clients /\ Spare \in Nat
  /\ OpenAppends \in BOOLEAN /\ MaxStored \in Nat

None == 0

VARIABLES
  stored,              \* the stored log
  open,                \* it ends inside a turn: repair is due
  entry,               \* entries.get(id): the Session of the entry, or None
  phase,               \* per Session, of its entry: "none", "loading",
                       \* "failed", "ready", "committing" or "reserved"
  status,              \* per Session: "unbuilt", "cold", "live", "retiring"
                       \* or "stuck" (it could not be flushed)
  events,              \* per Session: its log
  base,                \* per Session built from storage: the revision read,
  balanced,            \* ... and the length of its log then
  entered,             \* per live Session: the length of its log when it entered
  init,                \* live.init: "none", "pending", "ready" or "failed"
  state,               \* states.get(id): [known, cursor, materialized, owner], and
                       \* for the properties intruded: somebody who is not the
                       \* owner has appended since the owner took the log
  retirement,          \* retirements.get(id): the Session of it, or None
  chain,               \* the serialized operations, the first one running
  pc,                  \* per client: "idle", "waiting", "loading",
                       \* "committing", "holding" or "checking"
  want,                \* per client: "reserve" (prepare() or load()) or "inspect"
  on                   \* per client: the retirement or the entry it awaits,
                       \* or the Session it holds

store   == <<stored, open>>
cache   == <<entry, phase>>
session == <<status, events, base, balanced, entered, init, retirement>>
client  == <<pc, want, on>>
vars    == <<store, cache, session, state, chain, client>>

Unknown ==
  [known |-> FALSE, cursor |-> 0, materialized |-> FALSE, owner |-> None, intruded |-> FALSE]

(* An operation takes what it writes with it: n is the length of the log   *)
(* when it was enqueued.                                                   *)
Op(kind, s, c, n) == [kind |-> kind, s |-> s, c |-> c, n |-> n]

Init ==
  /\ \/ stored = <<>> /\ open = FALSE
     \/ stored = <<0>> /\ open \in BOOLEAN
  /\ entry = None /\ phase = [s \in Sessions |-> "none"]
  /\ status = [s \in Sessions |-> "unbuilt"]
  /\ events = [s \in Sessions |-> <<>>]
  /\ base = [s \in Sessions |-> 0] /\ balanced = [s \in Sessions |-> 0]
  /\ entered = [s \in Sessions |-> 0]
  /\ init = [s \in Sessions |-> "none"] /\ retirement = None
  /\ state = Unknown /\ chain = <<>>
  /\ pc = [c \in Clients |-> "idle"] /\ want = [c \in Clients |-> "reserve"]
  /\ on = [c \in Clients |-> None]

Live == {s \in Sessions : status[s] = "live"}

(* A Session object nobody refers to any more is as good as a new one. *)
Free ==
  {s \in Sessions : /\ status[s] \in {"unbuilt", "cold", "stuck"}
                    /\ s \notin {entry, state.owner, retirement}
                    /\ \A c \in Clients : on[c] # s
                    /\ \A i \in DOMAIN chain : chain[i].s # s}
Fresh(s) == s \in Free /\ \A t \in Free : s <= t

-----------------------------------------------------------------------------
(* A caller, and the loop that prepare(), load() and inspect() share: wait *)
(* for a retirement, look for a live Session, find or make the entry.      *)
Turn(c, next, s) ==
  /\ pc' = [pc EXCEPT ![c] = next]
  /\ on' = [on EXCEPT ![c] = s]
  /\ want' = IF next = "idle" THEN [want EXCEPT ![c] = "reserve"] ELSE want

Wait(c) == Turn(c, "waiting", retirement)

Ask(c, w) ==
  /\ pc[c] = "idle"
  /\ pc' = [pc EXCEPT ![c] = "waiting"]
  /\ on' = [on EXCEPT ![c] = retirement]
  /\ want' = [want EXCEPT ![c] = w]
  /\ UNCHANGED <<store, cache, session, state, chain>>

Retired(c) == on[c] # None => status[on[c]] # "retiring"

Look(c) ==
  /\ pc[c] = "waiting" /\ Retired(c)
  /\ \/ /\ on[c] # None /\ status[on[c]] = "stuck"
        /\ Turn(c, "idle", None)
        /\ UNCHANGED <<cache, session, chain>>
     \/ /\ on[c] # None => status[on[c]] # "stuck"
        /\ Live # {}
        /\ Turn(c, "idle", None)
        /\ UNCHANGED <<cache, session, chain>>
     \/ /\ on[c] # None => status[on[c]] # "stuck"
        /\ Live = {} /\ entry # None
        /\ Turn(c, "loading", entry)
        /\ UNCHANGED <<cache, session, chain>>
     \/ /\ on[c] # None => status[on[c]] # "stuck"
        /\ Live = {} /\ entry = None
        /\ \E s \in Sessions :
             /\ Fresh(s)
             /\ entry' = s
             /\ phase' = [phase EXCEPT ![s] = "loading"]
             /\ status' = [status EXCEPT ![s] = "unbuilt"]
             /\ events' = [events EXCEPT ![s] = <<>>]
             /\ base' = [base EXCEPT ![s] = 0] /\ balanced' = [balanced EXCEPT ![s] = 0]
             /\ chain' = Append(chain, Op("load", s, None, 0))
             /\ Turn(c, "loading", s)
        /\ UNCHANGED <<entered, init, retirement>>
  /\ UNCHANGED <<store, state>>

(* entry.result, or the reservation that was waited for, has settled. *)
Resume(c) ==
  LET s == on[c] IN
  /\ pc[c] = "loading" /\ phase[s] # "loading"
  /\ \/ /\ phase[s] = "failed" \/ (want[c] = "inspect" /\ Live # {})
        /\ Turn(c, "idle", None)
        /\ UNCHANGED <<cache, chain>>
     \/ /\ phase[s] # "failed" /\ want[c] = "inspect" /\ Live = {}
        /\ Turn(c, "checking", s)
        /\ chain' = Append(chain, Op("check", s, c, 0))
        /\ UNCHANGED cache
     \/ /\ phase[s] # "failed" /\ want[c] # "inspect" /\ entry # s
        /\ Wait(c)
        /\ UNCHANGED <<cache, chain>>
     \/ /\ phase[s] = "ready" /\ want[c] # "inspect" /\ entry = s
        /\ phase' = [phase EXCEPT ![s] = "committing"]
        /\ Turn(c, "committing", s)
        /\ chain' = Append(chain, Op("commit", s, c, 0))
        /\ UNCHANGED entry
  /\ UNCHANGED <<store, session, state>>

MutWithout(s) == entry
Without(s) == IF entry = s THEN None ELSE entry

(* remove(), and makes waiters of a reservation look again.  Those of a     *)
(* load stay until it has settled.                                         *)
RemoveEntry(s) ==
  /\ entry' = Without(s)
  /\ phase' = [phase EXCEPT ![s] = IF @ = "loading" THEN @ ELSE "none"]

(* The caller's signal; its operation, if it has not started, is skipped. *)
GiveUp(c) ==
  /\ \/ /\ pc[c] \in {"waiting", "loading"}
        /\ UNCHANGED <<cache, chain>>
     \/ /\ pc[c] \in {"committing", "checking"}
        /\ \E i \in 2 .. Len(chain) : chain[i].c = c /\ chain' = RemoveAt(chain, i)
        /\ IF pc[c] = "committing" THEN RemoveEntry(on[c]) ELSE UNCHANGED cache
  /\ Turn(c, "idle", None)
  /\ UNCHANGED <<store, session, state>>

(* The prepared Session may be appended to before it is published, ...     *)
Publishable(s) ==
  /\ entry = s /\ phase[s] = "reserved"
  /\ state.owner = None /\ state.cursor = balanced[s]

Publish(c) ==
  LET s == on[c] IN
  /\ pc[c] = "holding" /\ Live = {}
  /\ Publishable(s)
  /\ entry' = None /\ phase' = [phase EXCEPT ![s] = "none"]
  /\ state' = [state EXCEPT !.owner = s]
  /\ status' = [status EXCEPT ![s] = "live"]
  /\ \/ /\ Len(events[s]) > state.cursor
        /\ init' = [init EXCEPT ![s] = "pending"]
        /\ chain' = Append(chain, Op("suffix", s, None, Len(events[s])))
     \/ /\ Len(events[s]) = state.cursor
        /\ init' = [init EXCEPT ![s] = "ready"]
        /\ UNCHANGED chain
  /\ entered' = [entered EXCEPT ![s] = Len(events[s])]
  /\ Turn(c, "idle", None)
  /\ UNCHANGED <<store, events, base, balanced, retirement>>

(* ... which makes it unfit for the cache when it is not. *)
Reusable(s) == state.owner = None /\ Len(events[s]) = balanced[s]

Release(c) ==
  LET s == on[c] IN
  /\ pc[c] = "holding"
  /\ \/ /\ Reusable(s)
        /\ phase' = [phase EXCEPT ![s] = "ready"]
        /\ UNCHANGED entry
     \/ /\ ~Reusable(s)
        /\ RemoveEntry(s)
  /\ Turn(c, "idle", None)
  /\ UNCHANGED <<store, session, state, chain>>

(* touch(), for another id: the oldest ready entry goes. *)
Evictable == entry # None /\ phase[entry] = "ready"

Evict ==
  /\ Evictable
  /\ entry' = None
  /\ UNCHANGED <<store, phase, session, state, chain, client>>

-----------------------------------------------------------------------------
(* Live Sessions.  initFor() refuses one whose id has an entry, so that    *)
(* its creation fails; the others are met by onCreated().                  *)
Create(s, seed) ==
  /\ Fresh(s) /\ Cardinality(Free) > Spare
  /\ Live = {} /\ entry = None
  /\ status' = [status EXCEPT ![s] = "live"]
  /\ events' = [events EXCEPT ![s] = seed]
  /\ entered' = [entered EXCEPT ![s] = Len(seed)]
  /\ init' = [init EXCEPT ![s] = "pending"]
  /\ phase' = [phase EXCEPT ![s] = "none"]
  /\ chain' = Append(chain, Op("created", s, None, Len(seed)))
  /\ UNCHANGED <<store, entry, base, balanced, retirement, state, client>>

Attached(s) == status[s] = "live" \/ \E c \in Clients : pc[c] = "holding" /\ on[c] = s

SessionAppend(s) ==
  /\ Attached(s) /\ Len(events[s]) < MaxStored
  /\ events' = [events EXCEPT ![s] = Append(@, s)]
  /\ UNCHANGED <<store, cache, status, base, balanced, entered, init, retirement, state, chain, client>>

(* The write-behind of a Session: its batches wait for live.init. *)
HasWork(s) ==
  state.owner = s /\ Len(events[s]) > state.cursor /\ Len(events[s]) > entered[s]
Queued(kinds, s) == \E i \in DOMAIN chain : chain[i].kind \in kinds /\ chain[i].s = s

Write(s) ==
  /\ status[s] \in {"live", "retiring"} /\ init[s] = "ready"
  /\ ~Queued({"write", "forget"}, s) /\ HasWork(s)
  /\ chain' = Append(chain, Op("write", s, None, 0))
  /\ UNCHANGED <<store, cache, session, state, client>>

(* session/disposed: the Session has left the store; retire() flushes it,  *)
(* then forgets it.  One that cannot be flushed stays bound.               *)
Dispose(s) ==
  /\ status[s] = "live"
  /\ status' = [status EXCEPT ![s] = "retiring"]
  /\ retirement' = s
  /\ UNCHANGED <<store, cache, events, base, balanced, entered, init, state, chain, client>>

MutFlushed(s) == init[s] = "ready"
Flushed(s) == init[s] = "ready" /\ ~Queued({"write"}, s) /\ ~HasWork(s)

Forget(s) ==
  /\ status[s] = "retiring" /\ Flushed(s) /\ ~Queued({"forget"}, s)
  /\ chain' = Append(chain, Op("forget", s, None, 0))
  /\ UNCHANGED <<store, cache, session, state, client>>

Retire(s, as) ==
  /\ status' = [status EXCEPT ![s] = as]
  /\ retirement' = IF retirement = s THEN None ELSE retirement

RetirementFails(s) ==
  /\ status[s] = "retiring" /\ init[s] = "failed"
  /\ Retire(s, "stuck")
  /\ UNCHANGED <<store, cache, events, base, balanced, entered, init, state, chain, client>>

-----------------------------------------------------------------------------
(* The operations of the id: the first of the chain runs.                  *)
Running(kind) == chain # <<>> /\ chain[1].kind = kind
Done == chain' = Tail(chain)

Balanced == IF open THEN Append(stored, 0) ELSE stored

(* prepareCore(), or its failure: an id that has no log or is live, a       *)
(* backend that cannot read.                                               *)
Load ==
  /\ Running("load")
  /\ LET s == chain[1].s IN
     \/ /\ stored # <<>> /\ Live = {}
        /\ events' = [events EXCEPT ![s] = Balanced]
        /\ base' = [base EXCEPT ![s] = Len(stored)]
        /\ balanced' = [balanced EXCEPT ![s] = Len(Balanced)]
        /\ status' = [status EXCEPT ![s] = "cold"]
        /\ phase' = [phase EXCEPT ![s] = "ready"]
        /\ UNCHANGED <<entry, entered, init, retirement>>
     \/ /\ entry' = Without(s)
        /\ phase' = [phase EXCEPT ![s] = "failed"]
        /\ UNCHANGED session
  /\ Done
  /\ UNCHANGED <<store, state, client>>

MutCurrent(s) == TRUE
Current(s) == base[s] = Len(stored)

Claim(n) ==
  [known |-> TRUE, cursor |-> n, materialized |-> TRUE, owner |-> None, intruded |-> FALSE]

(* commitPrepared(), and what reserve() and its caller make of the answer:  *)
(* load() takes the log and discards the reservation, prepare() holds it.  *)
(* It fails for an id that is owned, and with the backend.                 *)
Commit ==
  /\ Running("commit")
  /\ LET s == chain[1].s
         c == chain[1].c IN
     \/ /\ RemoveEntry(s) /\ Turn(c, "idle", None)
        /\ UNCHANGED <<store, state>>
     \/ /\ state.owner = None /\ ~Current(s)
        /\ RemoveEntry(s) /\ Wait(c)
        /\ UNCHANGED <<store, state>>
     \/ /\ state.owner = None /\ Current(s) /\ balanced[s] > base[s]
        /\ stored' = Append(stored, 0) /\ open' = FALSE
        /\ RemoveEntry(s) /\ Wait(c)
        /\ UNCHANGED state
     \/ /\ state.owner = None /\ Current(s) /\ balanced[s] = base[s]
        /\ state' = Claim(balanced[s])
        /\ \/ /\ entry # s
              /\ Wait(c)
              /\ UNCHANGED <<entry, phase>>
           \/ /\ entry = s
              /\ RemoveEntry(s) /\ Turn(c, "idle", None)
           \/ /\ entry = s
              /\ phase' = [phase EXCEPT ![s] = "reserved"]
              /\ Turn(c, "holding", s)
              /\ UNCHANGED entry
        /\ UNCHANGED store
  /\ Done
  /\ UNCHANGED session

(* ... when the signal of the caller was aborted after the operation began *)
MutGivenBack == "committing"
GivenBack == "ready"

CommitGivenUp ==
  /\ Running("commit")
  /\ LET s == chain[1].s
         c == chain[1].c IN
     /\ state.owner = None /\ Current(s) /\ balanced[s] = base[s]
     /\ state' = Claim(balanced[s])
     /\ phase' = IF entry = s THEN [phase EXCEPT ![s] = GivenBack] ELSE phase
     /\ Turn(c, "idle", None)
  /\ Done
  /\ UNCHANGED <<store, entry, session>>

(* isPreparedSourceCurrent(), and what inspect() makes of the answer: the  *)
(* log it read, which stands as well while it is being reserved, or the    *)
(* next round after discardReady().                                        *)
Retained(s) == entry = s /\ phase[s] # "ready"

Check ==
  /\ Running("check")
  /\ LET s == chain[1].s
         c == chain[1].c IN
     \/ /\ Live # {} \/ Current(s) \/ Retained(s)
        /\ Turn(c, "idle", None)
        /\ UNCHANGED cache
     \/ /\ Live = {} /\ ~Current(s) /\ ~Retained(s)
        /\ IF entry = s THEN RemoveEntry(s) ELSE UNCHANGED <<entry, phase>>
        /\ Wait(c)
  /\ Done
  /\ UNCHANGED <<store, session, state>>

(* appendCore(): the batch becomes the tail of the log and the cached log  *)
(* is outdated, even one whose reservation is being committed; nothing is  *)
(* written while a caller holds the log.                                   *)
MutWritable == TRUE
Writable == entry # None => phase[entry] \notin {"committing", "reserved"}

Owned(s, cursor, materialized) ==
  [known |-> TRUE, cursor |-> cursor, materialized |-> materialized, owner |-> s,
   intruded |-> state.intruded]

Stored(batch, cursor, s) ==
  /\ stored' = stored \o batch
  /\ open' \in BOOLEAN
  /\ state' = Owned(s, cursor + Len(batch), TRUE)
  /\ IF entry = None THEN UNCHANGED <<entry, phase>> ELSE RemoveEntry(entry)

(* append(), by a caller that read the log of an id that is not live: one  *)
(* at a time, and for a Session that is, the model has no such caller.     *)
AskAppend ==
  /\ Live = {}
  /\ ~\E i \in DOMAIN chain : chain[i].kind \in {"append", "appending"}
  /\ Len(stored) < MaxStored
  /\ \E n \in {Len(stored), Len(Balanced)} :
       chain' = Append(chain, Op("append", None, None, n))
  /\ UNCHANGED <<store, cache, session, state, client>>

(* ... its start, which takes over the entry of an id it must adopt, or    *)
(* finds that a Session is live by now, ...                                *)
BeginAppend ==
  /\ Running("append")
  /\ \/ /\ ~Writable \/ (~state.known /\ Live # {})
        /\ Done /\ UNCHANGED <<entry, phase>>
     \/ /\ Writable /\ (state.known \/ Live = {})
        /\ chain' = [chain EXCEPT ![1].kind = "appending"]
        /\ IF ~state.known /\ entry # None /\ phase[entry] = "ready"
             THEN RemoveEntry(entry)
             ELSE UNCHANGED <<entry, phase>>
  /\ UNCHANGED <<store, session, state, client>>

(* ... and its end, once adopt() has made an unknown log balanced.  It asks *)
(* for the cursor only: if an owner has the log by then, what is appended  *)
(* comes in between the owner's events.                                    *)
EndAppend ==
  /\ Running("appending")
  /\ LET start == IF state.known THEN stored ELSE Balanced
         next  == IF state.known THEN state ELSE Claim(Len(start)) IN
     \/ \* adopt() fails, perhaps after it has repaired the log
        /\ ~state.known
        /\ stored' \in {stored, start} /\ open' = (open /\ stored' = stored)
        /\ UNCHANGED <<entry, phase, state>>
     \/ \* the batch does not start at the cursor, or is not written
        /\ state.known \/ stored # <<>>
        /\ stored' = start /\ open' = (open /\ state.known)
        /\ state' = next
        /\ UNCHANGED <<entry, phase>>
     \/ /\ state.known \/ stored # <<>>
        /\ next.cursor = chain[1].n
        /\ stored' = Append(start, 0) /\ open' \in {FALSE, OpenAppends}
        /\ state' = [known |-> TRUE, cursor |-> next.cursor + 1, materialized |-> TRUE,
                     owner |-> next.owner, intruded |-> next.owner # None]
        /\ IF entry = None THEN UNCHANGED <<entry, phase>> ELSE RemoveEntry(entry)
  /\ Done
  /\ UNCHANGED <<session, client>>

(* appendLiveBatch(): the events of the batch the log does not have yet,   *)
(* by their numbers; if that leaves none, nothing is done.                 *)
WriteOp ==
  /\ Running("write")
  /\ LET s == chain[1].s IN
     \/ /\ state.cursor >= Len(events[s])
        /\ UNCHANGED <<store, entry, phase, state, status, retirement>>
     \/ /\ state.cursor < Len(events[s]) /\ Writable
        /\ Stored(SubSeq(events[s], state.cursor + 1, Len(events[s])), state.cursor, state.owner)
        /\ UNCHANGED <<status, retirement>>
     \/ /\ state.cursor < Len(events[s])
        /\ IF status[s] = "retiring" THEN Retire(s, "stuck") ELSE UNCHANGED <<status, retirement>>
        /\ UNCHANGED <<store, entry, phase, state>>
  /\ Done
  /\ UNCHANGED <<events, base, balanced, entered, init, client>>

(* onCreated(), adoptLivePrefix(), createCore() and the suffix of a        *)
(* published Session: the Session becomes the owner of the log when its    *)
(* own log begins with it, and what it has beyond is written.              *)
MutMatches(s, cursor) == Len(events[s]) >= cursor
Matches(s, cursor) == IsPrefix(SubSeq(stored, 1, cursor), events[s])

Superseded(t) == ~state.materialized /\ ~HasWork(t) /\ ~Queued({"write"}, t)

Own(s, cursor, n) ==
  /\ \/ /\ n > cursor /\ Writable
        /\ Stored(SubSeq(events[s], cursor + 1, n), cursor, s)
     \/ /\ state' = Owned(s, cursor, cursor > 0)
        /\ UNCHANGED <<store, entry, phase>>
  /\ init' = [init EXCEPT ![s] = IF cursor < n /\ stored' = stored THEN "failed" ELSE "ready"]

Refuse(s) ==
  /\ init' = [init EXCEPT ![s] = "failed"]
  /\ UNCHANGED <<store, entry, phase, state>>

Created ==
  /\ Running("created")
  /\ LET s == chain[1].s
         t == state.owner
         cursor == IF state.known /\ t = None THEN state.cursor ELSE Len(stored)
         refused == \/ t # None /\ ~Superseded(t)
                    \/ ~Matches(s, cursor)
                    \/ cursor = 0 /\ entry # None IN
     IF refused THEN Refuse(s) ELSE Own(s, cursor, chain[1].n)
  /\ Done
  /\ UNCHANGED <<status, events, base, balanced, entered, retirement, client>>

\* What is written was cut off where the log ended when it was published.
Suffix ==
  /\ Running("suffix")
  /\ LET s == chain[1].s IN
     IF state.cursor # balanced[s] THEN Refuse(s) ELSE Own(s, state.cursor, chain[1].n)
  /\ Done
  /\ UNCHANGED <<status, events, base, balanced, entered, retirement, client>>

(* retireCore(): the end of a retirement *)
Forgotten ==
  /\ Running("forget")
  /\ LET s == chain[1].s IN
     /\ Retire(s, "cold")
     /\ state' = IF state.owner = s THEN Unknown ELSE state
     /\ on' = [c \in Clients |-> IF pc[c] = "waiting" /\ on[c] = s THEN None ELSE on[c]]
  /\ Done
  /\ UNCHANGED <<store, cache, events, base, balanced, entered, init, pc, want>>

-----------------------------------------------------------------------------
Operation ==
  \/ Load \/ Commit \/ CommitGivenUp \/ Check \/ BeginAppend \/ EndAppend
  \/ WriteOp \/ Created \/ Suffix \/ Forgotten

(* What the rest of the program begins, ...                                *)
Arrival ==
  \/ AskAppend \/ Evict
  \/ \E c \in Clients, w \in {"reserve", "inspect"} : Ask(c, w)
  \/ \E s \in Sessions : Create(s, <<s>>) \/ Create(s, stored)

(* ... and what follows.                                                   *)
Next ==
  \/ Arrival \/ Operation
  \/ \E c \in Clients : Look(c) \/ Resume(c) \/ GiveUp(c) \/ Publish(c) \/ Release(c)
  \/ \E s \in Sessions :
       SessionAppend(s) \/ Write(s) \/ Dispose(s) \/ Forget(s) \/ RetirementFails(s)

Spec == Init /\ [][Next]_vars

(* Promises settle, the loops of a caller go on, a reservation is disposed *)
(* of ("using"), a retiring Session is flushed.  Callers, Sessions and      *)
(* evictions that never stop can keep a caller coming round for ever.      *)
FairSpec ==
  /\ Spec
  /\ <>[][~Arrival]_vars
  /\ WF_vars(Operation)
  /\ \A c \in Clients : WF_vars(Look(c) \/ Resume(c) \/ Release(c))
  /\ \A s \in Sessions :
       WF_vars((status[s] = "retiring" /\ Write(s)) \/ Forget(s) \/ RetirementFails(s))

-----------------------------------------------------------------------------
Phases == {"none", "loading", "failed", "ready", "committing", "reserved"}
Ops ==
  [kind : {"append", "appending"}, s : {None}, c : {None}, n : Nat]
    \cup [kind : {"check", "commit"}, s : Sessions, c : Clients, n : Nat]
    \cup [kind : {"load", "write", "created", "suffix", "forget"},
          s : Sessions, c : {None}, n : Nat]

TypeOK ==
  /\ stored \in Seq(Sessions \cup {0}) /\ open \in BOOLEAN
  /\ entry \in Sessions \cup {None}
  /\ phase \in [Sessions -> Phases]
  /\ status \in [Sessions -> {"unbuilt", "cold", "live", "retiring", "stuck"}]
  /\ events \in [Sessions -> Seq(Sessions \cup {0})]
  /\ {base, balanced, entered} \subseteq [Sessions -> Nat]
  /\ init \in [Sessions -> {"none", "pending", "ready", "failed"}]
  /\ state \in [known : BOOLEAN, cursor : Nat, materialized : BOOLEAN,
                owner : Sessions \cup {None}, intruded : BOOLEAN]
  /\ retirement \in Sessions \cup {None} /\ chain \in Seq(Ops)
  /\ pc \in [Clients -> {"idle", "waiting", "loading", "committing", "holding", "checking"}]
  /\ want \in [Clients -> {"reserve", "inspect"}]
  /\ on \in [Clients -> Sessions \cup {None}]
  /\ \A c \in Clients : on[c] = None => pc[c] \in {"idle", "waiting"}
  /\ entry # None => phase[entry] \in {"loading", "ready", "committing", "reserved"}

(* What the coordinator believes of the log is what is stored, and the log *)
(* of the Session that owns it begins with what is stored: nothing of      *)
(* another Session was written in between, nothing of its own left out,    *)
(* unless a caller of append() came in between, whom nothing stops.        *)
OwnedLog ==
  state.known =>
    /\ state.cursor = Len(stored)
    /\ state.owner # None /\ ~state.intruded => IsPrefix(stored, events[state.owner])

(* While a caller holds a prepared Session, it is built from the log that  *)
(* is stored, which no other Session owns: publishing it never throws.     *)
ReservationHolds ==
  \A c \in Clients : pc[c] = "holding" =>
    /\ Live = {} /\ Publishable(on[c])
    /\ Current(on[c]) /\ IsPrefix(stored, events[on[c]])

(* inspect() returns the log as it is stored, closed where it is open,     *)
(* however long ago the cached copy was read.                              *)
InspectIsCurrent ==
  [][Running("check") /\ chain' = Tail(chain) =>
       LET s == chain[1].s IN
       pc'[chain[1].c] = "idle" /\ Live = {} => SubSeq(events[s], 1, balanced[s]) = Balanced]_vars

(* A Session that retires is forgotten only when its events are stored; it *)
(* stays bound when they cannot be.  An append() without a Session that    *)
(* came in between may have taken the number of an event, which the batch  *)
(* of the owner then passes over as stored already.                        *)
ForgottenStored(s) ==
  status[s] = "retiring" /\ status'[s] = "cold" /\ state.owner = s
    => IsPrefix(events[s], stored)

NothingForgotten == [][~state.intruded => \A s \in Sessions : ForgottenStored(s)]_vars

(* The first event of a batch that is appended is the next of the log, as  *)
(* append() promises.  The repair of a log somebody appended to, and left  *)
(* open, forgets the cursor of the id: until the caller that repaired has  *)
(* come round again, a batch is numbered as if nothing had been repaired.  *)
AppendsAtTheEnd ==
  [][Running("appending") /\ state.known /\ state'.cursor > state.cursor
       => state.cursor = Len(stored)]_vars

(* Whoever asks for the log is answered: no waiter of a reservation, of a  *)
(* load or of a retirement is left behind.                                 *)
NobodyStranded ==
  \A c \in Clients : pc[c] # "idle" ~> pc[c] = "idle"
=============================================================================
