----------------------- MODULE PreparedSessionsProofs -----------------------
(***************************************************************************)
(* Proofs about the coordinator and its cache, for any number of callers   *)
(* and Sessions: type correctness, the agreement of what is known of a log *)
(* with what is stored, what holds while a caller holds a reservation,     *)
(* that inspect() is current and that a retired Session is stored.         *)
(*                                                                         *)
(* The cache is not under the order of the chain, so that the invariant    *)
(* has to say how the two meet: which operations may still be queued when  *)
(* an entry is there (Order), what each queued operation finds when its    *)
(* turn comes (Fit), and who may hold what (Clerks).                       *)
(***************************************************************************)
EXTENDS PreparedSessions, SeqSetLemmas, TLAPS

-----------------------------------------------------------------------------
(***************************************************************************)
(* The invariant.                                                          *)
(***************************************************************************)

(* Each queued operation is of somebody it still concerns. *)
Fit(o) ==
  /\ o.kind \in {"check", "commit"} => on[o.c] = o.s
  /\ o.kind = "check" => pc[o.c] = "checking"
  /\ o.kind = "commit" => pc[o.c] = "committing"
  /\ o.kind = "load" => status[o.s] = "unbuilt" /\ phase[o.s] = "loading"
  /\ o.kind \in {"created", "suffix"} =>
       status[o.s] \in {"live", "retiring"} /\ init[o.s] = "pending" /\ o.n = entered[o.s]
  /\ o.kind = "suffix" => state.owner = o.s /\ state.materialized
  /\ o.kind = "write" =>
       status[o.s] \in {"live", "retiring"} /\ init[o.s] = "ready" /\ state.owner = o.s
  /\ o.kind = "forget" =>
       status[o.s] = "retiring" /\ init[o.s] = "ready" /\ ~HasWork(o.s)

(* A Session, and a caller, has one operation queued at most. *)
Same(o, p) == o.c = p.c /\ (o.c # None \/ o.s = p.s)
Queue ==
  /\ \A i \in DOMAIN chain : Fit(chain[i]) /\ (chain[i].kind = "appending" => i = 1)
  /\ \A i, j \in DOMAIN chain : Same(chain[i], chain[j]) => i = j

(* When an entry is loaded, what was queued before it has run. *)
Before == {"created", "suffix", "commit"}
Order ==
  entry # None =>
    /\ phase[entry] # "loading" =>
         \A j \in DOMAIN chain : /\ chain[j].kind \notin {"created", "suffix"}
                                 /\ chain[j].kind = "commit" => chain[j].s = entry
    /\ \A i, j \in DOMAIN chain :
         chain[i].kind = "load" /\ chain[i].s = entry /\ chain[j].kind \in Before => j < i

(* The entry is of a Session nobody has live, and is not outdated. *)
Cached ==
  entry # None =>
    /\ Live = {}
    /\ status[entry] = IF phase[entry] = "loading" THEN "unbuilt" ELSE "cold"
    /\ phase[entry] # "loading" => base[entry] = Len(stored)

(* What a prepared Session was built from is what is stored, unless its    *)
(* revision tells otherwise.                                               *)
Wanted(s) ==
  \/ entry = s
  \/ \E c \in Clients : on[c] = s /\ pc[c] \in {"loading", "checking", "committing", "holding"}
Settled(s) == Wanted(s) /\ phase[s] \notin {"loading", "failed"}
Sound(s) ==
  /\ base[s] <= Len(stored)
  /\ base[s] = Len(stored) => balanced[s] = Len(Balanced) /\ IsPrefix(Balanced, events[s])
Revisions == \A s \in Sessions : Settled(s) => Sound(s)

(* A reservation has one caller, and what it reserves stays in the cache   *)
(* and without an owner; nothing is written meanwhile.                     *)
Reserving(c) == pc[c] \in {"committing", "holding"}
Clerk(c) ==
  /\ pc[c] = "checking" => phase[on[c]] \notin {"loading", "failed"}
  /\ pc[c] = "committing" => phase[on[c]] \in {"committing", "none"}
  /\ pc[c] = "committing" /\ entry = on[c] => phase[entry] = "committing"
  /\ pc[c] = "holding" => /\ entry = on[c] /\ phase[entry] = "reserved"
                          /\ state.known /\ state.materialized /\ state.owner = None
                          /\ state.cursor = balanced[entry]
Clerks ==
  /\ \A c \in Clients : Clerk(c)
  /\ \A c, d \in Clients : Reserving(c) /\ Reserving(d) /\ on[c] = on[d] => c = d
Appending ==
  Running("appending") /\ entry # None =>
    /\ phase[entry] # "reserved"
    /\ ~state.known => phase[entry] = "loading"

(* The owner. *)
Owning ==
  /\ state.owner # None => /\ state.known
                           /\ status[state.owner] \in {"live", "retiring", "stuck"}
                           /\ init[state.owner] = "ready" => state.cursor >= entered[state.owner]
  /\ state.known /\ ~state.materialized => state.cursor = 0
  /\ \A s \in Sessions : status[s] \in {"live", "retiring"} => entered[s] <= Len(events[s])

PreparedInv ==
  /\ TypeOK /\ Queue /\ Order /\ Cached /\ Revisions /\ Clerks /\ Appending /\ Owning

(* Where no caller of append() leaves a turn open, a log that nobody owns  *)
(* but that is known needs no repair, and its cursor is where it ends.     *)
LogInv ==
  /\ state.known /\ state.owner = None => ~open
  /\ OwnedLog

-----------------------------------------------------------------------------
(***************************************************************************)
(* What the operations on the chain do to it.                              *)
(***************************************************************************)

(* The operation at r has gone. *)
Old(r, i) == IF i < r THEN i ELSE i + 1
Drops(r) ==
  /\ r \in DOMAIN chain /\ DOMAIN chain = 1 .. Len(chain) /\ Len(chain) \in Nat
  /\ DOMAIN chain' = 1 .. Len(chain) - 1
  /\ \A i \in DOMAIN chain' : Old(r, i) \in DOMAIN chain /\ chain'[i] = chain[Old(r, i)]

(* The operation o has come. *)
Adds(o) ==
  /\ DOMAIN chain = 1 .. Len(chain) /\ Len(chain) \in Nat
  /\ DOMAIN chain' = 1 .. Len(chain) + 1
  /\ \A i \in DOMAIN chain : chain'[i] = chain[i]
  /\ chain'[Len(chain) + 1] = o

LEMMA ChainAppend ==
  ASSUME NEW S, chain \in Seq(S), NEW o \in S, chain' = Append(chain, o)
  PROVE  chain' \in Seq(S) /\ Adds(o)
BY DEF Adds

LEMMA ChainTail ==
  ASSUME NEW S, chain \in Seq(S), chain # <<>>, chain' = Tail(chain)
  PROVE  chain' \in Seq(S) /\ Drops(1)
BY DEF Drops, Old

LEMMA ChainRemove ==
  ASSUME NEW S, chain \in Seq(S), NEW r \in DOMAIN chain, chain' = RemoveAt(chain, r)
  PROVE  chain' \in Seq(S) /\ Drops(r)
<1>1. DOMAIN chain = 1 .. Len(chain) /\ Len(chain) \in Nat /\ r \in 1 .. Len(chain)
  OBVIOUS
<1>2. chain' \in Seq(S) /\ DOMAIN chain' = 1 .. Len(chain) - 1
      /\ \A i \in 1 .. Len(chain) - 1 : chain'[i] = chain[Old(r, i)]
  BY RemoveAtPlaces DEF Old
<1>3. \A i \in 1 .. Len(chain) - 1 : Old(r, i) \in 1 .. Len(chain)
  BY <1>1 DEF Old
<1> QED BY <1>1, <1>2, <1>3 DEF Drops

LEMMA ChainHead ==
  ASSUME TypeOK, NEW kind, Running(kind)
  PROVE  /\ chain \in Seq(Ops) /\ chain # <<>> /\ chain[1] \in Ops /\ chain[1].kind = kind
         /\ 1 \in DOMAIN chain
<1>1. chain \in Seq(Ops) /\ chain # <<>> /\ chain[1].kind = kind
  BY DEF TypeOK, Running
<1>2. 1 \in DOMAIN chain /\ chain[1] \in Ops
  BY <1>1
<1> QED BY <1>1, <1>2

-----------------------------------------------------------------------------
(***************************************************************************)
(* Types.                                                                  *)
(***************************************************************************)
States == {"unbuilt", "cold", "live", "retiring", "stuck"}
Inits == {"none", "pending", "ready", "failed"}
Turns == {"idle", "waiting", "loading", "committing", "holding", "checking"}

StoreType == stored \in Seq(Sessions \cup {0}) /\ open \in BOOLEAN
CacheType ==
  /\ entry \in Sessions \cup {None} /\ phase \in [Sessions -> Phases]
  /\ entry # None => phase[entry] \in {"loading", "ready", "committing", "reserved"}
SessionType ==
  /\ status \in [Sessions -> States]
  /\ events \in [Sessions -> Seq(Sessions \cup {0})]
  /\ base \in [Sessions -> Nat] /\ balanced \in [Sessions -> Nat]
  /\ entered \in [Sessions -> Nat] /\ init \in [Sessions -> Inits]
  /\ retirement \in Sessions \cup {None}
StateType ==
  state \in [known : BOOLEAN, cursor : Nat, materialized : BOOLEAN,
             owner : Sessions \cup {None}, intruded : BOOLEAN]
ClientType ==
  /\ pc \in [Clients -> Turns] /\ want \in [Clients -> {"reserve", "inspect"}]
  /\ on \in [Clients -> Sessions \cup {None}]
  /\ \A c \in Clients : on[c] = None => pc[c] \in {"idle", "waiting"}

LEMMA TypeParts ==
  TypeOK <=> /\ StoreType /\ CacheType /\ SessionType /\ StateType /\ ClientType
             /\ chain \in Seq(Ops)
BY ZenonT(60)
   DEF TypeOK, StoreType, CacheType, SessionType, StateType, ClientType, States, Inits, Turns

LEMMA TypePartsNext ==
  TypeOK' <=> /\ StoreType' /\ CacheType' /\ SessionType' /\ StateType' /\ ClientType'
              /\ chain' \in Seq(Ops)
BY ZenonT(60)
   DEF TypeOK, StoreType, CacheType, SessionType, StateType, ClientType, States, Inits, Turns

LEMMA TypeInit == Init => TypeOK
<1> SUFFICES ASSUME Init PROVE TypeOK
  OBVIOUS
<1>1. stored \in Seq(Sessions \cup {0})
  <2>1. 0 \in Sessions \cup {0}
    OBVIOUS
  <2>2. <<>> \in Seq(Sessions \cup {0}) /\ <<0>> \in Seq(Sessions \cup {0})
    BY <2>1
  <2> QED BY <2>2, Zenon DEF Init
<1>5. open \in BOOLEAN
  BY Zenon DEF Init
<1>2. StateType /\ chain \in Seq(Ops)
  <2>1. Unknown \in [known : BOOLEAN, cursor : Nat, materialized : BOOLEAN,
                     owner : Sessions \cup {None}, intruded : BOOLEAN]
    BY DEF Unknown, None
  <2> QED BY <2>1 DEF Init, StateType
<1>3. CacheType /\ SessionType
  BY DEF Init, Phases, States, Inits, CacheType, SessionType, None
<1>4. ClientType
  BY DEF Init, None, Turns, ClientType
<1> QED BY <1>1, <1>5, <1>2, <1>3, <1>4, TypeParts DEF StoreType

LEMMA NewOp ==
  ASSUME NEW s \in Sessions, NEW n \in Nat
  PROVE  /\ \A kind \in {"load", "write", "created", "suffix", "forget"} :
              Op(kind, s, None, n) \in Ops
         /\ \A kind \in {"check", "commit"}, c \in Clients : Op(kind, s, c, n) \in Ops
         /\ \A kind \in {"append", "appending"} : Op(kind, None, None, n) \in Ops
BY DEF Op, Ops

LEMMA OpTypes ==
  ASSUME NEW o \in Ops
  PROVE  /\ o.kind \notin {"append", "appending"} => o.s \in Sessions
         /\ o.kind \in {"append", "appending"} => o.s = None
         /\ o.kind \in {"check", "commit"} => o.c \in Clients
         /\ o.kind \notin {"check", "commit"} => o.c = None
         /\ o.n \in Nat
BY DEF Ops

(* What the helpers of the actions leave. *)
LEMMA TurnType ==
  ASSUME ClientType, NEW c \in Clients, NEW next \in Turns, NEW s \in Sessions \cup {None},
         s = None => next \in {"idle", "waiting"}, Turn(c, next, s)
  PROVE  /\ ClientType'
         /\ pc'[c] = next /\ on'[c] = s
         /\ \A d \in Clients : d # c => pc'[d] = pc[d] /\ on'[d] = on[d]
BY DEF ClientType, Turn, Turns

LEMMA RemovedType ==
  ASSUME CacheType, NEW s \in Sessions, RemoveEntry(s)
  PROVE  /\ CacheType'
         /\ entry' = IF entry = s THEN None ELSE entry
         /\ entry' # s
         /\ \A t \in Sessions : t # s => phase'[t] = phase[t]
         /\ phase'[s] = IF phase[s] = "loading" THEN "loading" ELSE "none"
<1>1. s # None
  BY PreparedAssumption DEF None
<1> QED BY <1>1 DEF CacheType, RemoveEntry, Without, Phases

LEMMA BalancedType ==
  ASSUME StoreType
  PROVE  /\ Balanced \in Seq(Sessions \cup {0})
         /\ Len(Balanced) \in Nat /\ Len(stored) \in Nat
         /\ Len(Balanced) = IF open THEN Len(stored) + 1 ELSE Len(stored)
<1>1. 0 \in Sessions \cup {0}
  OBVIOUS
<1> QED BY <1>1 DEF StoreType, Balanced


(* Of a running operation, what every use of it begins with. *)
LEMMA Runs ==
  ASSUME TypeOK, NEW kind, Running(kind)
  PROVE  /\ chain \in Seq(Ops) /\ 1 \in DOMAIN chain
         /\ chain[1].kind = kind /\ chain[1].n \in Nat
         /\ kind \notin {"append", "appending"} => chain[1].s \in Sessions
         /\ kind \in {"check", "commit"} => chain[1].c \in Clients
         /\ Done => chain' \in Seq(Ops) /\ Drops(1)
BY ChainHead, OpTypes, ChainTail DEF Done

(* Records of the state of the id. *)
LEMMA OwnedType ==
  ASSUME TypeOK, NEW s \in Sessions \cup {None}, NEW cursor \in Nat, NEW m \in BOOLEAN,
         state' = Owned(s, cursor, m)
  PROVE  StateType' /\ state'.known /\ state'.cursor = cursor /\ state'.materialized = m
         /\ state'.owner = s /\ state'.intruded = state.intruded
<1>1. state.intruded \in BOOLEAN
  BY TypeParts DEF StateType
<1> QED BY <1>1 DEF Owned, StateType

LEMMA ClaimType ==
  ASSUME NEW n \in Nat, state' = Claim(n)
  PROVE  StateType'
<1>1. Claim(n) \in [known : BOOLEAN, cursor : Nat, materialized : BOOLEAN,
                    owner : Sessions \cup {None}, intruded : BOOLEAN]
  BY DEF Claim, None
<1> QED BY <1>1 DEF StateType

LEMMA StoredType ==
  ASSUME TypeOK, NEW batch \in Seq(Sessions \cup {0}), NEW cursor \in Nat,
         NEW s \in Sessions \cup {None}, Stored(batch, cursor, s)
  PROVE  StoreType' /\ StateType' /\ CacheType'
<1> USE TypeParts
<1>1. StoreType'
  BY DEF Stored, StoreType
<1>2. StateType'
  <2>1. Len(batch) \in Nat /\ cursor + Len(batch) \in Nat
    OBVIOUS
  <2> QED BY <2>1, OwnedType DEF Stored
<1>3. CacheType'
  <2>1. CASE entry = None BY <2>1 DEF Stored, CacheType
  <2>2. CASE entry # None
    <3>1. entry \in Sessions /\ RemoveEntry(entry)
      BY <2>2 DEF Stored, CacheType
    <3> QED BY <3>1, RemovedType
  <2> QED BY <2>1, <2>2
<1> QED BY <1>1, <1>2, <1>3

LEMMA SuffixType ==
  ASSUME TypeOK, NEW s \in Sessions, NEW n \in Nat, NEW m \in Nat, m <= Len(events[s])
  PROVE  /\ SubSeq(events[s], n + 1, m) \in Seq(Sessions \cup {0})
         /\ Len(SubSeq(events[s], n + 1, m)) = IF n + 1 <= m THEN m - n ELSE 0
         /\ \A i \in 1 .. m - n : SubSeq(events[s], n + 1, m)[i] = events[s][n + i]
<1> DEFINE e == events[s]
<1>1. e \in Seq(Sessions \cup {0})
  BY TypeParts DEF SessionType
<1> HIDE DEF e
<1>2. n + 1 \in Int /\ m \in Int /\ \A i \in n + 1 .. m : e[i] \in Sessions \cup {0}
  BY <1>1 DEF e
<1>3. SubSeq(e, n + 1, m) \in Seq(Sessions \cup {0})
      /\ Len(SubSeq(e, n + 1, m)) = (IF n + 1 <= m THEN m - (n + 1) + 1 ELSE 0)
      /\ \A i \in 1 .. m - (n + 1) + 1 : SubSeq(e, n + 1, m)[i] = e[n + 1 + i - 1]
  BY <1>2, SubSeqProperties, Z3
<1>4. m - (n + 1) + 1 = m - n /\ \A i \in 1 .. m - n : n + 1 + i - 1 = n + i
  OBVIOUS
<1> QED BY <1>3, <1>4 DEF e


(* The length that a queued creation or suffix took with it. *)
LEMMA Captured ==
  ASSUME PreparedInv, NEW kind \in {"created", "suffix"}, Running(kind)
  PROVE  /\ chain[1].s \in Sessions /\ chain[1].n \in Nat
         /\ chain[1].n = entered[chain[1].s] /\ chain[1].n <= Len(events[chain[1].s])
         /\ status[chain[1].s] \in {"live", "retiring"}
BY Runs DEF PreparedInv, Queue, Fit, Owning

LEMMA OwnInit ==
  ASSUME NEW s, NEW cursor, NEW n, Own(s, cursor, n)
  PROVE  \E x \in {"failed", "ready"} : init' = [init EXCEPT ![s] = x]
BY Zenon DEF Own

LEMMA OwnType ==
  ASSUME PreparedInv, NEW kind \in {"created", "suffix"}, Running(kind), NEW cursor \in Nat,
         Own(chain[1].s, cursor, chain[1].n)
  PROVE  StoreType' /\ StateType' /\ CacheType' /\ init' \in [Sessions -> Inits]
<1> USE Captured, TypeParts
<1>1. init' \in [Sessions -> Inits]
  BY DEF PreparedInv, Own, SessionType, Inits
<1> DEFINE s == chain[1].s
           batch == SubSeq(events[s], cursor + 1, chain[1].n)
<1>2. CASE Stored(batch, cursor, s)
  <2>1. batch \in Seq(Sessions \cup {0})
    BY SuffixType DEF PreparedInv
  <2> QED BY <1>1, <1>2, <2>1, StoredType DEF PreparedInv
<1>3. CASE state' = Owned(s, cursor, cursor > 0) /\ UNCHANGED <<store, entry, phase>>
  <2>1. StateType /\ s \in Sessions
    BY DEF PreparedInv
  <2>3. StateType'
    BY <1>3, <2>1 DEF Owned, StateType
  <2>4. StoreType' /\ CacheType'
    BY <1>3 DEF PreparedInv, StoreType, CacheType, store
  <2> QED BY <1>1, <2>3, <2>4
<1> QED BY <1>2, <1>3 DEF Own

(* append() takes a step while it is the first of the chain, ... *)
LEMMA Starts ==
  ASSUME TypeOK, Running("append"), chain' = [chain EXCEPT ![1].kind = "appending"]
  PROVE  /\ chain' \in Seq(Ops) /\ DOMAIN chain' = DOMAIN chain
         /\ \A i \in DOMAIN chain : i # 1 => chain'[i] = chain[i]
         /\ chain'[1].kind = "appending" /\ chain'[1].c = None /\ chain'[1].s = None
         /\ chain[1].c = None /\ chain[1].s = None
<1>1. chain \in Seq(Ops) /\ 1 \in DOMAIN chain /\ chain[1].kind = "append"
  BY Runs
<1>2. chain[1] \in [kind : {"append", "appending"}, s : {None}, c : {None}, n : Nat]
  <2>1. chain[1] \in Ops
    BY <1>1
  <2> QED BY <1>1, <2>1 DEF Ops
<1>3. [chain[1] EXCEPT !.kind = "appending"] \in Ops
  BY <1>2 DEF Ops
<1>4. chain' = [chain EXCEPT ![1] = [chain[1] EXCEPT !.kind = "appending"]]
  OBVIOUS
<1>5. chain' \in Seq(Ops)
  BY <1>1, <1>3, <1>4
<1>6. DOMAIN chain' = DOMAIN chain /\ chain'[1] = [chain[1] EXCEPT !.kind = "appending"]
      /\ \A i \in DOMAIN chain : i # 1 => chain'[i] = chain[i]
  BY <1>1, <1>4
<1> QED BY <1>2, <1>5, <1>6

(* ... and what it leaves. *)
Intrusion ==
  [known |-> TRUE, cursor |-> state.cursor + 1, materialized |-> TRUE,
   owner |-> state.owner, intruded |-> state.owner # None]

LEMMA EndCases ==
  ASSUME TypeOK, EndAppend
  PROVE  \/ state' = state /\ stored' = stored /\ open' = open /\ UNCHANGED <<entry, phase>>
         \/ /\ ~state.known /\ stored' = Balanced /\ open' = (open /\ stored' = stored)
            /\ state' = state /\ UNCHANGED <<entry, phase>>
         \/ /\ ~state.known /\ stored' = Balanced /\ open' = FALSE
            /\ state' = Claim(Len(Balanced)) /\ UNCHANGED <<entry, phase>>
         \/ /\ \/ /\ state.known
                  /\ stored' = Append(stored, 0) /\ state' = Intrusion
               \/ /\ ~state.known
                  /\ stored' = Append(Balanced, 0) /\ state' = Claim(Len(Balanced) + 1)
            /\ open' \in {FALSE, OpenAppends}
            /\ IF entry = None THEN UNCHANGED <<entry, phase>> ELSE RemoveEntry(entry)
<1>1. open \in BOOLEAN /\ state.known \in BOOLEAN
  BY TypeParts DEF StoreType, StateType
<1>2. CASE state.known
  <2>1. CASE stored' = stored /\ open' = (open /\ state.known) /\ state' = state /\ UNCHANGED <<entry, phase>>
    BY <1>1, <1>2, <2>1
  <2> QED BY <1>2, <2>1, Zenon DEF EndAppend, Intrusion
<1>3. CASE ~state.known
  <2>1. [known |-> TRUE, cursor |-> Claim(Len(Balanced)).cursor + 1, materialized |-> TRUE,
         owner |-> Claim(Len(Balanced)).owner, intruded |-> Claim(Len(Balanced)).owner # None]
          = Claim(Len(Balanced) + 1)
    BY DEF Claim, None
  <2>2. CASE stored' \in {stored, Balanced} /\ open' = (open /\ stored' = stored)
             /\ UNCHANGED <<entry, phase, state>>
    <3>1. CASE stored' = stored
      BY <1>1, <2>2, <3>1
    <3>2. CASE stored' = Balanced
      BY <1>3, <2>2, <3>2
    <3> QED BY <2>2, <3>1, <3>2
  <2>3. CASE stored' = Balanced /\ open' = (open /\ state.known) /\ state' = Claim(Len(Balanced))
             /\ UNCHANGED <<entry, phase>>
    BY <1>1, <1>3, <2>3
  <2>4. CASE /\ stored' = Append(Balanced, 0) /\ open' \in {FALSE, OpenAppends}
             /\ state' = [known |-> TRUE, cursor |-> Claim(Len(Balanced)).cursor + 1, materialized |-> TRUE,
                          owner |-> Claim(Len(Balanced)).owner, intruded |-> Claim(Len(Balanced)).owner # None]
             /\ IF entry = None THEN UNCHANGED <<entry, phase>> ELSE RemoveEntry(entry)
    BY <1>3, <2>1, <2>4
  <2> QED BY <1>3, <2>2, <2>3, <2>4, Zenon DEF EndAppend
<1> QED BY <1>1, <1>2, <1>3

LEMMA EndStore ==
  ASSUME TypeOK, EndAppend
  PROVE  StoreType'
<1>1. StoreType /\ 0 \in Sessions \cup {0} /\ Balanced \in Seq(Sessions \cup {0})
  BY TypeParts, BalancedType
<1>2. open \in BOOLEAN /\ state.known \in BOOLEAN /\ OpenAppends \in BOOLEAN
  BY <1>1, TypeParts, PreparedAssumption DEF StoreType, StateType
<1>3. Append(stored, 0) \in Seq(Sessions \cup {0}) /\ Append(Balanced, 0) \in Seq(Sessions \cup {0})
  BY <1>1 DEF StoreType
<1>4. stored' \in {stored, Balanced, Append(stored, 0), Append(Balanced, 0)} /\ open' \in BOOLEAN
  BY <1>2, EndCases, Zenon
<1> QED BY <1>1, <1>3, <1>4 DEF StoreType

LEMMA EndState ==
  ASSUME TypeOK, EndAppend
  PROVE  StateType'
<1>1. StateType /\ Len(Balanced) \in Nat /\ Len(Balanced) + 1 \in Nat
  BY TypeParts, BalancedType
<1>2. CASE state' = state
  BY <1>1, <1>2 DEF StateType
<1>3. CASE state' = Intrusion
  <2>1. PICK b \in BOOLEAN : b = (state.owner # None)
    OBVIOUS
  <2>2. state' = [known |-> TRUE, cursor |-> state.cursor + 1, materialized |-> TRUE,
                  owner |-> state.owner, intruded |-> b]
    BY <1>3, <2>1, Zenon DEF Intrusion
  <2> QED BY <1>1, <2>2 DEF StateType
<1> QED BY <1>1, <1>2, <1>3, ClaimType, EndCases, Zenon

LEMMA TypeStep ==
  ASSUME PreparedInv, [Next]_vars
  PROVE  TypeOK'
<1> USE TypeParts, TypePartsNext DEF PreparedInv
<1>1. ASSUME NEW c \in Clients, NEW w \in {"reserve", "inspect"}, Ask(c, w) PROVE TypeOK'
  <2>1. ClientType'
    BY <1>1 DEF Ask, ClientType, SessionType, Turns
  <2> QED BY <1>1, <2>1
     DEF Ask, StoreType, CacheType, SessionType, StateType, store, cache, session
<1>2. ASSUME NEW c \in Clients, Look(c) PROVE TypeOK'
  <2>1. StoreType' /\ StateType'
    BY <1>2 DEF Look, StoreType, StateType, store
  <2>2. CASE Turn(c, "idle", None) /\ UNCHANGED <<cache, session, chain>>
    <3>1. ClientType'
      BY <2>2, TurnType DEF Turns
    <3> QED BY <2>1, <2>2, <3>1 DEF cache, session, CacheType, SessionType
  <2>3. CASE entry # None /\ Turn(c, "loading", entry) /\ UNCHANGED <<cache, session, chain>>
    <3>1. ClientType'
      BY <2>3, TurnType DEF Turns, CacheType
    <3> QED BY <2>1, <2>3, <3>1 DEF cache, session, CacheType, SessionType
  <2>4. ASSUME NEW s \in Sessions, Fresh(s),
               entry' = s, phase' = [phase EXCEPT ![s] = "loading"],
               status' = [status EXCEPT ![s] = "unbuilt"],
               events' = [events EXCEPT ![s] = <<>>],
               base' = [base EXCEPT ![s] = 0], balanced' = [balanced EXCEPT ![s] = 0],
               chain' = Append(chain, Op("load", s, None, 0)),
               Turn(c, "loading", s), UNCHANGED <<entered, init, retirement>>
        PROVE  TypeOK'
    <3>1. ClientType'
      BY <2>4, TurnType, PreparedAssumption DEF Turns, None
    <3>2. CacheType'
      BY <2>4 DEF CacheType, Phases
    <3>3. SessionType'
      BY SMTT(30), <2>4 DEF SessionType, States
    <3>4. chain' \in Seq(Ops)
      BY <2>4, NewOp, ChainAppend
    <3> QED BY <2>1, <3>1, <3>2, <3>3, <3>4
  <2> QED BY <1>2, <2>2, <2>3, <2>4 DEF Look
<1>3. ASSUME NEW c \in Clients, Resume(c) PROVE TypeOK'
  <2>1. StoreType' /\ StateType' /\ SessionType' /\ on[c] \in Sessions
    BY <1>3 DEF Resume, StoreType, StateType, SessionType, ClientType, store, session
  <2>2. CASE Turn(c, "idle", None) /\ UNCHANGED <<cache, chain>>
    <3>1. ClientType'
      BY <2>2, TurnType DEF Turns
    <3> QED BY <2>1, <2>2, <3>1 DEF cache, CacheType
  <2>3. CASE /\ Turn(c, "checking", on[c])
             /\ chain' = Append(chain, Op("check", on[c], c, 0)) /\ UNCHANGED cache
    <3>1. ClientType'
      BY <2>1, <2>3, TurnType, PreparedAssumption DEF Turns, None
    <3>2. chain' \in Seq(Ops)
      BY <2>1, <2>3, NewOp, ChainAppend
    <3> QED BY <2>1, <2>3, <3>1, <3>2 DEF cache, CacheType
  <2>4. CASE Wait(c) /\ UNCHANGED <<cache, chain>>
    <3>1. ClientType'
      BY <2>4, TurnType DEF Turns, Wait, SessionType
    <3> QED BY <2>1, <2>4, <3>1 DEF cache, CacheType
  <2>5. CASE /\ phase[on[c]] = "ready" /\ entry = on[c]
             /\ phase' = [phase EXCEPT ![on[c]] = "committing"]
             /\ Turn(c, "committing", on[c])
             /\ chain' = Append(chain, Op("commit", on[c], c, 0)) /\ UNCHANGED entry
    <3>1. ClientType'
      BY <2>1, <2>5, TurnType, PreparedAssumption DEF Turns, None
    <3>2. chain' \in Seq(Ops)
      BY <2>1, <2>5, NewOp, ChainAppend
    <3>3. CacheType'
      BY <2>1, <2>5 DEF CacheType, Phases
    <3> QED BY <2>1, <3>1, <3>2, <3>3
  <2> QED BY <1>3, <2>2, <2>3, <2>4, <2>5 DEF Resume
<1>4. ASSUME NEW c \in Clients, GiveUp(c) PROVE TypeOK'
  <2>1. StoreType' /\ StateType' /\ SessionType'
    BY <1>4 DEF GiveUp, StoreType, StateType, SessionType, store, session
  <2>2. ClientType'
    BY <1>4, TurnType DEF GiveUp, Turns
  <2>3. chain' \in Seq(Ops)
    <3>1. ASSUME NEW i \in 2 .. Len(chain), chain' = RemoveAt(chain, i) PROVE chain' \in Seq(Ops)
      BY <3>1, ChainRemove
    <3> QED BY <1>4, <3>1 DEF GiveUp
  <2>4. CacheType'
    <3>1. CASE UNCHANGED cache
      BY <3>1 DEF cache, CacheType
    <3>2. CASE pc[c] = "committing" /\ RemoveEntry(on[c])
      BY <3>2, RemovedType DEF ClientType
    <3> QED BY <1>4, <3>1, <3>2 DEF GiveUp
  <2> QED BY <2>1, <2>2, <2>3, <2>4
<1>5. ASSUME NEW c \in Clients, Publish(c) PROVE TypeOK'
  <2>1. StoreType' /\ on[c] \in Sessions
    BY <1>5 DEF Publish, StoreType, ClientType, store
  <2>2. ClientType'
    BY <1>5, TurnType DEF Publish, Turns
  <2>3. CacheType' /\ StateType'
    BY <1>5, <2>1 DEF Publish, CacheType, StateType, Phases
  <2>4. SessionType'
    <3>1. Len(events[on[c]]) \in Nat
      BY <2>1 DEF SessionType
    <3> QED BY <1>5, <2>1, <3>1 DEF Publish, SessionType, States, Inits
  <2>5. chain' \in Seq(Ops)
    <3>1. Len(events[on[c]]) \in Nat
      BY <2>1 DEF SessionType
    <3> QED BY <1>5, <2>1, <3>1, NewOp, ChainAppend DEF Publish
  <2> QED BY <2>1, <2>2, <2>3, <2>4, <2>5
<1>6. ASSUME NEW c \in Clients, Release(c) PROVE TypeOK'
  <2>1. StoreType' /\ SessionType' /\ StateType' /\ chain' \in Seq(Ops) /\ on[c] \in Sessions
    BY <1>6 DEF Release, StoreType, SessionType, StateType, ClientType, store, session
  <2>2. ClientType'
    BY <1>6, TurnType DEF Release, Turns
  <2>3. CacheType'
    <3>1. CASE phase' = [phase EXCEPT ![on[c]] = "ready"] /\ UNCHANGED entry
      BY <3>1, <2>1 DEF CacheType, Phases
    <3>2. CASE RemoveEntry(on[c])
      BY <3>2, <2>1, RemovedType
    <3> QED BY <1>6, <3>1, <3>2 DEF Release
  <2> QED BY <2>1, <2>2, <2>3
<1>7. CASE Evict
  BY <1>7 DEF Evict, StoreType, CacheType, SessionType, StateType, ClientType, store, session, client
<1>8. ASSUME NEW s \in Sessions, NEW seed \in Seq(Sessions \cup {0}), Create(s, seed) PROVE TypeOK'
  <2>1. StoreType' /\ StateType' /\ ClientType'
    BY <1>8 DEF Create, StoreType, StateType, ClientType, store, client
  <2>2. CacheType' /\ SessionType'
    BY <1>8 DEF Create, CacheType, SessionType, Phases, States, Inits
  <2>3. chain' \in Seq(Ops)
    BY <1>8, NewOp, ChainAppend DEF Create
  <2> QED BY <2>1, <2>2, <2>3
<1>9. ASSUME NEW s \in Sessions, SessionAppend(s) PROVE TypeOK'
  <2>1. SessionType'
    BY SMTT(30), <1>9 DEF SessionAppend, SessionType
  <2> QED BY <1>9, <2>1
      DEF SessionAppend, StoreType, CacheType, StateType, ClientType, store, cache, client
<1>10. ASSUME NEW s \in Sessions, Write(s) \/ Forget(s) PROVE TypeOK'
  <2>1. chain' \in Seq(Ops)
    BY <1>10, NewOp, ChainAppend DEF Write, Forget
  <2> QED BY SMTT(30), <1>10, <2>1 DEF Write, Forget, StoreType, CacheType, SessionType, StateType,
         ClientType, store, cache, session, client
<1>11. ASSUME NEW s \in Sessions, Dispose(s) \/ RetirementFails(s) PROVE TypeOK'
  <2>1. SessionType'
    BY <1>11 DEF Dispose, RetirementFails, Retire, SessionType, States, None
  <2> QED BY <1>11, <2>1 DEF Dispose, RetirementFails, StoreType, CacheType, StateType,
         ClientType, store, cache, client
<1>14. CASE Load
  <2>1. chain[1].s \in Sessions /\ chain' \in Seq(Ops)
    BY <1>14, Runs DEF Load
  <2>2. StoreType' /\ StateType' /\ ClientType'
    BY <1>14 DEF Load, StoreType, StateType, ClientType, store, client
  <2>3. CacheType'
    BY <1>14, <2>1 DEF Load, CacheType, Phases, Without
  <2>4. SessionType'
    <3>1. CASE UNCHANGED session
      BY <3>1 DEF SessionType, session
    <3>2. Balanced \in Seq(Sessions \cup {0}) /\ Len(Balanced) \in Nat /\ Len(stored) \in Nat
      BY BalancedType
    <3>3. CASE /\ events' = [events EXCEPT ![chain[1].s] = Balanced]
               /\ base' = [base EXCEPT ![chain[1].s] = Len(stored)]
               /\ balanced' = [balanced EXCEPT ![chain[1].s] = Len(Balanced)]
               /\ status' = [status EXCEPT ![chain[1].s] = "cold"]
               /\ UNCHANGED <<entered, init, retirement>>
      BY <2>1, <3>2, <3>3 DEF SessionType, States
    <3> QED BY <1>14, <3>1, <3>3 DEF Load
  <2> QED BY <2>1, <2>2, <2>3, <2>4
<1>15. CASE Commit
  <2>1. chain[1].s \in Sessions /\ chain[1].c \in Clients /\ chain' \in Seq(Ops)
    BY <1>15, Runs DEF Commit
  <2>2. SessionType'
    BY <1>15 DEF Commit, SessionType, session
  <2>3. StoreType'
    <3>1. 0 \in Sessions \cup {0}
      OBVIOUS
    <3>2. Append(stored, 0) \in Seq(Sessions \cup {0})
      BY <3>1 DEF StoreType
    <3>3. CASE UNCHANGED store
      BY <3>3 DEF StoreType, store
    <3>4. CASE stored' = Append(stored, 0) /\ open' = FALSE
      BY <3>2, <3>4 DEF StoreType
    <3> QED BY <1>15, <3>3, <3>4 DEF Commit, store
  <2>4. StateType'
    <3>1. CASE UNCHANGED state
      BY <3>1 DEF StateType
    <3>2. CASE state' = Claim(balanced[chain[1].s])
      BY <2>1, <3>2 DEF Claim, StateType, SessionType, None
    <3> QED BY <1>15, <3>1, <3>2 DEF Commit
  <2>5. ClientType'
    BY <1>15, <2>1, TurnType, PreparedAssumption DEF Commit, Wait, Turns, SessionType, None
  <2>6. CacheType'
    <3>1. CASE RemoveEntry(chain[1].s)
      BY <2>1, <3>1, RemovedType
    <3>2. CASE UNCHANGED <<entry, phase>>
      BY <3>2 DEF CacheType
    <3>3. CASE phase' = [phase EXCEPT ![chain[1].s] = "reserved"] /\ UNCHANGED entry
      BY <2>1, <3>3 DEF CacheType, Phases
    <3> QED BY <1>15, <3>1, <3>2, <3>3 DEF Commit
  <2> QED BY <2>1, <2>2, <2>3, <2>4, <2>5, <2>6
<1>16. CASE CommitGivenUp
  <2>1. chain[1].s \in Sessions /\ chain[1].c \in Clients /\ chain' \in Seq(Ops)
    BY <1>16, Runs DEF CommitGivenUp
  <2>2. SessionType' /\ StoreType'
    BY <1>16 DEF CommitGivenUp, SessionType, StoreType, session, store
  <2>3. StateType' /\ CacheType'
    BY <1>16, <2>1 DEF CommitGivenUp, Claim, StateType, SessionType, None, CacheType, Phases,
       GivenBack
  <2>4. ClientType'
    BY <1>16, <2>1, TurnType DEF CommitGivenUp, Turns
  <2> QED BY <2>1, <2>2, <2>3, <2>4
<1>17. CASE Check
  <2>1. chain[1].s \in Sessions /\ chain[1].c \in Clients /\ chain' \in Seq(Ops)
    BY <1>17, Runs DEF Check
  <2>2. SessionType' /\ StoreType' /\ StateType'
    BY <1>17 DEF Check, SessionType, StoreType, StateType, session, store
  <2>3. ClientType'
    BY <1>17, <2>1, TurnType DEF Check, Wait, Turns, SessionType
  <2>4. CacheType'
    <3>1. CASE RemoveEntry(chain[1].s)
      BY <2>1, <3>1, RemovedType
    <3>2. CASE UNCHANGED <<entry, phase>>
      BY <3>2 DEF CacheType
    <3> QED BY <1>17, <3>1, <3>2 DEF Check, cache
  <2> QED BY <2>1, <2>2, <2>3, <2>4
<1>18. CASE AskAppend
  <2>1. ASSUME NEW n \in Nat, chain' = Append(chain, Op("append", None, None, n))
        PROVE  chain' \in Seq(Ops)
    <3>1. Op("append", None, None, n) \in Ops
      BY DEF Op, Ops
    <3> QED BY <2>1, <3>1, ChainAppend
  <2>2. chain' \in Seq(Ops)
    BY <1>18, <2>1, BalancedType DEF AskAppend
  <2> QED BY <1>18, <2>2 DEF AskAppend, StoreType, CacheType, SessionType, StateType,
         ClientType, store, cache, session, client
<1>19. CASE BeginAppend
  <2>1. chain' \in Seq(Ops)
    <3>1. CASE Done
      BY <1>19, <3>1, Runs DEF BeginAppend
    <3>2. CASE chain' = [chain EXCEPT ![1].kind = "appending"]
      BY <1>19, <3>2, Starts DEF BeginAppend
    <3> QED BY <1>19, <3>1, <3>2 DEF BeginAppend
  <2>2. CacheType'
    <3>1. CASE entry # None /\ RemoveEntry(entry)
      BY <3>1, RemovedType DEF CacheType
    <3>2. CASE UNCHANGED <<entry, phase>>
      BY <3>2 DEF CacheType
    <3> QED BY <1>19, <3>1, <3>2 DEF BeginAppend
  <2> QED BY <1>19, <2>1, <2>2 DEF BeginAppend, StoreType, SessionType, StateType,
         ClientType, store, session, client
<1>20. CASE EndAppend
  <2>1. chain' \in Seq(Ops)
    BY <1>20, Runs DEF EndAppend
  <2>2. StoreType'
    BY <1>20, EndStore
  <2>3. StateType'
    BY <1>20, EndState
  <2>4. CacheType'
    <3>1. CASE entry # None /\ RemoveEntry(entry)
      BY <3>1, RemovedType DEF CacheType
    <3>2. CASE UNCHANGED <<entry, phase>>
      BY <3>2 DEF CacheType
    <3> QED BY <1>20, <3>1, <3>2 DEF EndAppend
  <2> QED BY <1>20, <2>1, <2>2, <2>3, <2>4 DEF EndAppend, SessionType, ClientType, session, client
<1>21. CASE WriteOp
  <2>1. chain[1].s \in Sessions /\ chain' \in Seq(Ops)
    BY <1>21, Runs DEF WriteOp
  <2>2. SessionType' /\ ClientType'
    BY <1>21, <2>1 DEF WriteOp, Retire, SessionType, ClientType, client, States, None
  <2>3. StoreType' /\ StateType' /\ CacheType'
    <3> DEFINE s == chain[1].s
               batch == SubSeq(events[s], state.cursor + 1, Len(events[s]))
    <3>1. CASE Stored(batch, state.cursor, state.owner)
      <4>1. Len(events[s]) \in Nat /\ state.cursor \in Nat /\ state.owner \in Sessions \cup {None}
        BY <2>1 DEF SessionType, StateType
      <4>3. Len(events[s]) <= Len(events[s])
        BY <4>1
      <4>2. batch \in Seq(Sessions \cup {0})
        BY <2>1, <4>1, <4>3, SuffixType
      <4> QED BY <3>1, <4>1, <4>2, StoredType
    <3>2. CASE UNCHANGED <<store, entry, phase, state>>
      BY <3>2 DEF StoreType, StateType, CacheType, store
    <3> QED BY <1>21, <3>1, <3>2 DEF WriteOp
  <2> QED BY <2>1, <2>2, <2>3
<1>22. CASE Created
  <2> DEFINE cursor == IF state.known /\ state.owner = None THEN state.cursor ELSE Len(stored)
  <2>1. chain[1].s \in Sessions /\ chain' \in Seq(Ops) /\ Running("created")
    BY <1>22, Runs DEF Created
  <2>2. cursor \in Nat
    BY BalancedType DEF StateType
  <2>3. ClientType'
    BY <1>22 DEF Created, ClientType, client
  <2>4. StoreType' /\ StateType' /\ CacheType' /\ init' \in [Sessions -> Inits]
    <3>1. CASE Own(chain[1].s, cursor, chain[1].n)
      BY <2>1, <2>2, <3>1, OwnType
    <3>2. CASE Refuse(chain[1].s)
      BY <3>2 DEF Refuse, StoreType, StateType, CacheType, SessionType, Inits, store
    <3> QED BY <1>22, <3>1, <3>2 DEF Created
  <2> QED BY <1>22, <2>1, <2>3, <2>4 DEF Created, SessionType
<1>23. CASE Suffix
  <2>1. chain' \in Seq(Ops) /\ Running("suffix")
    BY <1>23, Runs DEF Suffix
  <2>2. StoreType' /\ StateType' /\ CacheType' /\ init' \in [Sessions -> Inits]
    <3>1. state.cursor \in Nat
      BY DEF StateType
    <3>2. CASE Own(chain[1].s, state.cursor, chain[1].n)
      BY <2>1, <3>1, <3>2, OwnType
    <3>3. CASE Refuse(chain[1].s)
      BY <3>3 DEF Refuse, StoreType, StateType, CacheType, SessionType, Inits, store
    <3> QED BY <1>23, <3>2, <3>3 DEF Suffix
  <2> QED BY <1>23, <2>1, <2>2 DEF Suffix, SessionType, ClientType, client
<1>24. CASE Forgotten
  <2>1. chain[1].s \in Sessions /\ chain' \in Seq(Ops)
    BY <1>24, Runs DEF Forgotten
  <2>2. SessionType' /\ StateType'
    BY <1>24, <2>1 DEF Forgotten, Retire, SessionType, StateType, States, Unknown, None
  <2>3. ClientType'
    BY <1>24, <2>1 DEF Forgotten, ClientType, Turns, None
  <2> QED BY <1>24, <2>1, <2>2, <2>3 DEF Forgotten, StoreType, CacheType, store, cache
<1>25. CASE UNCHANGED vars
  BY <1>25 DEF vars, store, cache, session, client, StoreType, CacheType, SessionType,
     StateType, ClientType
<1> QED
  <2>1. \A s \in Sessions : <<s>> \in Seq(Sessions \cup {0})
    OBVIOUS
  <2> QED BY <1>1, <1>2, <1>3, <1>4, <1>5, <1>6, <1>7, <1>8, <1>9, <1>10, <1>11, <1>14, <1>15,
       <1>16, <1>17, <1>18, <1>19, <1>20, <1>21, <1>22, <1>23, <1>24, <1>25, <2>1
       DEF Next, Arrival, Operation, StoreType


-----------------------------------------------------------------------------
(***************************************************************************)
(* The queue.                                                              *)
(***************************************************************************)

(* The steps after which everything that was queued still is. *)
Aside ==
  \/ Arrival \/ UNCHANGED vars
  \/ \E c \in Clients : Look(c) \/ Resume(c) \/ Publish(c) \/ Release(c)
  \/ \E s \in Sessions :
       SessionAppend(s) \/ Write(s) \/ Dispose(s) \/ Forget(s) \/ RetirementFails(s)

LEMMA NextCases ==
  [Next]_vars <=> Aside \/ Operation \/ \E c \in Clients : GiveUp(c)
BY DEF Next, Aside

(* What is queued stays fit for its turn, whatever happens meanwhile. *)
LEMMA FitOf ==
  ASSUME PreparedInv, NEW i \in DOMAIN chain, NEW o, o = chain[i]
  PROVE  /\ chain \in Seq(Ops) /\ o \in Ops /\ Fit(o)
         /\ o.kind \notin {"append", "appending"} => o.s \in Sessions /\ o.s # None
         /\ o.kind \in {"check", "commit"} => o.c \in Clients /\ o.c # None
         /\ o.kind \notin {"check", "commit"} => o.c = None
         /\ CacheType /\ SessionType /\ StateType /\ ClientType
<1>1. chain \in Seq(Ops) /\ o \in Ops /\ Fit(o)
  BY TypeParts DEF PreparedInv, Queue
<1> QED BY <1>1, OpTypes, PreparedAssumption, TypeParts DEF None, PreparedInv

(* What is queued stays fit for its turn, whatever happens meanwhile. *)
LEMMA FitAside ==
  ASSUME PreparedInv, Aside, NEW i \in DOMAIN chain, NEW o, o = chain[i]
  PROVE  Fit(o)'
<1>0. /\ chain \in Seq(Ops) /\ o \in Ops /\ Fit(o)
      /\ o.kind \notin {"append", "appending"} => o.s \in Sessions /\ o.s # None
      /\ o.kind \in {"check", "commit"} => o.c \in Clients /\ o.c # None
      /\ o.kind \notin {"check", "commit"} => o.c = None
      /\ CacheType /\ SessionType /\ StateType /\ ClientType
  BY FitOf
<1> USE <1>0 DEF Fit, HasWork
<1>101. ASSUME NEW c \in Clients, NEW w \in {"reserve", "inspect"}, Ask(c, w) PROVE Fit(o)'
  BY <1>101 DEF Ask, cache, session, ClientType
<1>102. ASSUME NEW c \in Clients, Look(c) PROVE Fit(o)'
  <2>1. CASE UNCHANGED <<cache, session, chain>>
    BY <1>102, <2>1 DEF Look, Turn, cache, session, ClientType
  <2>2. ASSUME NEW s \in Sessions, Fresh(s),
               phase' = [phase EXCEPT ![s] = "loading"],
               status' = [status EXCEPT ![s] = "unbuilt"],
               events' = [events EXCEPT ![s] = <<>>],
               Turn(c, "loading", s), UNCHANGED <<entered, init, retirement>>
        PROVE  Fit(o)'
    <3>1. o.s # s
      BY <2>2 DEF Fresh, Free
    <3>2. o.kind \in {"check", "commit"} => pc'[o.c] = pc[o.c] /\ on'[o.c] = on[o.c]
      BY ZenonT(60), <1>102, <2>2 DEF Look, Turn, ClientType
    <3>3. o.kind \notin {"append", "appending", "check", "commit"} =>
            /\ phase'[o.s] = phase[o.s] /\ status'[o.s] = status[o.s]
            /\ events'[o.s] = events[o.s]
      BY <2>2, <3>1 DEF CacheType, SessionType
    <3>4. state' = state /\ init' = init /\ entered' = entered
      BY <1>102, <2>2 DEF Look
    <3> QED BY <3>2, <3>3, <3>4
  <2> QED BY <1>102, <2>1, <2>2 DEF Look
<1>103. ASSUME NEW c \in Clients, Resume(c) PROVE Fit(o)'
  BY <1>103 DEF Resume, Turn, Wait, cache, session, ClientType, CacheType
<1>105. ASSUME NEW c \in Clients, Publish(c) PROVE Fit(o)'
  <2>1. entry = on[c] /\ entry \in Sessions /\ status[entry] = "cold" /\ phase[entry] = "reserved"
        /\ state.owner = None
    BY <1>105 DEF Publish, Publishable, PreparedInv, Clerks, Clerk, Cached, ClientType
  <2>2. o.kind \notin {"append", "appending", "check", "commit"} => o.s # entry
    BY <2>1 DEF Ops
  <2>3. o.kind \notin {"suffix", "write"}
    BY <2>1
  <2>4. o.kind \in {"check", "commit"} => pc'[o.c] = pc[o.c] /\ on'[o.c] = on[o.c]
    BY <1>105, <2>1 DEF Publish, Turn, ClientType
  <2>5. o.kind \notin {"append", "appending", "check", "commit"} =>
          /\ phase'[o.s] = phase[o.s] /\ status'[o.s] = status[o.s]
          /\ init'[o.s] = init[o.s] /\ entered'[o.s] = entered[o.s]
    BY SMTT(30), <1>105, <2>1, <2>2 DEF Publish, CacheType, SessionType
  <2>6. state'.owner = entry
    BY <1>105, <2>1 DEF Publish, StateType
  <2> QED BY <2>2, <2>3, <2>4, <2>5, <2>6
<1>106. ASSUME NEW c \in Clients, Release(c) PROVE Fit(o)'
  <2>1. phase[on[c]] = "reserved" /\ on[c] \in Sessions
    BY <1>106 DEF Release, PreparedInv, Clerks, Clerk, ClientType
  <2> QED BY <1>106, <2>1 DEF Release, Turn, RemoveEntry, session, ClientType, CacheType
<1>107. CASE Evict
  BY <1>107 DEF Evict, session, client
<1>108. ASSUME NEW s \in Sessions, NEW seed, Create(s, seed) PROVE Fit(o)'
  <2>1. o.s # s
    BY <1>108 DEF Create, Fresh, Free
  <2> QED BY <1>108, <2>1 DEF Create, client, SessionType, CacheType
<1>109. ASSUME NEW s \in Sessions, SessionAppend(s) PROVE Fit(o)'
  <2>1. o.kind = "forget" => o.s # s
    BY <1>109 DEF SessionAppend, Attached, PreparedInv, Clerks, Clerk, Cached
  <2> QED BY <1>109, <2>1 DEF SessionAppend, SessionType, cache, client
<1>110. ASSUME NEW s \in Sessions, Write(s) \/ Forget(s) PROVE Fit(o)'
  BY <1>110 DEF Write, Forget, cache, session, client
<1>111. ASSUME NEW s \in Sessions, Dispose(s) \/ RetirementFails(s) PROVE Fit(o)'
  BY SMTT(30), <1>111 DEF Dispose, RetirementFails, Retire, cache, client, SessionType
<1>18. CASE AskAppend
  BY <1>18 DEF AskAppend, cache, session, client
<1>25. CASE UNCHANGED vars
  BY <1>25 DEF vars, store, cache, session, client
<1> QED BY <1>101, <1>102, <1>103, <1>105, <1>106, <1>107, <1>108, <1>109, <1>110, <1>111,
       <1>18, <1>25 DEF Aside, Arrival

LEMMA FitGiveUp ==
  ASSUME PreparedInv, NEW i \in DOMAIN chain, NEW o, o = chain[i],
         NEW c \in Clients, GiveUp(c), o.c # c
  PROVE  Fit(o)'
<1>0. /\ chain \in Seq(Ops) /\ o \in Ops /\ Fit(o)
      /\ o.kind \notin {"append", "appending"} => o.s \in Sessions /\ o.s # None
      /\ o.kind \in {"check", "commit"} => o.c \in Clients /\ o.c # None
      /\ o.kind \notin {"check", "commit"} => o.c = None
      /\ CacheType /\ SessionType /\ StateType /\ ClientType
  BY FitOf
<1> USE <1>0 DEF Fit, HasWork
<1>1. o.kind \in {"check", "commit"} => pc'[o.c] = pc[o.c] /\ on'[o.c] = on[o.c]
  BY DEF GiveUp, Turn, ClientType
<1>2. o.kind = "load" => phase'[o.s] = "loading"
  BY DEF GiveUp, RemoveEntry, CacheType, cache
<1> QED BY <1>1, <1>2 DEF GiveUp, session

LEMMA FitOperation ==
  ASSUME PreparedInv, Operation, NEW i \in DOMAIN chain, i # 1, NEW o, o = chain[i]
  PROVE  Fit(o)'
<1>0. /\ chain \in Seq(Ops) /\ o \in Ops /\ Fit(o)
      /\ o.kind \notin {"append", "appending"} => o.s \in Sessions /\ o.s # None
      /\ o.kind \in {"check", "commit"} => o.c \in Clients /\ o.c # None
      /\ o.kind \notin {"check", "commit"} => o.c = None
      /\ CacheType /\ SessionType /\ StateType /\ ClientType
  BY FitOf
<1> USE <1>0 DEF Fit, HasWork
<1>1. i # 1 /\ ~Same(o, chain[1]) /\ ~Same(chain[1], o)
  <2>1. 1 \in DOMAIN chain
    BY FitOf
  <2> QED BY <2>1 DEF PreparedInv, Queue
<1>2. ASSUME NEW kind, Running(kind)
      PROVE  /\ chain[1].kind = kind /\ Fit(chain[1])
             /\ kind \notin {"append", "appending", "check", "commit"} =>
                  /\ chain[1].s \in Sessions /\ chain[1].s # None
                  /\ o.kind \notin {"append", "appending", "check", "commit"} => o.s # chain[1].s
             /\ kind \in {"check", "commit"} =>
                  /\ chain[1].s \in Sessions /\ chain[1].c \in Clients /\ on[chain[1].c] = chain[1].s
                  /\ o.c # chain[1].c
  <2>1. 1 \in DOMAIN chain /\ chain[1].kind = kind /\ chain[1] \in Ops
    BY <1>2, ChainHead DEF PreparedInv
  <2>2. Fit(chain[1])
    BY <2>1 DEF PreparedInv, Queue
  <2>3. kind \notin {"append", "appending", "check", "commit"} =>
             chain[1].s \in Sessions /\ chain[1].s # None /\ chain[1].c = None
    BY <2>1, OpTypes, PreparedAssumption DEF None
  <2>4. kind \in {"check", "commit"} =>
          chain[1].s \in Sessions /\ chain[1].c \in Clients /\ chain[1].c # None
    BY <2>1, OpTypes, PreparedAssumption DEF None
  <2> QED BY <1>1, <2>1, <2>2, <2>3, <2>4 DEF Same
<1>14. CASE Load
  <2>1. Running("load")
    BY <1>14 DEF Load
  <2>2. chain[1].s \in Sessions /\ status[chain[1].s] = "unbuilt"
        /\ (o.kind \notin {"append", "appending", "check", "commit"} => o.s # chain[1].s)
    BY <1>2, <2>1
  <2>3. o.kind \notin {"append", "appending", "check", "commit"} =>
          /\ phase'[o.s] = phase[o.s] /\ status'[o.s] = status[o.s]
          /\ events'[o.s] = events[o.s] /\ init'[o.s] = init[o.s] /\ entered' = entered
    BY <1>14, <2>2 DEF Load, session, CacheType, SessionType
  <2>4. UNCHANGED <<pc, on, state>>
    BY <1>14 DEF Load, client
  <2> QED BY <2>3, <2>4 DEF Ops
<1>15. CASE Commit \/ CommitGivenUp
  <2>1. Running("commit")
    BY <1>15 DEF Commit, CommitGivenUp
  <2>2. entry = chain[1].s => phase[entry] = "committing"
    BY <1>2, <2>1 DEF PreparedInv, Clerks, Clerk
  <2>3. state' = state \/ (state.owner = None /\ state'.owner = None)
    BY SMTT(30), <1>15 DEF Commit, CommitGivenUp, Claim
  <2>4. o.kind \in {"check", "commit"} => pc'[o.c] = pc[o.c] /\ on'[o.c] = on[o.c]
    BY SMTT(30), <1>2, <1>15, <2>1 DEF Commit, CommitGivenUp, Turn, Wait, ClientType
  <2>5. o.kind = "load" => phase'[o.s] = "loading"
    BY <1>2, <1>15, <2>1, <2>2 DEF Commit, CommitGivenUp, RemoveEntry, CacheType
  <2> QED BY <1>15, <2>3, <2>4, <2>5 DEF Commit, CommitGivenUp, session
<1>17. CASE Check
  <2>1. Running("check")
    BY <1>17 DEF Check
  <2>4. o.kind \in {"check", "commit"} => pc'[o.c] = pc[o.c] /\ on'[o.c] = on[o.c]
    BY <1>2, <1>17, <2>1 DEF Check, Turn, Wait, ClientType
  <2>5. o.kind = "load" => phase'[o.s] = "loading"
    BY <1>2, <1>17, <2>1 DEF Check, RemoveEntry, CacheType, cache
  <2> QED BY <1>17, <2>4, <2>5 DEF Check, session
<1>19. CASE BeginAppend
  BY <1>19 DEF BeginAppend, RemoveEntry, CacheType, session, client
<1>20. CASE EndAppend
  <2>1. state' = state \/ state' = Intrusion \/ (~state.known /\ \E n : state' = Claim(n))
    BY <1>20, EndCases, Zenon DEF PreparedInv
  <2>2. ~state.known => state.owner = None
    BY DEF PreparedInv, Owning
  <2>3. \/ state' = state
        \/ state.owner = None /\ state'.owner = None
        \/ state'.owner = state.owner /\ state'.materialized /\ state'.cursor = state.cursor + 1
    BY <2>1, <2>2 DEF Claim, Intrusion
  <2>5. o.kind = "load" => phase'[o.s] = "loading"
    BY <1>20 DEF EndAppend, RemoveEntry, CacheType
  <2>6. UNCHANGED <<session, client>>
    BY <1>20 DEF EndAppend
  <2>7. state.cursor \in Nat /\ (o.kind = "forget" => Len(events[o.s]) \in Nat /\ entered[o.s] \in Nat)
    BY SMTT(30) DEF StateType, SessionType
  <2>8. o.kind = "forget" => ~HasWork(o.s)'
    BY <2>3, <2>6, <2>7 DEF session
  <2>9. UNCHANGED <<status, init, entered, pc, on>>
    BY <2>6 DEF session, client
  <2>10. o.kind \in {"suffix", "write"} => state'.owner = o.s /\ (o.kind = "suffix" => state'.materialized)
    BY <2>3
  <2> QED BY <2>5, <2>8, <2>9, <2>10
<1>21. CASE WriteOp
  <2>1. Running("write") /\ chain[1].s = state.owner
    BY <1>2, <1>21 DEF WriteOp
  <2>2. o.kind \notin {"write", "append", "appending", "check", "commit"} => o.s # state.owner
    BY <1>2, <2>1
  <2>3. o.kind = "load" => phase'[o.s] = "loading"
    BY <1>21 DEF WriteOp, Stored, RemoveEntry, CacheType
  <2>4. state' = state \/ (state'.owner = state.owner /\ state'.materialized)
    BY <1>21 DEF WriteOp, Stored, Owned
  <2>5. o.kind # "write"
    BY <1>2, <2>1
  <2>6. o.kind \notin {"append", "appending", "check", "commit"} => status'[o.s] = status[o.s]
    BY <1>2, <1>21, <2>1 DEF WriteOp, Retire, SessionType
  <2> QED BY <1>21, <2>2, <2>3, <2>4, <2>5, <2>6 DEF WriteOp, client
<1>22. CASE Created
  <2> DEFINE cursor == IF state.known /\ state.owner = None THEN state.cursor ELSE Len(stored)
  <2>1. Running("created") /\ UNCHANGED <<status, events, entered, client>>
    BY <1>22 DEF Created
  <2>2. o.kind \notin {"append", "appending", "check", "commit"} => init'[o.s] = init[o.s]
    BY <1>2, <1>22, <2>1 DEF Created, Own, Refuse, SessionType
  <2>3. o.kind = "load" => phase'[o.s] = "loading"
    BY <1>22 DEF Created, Own, Refuse, Stored, RemoveEntry, CacheType
  <2>4. CASE Refuse(chain[1].s)
    BY <2>1, <2>2, <2>3, <2>4 DEF Refuse, client
  <2>5. CASE state.owner = None /\ Own(chain[1].s, cursor, chain[1].n)
    <3>1. state'.owner = chain[1].s
      BY <2>5 DEF Own, Stored, Owned
    <3> QED BY <1>2, <2>1, <2>2, <2>3, <2>5, <3>1 DEF client
  <2>6. CASE Superseded(state.owner) /\ Own(chain[1].s, cursor, chain[1].n)
    <3>1. state'.owner = chain[1].s
      BY <2>6 DEF Own, Stored, Owned
    <3>2. ~state.materialized /\ ~HasWork(state.owner)
      BY <2>6 DEF Superseded
    <3>3. o.kind = "write" => o.s # state.owner
      BY <2>6 DEF Superseded, Queued
    <3> QED BY SMTT(30), <1>2, <2>1, <2>2, <2>3, <3>1, <3>2, <3>3 DEF client
  <2> QED BY <1>22, <2>4, <2>5, <2>6 DEF Created
<1>23. CASE Suffix
  <2>1. Running("suffix") /\ UNCHANGED <<status, events, entered, client>>
    BY <1>23 DEF Suffix
  <2>2. o.kind \notin {"append", "appending", "check", "commit"} => init'[o.s] = init[o.s]
    <3>1. \E x \in {"failed", "ready"} : init' = [init EXCEPT ![chain[1].s] = x]
      BY <1>23, OwnInit, Zenon DEF Suffix, Refuse
    <3> QED BY <1>2, <2>1, <3>1 DEF SessionType
  <2>3. o.kind = "load" => phase'[o.s] = "loading"
    BY <1>23 DEF Suffix, Own, Refuse, Stored, RemoveEntry, CacheType
  <2>4. state'.owner = chain[1].s /\ state.owner = chain[1].s
    <3>1. state.owner = chain[1].s
      BY <1>2, <2>1
    <3>2. CASE Refuse(chain[1].s)
      BY <3>1, <3>2 DEF Refuse
    <3>3. CASE Own(chain[1].s, state.cursor, chain[1].n)
      BY <3>1, <3>3 DEF Own, Stored, Owned
    <3> QED BY <1>23, <3>2, <3>3 DEF Suffix
  <2>5. o.kind \notin {"append", "appending", "check", "commit"} => o.s # state.owner
    BY <1>2, <2>1, <2>4
  <2>6. o.kind \notin {"suffix", "write"}
    BY <2>5
  <2>7. o.kind = "forget" => ~HasWork(o.s)'
    BY <2>4, <2>5
  <2>8. UNCHANGED <<status, entered, pc, on>>
    BY <2>1 DEF client
  <2> QED BY <2>2, <2>3, <2>6, <2>7, <2>8
<1>24. CASE Forgotten
  <2>1. Running("forget")
    BY <1>24 DEF Forgotten
  <2>2. o.kind \notin {"append", "appending", "check", "commit"} => status'[o.s] = status[o.s]
    <3>1. o.kind \notin {"append", "appending", "check", "commit"} => o.s # chain[1].s
      BY <1>2, <2>1
    <3>2. status' = [status EXCEPT ![chain[1].s] = "cold"]
      BY <1>24 DEF Forgotten, Retire
    <3> QED BY <3>1, <3>2 DEF SessionType
  <2>3. o.kind \in {"check", "commit"} => on'[o.c] = on[o.c]
    BY <1>24 DEF Forgotten, ClientType
  <2>4. state' = state \/ (state.owner = chain[1].s /\ state'.owner = None)
    BY <1>24 DEF Forgotten, Unknown
  <2> QED BY <1>2, <1>24, <2>1, <2>2, <2>3, <2>4 DEF Forgotten, cache
<1> QED BY <1>14, <1>15, <1>17, <1>19, <1>20, <1>21, <1>22, <1>23, <1>24 DEF Operation

StaysFit(i) == \A o \in Ops : o = chain[i] => Fit(o)'

LEMMA FitsNext ==
  ASSUME chain' \in Seq(Ops),
         \A i \in DOMAIN chain' : \A o \in Ops : o = chain'[i] =>
           Fit(o)' /\ (o.kind = "appending" => i = 1),
         \A i, j \in DOMAIN chain' : Same(chain'[i], chain'[j]) => i = j
  PROVE  Queue'
<1>1. ASSUME NEW i \in DOMAIN chain'
      PROVE  (Fit(chain[i]))' /\ (chain'[i].kind = "appending" => i = 1)
  <2>1. PICK o \in Ops : o = chain'[i]
    OBVIOUS
  <2>2. Fit(o)' /\ (o.kind = "appending" => i = 1)
    BY <2>1
  <2> QED BY <2>1, <2>2 DEF Fit, HasWork
<1>2. \A i, j \in DOMAIN chain' : (Same(chain[i], chain[j]))' => i = j
  BY DEF Same
<1> QED BY <1>1, <1>2 DEF Queue

LEMMA QueueDrop ==
  ASSUME PreparedInv, NEW r \in DOMAIN chain, Drops(r), chain' \in Seq(Ops),
         \A i \in DOMAIN chain : i # r => StaysFit(i)
  PROVE  Queue'
<1> USE DEF PreparedInv, Drops
<1>1. ASSUME NEW i \in DOMAIN chain'
      PROVE  Old(r, i) \in DOMAIN chain /\ Old(r, i) # r /\ chain'[i] = chain[Old(r, i)]
  BY DEF Old
<1>2. ASSUME NEW i \in DOMAIN chain', NEW o \in Ops, o = chain'[i]
      PROVE  Fit(o)' /\ (o.kind = "appending" => i = 1)
  <2>1. Fit(o)'
    BY <1>1, <1>2 DEF StaysFit
  <2>2. o.kind = "appending" => Old(r, i) = 1
    BY <1>1, <1>2 DEF Queue
  <2> QED BY <2>1, <2>2 DEF Old
<1>3. ASSUME NEW i \in DOMAIN chain', NEW j \in DOMAIN chain', Same(chain'[i], chain'[j])
      PROVE  i = j
  <2>1. Old(r, i) = Old(r, j)
    BY <1>1, <1>3 DEF Queue
  <2> QED BY <2>1 DEF Old
<1> QED BY <1>2, <1>3, FitsNext

LEMMA QueueAdd ==
  ASSUME PreparedInv, NEW new \in Ops, Adds(new), chain' \in Seq(Ops), new.kind # "appending",
         Fit(new)', \A i \in DOMAIN chain : StaysFit(i) /\ ~Same(chain[i], new)
  PROVE  Queue'
<1> USE DEF PreparedInv, Adds
<1>1. ASSUME NEW i \in DOMAIN chain'
      PROVE  (i \in DOMAIN chain /\ chain'[i] = chain[i]) \/ (i = Len(chain) + 1 /\ chain'[i] = new)
  OBVIOUS
<1>2. ASSUME NEW i \in DOMAIN chain', NEW o \in Ops, o = chain'[i]
      PROVE  Fit(o)' /\ (o.kind = "appending" => i = 1)
  <2>1. CASE i \in DOMAIN chain /\ chain'[i] = chain[i]
    BY <1>2, <2>1 DEF StaysFit, Queue
  <2>2. CASE chain'[i] = new
    BY <1>2, <2>2
  <2> QED BY <1>1, <2>1, <2>2
<1>3. \A o, q : Same(o, q) => Same(q, o)
  BY DEF Same
<1>4. ASSUME NEW i \in DOMAIN chain', NEW j \in DOMAIN chain', Same(chain'[i], chain'[j])
      PROVE  i = j
  BY <1>1, <1>3, <1>4 DEF Queue
<1> QED BY <1>2, <1>4, FitsNext

LEMMA QueueSame ==
  ASSUME PreparedInv, chain' = chain, \A i \in DOMAIN chain : StaysFit(i)
  PROVE  Queue'
<1> USE DEF PreparedInv
<1>1. chain \in Seq(Ops)
  BY TypeParts
<1>2. ASSUME NEW i \in DOMAIN chain', NEW o \in Ops, o = chain'[i]
      PROVE  Fit(o)' /\ (o.kind = "appending" => i = 1)
  BY <1>2 DEF StaysFit, Queue
<1>3. \A i, j \in DOMAIN chain' : Same(chain'[i], chain'[j]) => i = j
  BY DEF Queue
<1> QED BY <1>1, <1>2, <1>3, FitsNext


LEMMA QueueStep ==
  ASSUME PreparedInv, [Next]_vars
  PROVE  Queue'
<1> USE DEF PreparedInv
<1>0. CacheType /\ SessionType /\ StateType /\ ClientType /\ chain \in Seq(Ops)
  BY TypeParts
<1>o. ASSUME NEW i \in DOMAIN chain
      PROVE  /\ chain[i] \in Ops /\ Fit(chain[i])
             /\ chain[i].kind \notin {"append", "appending"} => chain[i].s \in Sessions
             /\ chain[i].kind \in {"check", "commit"} => chain[i].c \in Clients
             /\ chain[i].kind \notin {"check", "commit"} => chain[i].c = None
  BY FitOf
<1>1. CASE Operation
  <2>1. \A i \in DOMAIN chain : i # 1 => StaysFit(i)
    BY <1>1, FitOperation DEF StaysFit
  <2>2. CASE Drops(1) /\ chain' \in Seq(Ops)
    <3>1. 1 \in DOMAIN chain
      BY <2>2 DEF Drops
    <3> QED BY <2>1, <2>2, <3>1, QueueDrop
  <2>3. CASE Running("append") /\ chain' = [chain EXCEPT ![1].kind = "appending"]
    <3>1. /\ chain' \in Seq(Ops) /\ DOMAIN chain' = DOMAIN chain
          /\ \A i \in DOMAIN chain : i # 1 => chain'[i] = chain[i]
          /\ chain'[1].kind = "appending" /\ chain'[1].c = None /\ chain'[1].s = None
          /\ chain[1].c = None /\ chain[1].s = None
      BY <2>3, Starts
    <3>2. ASSUME NEW i \in DOMAIN chain', NEW o \in Ops, o = chain'[i]
          PROVE  Fit(o)' /\ (o.kind = "appending" => i = 1)
      <4>1. CASE i = 1
        BY <3>1, <3>2, <4>1 DEF Fit
      <4>2. CASE i # 1
        BY <2>1, <3>1, <3>2, <4>2 DEF StaysFit, Queue
      <4> QED BY <4>1, <4>2
    <3>3. ASSUME NEW i \in DOMAIN chain', NEW j \in DOMAIN chain', Same(chain'[i], chain'[j])
          PROVE  i = j
      <4>1. chain'[i].c = chain[i].c /\ chain'[i].s = chain[i].s
            /\ chain'[j].c = chain[j].c /\ chain'[j].s = chain[j].s
        BY <3>1
      <4>2. Same(chain[i], chain[j]) /\ i \in DOMAIN chain /\ j \in DOMAIN chain
        BY <3>1, <3>3, <4>1 DEF Same
      <4> QED BY <4>2 DEF Queue
    <3> QED BY <3>1, <3>2, <3>3, FitsNext
  <2>4. \E kind : Running(kind)
    BY <1>1 DEF Operation, Load, Commit, CommitGivenUp, Check, BeginAppend, EndAppend, WriteOp,
       Created, Suffix, Forgotten
  <2>5. CASE Done
    BY <2>2, <2>4, <2>5, Runs
  <2>6. Done \/ (Running("append") /\ chain' = [chain EXCEPT ![1].kind = "appending"])
    BY <1>1 DEF Operation, Load, Commit, CommitGivenUp, Check, BeginAppend, EndAppend, WriteOp,
       Created, Suffix, Forgotten
  <2> QED BY <2>3, <2>5, <2>6
<1>2. ASSUME NEW c \in Clients, GiveUp(c) PROVE Queue'
  <2>1. ASSUME NEW i \in DOMAIN chain, chain[i].c # c PROVE StaysFit(i)
    BY <1>2, <2>1, FitGiveUp DEF StaysFit
  <2>2. CASE pc[c] \in {"waiting", "loading"} /\ chain' = chain
    <3>1. \A i \in DOMAIN chain : chain[i].c # c
      BY <1>o, <2>2, PreparedAssumption DEF Fit, Ops, None
    <3> QED BY <2>1, <2>2, <3>1, QueueSame
  <2>3. ASSUME NEW r \in 2 .. Len(chain), chain[r].c = c, chain' = RemoveAt(chain, r)
        PROVE  Queue'
    <3>1. r \in DOMAIN chain
      BY <1>0
    <3>2. chain' \in Seq(Ops) /\ Drops(r)
      BY <1>0, <2>3, <3>1, ChainRemove
    <3>3. \A i \in DOMAIN chain : i # r => chain[i].c # c
      BY <2>3, <3>1, PreparedAssumption DEF Queue, Same, None
    <3> QED BY <2>1, <3>1, <3>2, <3>3, QueueDrop
  <2> QED BY <1>2, <2>2, <2>3 DEF GiveUp, cache
<1>3. CASE Aside
  <2>1. \A i \in DOMAIN chain : StaysFit(i)
    BY <1>3, FitAside DEF StaysFit
  <2>2. CASE chain' = chain
    BY <2>1, <2>2, QueueSame
  <2>3. ASSUME NEW new \in Ops, new.kind # "appending", chain' = Append(chain, new), Fit(new)',
               \A i \in DOMAIN chain : ~Same(chain[i], new)
        PROVE  Queue'
    BY <1>0, <2>1, <2>3, ChainAppend, QueueAdd
  <2>4. ASSUME NEW s \in Sessions, Fresh(s)
        PROVE  \A i \in DOMAIN chain : chain[i].s # s
    BY <2>4 DEF Fresh, Free
  <2>5. ASSUME NEW c \in Clients, Look(c), chain' # chain PROVE Queue'
    <3>1. PICK s \in Sessions :
             /\ Fresh(s) /\ phase' = [phase EXCEPT ![s] = "loading"]
             /\ status' = [status EXCEPT ![s] = "unbuilt"]
             /\ chain' = Append(chain, Op("load", s, None, 0))
      BY <2>5 DEF Look
    <3> DEFINE new == Op("load", s, None, 0)
    <3>2. new \in Ops /\ new.kind = "load" /\ new.s = s /\ new.c = None
      BY NewOp DEF Op
    <3> HIDE DEF new
    <3>3. Fit(new)'
      BY <1>0, <3>1, <3>2 DEF Fit, SessionType, CacheType
    <3>4. \A i \in DOMAIN chain : ~Same(chain[i], new)
      BY <2>4, <3>1, <3>2 DEF Same
    <3> QED BY <2>3, <3>1, <3>2, <3>3, <3>4 DEF new
  <2>6. ASSUME NEW c \in Clients, Resume(c), chain' # chain PROVE Queue'
    <3>1. on[c] \in Sessions /\ pc[c] = "loading"
      BY <1>0, <2>6 DEF Resume, ClientType
    <3>2. PICK kind \in {"check", "commit"} :
             /\ chain' = Append(chain, Op(kind, on[c], c, 0))
             /\ Turn(c, IF kind = "check" THEN "checking" ELSE "committing", on[c])
      BY <2>6 DEF Resume
    <3>3. PICK new \in Ops : /\ new = Op(kind, on[c], c, 0)
                             /\ new.kind = kind /\ new.s = on[c] /\ new.c = c
      <4>1. Op(kind, on[c], c, 0) \in Ops
        BY <3>1, NewOp
      <4> QED BY <4>1 DEF Op
    <3>4. Fit(new)'
      BY <1>0, <3>2, <3>3 DEF Fit, Turn, ClientType
    <3>5. \A i \in DOMAIN chain : chain[i].c # c
      BY <1>o, <3>1, PreparedAssumption DEF Fit, Ops, None
    <3>6. \A i \in DOMAIN chain : ~Same(chain[i], new)
      BY <3>3, <3>5 DEF Same
    <3> QED BY <2>3, <3>2, <3>3, <3>4, <3>6
  <2>7. ASSUME NEW c \in Clients, Publish(c), chain' # chain PROVE Queue'
    <3>1. /\ entry = on[c] /\ entry \in Sessions /\ status[entry] = "cold"
          /\ phase[entry] = "reserved" /\ state.owner = None /\ state.materialized
      BY <1>0, <2>7 DEF Publish, Publishable, Clerks, Clerk, Cached, ClientType
    <3>2. PICK n \in Nat : n = Len(events[entry])
      BY <1>0, <3>1 DEF SessionType
    <3>4. PICK new \in Ops : /\ new = Op("suffix", entry, None, n) /\ new.kind = "suffix"
                             /\ new.s = entry /\ new.c = None /\ new.n = n
      BY <3>1, <3>2, NewOp DEF Op
    <3>3. chain' = Append(chain, new) /\ init' = [init EXCEPT ![entry] = "pending"]
      BY <2>7, <3>1, <3>2, <3>4 DEF Publish
    <3>5. entered'[entry] = n /\ status'[entry] = "live" /\ state'.owner = entry /\ state'.materialized
      BY <1>0, <2>7, <3>1, <3>2 DEF Publish, SessionType, StateType
    <3>6. Fit(new)'
      BY <1>0, <3>1, <3>3, <3>4, <3>5 DEF Fit, SessionType
    <3>7. \A i \in DOMAIN chain : ~Same(chain[i], new)
      BY <1>o, <3>1, <3>4, PreparedAssumption DEF Fit, Ops, Same, None
    <3> QED BY <2>3, <3>3, <3>4, <3>6, <3>7
  <2>8. ASSUME NEW s \in Sessions, NEW seed \in Seq(Sessions \cup {0}), Create(s, seed) PROVE Queue'
    <3>0. Len(seed) \in Nat
      OBVIOUS
    <3>2. PICK new \in Ops : /\ new = Op("created", s, None, Len(seed)) /\ new.kind = "created"
                             /\ new.s = s /\ new.c = None /\ new.n = Len(seed)
      BY <3>0, NewOp DEF Op
    <3>1. chain' = Append(chain, new)
      BY <2>8, <3>2 DEF Create
    <3>3. Fit(new)'
      BY <1>0, <2>8, <3>2 DEF Fit, Create, SessionType
    <3>4. \A i \in DOMAIN chain : ~Same(chain[i], new)
      BY <2>4, <2>8, <3>2 DEF Same, Create
    <3> QED BY <2>3, <3>1, <3>2, <3>3, <3>4
  <2>9. ASSUME NEW s \in Sessions, Write(s) PROVE Queue'
    <3> DEFINE new == Op("write", s, None, 0)
    <3>1. chain' = Append(chain, new) /\ HasWork(s)'
      BY <2>9 DEF Write, session, HasWork
    <3>2. new \in Ops /\ new.kind = "write" /\ new.s = s /\ new.c = None
      BY NewOp DEF Op
    <3> HIDE DEF new
    <3>3. Fit(new)'
      BY <2>9, <3>1, <3>2 DEF Fit, Write, session, HasWork
    <3>4. \A i \in DOMAIN chain : ~Same(chain[i], new)
      BY <1>o, <2>9, <3>2, PreparedAssumption DEF Fit, Ops, Same, None, Write, Queued
    <3> QED BY <2>3, <3>1, <3>2, <3>3, <3>4
  <2>10. ASSUME NEW s \in Sessions, Forget(s) PROVE Queue'
    <3> DEFINE new == Op("forget", s, None, 0)
    <3>1. chain' = Append(chain, new)
      BY <2>10 DEF Forget
    <3>2. new \in Ops /\ new.kind = "forget" /\ new.s = s /\ new.c = None
      BY NewOp DEF Op
    <3> HIDE DEF new
    <3>3. Fit(new)'
      BY <2>10, <3>1, <3>2 DEF Fit, Forget, Flushed, session, HasWork
    <3>4. \A i \in DOMAIN chain : ~Same(chain[i], new)
      BY <1>o, <2>10, <3>2, PreparedAssumption DEF Fit, Ops, Same, None, Forget, Flushed, Queued
    <3> QED BY <2>3, <3>1, <3>2, <3>3, <3>4
  <2>11. CASE AskAppend
    <3>1. PICK n \in {Len(stored), Len(Balanced)} : chain' = Append(chain, Op("append", None, None, n))
      BY <2>11 DEF AskAppend
    <3> DEFINE new == Op("append", None, None, n)
    <3>2. n \in Nat
      BY TypeParts, BalancedType
    <3>3. new \in Ops /\ new.kind = "append" /\ new.s = None /\ new.c = None
      BY <3>2 DEF Op, Ops
    <3> HIDE DEF new
    <3>4. Fit(new)'
      BY <3>3 DEF Fit
    <3>5. \A i \in DOMAIN chain : ~Same(chain[i], new)
      BY <1>o, <2>11, <3>3, PreparedAssumption DEF Same, None, AskAppend, Ops
    <3> QED BY <2>3, <3>1, <3>3, <3>4, <3>5 DEF new
  <2> QED
    <3>1. \A s \in Sessions : <<s>> \in Seq(Sessions \cup {0})
      OBVIOUS
    <3>2. stored \in Seq(Sessions \cup {0})
      BY TypeParts DEF StoreType
    <3>3. ASSUME NEW s \in Sessions, Create(s, <<s>>) \/ Create(s, stored) PROVE Queue'
      BY <2>8, <3>1, <3>2, <3>3
    <3>4. chain' = chain \/ Queue'
      BY <1>3, <2>5, <2>6, <2>7, <2>9, <2>10, <2>11, <3>3 DEF Aside, Arrival,
         Evict, Ask, Release, SessionAppend, Dispose, RetirementFails, vars
    <3> QED BY <2>2, <3>4
<1> QED BY <1>1, <1>2, <1>3, NextCases


-----------------------------------------------------------------------------
(***************************************************************************)
(* The cache.                                                              *)
(***************************************************************************)

(* The entry stays, unless it goes, and is not taken for loading again. *)
EntryKept ==
  entry' # None => entry' = entry /\ (phase'[entry] # "loading" => phase[entry] # "loading")

LEMMA OrderDrop ==
  ASSUME PreparedInv, EntryKept, NEW r \in DOMAIN chain, Drops(r)
  PROVE  Order'
<1> USE DEF PreparedInv, Order, EntryKept, Drops
<1> SUFFICES ASSUME entry' # None PROVE Order'
  OBVIOUS
<1>1. ASSUME phase'[entry'] # "loading", NEW j \in DOMAIN chain'
      PROVE  /\ chain'[j].kind \notin {"created", "suffix"}
             /\ chain'[j].kind = "commit" => chain'[j].s = entry'
  BY <1>1
<1>2. ASSUME NEW i \in DOMAIN chain', NEW j \in DOMAIN chain',
             chain'[i].kind = "load", chain'[i].s = entry', chain'[j].kind \in Before
      PROVE  j < i
  <2>1. Old(r, j) < Old(r, i)
    BY <1>2
  <2> QED BY <2>1 DEF Old
<1> QED BY <1>1, <1>2 DEF Before

LEMMA OrderAdd ==
  ASSUME PreparedInv, EntryKept, NEW new, Adds(new),
         new.kind \notin Before \cup {"load"} \/
         (new.kind = "commit" /\ new.s = entry /\ phase[entry] # "loading")
  PROVE  Order'
<1> USE DEF PreparedInv, Order, EntryKept, Adds
<1> SUFFICES ASSUME entry' # None PROVE Order'
  OBVIOUS
<1>0. ASSUME NEW i \in DOMAIN chain'
      PROVE  \/ i \in DOMAIN chain /\ chain'[i] = chain[i]
             \/ i = Len(chain) + 1 /\ chain'[i] = new
  OBVIOUS
<1>1. ASSUME phase'[entry'] # "loading", NEW j \in DOMAIN chain'
      PROVE  /\ chain'[j].kind \notin {"created", "suffix"}
             /\ chain'[j].kind = "commit" => chain'[j].s = entry'
  BY <1>0, <1>1 DEF Before
<1>2. ASSUME NEW i \in DOMAIN chain', NEW j \in DOMAIN chain',
             chain'[i].kind = "load", chain'[i].s = entry', chain'[j].kind \in Before
      PROVE  j < i
  <2>1. i \in DOMAIN chain /\ chain'[i] = chain[i] /\ entry = entry'
    BY <1>0, <1>2 DEF Before
  <2>2. phase[entry] = "loading"
    BY <1>2, <2>1 DEF Queue, Fit
  <2>3. j \in DOMAIN chain /\ chain'[j] = chain[j]
    BY <1>0, <1>2, <2>2 DEF Before
  <2> QED BY <1>2, <2>1, <2>3
<1> QED BY <1>1, <1>2 DEF Before

LEMMA OrderSame ==
  ASSUME PreparedInv, EntryKept, UNCHANGED chain
  PROVE  Order'
BY DEF PreparedInv, Order, EntryKept, Before

LEMMA OrderStep ==
  ASSUME PreparedInv, [Next]_vars
  PROVE  Order'
<1>0. CacheType /\ SessionType /\ StateType /\ ClientType /\ chain \in Seq(Ops) /\ TypeOK
  BY TypeParts DEF PreparedInv
<1>n. \A s \in Sessions : s # None
  BY PreparedAssumption DEF None
<1>1. ASSUME NEW c \in Clients, Look(c) PROVE Order'
  <2>1. CASE UNCHANGED <<cache, chain>>
    BY <2>1, OrderSame DEF EntryKept, cache
  <2>2. ASSUME NEW s \in Sessions, Fresh(s), entry = None, entry' = s,
               phase' = [phase EXCEPT ![s] = "loading"],
               chain' = Append(chain, Op("load", s, None, 0))
        PROVE  Order'
    <3>1. DOMAIN chain = 1 .. Len(chain) /\ Len(chain) \in Nat /\ DOMAIN chain' = 1 .. Len(chain) + 1
          /\ (\A i \in DOMAIN chain : chain'[i] = chain[i])
          /\ chain'[Len(chain) + 1].kind = "load"
      <4>1. Op("load", s, None, 0) \in Ops /\ Op("load", s, None, 0).kind = "load"
        BY NewOp DEF Op
      <4> QED BY <1>0, <2>2, <4>1, ChainAppend DEF Adds
    <3>2. phase'[entry'] = "loading"
      BY <1>0, <2>2 DEF CacheType
    <3>3. \A i \in DOMAIN chain : chain[i].s # s
      BY <2>2 DEF Fresh, Free
    <3>4. ASSUME NEW i \in DOMAIN chain', NEW j \in DOMAIN chain',
                 chain'[i].kind = "load", chain'[i].s = entry', chain'[j].kind \in Before
          PROVE  j < i
      <4>1. i = Len(chain) + 1
        BY <2>2, <3>1, <3>3, <3>4
      <4>2. j # Len(chain) + 1
        BY <3>1, <3>4 DEF Before
      <4> QED BY <3>1, <4>1, <4>2
    <3> QED BY <3>2, <3>4 DEF Order, Before
  <2> QED BY <1>1, <2>1, <2>2 DEF Look, cache
<1>2. ASSUME NEW c \in Clients, Resume(c) PROVE Order'
  <2>1. CASE UNCHANGED <<cache, chain>>
    BY <2>1, OrderSame DEF EntryKept, cache
  <2>2. on[c] \in Sessions
    BY <1>0, <1>2 DEF Resume, ClientType
  <2>3. CASE UNCHANGED cache /\ chain' = Append(chain, Op("check", on[c], c, 0))
    <3>1. Adds(Op("check", on[c], c, 0)) /\ Op("check", on[c], c, 0).kind = "check"
      BY <1>0, <2>2, <2>3, NewOp, ChainAppend DEF Op
    <3> QED BY <2>3, <3>1, OrderAdd DEF EntryKept, cache, Before
  <2>4. CASE /\ phase[on[c]] = "ready" /\ entry = on[c] /\ UNCHANGED entry
             /\ chain' = Append(chain, Op("commit", on[c], c, 0))
    <3>1. /\ Adds(Op("commit", on[c], c, 0)) /\ Op("commit", on[c], c, 0).kind = "commit"
          /\ Op("commit", on[c], c, 0).s = entry
      BY <1>0, <2>2, <2>4, NewOp, ChainAppend DEF Op
    <3> QED BY <2>4, <3>1, OrderAdd DEF EntryKept
  <2> QED BY <1>2, <2>1, <2>3, <2>4 DEF Resume, cache
<1>3. ASSUME NEW c \in Clients, GiveUp(c) PROVE Order'
  <2>1. EntryKept
    <3>1. CASE UNCHANGED cache
      BY <3>1 DEF EntryKept, cache
    <3>2. CASE pc[c] = "committing" /\ RemoveEntry(on[c])
      BY <1>0, <1>n, <3>2, RemovedType DEF EntryKept, ClientType, CacheType
    <3> QED BY <1>3, <3>1, <3>2 DEF GiveUp
  <2>2. ASSUME NEW i \in 2 .. Len(chain), chain' = RemoveAt(chain, i) PROVE Order'
    <3>1. i \in DOMAIN chain
      BY <1>0
    <3> QED BY <1>0, <2>1, <2>2, <3>1, ChainRemove, OrderDrop
  <2> QED BY <1>3, <2>1, <2>2, OrderSame DEF GiveUp
<1>4. ASSUME NEW c \in Clients, Publish(c) PROVE Order'
  BY <1>4 DEF Order, Publish
<1>5. ASSUME NEW c \in Clients, Release(c) PROVE Order'
  <2>1. on[c] \in Sessions /\ phase[on[c]] = "reserved" /\ entry = on[c]
    BY <1>0, <1>5 DEF Release, ClientType, PreparedInv, Clerks, Clerk
  <2>2. EntryKept
    BY <1>0, <1>5, <1>n, <2>1, RemovedType DEF EntryKept, Release
  <2> QED BY <1>5, <2>2, OrderSame DEF Release
<1>6. ASSUME NEW s \in Sessions, NEW seed, Create(s, seed) PROVE Order'
  BY <1>6 DEF Create, Order
<1>7. ASSUME NEW s \in Sessions, Write(s) \/ Forget(s) PROVE Order'
  <2>1. PICK kind \in {"write", "forget"} : chain' = Append(chain, Op(kind, s, None, 0))
    BY <1>7 DEF Write, Forget
  <2>2. Adds(Op(kind, s, None, 0)) /\ Op(kind, s, None, 0).kind = kind
    <3>1. Op(kind, s, None, 0) \in Ops
      BY NewOp
    <3> QED BY <1>0, <2>1, <3>1, ChainAppend DEF Op
  <2>3. EntryKept
    BY <1>7 DEF Write, Forget, EntryKept, cache
  <2> QED BY <2>2, <2>3, OrderAdd DEF Before
<1>8. CASE AskAppend
  <2>1. PICK n \in {Len(stored), Len(Balanced)} : chain' = Append(chain, Op("append", None, None, n))
    BY <1>8 DEF AskAppend
  <2>2. Adds(Op("append", None, None, n)) /\ Op("append", None, None, n).kind = "append"
    <3>1. n \in Nat
      BY <1>0, TypeParts, BalancedType
    <3>2. Op("append", None, None, n) \in Ops
      BY <3>1 DEF Op, Ops
    <3> QED BY <1>0, <2>1, <3>2, ChainAppend DEF Op
  <2>3. EntryKept
    BY <1>8 DEF AskAppend, EntryKept, cache
  <2> QED BY <2>2, <2>3, OrderAdd DEF Before
<1>9. CASE Load
  <2>1. chain[1].kind = "load" /\ chain[1].s \in Sessions /\ Drops(1)
        /\ 1 \in DOMAIN chain
    BY ZenonT(60), <1>0, <1>9, Runs DEF Load
  <2>2. CASE entry' = None \/ (entry' = entry /\ phase'[entry] = phase[entry])
    <3>1. EntryKept
      BY <2>2 DEF EntryKept
    <3> QED BY <2>1, <3>1, OrderDrop
  <2>3. CASE entry' = entry /\ entry = chain[1].s
    <3>1. \A j \in DOMAIN chain : chain[j].kind \in Before => j < 1
      BY <1>n, <2>1, <2>3 DEF PreparedInv, Order
    <3>2. \A j \in DOMAIN chain : j \in Nat /\ ~(j < 1)
      BY <2>1 DEF Drops
    <3>3. \A j \in DOMAIN chain' : chain'[j].kind \notin Before
      BY <2>1, <3>1, <3>2 DEF Drops
    <3> QED BY <3>3 DEF Order, Before
  <2>4. entry' = None \/ entry' = entry
    BY <1>9 DEF Load, Without
  <2>5. entry # None /\ entry # chain[1].s => phase'[entry] = phase[entry]
    BY <1>0, <1>9, <2>1 DEF Load, CacheType
  <2> QED BY <2>2, <2>3, <2>4, <2>5
<1>10. ASSUME Operation, ~Load PROVE Order'
  <2>1. EntryKept
    <3>1. CASE entry # None /\ RemoveEntry(entry)
      BY <1>0, <3>1, RemovedType DEF EntryKept, CacheType
    <3>2. CASE UNCHANGED <<entry, phase>>
      BY <3>2 DEF EntryKept
    <3>3. CASE Commit \/ CommitGivenUp \/ Check
      <4>1. chain[1].s \in Sessions
        BY <1>0, <3>3, Runs DEF Commit, CommitGivenUp, Check
      <4>2. CASE RemoveEntry(chain[1].s)
        BY <1>0, <1>n, <4>1, <4>2, RemovedType DEF EntryKept, CacheType
      <4>3. CASE entry = chain[1].s /\ entry' = entry /\ (Commit \/ CommitGivenUp)
        <5>1. Fit(chain[1]) /\ chain[1].kind = "commit" /\ chain[1].c \in Clients
          BY <1>0, <4>3, Runs DEF PreparedInv, Queue, Commit, CommitGivenUp
        <5>2. phase[entry] = "committing"
          BY <4>3, <5>1 DEF Fit, PreparedInv, Clerks, Clerk
        <5> QED BY <4>3, <5>2 DEF EntryKept
      <4>4. CASE Commit
        BY <3>2, <4>2, <4>3, <4>4 DEF Commit
      <4>5. CASE CommitGivenUp
        BY <3>2, <4>3, <4>5 DEF CommitGivenUp
      <4>6. CASE Check
        BY <3>2, <4>2, <4>6 DEF Check, cache
      <4> QED BY <3>3, <4>4, <4>5, <4>6
    <3> QED BY <1>10, <3>1, <3>2, <3>3 DEF Operation, BeginAppend, EndAppend, WriteOp, Created,
         Suffix, Forgotten, Own, Refuse, Stored, cache
  <2>2. CASE Done
    <3>1. \E kind : Running(kind)
      BY <1>10 DEF Operation, Load, Commit, CommitGivenUp, Check, BeginAppend, EndAppend, WriteOp,
         Created, Suffix, Forgotten
    <3>2. 1 \in DOMAIN chain /\ Drops(1)
      BY <1>0, <2>2, <3>1, Runs
    <3> QED BY <2>1, <3>2, OrderDrop
  <2>3. CASE Running("append") /\ chain' = [chain EXCEPT ![1].kind = "appending"]
    <3>1. /\ DOMAIN chain' = DOMAIN chain /\ 1 \in DOMAIN chain
          /\ \A i \in DOMAIN chain : i # 1 => chain'[i] = chain[i]
          /\ chain'[1].kind = "appending"
      BY <1>0, <2>3, Starts, Runs
    <3>2. \A i \in DOMAIN chain' : chain'[i].kind \in Before \cup {"load"} => chain'[i] = chain[i]
      BY <3>1 DEF Before
    <3> QED BY <2>1, <3>1, <3>2 DEF PreparedInv, Order, EntryKept, Before
  <2> QED BY <1>10, <2>2, <2>3 DEF Operation, Commit, CommitGivenUp, Check, BeginAppend,
       EndAppend, WriteOp, Created, Suffix, Forgotten
<1>11. CASE Aside
  <2>1. CASE UNCHANGED <<entry, phase, chain>>
    BY <2>1, OrderSame DEF EntryKept
  <2>2. ASSUME NEW c \in Clients, NEW w, Ask(c, w) PROVE Order'
    BY <2>1, <2>2 DEF Ask, cache
  <2>3. ASSUME NEW s \in Sessions, SessionAppend(s) \/ Dispose(s) \/ RetirementFails(s) PROVE Order'
    BY <2>1, <2>3 DEF SessionAppend, Dispose, RetirementFails, cache
  <2>4. CASE UNCHANGED vars
    BY <2>1, <2>4 DEF vars, cache
  <2>5. CASE Evict
    BY <2>5 DEF Order, Evict
  <2> QED BY <1>11, <1>1, <1>2, <1>4, <1>5, <1>6, <1>7, <1>8, <2>2, <2>3, <2>4, <2>5
         DEF Aside, Arrival
<1> QED BY <1>3, <1>9, <1>10, <1>11, NextCases


(* Nothing changed that Cached speaks of. *)
LEMMA CachedSame ==
  ASSUME PreparedInv,
         entry' # None =>
           /\ entry' = entry /\ status'[entry] = status[entry] /\ base' = base
           /\ (phase'[entry] = "loading" <=> phase[entry] = "loading")
           /\ stored' = stored \/ phase[entry] = "loading"
           /\ \A s \in Sessions : status'[s] = "live" => status[s] = "live"
  PROVE  Cached'
BY DEF PreparedInv, Cached, Live

LEMMA CachedStep ==
  ASSUME PreparedInv, [Next]_vars
  PROVE  Cached'
<1>0. CacheType /\ SessionType /\ StateType /\ ClientType /\ chain \in Seq(Ops) /\ TypeOK
  BY TypeParts DEF PreparedInv
<1>n. \A s \in Sessions : s # None
  BY PreparedAssumption DEF None
<1>c. entry # None => Live = {} /\ entry \in Sessions /\ status[entry] \in {"unbuilt", "cold"}
  BY <1>0 DEF PreparedInv, Cached, CacheType
<1>r. ASSUME NEW s \in Sessions, RemoveEntry(s)
      PROVE  entry' # None => entry' = entry /\ phase'[entry] = phase[entry]
  BY <1>0, <1>n, <1>r, RemovedType DEF CacheType
<1>1. ASSUME NEW c \in Clients, Look(c) PROVE Cached'
  <2>1. CASE UNCHANGED <<cache, session>>
    BY <1>1, <2>1, CachedSame DEF Look, cache, session, store
  <2>2. ASSUME NEW s \in Sessions, Live = {}, entry' = s, phase' = [phase EXCEPT ![s] = "loading"],
               status' = [status EXCEPT ![s] = "unbuilt"]
        PROVE  Cached'
    BY <1>0, <2>2 DEF Cached, Live, CacheType, SessionType
  <2> QED BY <1>1, <2>1, <2>2 DEF Look
<1>2. ASSUME NEW c \in Clients, Resume(c) PROVE Cached'
  BY <1>0, <1>2, CachedSame DEF Resume, cache, session, store, CacheType
<1>3. ASSUME NEW c \in Clients, GiveUp(c) PROVE Cached'
  <2>1. entry' # None => entry' = entry /\ phase'[entry] = phase[entry]
    BY <1>0, <1>3, <1>r DEF GiveUp, cache, ClientType
  <2> QED BY <1>3, <2>1, CachedSame DEF GiveUp, session, store
<1>4. ASSUME NEW c \in Clients, Publish(c) PROVE Cached'
  BY <1>4 DEF Publish, Cached
<1>5. ASSUME NEW c \in Clients, Release(c) PROVE Cached'
  <2>1. entry = on[c] /\ on[c] \in Sessions /\ phase[entry] = "reserved"
    BY <1>0, <1>5 DEF Release, PreparedInv, Clerks, Clerk, ClientType
  <2>2. entry' # None => entry' = entry /\ phase'[entry] # "loading"
    BY <1>0, <1>5, <1>r, <2>1 DEF Release, CacheType
  <2> QED BY <1>5, <2>1, <2>2, CachedSame DEF Release, session, store
<1>6. CASE Evict
  BY <1>6 DEF Evict, Cached
<1>7. ASSUME NEW s \in Sessions, NEW seed, Create(s, seed) PROVE Cached'
  BY <1>7 DEF Create, Cached
<1>8. ASSUME NEW s \in Sessions, SessionAppend(s) \/ Write(s) \/ Forget(s) PROVE Cached'
  BY <1>8, CachedSame DEF SessionAppend, Write, Forget, cache, session, store
<1>9. ASSUME NEW s \in Sessions, Dispose(s) PROVE Cached'
  BY <1>9, <1>c DEF Dispose, Live, Cached, cache
<1>10. ASSUME NEW s \in Sessions, RetirementFails(s) PROVE Cached'
  <2>1. entry # None => s # entry
    BY <1>10, <1>c DEF RetirementFails
  <2> QED BY <1>0, <1>10, <1>c, <2>1, CachedSame DEF RetirementFails, Retire, SessionType, cache, store
<1>11. ASSUME NEW c \in Clients, NEW w, Ask(c, w) PROVE Cached'
  BY <1>11, CachedSame DEF Ask, cache, session, store
<1>12. CASE AskAppend \/ UNCHANGED vars
  BY <1>12, CachedSame DEF AskAppend, vars, cache, session, store
<1>14. CASE Load
  <2>1. chain[1].s \in Sessions
    BY <1>0, <1>14, Runs DEF Load
  <2>2. CASE /\ Live = {} /\ base' = [base EXCEPT ![chain[1].s] = Len(stored)]
             /\ status' = [status EXCEPT ![chain[1].s] = "cold"]
             /\ phase' = [phase EXCEPT ![chain[1].s] = "ready"]
             /\ UNCHANGED entry
    BY <1>0, <1>14, <2>1, <2>2 DEF Load, PreparedInv, Cached, Live, CacheType, SessionType, store
  <2>3. CASE /\ entry' = Without(chain[1].s) /\ phase' = [phase EXCEPT ![chain[1].s] = "failed"]
             /\ UNCHANGED session
    BY <1>0, <1>14, <2>1, <2>3, CachedSame DEF Load, Without, CacheType, session, store
  <2> QED BY <1>14, <2>2, <2>3 DEF Load
<1>15. CASE Commit \/ CommitGivenUp
  <2>1. /\ chain[1].s \in Sessions /\ chain[1].c \in Clients /\ 1 \in DOMAIN chain
        /\ chain[1].kind = "commit"
    BY SMTT(30), <1>0, <1>15, Runs DEF Commit, CommitGivenUp
  <2>2. entry = chain[1].s => phase[entry] = "committing"
    BY <2>1 DEF PreparedInv, Queue, Fit, Clerks, Clerk
  <2>3. entry # None /\ entry # chain[1].s => phase[entry] = "loading"
    BY <2>1 DEF PreparedInv, Order
  <2>4. CASE RemoveEntry(chain[1].s)
    <3>1. entry' # None => entry' = entry /\ phase'[entry] = phase[entry] /\ phase[entry] = "loading"
      BY <1>0, <1>r, <2>1, <2>3, <2>4, RemovedType DEF CacheType
    <3> QED BY <1>15, <3>1, CachedSame DEF Commit, CommitGivenUp, session
  <2>5. CASE UNCHANGED <<entry, store>> /\ (phase' = phase \/
               \E x \in {"reserved", "ready"} : entry = chain[1].s /\ phase' = [phase EXCEPT ![chain[1].s] = x])
    <3>1. phase'[entry] = "loading" <=> phase[entry] = "loading"
      BY <1>0, <2>1, <2>2, <2>5 DEF CacheType
    <3> QED BY <1>15, <2>5, <3>1, CachedSame DEF Commit, CommitGivenUp, session, store
  <2>6. CASE Commit
    BY <2>4, <2>5, <2>6 DEF Commit
  <2>7. CASE CommitGivenUp
    BY <2>5, <2>7 DEF CommitGivenUp, GivenBack
  <2> QED BY <1>15, <2>6, <2>7
<1>17. CASE Check
  <2>1. chain[1].s \in Sessions
    BY <1>0, <1>17, Runs DEF Check
  <2>2. entry' # None => entry' = entry /\ phase'[entry] = phase[entry]
    BY <1>17, <1>r, <2>1 DEF Check, cache
  <2> QED BY <1>17, <2>2, CachedSame DEF Check, session, store
<1>19. CASE BeginAppend
  <2>2. entry' # None => entry' = entry /\ phase'[entry] = phase[entry]
    BY <1>0, <1>19, <1>r DEF BeginAppend, CacheType
  <2> QED BY <1>19, <2>2, CachedSame DEF BeginAppend, session, store
<1>20. CASE EndAppend
  <2>1. UNCHANGED session /\ Running("appending")
    BY <1>20 DEF EndAppend
  <2>2. entry # None /\ ~state.known => phase[entry] = "loading"
    BY <2>1 DEF PreparedInv, Appending
  <2>3. CASE entry # None /\ RemoveEntry(entry)
    BY <1>0, <2>3, RemovedType DEF CacheType, Cached
  <2>4. CASE UNCHANGED <<entry, phase>> /\ (stored' = stored \/ ~state.known \/ entry = None)
    BY <2>1, <2>2, <2>4, CachedSame DEF session
  <2> QED BY <1>0, <1>20, <2>3, <2>4, EndCases
<1>21. CASE WriteOp
  <2>1. CASE entry # None /\ RemoveEntry(entry)
    BY <1>0, <2>1, RemovedType DEF CacheType, Cached
  <2>2. CASE entry' = None
    BY <2>2 DEF Cached
  <2>3. CASE UNCHANGED <<store, entry, phase>>
    <3>1. chain[1].s \in Sessions
      BY <1>0, <1>21, Runs DEF WriteOp
    <3>2. entry # None => status'[entry] = status[entry]
      BY <1>0, <1>21, <1>c, <3>1 DEF WriteOp, Retire, SessionType
    <3>3. \A s \in Sessions : status'[s] = "live" => status[s] = "live"
      BY SMTT(30), <1>0, <1>21, <3>1 DEF WriteOp, Retire, SessionType
    <3> QED BY <1>21, <2>3, <3>2, <3>3, CachedSame DEF WriteOp, store
  <2> QED BY <1>21, <2>1, <2>2, <2>3 DEF WriteOp, Stored
<1>22. CASE Created \/ Suffix
  <2>1. CASE entry # None /\ RemoveEntry(entry)
    BY <1>0, <2>1, RemovedType DEF CacheType, Cached
  <2>2. CASE entry' = None
    BY <2>2 DEF Cached
  <2>3. CASE UNCHANGED <<store, entry, phase>>
    BY <1>22, <2>3, CachedSame DEF Created, Suffix, store
  <2> QED BY <1>22, <2>1, <2>2, <2>3 DEF Created, Suffix, Own, Refuse, Stored
<1>24. CASE Forgotten
  <2>1. chain[1].s \in Sessions /\ status[chain[1].s] = "retiring"
    BY <1>0, <1>24, Runs DEF Forgotten, PreparedInv, Queue, Fit
  <2>2. entry # None => chain[1].s # entry
    BY <1>c, <2>1
  <2> QED BY <1>0, <1>24, <1>c, <2>1, <2>2, CachedSame DEF Forgotten, Retire, SessionType, cache, store
<1>25. CASE Aside
  BY <1>25, <1>1, <1>2, <1>4, <1>5, <1>6, <1>7, <1>8, <1>9, <1>10, <1>11, <1>12 DEF Aside, Arrival
<1> QED BY <1>3, <1>14, <1>15, <1>17, <1>19, <1>20, <1>21, <1>22, <1>24, <1>25, NextCases
      DEF Operation


LEMMA PrefixPlaces ==
  ASSUME NEW S, NEW s \in Seq(S), NEW t \in Seq(S)
  PROVE  IsPrefix(s, t) <=> Len(s) <= Len(t) /\ \A i \in 1 .. Len(s) : s[i] = t[i]
<1>1. Len(s) \in Nat /\ Len(t) \in Nat /\ DOMAIN s = 1 .. Len(s) /\ DOMAIN t = 1 .. Len(t)
  OBVIOUS
<1>2. SubSeq(s, 1, Len(s)) = s
  OBVIOUS
<1>3. CASE Len(s) <= Len(t)
  <2> DEFINE u == SubSeq(t, 1, Len(s))
  <2>1. u \in Seq(S) /\ Len(u) = Len(s) /\ \A i \in 1 .. Len(s) : u[i] = t[i]
    BY <1>1, <1>3
  <2> HIDE DEF u
  <2>2. s = u <=> \A i \in 1 .. Len(s) : s[i] = u[i]
    BY <1>1, <2>1
  <2>3. IsPrefix(s, t) <=> s = u
    BY <1>2, <1>3 DEF IsPrefix, u
  <2> QED BY <1>3, <2>1, <2>2, <2>3
<1> QED BY <1>3 DEF IsPrefix

LEMMA PrefixAppend ==
  ASSUME NEW S, NEW s \in Seq(S), NEW t \in Seq(S), NEW e \in S, IsPrefix(s, t)
  PROVE  IsPrefix(s, Append(t, e))
<1>1. Len(s) <= Len(t) /\ \A i \in 1 .. Len(s) : s[i] = t[i]
  BY PrefixPlaces
<1>2. /\ Append(t, e) \in Seq(S) /\ Len(Append(t, e)) = Len(t) + 1
      /\ \A i \in 1 .. Len(t) : Append(t, e)[i] = t[i]
      /\ Len(s) \in Nat /\ Len(t) \in Nat
  OBVIOUS
<1>3. Len(s) <= Len(Append(t, e)) /\ \A i \in 1 .. Len(s) : s[i] = Append(t, e)[i]
  BY <1>1, <1>2
<1> QED BY <1>2, <1>3, PrefixPlaces

LEMMA PrefixSelf ==
  ASSUME NEW S, NEW s \in Seq(S)
  PROVE  IsPrefix(s, s)
BY PrefixPlaces

(* Nothing new is wanted but t, and nothing changes of what else is. *)
LEMMA RevisionsBut ==
  ASSUME PreparedInv, NEW t,
         \A s \in Sessions \ {t} :
           base'[s] = base[s] /\ balanced'[s] = balanced[s] /\ events'[s] = events[s],
         (stored' = stored /\ open' = open) \/ (Len(stored') > Len(stored) /\ Len(stored') \in Nat),
         \A s \in Sessions \ {t} : Settled(s)' => Settled(s),
         t \in Sessions /\ Settled(t)' => Sound(t)'
  PROVE  Revisions'
<1>1. /\ \A s \in Sessions : base[s] \in Nat
      /\ Len(stored) \in Nat
  BY TypeParts, BalancedType DEF PreparedInv, SessionType
<1>2. ASSUME NEW s \in Sessions \ {t}, Settled(s)' PROVE Sound(s)'
  <2>1. Sound(s)
    BY <1>2 DEF PreparedInv, Revisions
  <2>2. CASE stored' = stored /\ open' = open
    BY <2>1, <2>2 DEF Sound, Balanced
  <2>3. CASE Len(stored') > Len(stored) /\ Len(stored') \in Nat
    <3>1. base'[s] < Len(stored')
      BY <1>1, <2>1, <2>3 DEF Sound
    <3> QED BY <1>1, <2>3, <3>1 DEF Sound
  <2> QED BY <2>2, <2>3
<1> QED BY <1>2 DEF Revisions

LEMMA RevisionsSame ==
  ASSUME PreparedInv, UNCHANGED <<base, balanced, events>>,
         (stored' = stored /\ open' = open) \/ (Len(stored') > Len(stored) /\ Len(stored') \in Nat),
         \A s \in Sessions : Settled(s)' => Settled(s)
  PROVE  Revisions'
BY RevisionsBut, PreparedAssumption


LEMMA StoredGrows ==
  ASSUME TypeOK, NEW s \in Sessions, NEW cursor \in Nat, NEW n \in Nat, NEW owner,
         cursor < n, n <= Len(events[s]), Stored(SubSeq(events[s], cursor + 1, n), cursor, owner)
  PROVE  /\ Len(stored') = Len(stored) + (n - cursor)
         /\ state'.cursor = n /\ state'.owner = owner /\ state'.known /\ state'.materialized
         /\ state'.intruded = state.intruded
<1>1. PICK batch \in Seq(Sessions \cup {0}) :
         batch = SubSeq(events[s], cursor + 1, n) /\ Len(batch) = n - cursor
  <2>1. /\ SubSeq(events[s], cursor + 1, n) \in Seq(Sessions \cup {0})
        /\ Len(SubSeq(events[s], cursor + 1, n)) = IF cursor + 1 <= n THEN n - cursor ELSE 0
    BY SuffixType, Zenon
  <2>2. cursor + 1 <= n
    OBVIOUS
  <2> QED BY <2>1, <2>2, Zenon
<1>2. stored \in Seq(Sessions \cup {0})
  BY TypeParts DEF StoreType
<1>3. stored' = stored \o batch
  BY <1>1 DEF Stored
<1>4. Len(stored') = Len(stored) + Len(batch)
  BY <1>2, <1>3, ConcatProperties
<1>5. state' = [known |-> TRUE, cursor |-> cursor + Len(batch), materialized |-> TRUE, owner |-> owner,
                intruded |-> state.intruded]
  BY <1>1 DEF Stored, Owned
<1>6. state'.cursor = cursor + Len(batch) /\ cursor + Len(batch) = n
  BY <1>1, <1>5
<1> QED BY <1>1, <1>4, <1>5, <1>6

LEMMA LogGrows ==
  ASSUME PreparedInv, [Next]_vars
  PROVE  \/ stored' = stored /\ open' = open
         \/ Len(stored') > Len(stored) /\ Len(stored') \in Nat
<1>0. /\ stored \in Seq(Sessions \cup {0}) /\ Len(stored) \in Nat /\ Len(stored') \in Nat
      /\ Balanced \in Seq(Sessions \cup {0}) /\ open \in BOOLEAN
      /\ Len(Balanced) = IF open THEN Len(stored) + 1 ELSE Len(stored)
  <2>1. StoreType' /\ StoreType
    BY TypeStep, TypeParts, TypePartsNext DEF PreparedInv
  <2> QED BY <2>1, BalancedType DEF StoreType
<1>t. TypeOK /\ SessionType /\ StateType
  BY TypeParts DEF PreparedInv
<1>1. CASE Commit
  <2>1. Len(Append(stored, 0)) = Len(stored) + 1
    BY <1>0
  <2> QED BY <1>0, <1>1, <2>1 DEF Commit, store
<1>2. CASE EndAppend
  <2>1. Len(Append(stored, 0)) = Len(stored) + 1 /\ Len(Append(Balanced, 0)) = Len(Balanced) + 1
    BY <1>0
  <2>2. ~open => Balanced = stored
    BY DEF Balanced
  <2>3. \/ stored' = stored /\ open' = open
        \/ stored' = Balanced /\ open' = FALSE
        \/ stored' \in {Append(stored, 0), Append(Balanced, 0)}
    BY <1>2, <1>t, EndCases
  <2>4. CASE stored' = Balanced /\ open' = FALSE
    <3>1. CASE open
      <4>1. Len(Balanced) = Len(stored) + 1
        BY <1>0, <3>1
      <4>2. Len(stored') = Len(stored) + 1
        BY <2>4, <4>1
      <4> QED BY <1>0, <4>2
    <3>2. CASE open = FALSE BY <2>2, <2>4, <3>2
    <3> QED BY <1>0, <3>1, <3>2
  <2>5. CASE stored' \in {Append(stored, 0), Append(Balanced, 0)}
    <3>1. Len(stored') \in {Len(stored) + 1, Len(Balanced) + 1}
      BY <2>1, <2>5
    <3> QED BY <1>0, <3>1
  <2> QED BY <2>3, <2>4, <2>5
<1>3. CASE WriteOp
  <2>1. /\ chain[1].s \in Sessions /\ state.cursor \in Nat /\ Len(events[chain[1].s]) \in Nat
    <3>1. chain[1].s \in Sessions
      BY <1>3, <1>t, Runs DEF WriteOp
    <3> QED BY <1>t, <3>1 DEF SessionType, StateType
  <2>2. CASE UNCHANGED store
    BY <2>2 DEF store
  <2>3. CASE /\ state.cursor < Len(events[chain[1].s])
             /\ Stored(SubSeq(events[chain[1].s], state.cursor + 1, Len(events[chain[1].s])),
                       state.cursor, state.owner)
    <3>1. PICK n \in Nat : n = Len(events[chain[1].s])
      BY <2>1
    <3>2. PICK s \in Sessions, cursor \in Nat : s = chain[1].s /\ cursor = state.cursor
      BY <2>1
    <3>3. cursor < n /\ n <= Len(events[s]) /\ Stored(SubSeq(events[s], cursor + 1, n), cursor, state.owner)
      BY <2>1, <2>3, <3>1, <3>2
    <3>4. Len(stored') = Len(stored) + (n - cursor)
      BY <1>t, <3>3, StoredGrows
    <3> QED BY <1>0, <3>3, <3>4
  <2> QED BY <1>3, <2>2, <2>3 DEF WriteOp
<1>4. ASSUME NEW kind \in {"created", "suffix"}, Running(kind), NEW cursor \in Nat,
             Own(chain[1].s, cursor, chain[1].n)
      PROVE  UNCHANGED store \/ Len(stored') > Len(stored)
  <2>1. CASE chain[1].n > cursor /\ Stored(SubSeq(events[chain[1].s], cursor + 1, chain[1].n), cursor, chain[1].s)
    <3>1. PICK s \in Sessions, n \in Nat : s = chain[1].s /\ n = chain[1].n /\ n <= Len(events[s])
      BY <1>4, Captured
    <3>2. cursor < n /\ n <= Len(events[s]) /\ Stored(SubSeq(events[s], cursor + 1, n), cursor, s)
      BY <2>1, <3>1
    <3>3. Len(stored') = Len(stored) + (n - cursor)
      BY <1>t, <3>2, StoredGrows
    <3> QED BY <1>0, <3>2, <3>3
  <2> QED BY <1>4, <2>1 DEF Own
<1>5. CASE Created
  <2>1. CASE Refuse(chain[1].s)
    BY <2>1 DEF Refuse, store
  <2> DEFINE cursor == IF state.known /\ state.owner = None THEN state.cursor ELSE Len(stored)
  <2>2. cursor \in Nat
    BY <1>0, <1>t DEF StateType
  <2>3. CASE Own(chain[1].s, cursor, chain[1].n)
    BY <1>0, <1>4, <1>5, <2>2, <2>3 DEF Created, store
  <2> QED BY <1>5, <2>1, <2>3 DEF Created
<1>6. CASE Suffix
  <2>1. state.cursor \in Nat
    BY <1>t DEF StateType
  <2>2. CASE Own(chain[1].s, state.cursor, chain[1].n)
    BY <1>0, <1>4, <1>6, <2>1, <2>2 DEF Suffix, store
  <2>3. CASE Refuse(chain[1].s)
    BY <2>3 DEF Refuse, store
  <2> QED BY <1>6, <2>2, <2>3 DEF Suffix
<1>7. CASE UNCHANGED store
  BY <1>7 DEF store
<1>8. ASSUME NEW c \in Clients, GiveUp(c) PROVE UNCHANGED store
  BY <1>8 DEF GiveUp
<1>9. CASE Aside
  BY <1>9 DEF Aside, Arrival, vars, Ask, Look, Resume, Publish, Release, Evict, Create, SessionAppend,
     Write, Dispose, Forget, RetirementFails, AskAppend, store
<1>10. CASE Load \/ CommitGivenUp \/ Check \/ BeginAppend \/ Forgotten
  BY <1>10 DEF Load, CommitGivenUp, Check, BeginAppend, Forgotten, store
<1> QED BY <1>1, <1>2, <1>3, <1>5, <1>6, <1>7, <1>8, <1>9, <1>10, NextCases DEF Operation


(* What a batch does to the cache. *)
LEMMA WriteCache ==
  ASSUME WriteOp
  PROVE  /\ UNCHANGED <<events, base, balanced, client>>
         /\ \/ UNCHANGED <<entry, phase, state>>
            \/ Writable /\ (UNCHANGED <<entry, phase>> \/ (entry # None /\ RemoveEntry(entry)))
<1>1. UNCHANGED <<events, base, balanced, client>>
  BY Zenon DEF WriteOp
<1>2. \/ UNCHANGED <<entry, phase, state>>
      \/ Writable /\ \E batch : Stored(batch, state.cursor, state.owner)
  BY Zenon DEF WriteOp
<1>3. ASSUME NEW batch, Stored(batch, state.cursor, state.owner)
      PROVE  UNCHANGED <<entry, phase>> \/ (entry # None /\ RemoveEntry(entry))
  BY <1>3, Zenon DEF Stored
<1> QED BY <1>1, <1>2, <1>3, Zenon

LEMMA RevisionsStep ==
  ASSUME PreparedInv, [Next]_vars
  PROVE  Revisions'
<1>0. CacheType /\ SessionType /\ StateType /\ ClientType /\ StoreType /\ chain \in Seq(Ops) /\ TypeOK
  BY TypeParts DEF PreparedInv
<1>n. \A s \in Sessions : s # None
  BY PreparedAssumption DEF None
<1>g. \/ stored' = stored /\ open' = open
      \/ Len(stored') > Len(stored) /\ Len(stored') \in Nat
  BY LogGrows
<1>1. ASSUME NEW c \in Clients, Look(c) PROVE Revisions'
  <2>1. CASE UNCHANGED session /\ UNCHANGED cache
    BY <1>0, <1>1, <1>g, <2>1, RevisionsSame DEF Look, Turn, session, cache, Settled, Wanted, ClientType
  <2>2. ASSUME NEW s \in Sessions, Fresh(s), entry' = s, entry = None,
               phase' = [phase EXCEPT ![s] = "loading"],
               events' = [events EXCEPT ![s] = <<>>],
               base' = [base EXCEPT ![s] = 0], balanced' = [balanced EXCEPT ![s] = 0],
               Turn(c, "loading", s)
        PROVE  Revisions'
    <3>1. ~Settled(s)'
      BY <1>0, <2>2 DEF Settled, CacheType
    <3>2. \A t \in Sessions \ {s} : Settled(t)' => Settled(t)
      BY <1>0, <2>2 DEF Settled, Wanted, Turn, ClientType, CacheType
    <3>3. \A t \in Sessions \ {s} :
            base'[t] = base[t] /\ balanced'[t] = balanced[t] /\ events'[t] = events[t]
      BY <1>0, <2>2 DEF SessionType
    <3> QED BY <1>g, <3>1, <3>2, <3>3, RevisionsBut
  <2> QED BY <1>1, <2>1, <2>2 DEF Look
<1>2. ASSUME NEW c \in Clients, Resume(c) PROVE Revisions'
  BY <1>0, <1>2, <1>g, RevisionsSame
     DEF Resume, Wait, Turn, session, cache, Settled, Wanted, ClientType, CacheType
<1>3. ASSUME NEW c \in Clients, GiveUp(c) PROVE Revisions'
  <2>1. \A s \in Sessions : phase[s] \in {"loading", "failed"} => phase'[s] = phase[s]
    BY <1>0, <1>3 DEF GiveUp, RemoveEntry, CacheType, cache, PreparedInv, Clerks, Clerk, ClientType
  <2>2. \A s \in Sessions : entry' = s => entry = s
    BY <1>3, <1>n DEF GiveUp, RemoveEntry, Without, cache
  <2>3. \A s \in Sessions : Wanted(s)' => Wanted(s)
    BY <1>0, <1>3, <2>2 DEF GiveUp, Turn, Wanted, ClientType
  <2> QED BY <1>3, <1>g, <2>1, <2>3, RevisionsSame DEF GiveUp, session, Settled
<1>4. ASSUME NEW c \in Clients, Publish(c) \/ Release(c) PROVE Revisions'
  <2>1. entry = on[c] /\ on[c] \in Sessions /\ phase[entry] = "reserved"
    BY <1>0, <1>4 DEF Publish, Release, PreparedInv, Clerks, Clerk, ClientType
  <2>2. \A s \in Sessions : phase[s] \in {"loading", "failed"} => phase'[s] = phase[s]
    BY <1>0, <1>4, <2>1 DEF Publish, Release, RemoveEntry, CacheType
  <2>3. \A s \in Sessions : Wanted(s)' => Wanted(s)
    BY <1>0, <1>4, <1>n, <2>1 DEF Publish, Release, RemoveEntry, Without, Turn, Wanted, ClientType
  <2> QED BY <1>4, <1>g, <2>2, <2>3, RevisionsSame DEF Publish, Release, session, Settled
<1>6. CASE Evict
  BY <1>6, <1>g, <1>n, RevisionsSame DEF Evict, session, client, Settled, Wanted
<1>7. ASSUME NEW s \in Sessions, NEW seed, Create(s, seed) PROVE Revisions'
  <2>1. ~Settled(s)'
    BY <1>7, <1>n DEF Create, Fresh, Free, client, Settled, Wanted
  <2>2. \A t \in Sessions \ {s} : Settled(t)' => Settled(t)
    BY <1>0, <1>7 DEF Create, client, Settled, Wanted, CacheType
  <2>3. \A t \in Sessions \ {s} :
          base'[t] = base[t] /\ balanced'[t] = balanced[t] /\ events'[t] = events[t]
    BY <1>0, <1>7 DEF Create, SessionType
  <2> QED BY <1>g, <2>1, <2>2, <2>3, RevisionsBut
<1>8. ASSUME NEW s \in Sessions, SessionAppend(s) PROVE Revisions'
  <2>1. \A t \in Sessions : Settled(t)' => Settled(t)
    BY <1>8 DEF SessionAppend, cache, client, Settled, Wanted
  <2>2. \A t \in Sessions \ {s} :
          base'[t] = base[t] /\ balanced'[t] = balanced[t] /\ events'[t] = events[t]
    BY <1>0, <1>8 DEF SessionAppend, SessionType
  <2>3. ASSUME Settled(s)' PROVE Sound(s)'
    <3>1. Sound(s)
      BY <2>1, <2>3 DEF PreparedInv, Revisions
    <3>2. events'[s] = Append(events[s], s) /\ events[s] \in Seq(Sessions \cup {0})
      BY <1>0, <1>8 DEF SessionAppend, SessionType
    <3>3. IsPrefix(Balanced, events[s]) => IsPrefix(Balanced, events'[s])
      BY <1>0, <3>2, BalancedType, PrefixAppend
    <3> QED BY <1>8, <3>1, <3>3 DEF Sound, SessionAppend, store, Balanced
  <2> QED BY <1>g, <2>1, <2>2, <2>3, RevisionsBut
<1>9. ASSUME NEW s \in Sessions, Write(s) \/ Forget(s) \/ Dispose(s) \/ RetirementFails(s)
      PROVE Revisions'
  BY <1>9, <1>g, RevisionsSame DEF Write, Forget, Dispose, RetirementFails, cache, session, client,
     Settled, Wanted
<1>11. ASSUME NEW c \in Clients, NEW w, Ask(c, w) PROVE Revisions'
  BY <1>0, <1>11, <1>g, RevisionsSame DEF Ask, cache, session, Settled, Wanted, ClientType
<1>12. CASE AskAppend \/ UNCHANGED vars
  BY <1>12, <1>g, RevisionsSame DEF AskAppend, vars, cache, session, client, Settled, Wanted
<1>14. CASE Load
  <2>1. chain[1].s \in Sessions
    BY <1>0, <1>14, Runs DEF Load
  <2>2. \A t \in Sessions \ {chain[1].s} : Settled(t)' => Settled(t)
    BY <1>0, <1>14, <1>n, <2>1 DEF Load, Without, client, Settled, Wanted, CacheType
  <2>3. CASE /\ events' = [events EXCEPT ![chain[1].s] = Balanced]
             /\ base' = [base EXCEPT ![chain[1].s] = Len(stored)]
             /\ balanced' = [balanced EXCEPT ![chain[1].s] = Len(Balanced)]
    <3>1. PICK s \in Sessions : s = chain[1].s
      BY <2>1
    <3>2. base'[s] = Len(stored) /\ balanced'[s] = Len(Balanced) /\ events'[s] = Balanced
      BY <1>0, <2>3, <3>1 DEF SessionType
    <3>3. Balanced \in Seq(Sessions \cup {0}) /\ Len(stored) \in Nat
      BY <1>0, BalancedType
    <3>4. IsPrefix(Balanced, Balanced)
      BY <3>3, PrefixSelf
    <3>5. stored' = stored /\ open' = open
      BY <1>14 DEF Load, store
    <3>6. Sound(s)'
      BY <3>2, <3>3, <3>4, <3>5 DEF Sound, Balanced
    <3>7. \A t \in Sessions \ {s} :
            base'[t] = base[t] /\ balanced'[t] = balanced[t] /\ events'[t] = events[t]
      BY <1>0, <2>3, <3>1 DEF SessionType
    <3> QED BY <1>g, <2>2, <3>1, <3>6, <3>7, RevisionsBut
  <2>4. CASE phase' = [phase EXCEPT ![chain[1].s] = "failed"] /\ UNCHANGED session
    <3>1. \A t \in Sessions : Settled(t)' => Settled(t)
      BY <1>0, <2>1, <2>2, <2>4 DEF Settled, CacheType
    <3> QED BY <1>g, <2>4, <3>1, RevisionsSame DEF session
  <2> QED BY <1>14, <2>3, <2>4 DEF Load
<1>15. CASE Commit \/ CommitGivenUp
  <2>1. /\ chain[1].s \in Sessions /\ chain[1].c \in Clients /\ Fit(chain[1])
        /\ chain[1].kind = "commit"
    BY <1>0, <1>15, Runs DEF Commit, CommitGivenUp, PreparedInv, Queue
  <2>2. on[chain[1].c] = chain[1].s /\ pc[chain[1].c] = "committing"
        /\ phase[chain[1].s] \in {"committing", "none"} /\ Wanted(chain[1].s)
    BY <2>1 DEF Fit, PreparedInv, Clerks, Clerk, Wanted
  <2>3. \A s \in Sessions : phase[s] \in {"loading", "failed"} => phase'[s] = phase[s]
    BY <1>0, <1>15, <2>2 DEF Commit, CommitGivenUp, RemoveEntry, CacheType
  <2>4. \A s \in Sessions : entry' = s => entry = s
    BY <1>15, <1>n DEF Commit, CommitGivenUp, RemoveEntry, Without
  <2>5. \A s \in Sessions : Wanted(s)' => Wanted(s)
    BY <1>0, <1>15, <2>1, <2>2, <2>4 DEF Commit, CommitGivenUp, Turn, Wait, Wanted, ClientType
  <2> QED BY <1>15, <1>g, <2>3, <2>5, RevisionsSame DEF Commit, CommitGivenUp, session, Settled
<1>17. CASE Check
  <2>1. /\ chain[1].s \in Sessions /\ chain[1].c \in Clients /\ Fit(chain[1])
        /\ chain[1].kind = "check"
    BY <1>0, <1>17, Runs DEF Check, PreparedInv, Queue
  <2>2. phase[chain[1].s] \notin {"loading", "failed"}
    BY <2>1 DEF Fit, PreparedInv, Clerks, Clerk
  <2>3. \A s \in Sessions : phase[s] \in {"loading", "failed"} => phase'[s] = phase[s]
    BY <1>0, <1>17, <2>2 DEF Check, RemoveEntry, CacheType, cache
  <2>4. \A s \in Sessions : entry' = s => entry = s
    BY <1>17, <1>n DEF Check, RemoveEntry, Without, cache
  <2>5. \A s \in Sessions : Wanted(s)' => Wanted(s)
    BY <1>0, <1>17, <2>1, <2>4 DEF Check, Turn, Wait, Wanted, ClientType
  <2> QED BY <1>17, <1>g, <2>3, <2>5, RevisionsSame DEF Check, session, Settled
<1>18. ASSUME UNCHANGED <<base, balanced, events, client>>,
              UNCHANGED <<entry, phase>> \/ (entry # None /\ RemoveEntry(entry))
       PROVE  Revisions'
  <2>1. \A s \in Sessions : phase[s] \in {"loading", "failed"} => phase'[s] = phase[s]
    BY <1>0, <1>18 DEF RemoveEntry, CacheType
  <2>2. \A s \in Sessions : Wanted(s)' => Wanted(s)
    BY <1>18, <1>n DEF RemoveEntry, Without, Wanted, client
  <2> QED BY <1>18, <1>g, <2>1, <2>2, RevisionsSame DEF Settled
<1>19. CASE BeginAppend
  BY <1>18, <1>19 DEF BeginAppend, session
<1>20. CASE EndAppend
  <2>1. UNCHANGED <<entry, phase>> \/ (entry # None /\ RemoveEntry(entry))
    BY <1>20, EndCases, Zenon DEF PreparedInv
  <2>2. UNCHANGED <<base, balanced, events, client>>
    BY <1>20 DEF EndAppend, session
  <2> QED BY <1>18, <2>1, <2>2
<1>21. CASE WriteOp
  BY SMTT(30), <1>18, <1>21, WriteCache
<1>22. CASE Created \/ Suffix
  BY <1>18, <1>22 DEF Created, Suffix, Own, Refuse, Stored
<1>24. CASE Forgotten
  <2>1. \A s \in Sessions : Settled(s)' => Settled(s)
    BY <1>0, <1>24 DEF Forgotten, cache, Settled, Wanted, ClientType
  <2> QED BY <1>24, <1>g, <2>1, RevisionsSame DEF Forgotten
<1>25. CASE Aside
  BY <1>25, <1>1, <1>2, <1>4, <1>6, <1>7, <1>8, <1>9, <1>11, <1>12 DEF Aside, Arrival
<1> QED BY <1>3, <1>14, <1>15, <1>17, <1>19, <1>20, <1>21, <1>22, <1>24, <1>25, NextCases
      DEF Operation


-----------------------------------------------------------------------------
(***************************************************************************)
(* Reservations.                                                           *)
(***************************************************************************)

(* A caller that neither starts nor ends anything, and finds what it is    *)
(* about as it was.                                                        *)
LEMMA ClerkSame ==
  ASSUME PreparedInv, NEW c \in Clients,
         pc'[c] = pc[c], pc[c] # "waiting" => on'[c] = on[c],
         pc[c] \in {"checking", "committing", "holding"} =>
           /\ phase'[on[c]] = phase[on[c]]
           /\ entry' = on[c] => entry = on[c],
         pc[c] = "holding" => entry' = entry /\ state' = state /\ balanced'[entry] = balanced[entry]
  PROVE  Clerk(c)'
BY DEF PreparedInv, Clerks, Clerk

LEMMA AloneSame ==
  ASSUME PreparedInv, \A c \in Clients : Reserving(c)' => Reserving(c) /\ on'[c] = on[c]
  PROVE  (\A c, d \in Clients : Reserving(c) /\ Reserving(d) /\ on[c] = on[d] => c = d)'
BY DEF PreparedInv, Clerks, Clerk

(* A caller gives up what it had reserved. *)
LEMMA ClerksGiven ==
  ASSUME PreparedInv, NEW c \in Clients, Reserving(c),
         \A d \in Clients : d # c => pc'[d] = pc[d] /\ on'[d] = on[d],
         pc'[c] \in {"idle", "waiting"}, balanced' = balanced,
         RemoveEntry(on[c]) \/
           (entry' = entry /\ \E x \in {"ready", "none"} : phase' = [phase EXCEPT ![on[c]] = x])
           \/ (entry' = None /\ phase' = [phase EXCEPT ![on[c]] = "none"] /\ entry = on[c])
           \/ (entry # on[c] /\ UNCHANGED <<entry, phase>>),
         \A d \in Clients : d # c /\ pc[d] = "holding" => state' = state
  PROVE  Clerks'
<1>0. CacheType /\ ClientType
  BY TypeParts DEF PreparedInv
<1>n. \A s \in Sessions : s # None
  BY PreparedAssumption DEF None
<1>1. on[c] \in Sessions /\ phase[on[c]] # "loading"
  BY <1>0 DEF ClientType, Reserving, PreparedInv, Clerks, Clerk
<1>2. /\ phase'[on[c]] \notin {"loading", "failed"} \/ phase'[on[c]] = phase[on[c]]
      /\ \A s \in Sessions : s # on[c] => phase'[s] = phase[s]
      /\ entry' \in {entry, None} /\ (entry # on[c] => entry' = entry)
  BY <1>0, <1>1, RemovedType DEF CacheType
<1>3. ASSUME NEW d \in Clients, d # c PROVE Clerk(d)'
  <2>1. Reserving(d) => on[d] # on[c] /\ on[d] \in Sessions
    BY <1>0, <1>3 DEF PreparedInv, Clerks, Reserving, ClientType
  <2>2. CASE pc[d] = "checking"
    <3>1. on[d] \in Sessions /\ phase[on[d]] \notin {"loading", "failed"}
      BY <1>0, <1>3, <2>2 DEF PreparedInv, Clerks, Clerk, ClientType
    <3> QED BY <1>1, <1>2, <1>3, <2>2, <3>1 DEF Clerk
  <2>3. CASE pc[d] # "checking"
    <3>1. pc[d] = "holding" => entry = on[d]
      BY DEF PreparedInv, Clerks, Clerk
    <3> QED BY <1>2, <1>3, <1>n, <2>1, <2>3, <3>1, ClerkSame DEF Reserving
  <2> QED BY <2>2, <2>3
<1>4. Clerk(c)'
  BY DEF Clerk
<1>5. \A d \in Clients : Reserving(d)' => Reserving(d) /\ on'[d] = on[d]
  BY DEF Reserving
<1> QED BY <1>3, <1>4, <1>5, AloneSame DEF Clerks

LEMMA ClerksStep ==
  ASSUME PreparedInv, [Next]_vars
  PROVE  Clerks'
<1>0. CacheType /\ SessionType /\ StateType /\ ClientType /\ chain \in Seq(Ops) /\ TypeOK
  BY TypeParts DEF PreparedInv
<1>n. \A s \in Sessions : s # None
  BY PreparedAssumption DEF None
<1>a. ASSUME NEW c \in Clients, pc[c] \in {"loading", "checking", "committing", "holding"}
      PROVE  on[c] \in Sessions
  BY <1>0, <1>a DEF ClientType
<1>q. ASSUME \A c \in Clients : Clerk(c)',
             \A c \in Clients : Reserving(c)' => Reserving(c) /\ on'[c] = on[c]
      PROVE  Clerks'
  BY <1>q, AloneSame DEF Clerks
<1>1. ASSUME NEW c \in Clients, Look(c) PROVE Clerks'
  <2>1. \A d \in Clients : d # c => pc'[d] = pc[d] /\ on'[d] = on[d]
    BY <1>0, <1>1 DEF Look, Turn, ClientType
  <2>2. pc'[c] \in {"idle", "loading"}
    BY <1>0, <1>1 DEF Look, Turn, ClientType
  <2>3. Clerk(c)'
    BY <2>2 DEF Clerk
  <2>4. ASSUME NEW d \in Clients, d # c PROVE Clerk(d)'
    <3>1. CASE UNCHANGED <<cache, session>>
      BY <1>1, <2>1, <2>4, <3>1, ClerkSame DEF Look, cache, session
    <3>2. ASSUME NEW s \in Sessions, Fresh(s), entry = None, entry' = s,
                 phase' = [phase EXCEPT ![s] = "loading"], balanced' = [balanced EXCEPT ![s] = 0]
          PROVE  Clerk(d)'
      <4>1. on[d] # s
        BY <3>2 DEF Fresh, Free
      <4>2. pc[d] # "holding"
        BY <1>a, <1>n, <2>4, <3>2 DEF PreparedInv, Clerks, Clerk
      <4> QED BY <1>0, <1>a, <2>1, <2>4, <3>2, <4>1, <4>2, ClerkSame DEF CacheType
    <3> QED BY <1>1, <3>1, <3>2 DEF Look
  <2> QED BY <1>q, <2>1, <2>2, <2>3, <2>4 DEF Reserving
<1>2. ASSUME NEW c \in Clients, Resume(c) PROVE Clerks'
  <2>1. \A d \in Clients : d # c => pc'[d] = pc[d] /\ on'[d] = on[d]
    BY <1>0, <1>2 DEF Resume, Turn, Wait, ClientType
  <2>2. CASE UNCHANGED cache /\ pc'[c] \in {"idle", "waiting"}
    <3>1. \A d \in Clients : d # c => Clerk(d)'
      BY <1>2, <2>1, <2>2, ClerkSame DEF Resume, session, cache
    <3> QED BY <1>q, <2>1, <2>2, <3>1 DEF Clerk, Reserving
  <2>3. CASE UNCHANGED cache /\ phase[on[c]] \notin {"loading", "failed"} /\ pc'[c] = "checking" /\ on'[c] = on[c]
    <3>1. \A d \in Clients : d # c => Clerk(d)'
      BY <1>2, <2>1, <2>3, ClerkSame DEF Resume, session, cache
    <3> QED BY <1>q, <2>1, <2>3, <3>1 DEF Clerk, Reserving, cache
  <2>4. CASE /\ phase[on[c]] = "ready" /\ entry = on[c] /\ entry' = entry
             /\ phase' = [phase EXCEPT ![on[c]] = "committing"]
             /\ pc'[c] = "committing" /\ on'[c] = on[c]
    <3>1. on[c] \in Sessions
      BY <1>a, <1>2 DEF Resume
    <3>2. \A d \in Clients : Reserving(d) => on[d] # on[c]
      BY <2>4 DEF Reserving, PreparedInv, Clerks, Clerk
    <3>3. ASSUME NEW d \in Clients, d # c PROVE Clerk(d)'
      <4>1. pc[d] # "holding"
        BY <2>4, <3>2 DEF Reserving, PreparedInv, Clerks, Clerk
      <4>2. CASE pc[d] = "checking"
        BY <1>0, <1>a, <2>1, <2>4, <3>1, <3>3, <4>2 DEF Clerk, PreparedInv, Clerks, CacheType
      <4>3. CASE pc[d] # "checking"
        BY <1>0, <1>2, <1>a, <2>1, <2>4, <3>1, <3>2, <3>3, <4>1, <4>3, ClerkSame DEF Reserving, CacheType
      <4> QED BY <4>2, <4>3
    <3>4. Clerk(c)'
      BY <1>0, <2>4, <3>1 DEF Clerk, CacheType
    <3>5. (\A d, e \in Clients : Reserving(d) /\ Reserving(e) /\ on[d] = on[e] => d = e)'
      BY <2>1, <2>4, <3>2 DEF Reserving, PreparedInv, Clerks
    <3> QED BY <3>3, <3>4, <3>5 DEF Clerks
  <2>5. CASE Turn(c, "idle", None) /\ UNCHANGED <<cache, chain>>
    BY <1>0, <2>2, <2>5 DEF Turn, ClientType
  <2>6. CASE Wait(c) /\ UNCHANGED <<cache, chain>>
    BY <1>0, <2>2, <2>6 DEF Turn, Wait, ClientType
  <2>7. CASE phase[on[c]] \notin {"loading", "failed"} /\ Turn(c, "checking", on[c]) /\ UNCHANGED cache
    BY <1>0, <2>3, <2>7 DEF Turn, ClientType
  <2>8. CASE /\ phase[on[c]] = "ready" /\ entry = on[c] /\ UNCHANGED entry
             /\ phase' = [phase EXCEPT ![on[c]] = "committing"] /\ Turn(c, "committing", on[c])
    BY <1>0, <2>4, <2>8 DEF Turn, ClientType
  <2> QED BY <1>2, <2>5, <2>6, <2>7, <2>8 DEF Resume
<1>3. ASSUME NEW c \in Clients, GiveUp(c) PROVE Clerks'
  <2>1. /\ \A d \in Clients : d # c => pc'[d] = pc[d] /\ on'[d] = on[d]
        /\ pc'[c] = "idle"
    BY <1>0, <1>3 DEF GiveUp, Turn, ClientType
  <2>2. CASE pc[c] = "committing" /\ RemoveEntry(on[c])
    BY <1>3, <2>1, <2>2, ClerksGiven DEF GiveUp, Reserving, session
  <2>3. CASE UNCHANGED cache
    <3>1. \A d \in Clients : d # c => Clerk(d)'
      BY <1>3, <2>1, <2>3, ClerkSame DEF GiveUp, session, cache
    <3> QED BY <1>q, <2>1, <3>1 DEF Clerk, Reserving
  <2> QED BY <1>3, <2>2, <2>3 DEF GiveUp
<1>4. ASSUME NEW c \in Clients, Publish(c) \/ Release(c) PROVE Clerks'
  <2>1. /\ \A d \in Clients : d # c => pc'[d] = pc[d] /\ on'[d] = on[d]
        /\ pc'[c] = "idle" /\ pc[c] = "holding" /\ Reserving(c) /\ balanced' = balanced
    BY <1>0, <1>4 DEF Publish, Release, Turn, ClientType, Reserving, session
  <2>2. entry = on[c]
    BY <2>1 DEF PreparedInv, Clerks, Clerk
  <2>3. ASSUME NEW d \in Clients, d # c, pc[d] = "holding" PROVE FALSE
    <3>1. on[d] = entry
      BY <2>3 DEF PreparedInv, Clerks, Clerk
    <3> QED BY <2>1, <2>2, <2>3, <3>1 DEF PreparedInv, Clerks, Reserving
  <2> QED BY <1>4, <2>1, <2>2, <2>3, ClerksGiven DEF Publish, Release
<1>6. CASE Evict
  <2>1. \A d \in Clients : Clerk(d)'
    BY <1>6, <1>a, <1>n DEF Evict, Evictable, PreparedInv, Clerks, Clerk, client
  <2> QED BY <1>6, <1>q, <2>1 DEF Evict, client, Reserving
<1>7. ASSUME NEW s \in Sessions, NEW seed, Create(s, seed) PROVE Clerks'
  <2>1. ASSUME NEW d \in Clients PROVE Clerk(d)'
    <3>1. on[d] # s
      BY <1>7 DEF Create, Fresh, Free
    <3>2. pc[d] # "holding"
      BY <1>7, <1>a, <1>n DEF Create, PreparedInv, Clerks, Clerk
    <3> QED BY <1>0, <1>7, <1>a, <1>n, <3>1, <3>2, ClerkSame DEF Create, client, CacheType
  <2> QED BY <1>7, <1>q, <2>1 DEF Create, client, Reserving
<1>8. ASSUME UNCHANGED <<cache, state, balanced, pc>>,
             \A d \in Clients : pc[d] # "waiting" => on'[d] = on[d]
      PROVE  Clerks'
  <2>1. ASSUME NEW d \in Clients PROVE Clerk(d)'
    BY <1>8, ClerkSame DEF cache
  <2> QED BY <1>8, <1>q, <2>1 DEF Reserving
<1>9. ASSUME NEW s \in Sessions,
             SessionAppend(s) \/ Write(s) \/ Forget(s) \/ Dispose(s) \/ RetirementFails(s)
      PROVE  Clerks'
  BY <1>8, <1>9 DEF SessionAppend, Write, Forget, Dispose, RetirementFails, session, client
<1>11. ASSUME NEW c \in Clients, NEW w, Ask(c, w) PROVE Clerks'
  <2>1. \A d \in Clients : d # c => pc'[d] = pc[d] /\ on'[d] = on[d]
    BY <1>0, <1>11 DEF Ask, ClientType
  <2>2. pc'[c] = "waiting"
    BY <1>0, <1>11 DEF Ask, ClientType
  <2>3. \A d \in Clients : d # c => Clerk(d)'
    BY <1>11, <2>1, ClerkSame DEF Ask, session, cache
  <2> QED BY <1>q, <2>1, <2>2, <2>3 DEF Clerk, Reserving
<1>12. CASE AskAppend \/ UNCHANGED vars
  BY <1>8, <1>12 DEF AskAppend, vars, session, client
<1>14. CASE Load
  <2>1. chain[1].s \in Sessions /\ phase[chain[1].s] = "loading"
    BY <1>0, <1>14, Runs DEF Load, PreparedInv, Queue, Fit
  <2>2. \A t \in Sessions : t # chain[1].s => phase'[t] = phase[t] /\ balanced'[t] = balanced[t]
    BY <1>0, <1>14, <2>1 DEF Load, CacheType, SessionType, session
  <2>3. entry' \in {entry, None} /\ (entry # chain[1].s => entry' = entry)
    BY <1>14 DEF Load, Without
  <2>4. ASSUME NEW d \in Clients PROVE Clerk(d)'
    <3>1. pc[d] \in {"checking", "committing", "holding"} => on[d] # chain[1].s
      BY <2>1 DEF PreparedInv, Clerks, Clerk
    <3>2. pc[d] = "holding" => entry = on[d]
      BY DEF PreparedInv, Clerks, Clerk
    <3> QED BY <1>14, <1>a, <1>n, <2>2, <2>3, <3>1, <3>2, ClerkSame DEF Load, client
  <2> QED BY <1>14, <1>q, <2>4 DEF Load, client, Reserving
<1>15. CASE Commit \/ CommitGivenUp
  <2>1. /\ chain[1].s \in Sessions /\ chain[1].c \in Clients /\ Fit(chain[1])
        /\ chain[1].kind = "commit" /\ 1 \in DOMAIN chain
    BY <1>0, <1>15, Runs DEF Commit, CommitGivenUp, PreparedInv, Queue
  <2>2. PICK c \in Clients : c = chain[1].c
    BY <2>1
  <2>3. on[c] = chain[1].s /\ pc[c] = "committing" /\ Reserving(c)
    BY <2>1, <2>2 DEF Fit, Reserving
  <2>4. ASSUME NEW d \in Clients, pc[d] = "holding" PROVE FALSE
    <3>1. entry = on[d] /\ phase[entry] = "reserved" /\ entry # None
      BY <1>a, <1>n, <2>4 DEF PreparedInv, Clerks, Clerk
    <3>2. chain[1].s = entry
      BY <2>1, <3>1 DEF PreparedInv, Order
    <3> QED BY <2>3, <2>4, <3>1, <3>2 DEF PreparedInv, Clerks, Reserving
  <2>5. /\ \A d \in Clients : d # c => pc'[d] = pc[d] /\ on'[d] = on[d]
        /\ pc'[c] \in {"idle", "waiting", "holding"} /\ balanced' = balanced
    BY <1>0, <1>15, <2>2 DEF Commit, CommitGivenUp, Turn, Wait, ClientType, session
  <2>6. CASE pc'[c] \in {"idle", "waiting"}
    BY <1>0, <1>15, <2>2, <2>3, <2>4, <2>5, <2>6, ClerksGiven
       DEF Commit, CommitGivenUp, GivenBack, Turn, ClientType
  <2>7. CASE pc'[c] = "holding"
    <3>1. /\ state' = Claim(balanced[on[c]]) /\ entry = on[c] /\ entry' = entry
          /\ phase' = [phase EXCEPT ![on[c]] = "reserved"] /\ on'[c] = on[c]
      BY <1>0, <1>15, <2>2, <2>3, <2>7 DEF Commit, CommitGivenUp, Turn, Wait, ClientType
    <3>2. Clerk(c)'
      BY <1>0, <2>1, <2>3, <2>5, <2>7, <3>1 DEF Clerk, Claim, CacheType
    <3>3. ASSUME NEW d \in Clients, d # c PROVE Clerk(d)'
      <4>1. pc[d] = "committing" => on[d] # on[c]
        BY <2>3, <3>3 DEF PreparedInv, Clerks, Reserving
      <4> QED BY <1>0, <1>a, <2>1, <2>3, <2>4, <2>5, <3>1, <3>3, <4>1 DEF Clerk, PreparedInv, Clerks, CacheType
    <3>4. \A d \in Clients : Reserving(d)' => Reserving(d) /\ on'[d] = on[d]
      BY <2>3, <2>5, <3>1 DEF Reserving
    <3> QED BY <1>q, <3>2, <3>3, <3>4
  <2> QED BY <2>5, <2>6, <2>7
<1>17. CASE Check
  <2>1. PICK c \in Clients : c = chain[1].c
    BY <1>0, <1>17, Runs DEF Check
  <2>2. \A d \in Clients : d # c => pc'[d] = pc[d] /\ on'[d] = on[d]
    BY <1>0, <1>17, <2>1 DEF Check, Turn, Wait, ClientType
  <2>3. pc'[c] \in {"idle", "waiting"}
    BY <1>0, <1>17, <2>1 DEF Check, Turn, Wait, ClientType
  <2>4. balanced' = balanced /\ state' = state
    BY <1>17 DEF Check, session
  <2>5. CASE UNCHANGED <<entry, phase>>
    <3>1. \A d \in Clients : d # c => Clerk(d)'
      BY <2>2, <2>4, <2>5, ClerkSame
    <3> QED BY <1>q, <2>2, <2>3, <3>1 DEF Clerk, Reserving
  <2>6. CASE entry # None /\ phase[entry] = "ready" /\ RemoveEntry(entry)
    <3>1. \A d \in Clients : d # c => Clerk(d)'
      BY <1>0, <1>a, <1>n, <2>2, <2>6 DEF Clerk, RemoveEntry, Without, CacheType, PreparedInv, Clerks
    <3> QED BY <1>q, <2>2, <2>3, <3>1 DEF Clerk, Reserving
  <2>7. chain[1].s # None
    BY <1>0, <1>17, <1>n, Runs DEF Check
  <2> QED BY <1>17, <2>5, <2>6, <2>7 DEF Check, cache, Retained
<1>18. ASSUME UNCHANGED <<client, balanced>>, UNCHANGED <<entry, phase>> \/ (entry # None /\ RemoveEntry(entry)),
              \A d \in Clients : pc[d] = "holding" =>
                UNCHANGED <<entry, state>> 
       PROVE  Clerks'
  <2>1. ASSUME NEW d \in Clients PROVE Clerk(d)'
    <3>1. CASE UNCHANGED <<entry, phase>>
      BY <1>18, <3>1, ClerkSame DEF client
    <3>2. CASE entry # None /\ RemoveEntry(entry)
      BY <1>0, <1>18, <1>a, <1>n, <3>2, RemovedType DEF Clerk, CacheType, PreparedInv, Clerks, client
    <3> QED BY <1>18, <3>1, <3>2
  <2> QED BY <1>18, <1>q, <2>1 DEF Reserving, client
<1>e. ASSUME NEW d \in Clients, pc[d] = "holding"
      PROVE  entry # None /\ phase[entry] = "reserved" /\ state.owner = None
  BY <1>a, <1>e, <1>n DEF PreparedInv, Clerks, Clerk
<1>19. CASE BeginAppend
  BY <1>18, <1>19, <1>e DEF BeginAppend, session
<1>20. CASE EndAppend
  <2>1. \A d \in Clients : pc[d] # "holding"
    BY <1>20, <1>e DEF EndAppend, PreparedInv, Appending
  <2>2. UNCHANGED <<entry, phase>> \/ (entry # None /\ RemoveEntry(entry))
    BY <1>20, EndCases, Zenon DEF PreparedInv
  <2>3. UNCHANGED <<client, balanced>>
    BY <1>20 DEF EndAppend, session
  <2> QED BY <1>18, <2>1, <2>2, <2>3
<1>21. CASE WriteOp
  <2>1. \A d \in Clients : pc[d] = "holding" => UNCHANGED <<entry, state>>
    BY SMTT(30), <1>21, <1>e, WriteCache DEF Writable
  <2> QED BY <1>18, <1>21, <2>1, WriteCache
<1>22. CASE Created \/ Suffix
  <2>1. chain[1].kind \in {"created", "suffix"} /\ 1 \in DOMAIN chain
    BY <1>0, <1>22, Runs DEF Created, Suffix
  <2>2. \A d \in Clients : pc[d] # "holding"
    BY <1>e, <2>1 DEF PreparedInv, Order
  <2> QED BY <1>18, <1>22, <2>2 DEF Created, Suffix, Own, Refuse, Stored
<1>24. CASE Forgotten
  <2>1. chain[1].s # None
    BY <1>0, <1>24, <1>n, Runs DEF Forgotten
  <2>2. ASSUME NEW d \in Clients PROVE Clerk(d)'
    BY <1>0, <1>24, <1>e, <2>1, ClerkSame DEF Forgotten, cache, ClientType
  <2> QED BY <1>0, <1>24, <1>q, <2>2 DEF Forgotten, Reserving, ClientType
<1>25. CASE Aside
  BY <1>25, <1>1, <1>2, <1>4, <1>6, <1>7, <1>9, <1>11, <1>12 DEF Aside, Arrival
<1> QED BY <1>3, <1>14, <1>15, <1>17, <1>19, <1>20, <1>21, <1>22, <1>24, <1>25, NextCases
      DEF Operation


(* An append() that runs goes on while nothing of the chain runs. *)
LEMMA HeadKept ==
  ASSUME chain \in Seq(Ops), Aside \/ \E c \in Clients : GiveUp(c), Running("appending")'
  PROVE  Running("appending")
<1>1. ASSUME NEW o, o.kind # "appending", chain' = Append(chain, o) PROVE Running("appending")
  <2>1. chain = <<>> => chain'[1] = o
    BY <1>1
  <2>2. chain # <<>> => chain'[1] = chain[1]
    BY <1>1
  <2> QED BY <1>1, <2>1, <2>2 DEF Running
<1>2. CASE chain' = chain
  BY <1>2 DEF Running
<1>3. ASSUME NEW i \in 2 .. Len(chain), chain' = RemoveAt(chain, i) PROVE Running("appending")
  <2>1. i \in DOMAIN chain
    BY <1>3
  <2>2. Drops(i) /\ chain' \in Seq(Ops)
    BY <1>3, <2>1, ChainRemove
  <2>3. chain' # <<>> => 1 \in DOMAIN chain' /\ chain'[1] = chain[1]
    BY <1>3, <2>2 DEF Drops, Old
  <2> QED BY <1>3, <2>3 DEF Running
<1>4. ASSUME NEW c \in Clients, GiveUp(c) PROVE Running("appending")
  BY <1>2, <1>3, <1>4 DEF GiveUp
<1>5. ASSUME NEW c \in Clients, Look(c) \/ Resume(c) \/ Publish(c) \/ Release(c)
      PROVE  Running("appending")
  BY <1>1, <1>2, <1>5 DEF Look, Resume, Publish, Release, Op
<1>6. ASSUME NEW s \in Sessions,
             SessionAppend(s) \/ Write(s) \/ Dispose(s) \/ Forget(s) \/ RetirementFails(s)
      PROVE  Running("appending")
  BY <1>1, <1>2, <1>6 DEF SessionAppend, Write, Dispose, Forget, RetirementFails, Op
<1>7. CASE Arrival \/ UNCHANGED vars
  BY <1>1, <1>2, <1>7 DEF Arrival, AskAppend, Evict, Ask, Create, Op, vars
<1> QED BY <1>4, <1>5, <1>6, <1>7 DEF Aside

(* No other comes to run while an operation does. *)
LEMMA AppendingAlone ==
  ASSUME PreparedInv, Drops(1), chain' \in Seq(Ops)
  PROVE  ~Running("appending")'
<1>1. chain' # <<>> => 1 \in DOMAIN chain'
  OBVIOUS
<1>2. 1 \in DOMAIN chain' => chain'[1] = chain[2] /\ 2 \in DOMAIN chain
  BY DEF Drops, Old
<1> QED BY <1>1, <1>2 DEF Running, PreparedInv, Queue

LEMMA AppendingStep ==
  ASSUME PreparedInv, [Next]_vars
  PROVE  Appending'
<1>0. CacheType /\ SessionType /\ StateType /\ ClientType /\ chain \in Seq(Ops) /\ TypeOK
  BY TypeParts DEF PreparedInv
<1>n. \A s \in Sessions : s # None
  BY PreparedAssumption DEF None
<1>1. ASSUME Running("appending"), state' = state,
             entry' # None => \/ phase'[entry'] = "loading"
                              \/ entry' = entry /\ phase'[entry] = phase[entry]
      PROVE  Appending'
  BY <1>1 DEF PreparedInv, Appending
<1>2. ASSUME NEW s \in Sessions, RemoveEntry(s)
      PROVE  entry' # None => entry' = entry /\ phase'[entry] = phase[entry]
  BY <1>0, <1>n, <1>2, RemovedType DEF CacheType
<1>3. ASSUME NEW c \in Clients, Look(c), Running("appending") PROVE Appending'
  BY <1>0, <1>1, <1>3 DEF Look, cache, CacheType
<1>4. ASSUME NEW c \in Clients, Resume(c), Running("appending") PROVE Appending'
  <2>1. CASE UNCHANGED cache
    BY <1>1, <1>4, <2>1 DEF Resume, cache
  <2>2. CASE /\ phase[on[c]] = "ready" /\ entry = on[c] /\ UNCHANGED entry
             /\ phase' = [phase EXCEPT ![on[c]] = "committing"]
    <3>1. on[c] \in Sessions
      BY <1>0, <1>4 DEF Resume, ClientType
    <3>2. state' = state /\ phase'[entry'] = "committing" /\ state.known
      BY <1>0, <1>4, <1>n, <2>2, <3>1 DEF Resume, CacheType, PreparedInv, Appending
    <3> QED BY <3>2 DEF Appending
  <2> QED BY <1>4, <2>1, <2>2 DEF Resume
<1>5. ASSUME NEW c \in Clients, GiveUp(c), Running("appending") PROVE Appending'
  BY <1>0, <1>1, <1>2, <1>5 DEF GiveUp, cache, ClientType
<1>6. ASSUME NEW c \in Clients, Publish(c) \/ Release(c), Running("appending") PROVE Appending'
  <2>1. entry = on[c] /\ phase[entry] = "reserved" /\ on[c] # None
    BY <1>0, <1>6, <1>n DEF Publish, Release, PreparedInv, Clerks, Clerk, ClientType
  <2> QED BY <1>6, <2>1 DEF PreparedInv, Appending
<1>7. ASSUME NEW c \in Clients, NEW w, Ask(c, w), Running("appending") PROVE Appending'
  BY <1>1, <1>7 DEF Ask, cache
<1>8. ASSUME NEW s \in Sessions, NEW seed, Create(s, seed), Running("appending") PROVE Appending'
  BY <1>1, <1>8 DEF Create
<1>9. CASE (AskAppend \/ Evict \/ UNCHANGED vars) /\ Running("appending")
  BY <1>1, <1>9 DEF AskAppend, Evict, vars, cache
<1>10. ASSUME NEW s \in Sessions, Running("appending"),
              SessionAppend(s) \/ Write(s) \/ Dispose(s) \/ Forget(s) \/ RetirementFails(s)
       PROVE  Appending'
  BY <1>1, <1>10 DEF SessionAppend, Write, Dispose, Forget, RetirementFails, cache
<1>11. CASE Aside \/ \E c \in Clients : GiveUp(c)
  <2>1. CASE Running("appending")
    BY <1>3, <1>4, <1>5, <1>6, <1>7, <1>8, <1>9, <1>10, <1>11, <2>1 DEF Aside, Arrival
  <2>2. CASE ~Running("appending")
    BY <1>0, <1>11, <2>2, HeadKept DEF Appending
  <2> QED BY <2>1, <2>2
<1>12. ASSUME NEW kind, Running(kind), Done PROVE Appending'
  <2>1. chain' \in Seq(Ops) /\ Drops(1)
    BY <1>0, <1>12, Runs
  <2> QED BY <2>1, AppendingAlone DEF Appending
<1>13. CASE BeginAppend
  <2>1. CASE Done
    BY <1>12, <1>13, <2>1 DEF BeginAppend
  <2>2. CASE Writable /\ ~state.known /\ entry # None /\ phase[entry] = "ready" /\ RemoveEntry(entry)
    <3>1. entry' = None
      BY <1>0, <2>2, RemovedType DEF CacheType
    <3> QED BY <3>1 DEF Appending
  <2>3. CASE Writable /\ UNCHANGED <<entry, phase>> /\ (state.known \/ entry = None \/ phase[entry] # "ready")
    BY <1>0, <1>13, <2>3 DEF Writable, BeginAppend, Appending, CacheType
  <2> QED BY <1>13, <2>1, <2>2, <2>3 DEF BeginAppend
<1> QED BY <1>11, <1>12, <1>13, NextCases DEF Operation, Load, Commit, CommitGivenUp, Check, EndAppend, WriteOp,
        Created, Suffix, Forgotten

-----------------------------------------------------------------------------
(* The owner. *)
LEMMA OwningKept ==
  ASSUME PreparedInv, state' = state,
         state.owner # None =>
           /\ status[state.owner] \in {"live", "retiring", "stuck"}
                => status'[state.owner] \in {"live", "retiring", "stuck"}
           /\ entered'[state.owner] = entered[state.owner]
           /\ init'[state.owner] = "ready" => init[state.owner] = "ready",
         \A s \in Sessions : status'[s] \in {"live", "retiring"} =>
           \/ /\ status[s] \in {"live", "retiring"}
              /\ entered'[s] = entered[s] /\ events'[s] = events[s]
           \/ entered'[s] <= Len(events'[s])
  PROVE  Owning'
BY DEF PreparedInv, Owning

LEMMA OwningOwn ==
  ASSUME PreparedInv, NEW kind \in {"created", "suffix"}, Running(kind), NEW cursor \in Nat,
         Own(chain[1].s, cursor, chain[1].n), UNCHANGED <<status, events, entered>>
  PROVE  Owning'
<1>0. CacheType /\ SessionType /\ StateType /\ TypeOK
  BY TypeParts DEF PreparedInv
<1>1. PICK s \in Sessions, n \in Nat :
        /\ s = chain[1].s /\ n = chain[1].n /\ n <= Len(events[s]) /\ n = entered[s]
        /\ status[s] \in {"live", "retiring"}
  BY Captured
<1>2. CASE n > cursor /\ Stored(SubSeq(events[s], cursor + 1, n), cursor, s)
  <2>1. state'.cursor = n /\ state'.owner = s /\ state'.known /\ state'.materialized
    BY ZenonT(60), <1>0, <1>1, <1>2, StoredGrows
  <2> QED BY <1>1, <2>1 DEF Owning, PreparedInv
<1>3. CASE /\ state' = Owned(s, cursor, cursor > 0)
           /\ stored' = stored
           /\ init' = [init EXCEPT ![s] = IF cursor < n /\ stored' = stored THEN "failed" ELSE "ready"]
  <2>1. init'[s] = "ready" => cursor >= entered[s]
    BY <1>0, <1>1, <1>3 DEF SessionType
  <2>2. /\ state'.cursor = cursor /\ state'.owner = s /\ state'.known
        /\ ~state'.materialized => cursor = 0
    <3>1. CASE cursor > 0
      BY <1>3, <3>1 DEF Owned
    <3>2. CASE cursor = 0
      BY <1>3, <3>2 DEF Owned
    <3> QED BY <3>1, <3>2
  <2> QED BY <1>1, <2>1, <2>2 DEF Owning, PreparedInv
<1> QED BY <1>1, <1>2, <1>3 DEF Own, store

LEMMA OwningStep ==
  ASSUME PreparedInv, [Next]_vars
  PROVE  Owning'
<1>0. CacheType /\ SessionType /\ StateType /\ ClientType /\ StoreType /\ TypeOK
  BY TypeParts DEF PreparedInv
<1>n. \A s \in Sessions : s # None
  BY PreparedAssumption DEF None
<1>1. ASSUME NEW c \in Clients, Look(c) PROVE Owning'
  <2>1. CASE UNCHANGED session
    BY <1>1, <2>1, OwningKept DEF Look, session
  <2>2. ASSUME NEW s \in Sessions, Fresh(s), status' = [status EXCEPT ![s] = "unbuilt"],
               events' = [events EXCEPT ![s] = <<>>], UNCHANGED <<entered, init>>
        PROVE  Owning'
    <3>1. s # state.owner
      BY <2>2 DEF Fresh, Free
    <3>2. state.owner # None => status'[state.owner] = status[state.owner]
      BY <1>0, <2>2, <3>1 DEF SessionType, StateType
    <3>3. \A r \in Sessions : status'[r] \in {"live", "retiring"} =>
            status'[r] = status[r] /\ entered'[r] = entered[r] /\ events'[r] = events[r]
      BY <1>0, <2>2 DEF SessionType
    <3> QED BY <1>1, <2>2, <3>2, <3>3, OwningKept DEF Look
  <2> QED BY <1>1, <2>1, <2>2 DEF Look
<1>2. ASSUME UNCHANGED <<state, status, entered, init, events>> PROVE Owning'
  BY <1>2, OwningKept
<1>3. ASSUME NEW c \in Clients, Resume(c) \/ Release(c) \/ GiveUp(c) PROVE Owning'
  BY <1>2, <1>3 DEF Resume, Release, GiveUp, session
<1>4. ASSUME NEW c \in Clients, Publish(c) PROVE Owning'
  <2>1. PICK s \in Sessions : s = on[c]
    BY <1>0, <1>4 DEF Publish, ClientType
  <2>2. entry = s /\ state.known /\ state.materialized
    BY <1>4, <2>1 DEF Publish, PreparedInv, Clerks, Clerk
  <2>3. /\ state'.owner = s /\ state'.known = state.known /\ state'.cursor = state.cursor
        /\ state'.materialized = state.materialized
    BY <1>0, <1>4, <2>1 DEF Publish, StateType
  <2>4. status'[s] = "live" /\ entered'[s] = Len(events[s]) /\ events' = events
    BY <1>0, <1>4, <2>1 DEF Publish, SessionType
  <2>5. init'[s] = "ready" => Len(events[s]) = state.cursor
    BY <1>0, <1>4, <2>1 DEF Publish, SessionType
  <2>6. Len(events[s]) \in Nat /\ state.cursor \in Nat
    BY <1>0 DEF SessionType, StateType
  <2>7. \A r \in Sessions : r # s => status'[r] = status[r] /\ entered'[r] = entered[r]
    BY <1>0, <1>4, <2>1 DEF Publish, SessionType
  <2>8. \A r \in Sessions : status'[r] \in {"live", "retiring"} => entered'[r] <= Len(events'[r])
    BY <2>4, <2>6, <2>7 DEF PreparedInv, Owning
  <2> QED BY <1>n, <2>2, <2>3, <2>4, <2>5, <2>6, <2>8 DEF Owning
<1>5. ASSUME NEW s \in Sessions, NEW seed \in Seq(Sessions \cup {0}), Create(s, seed) PROVE Owning'
  <2>1. s # state.owner
    BY <1>5 DEF Create, Fresh, Free
  <2>2. state.owner # None =>
          /\ status'[state.owner] = status[state.owner] /\ init'[state.owner] = init[state.owner]
          /\ entered'[state.owner] = entered[state.owner]
    BY <1>0, <1>5, <2>1 DEF Create, SessionType, StateType
  <2>3. \A r \in Sessions : r # s =>
            status'[r] = status[r] /\ entered'[r] = entered[r] /\ events'[r] = events[r]
    BY <1>0, <1>5 DEF Create, SessionType
  <2>4. entered'[s] = Len(seed) /\ events'[s] = seed /\ Len(seed) \in Nat
    BY <1>0, <1>5 DEF Create, SessionType
  <2> QED BY <1>5, <2>2, <2>3, <2>4, OwningKept DEF Create
<1>6. ASSUME NEW s \in Sessions, SessionAppend(s) PROVE Owning'
  <2>1. \A r \in Sessions : r # s => events'[r] = events[r]
    BY <1>0, <1>6 DEF SessionAppend, SessionType
  <2>2. Len(events'[s]) = Len(events[s]) + 1 /\ Len(events[s]) \in Nat /\ entered[s] \in Nat
    BY <1>0, <1>6 DEF SessionAppend, SessionType
  <2>3. status[s] \in {"live", "retiring"} => entered[s] <= Len(events'[s])
    BY <2>2 DEF PreparedInv, Owning
  <2> QED BY <1>6, <2>1, <2>3, OwningKept DEF SessionAppend
<1>7. ASSUME NEW s \in Sessions, Write(s) \/ Forget(s) PROVE Owning'
  BY <1>2, <1>7 DEF Write, Forget, session
<1>8. ASSUME NEW s \in Sessions, status' = [status EXCEPT ![s] = "retiring"], status[s] = "live",
             UNCHANGED <<state, entered, init, events>>
      PROVE  Owning'
  <2>1. state.owner # None => state.owner \in Sessions
    BY <1>0 DEF StateType
  <2> QED BY <1>0, <1>8, <2>1, OwningKept DEF SessionType
<1>9. ASSUME NEW s \in Sessions, status' = [status EXCEPT ![s] = "stuck"],
             UNCHANGED <<state, entered, init, events>>
      PROVE  Owning'
  <2>1. state.owner # None => state.owner \in Sessions
    BY <1>0 DEF StateType
  <2> QED BY <1>0, <1>9, <2>1, OwningKept DEF SessionType
<1>10. ASSUME NEW s \in Sessions, Dispose(s) \/ RetirementFails(s) PROVE Owning'
  BY <1>8, <1>9, <1>10 DEF Dispose, RetirementFails, Retire
<1>11. ASSUME NEW c \in Clients, NEW w, Ask(c, w) PROVE Owning'
  BY <1>2, <1>11 DEF Ask, session
<1>12. CASE AskAppend \/ Evict \/ UNCHANGED vars
  BY <1>2, <1>12 DEF AskAppend, Evict, vars, session
<1>13. CASE Aside
  <2>1. stored \in Seq(Sessions \cup {0}) /\ \A s \in Sessions : <<s>> \in Seq(Sessions \cup {0})
    BY <1>0 DEF StoreType
  <2> QED BY <1>1, <1>3, <1>4, <1>5, <1>6, <1>7, <1>10, <1>11, <1>12, <1>13, <2>1 DEF Aside, Arrival
<1>14. CASE Load
  <2>1. chain[1].s \in Sessions /\ status[chain[1].s] = "unbuilt"
    BY <1>0, <1>14, Runs DEF Load, PreparedInv, Queue, Fit
  <2>2. state.owner # None => state.owner # chain[1].s /\ state.owner \in Sessions
    BY <1>0, <2>1 DEF PreparedInv, Owning, StateType
  <2>3. state.owner # None => status'[state.owner] = status[state.owner]
    BY <1>0, <1>14, <2>1, <2>2 DEF Load, SessionType, session
  <2>4. \A r \in Sessions : status'[r] \in {"live", "retiring"} =>
          status'[r] = status[r] /\ events'[r] = events[r]
    BY <1>0, <1>14, <2>1 DEF Load, SessionType, session
  <2>5. UNCHANGED <<state, entered, init>>
    BY <1>14 DEF Load, session
  <2> QED BY <2>3, <2>4, <2>5, OwningKept
<1>15. ASSUME UNCHANGED <<status, entered, init, events>>, NEW n, state' = Claim(n)
       PROVE  Owning'
  BY <1>15 DEF Claim, Owning, PreparedInv
<1>16. CASE Commit \/ CommitGivenUp \/ Check \/ BeginAppend
  BY <1>2, <1>15, <1>16 DEF Commit, CommitGivenUp, Check, BeginAppend, session
<1>17. CASE EndAppend
  <2>1. UNCHANGED <<status, entered, init, events>>
    BY <1>17 DEF EndAppend, session
  <2>2. state' = state \/ state' = Intrusion \/ \E n : state' = Claim(n)
    BY <1>0, <1>17, EndCases, Zenon
  <2>3. CASE state' = Intrusion
    <3>1. /\ state'.known /\ state'.cursor = state.cursor + 1 /\ state'.materialized
          /\ state'.owner = state.owner
      BY <2>3 DEF Intrusion
    <3>2. state.cursor \in Nat /\ (state.owner # None => entered[state.owner] \in Nat)
      BY <1>0 DEF StateType, SessionType
    <3> QED BY <2>1, <3>1, <3>2 DEF Owning, PreparedInv
  <2> QED BY <1>2, <1>15, <2>1, <2>2, <2>3
<1>18. CASE WriteOp
  <2>1. PICK s \in Sessions : s = chain[1].s
    BY <1>0, <1>18, Runs DEF WriteOp
  <2>2. state.owner = s /\ init[s] = "ready" /\ status[s] \in {"live", "retiring"}
    BY <1>0, <1>18, <2>1, Runs DEF WriteOp, PreparedInv, Queue, Fit
  <2>3. PICK cursor \in Nat, n \in Nat : cursor = state.cursor /\ n = Len(events[s])
    BY <1>0 DEF SessionType, StateType
  <2>4. CASE cursor < n /\ Stored(SubSeq(events[s], cursor + 1, n), cursor, s) /\ UNCHANGED status
    <3>1. state'.cursor = n /\ state'.owner = s /\ state'.known /\ state'.materialized
      <4>1. cursor < n /\ n <= Len(events[s]) /\ TypeOK
        BY <1>0, <2>3, <2>4
      <4> QED BY <2>4, <4>1, StoredGrows
    <3>2. cursor >= entered[s] /\ entered[s] \in Nat
      BY <1>0, <1>n, <2>2, <2>3 DEF PreparedInv, Owning, SessionType
    <3> QED BY <1>18, <2>2, <2>3, <2>4, <3>1, <3>2 DEF WriteOp, Owning, PreparedInv
  <2>5. CASE UNCHANGED <<state, status>> \/
             (state' = state /\ status' = [status EXCEPT ![s] = "stuck"])
    BY <1>2, <1>9, <1>18, <2>5 DEF WriteOp
  <2> QED BY <1>18, <2>1, <2>2, <2>3, <2>4, <2>5 DEF WriteOp, Retire
<1>r. ASSUME NEW s \in Sessions, Refuse(s), UNCHANGED <<status, entered, events>>
      PROVE  Owning'
  <2>1. UNCHANGED state /\ init' = [init EXCEPT ![s] = "failed"]
    BY <1>r DEF Refuse
  <2>2. state.owner # None => state.owner \in Sessions
    BY <1>0 DEF StateType
  <2>3. state.owner # None => (init'[state.owner] = "ready" => init[state.owner] = "ready")
    BY <1>0, <2>1, <2>2 DEF SessionType
  <2> QED BY <1>r, <2>1, <2>3, OwningKept
<1>19. CASE Created
  <2>0. chain[1].s \in Sessions /\ Running("created")
    BY <1>0, <1>19, Runs DEF Created
  <2>1. CASE Refuse(chain[1].s)
    BY <1>19, <1>r, <2>0, <2>1 DEF Created
  <2> DEFINE cursor == IF state.known /\ state.owner = None THEN state.cursor ELSE Len(stored)
  <2>2. cursor \in Nat
    BY <1>0 DEF StateType, StoreType
  <2>3. CASE Own(chain[1].s, cursor, chain[1].n)
    BY <1>19, <2>0, <2>2, <2>3, OwningOwn DEF Created
  <2> QED BY <1>19, <2>1, <2>3 DEF Created
<1>20. CASE Suffix
  <2>0. chain[1].s \in Sessions /\ Running("suffix")
    BY <1>0, <1>20, Runs DEF Suffix
  <2>1. state.cursor \in Nat
    BY <1>0 DEF StateType
  <2>2. CASE Own(chain[1].s, state.cursor, chain[1].n)
    BY <1>20, <2>0, <2>1, <2>2, OwningOwn DEF Suffix
  <2>3. CASE Refuse(chain[1].s)
    BY <1>20, <1>r, <2>0, <2>3 DEF Suffix
  <2> QED BY <1>20, <2>2, <2>3 DEF Suffix
<1>21. CASE Forgotten
  <2>1. chain[1].s \in Sessions
    BY <1>0, <1>21, Runs DEF Forgotten
  <2>2. \A r \in Sessions : r # chain[1].s => status'[r] = status[r]
    BY <1>0, <1>21, <2>1 DEF Forgotten, Retire, SessionType
  <2>3. status'[chain[1].s] = "cold"
    BY <1>0, <1>21, <2>1 DEF Forgotten, Retire, SessionType
  <2>4. CASE state.owner # chain[1].s
    <3>1. state.owner # None => state.owner \in Sessions
      BY <1>0 DEF StateType
    <3> QED BY <1>21, <2>2, <2>3, <2>4, <3>1, OwningKept DEF Forgotten
  <2>5. CASE state.owner = chain[1].s
    <3>1. state' = Unknown
      BY <1>21, <2>5 DEF Forgotten
    <3> QED BY <1>21, <2>2, <2>3, <3>1 DEF Forgotten, Unknown, Owning, PreparedInv
  <2> QED BY <2>4, <2>5
<1> QED BY <1>3, <1>13, <1>14, <1>16, <1>17, <1>18, <1>19, <1>20, <1>21, NextCases DEF Operation

-----------------------------------------------------------------------------
(***************************************************************************)
(* The theorems.                                                           *)
(***************************************************************************)
LEMMA PreparedInit == Init => PreparedInv
<1> SUFFICES ASSUME Init PROVE PreparedInv
  OBVIOUS
<1>1. TypeOK
  BY TypeInit
<1>2. /\ entry = None /\ chain = <<>> /\ state = Unknown
      /\ \A s \in Sessions : status[s] = "unbuilt"
      /\ \A c \in Clients : pc[c] = "idle" /\ on[c] = None
  BY DEF Init
<1>3. Queue /\ Order /\ Cached /\ Appending /\ Owning
  BY <1>2 DEF Queue, Order, Cached, Appending, Owning, Running, Unknown
<1>4. Clerks
  BY <1>2 DEF Clerks, Clerk, Reserving
<1>5. Revisions
  BY <1>2, PreparedAssumption DEF Revisions, Settled, Wanted, None
<1> QED BY <1>1, <1>3, <1>4, <1>5 DEF PreparedInv

(* Every reachable state satisfies the invariant. *)
THEOREM PreparedAlways == Spec => []PreparedInv
<1>1. PreparedInv /\ [Next]_vars => PreparedInv'
  BY TypeStep, QueueStep, OrderStep, CachedStep, RevisionsStep, ClerksStep, AppendingStep, OwningStep
     DEF PreparedInv
<1> QED BY PreparedInit, <1>1, PTL DEF Spec

(* The variables keep their types: an entry of the cache is one of its     *)
(* phases, and a caller that loads, reserves or checks has a Session.      *)
THEOREM TypeCorrect == Spec => []TypeOK
BY PreparedAlways, PTL DEF PreparedInv

LEMMA Holding ==
  ASSUME PreparedInv
  PROVE  ReservationHolds
<1> SUFFICES ASSUME NEW c \in Clients, pc[c] = "holding"
             PROVE  /\ Live = {} /\ Publishable(on[c])
                    /\ Current(on[c]) /\ IsPrefix(stored, events[on[c]])
  BY DEF ReservationHolds
<1>0. StoreType /\ SessionType /\ ClientType /\ TypeOK
  BY TypeParts DEF PreparedInv
<1>1. PICK s \in Sessions : s = on[c] /\ s # None
  BY <1>0, PreparedAssumption DEF ClientType, None
<1>2. /\ entry = s /\ phase[s] = "reserved" /\ state.owner = None
      /\ state.cursor = balanced[s]
  BY <1>1 DEF PreparedInv, Clerks, Clerk
<1>3. Live = {} /\ base[s] = Len(stored)
  BY <1>1, <1>2 DEF PreparedInv, Cached
<1>4. Sound(s)
  BY <1>1, <1>2 DEF PreparedInv, Revisions, Settled, Wanted
<1>5. IsPrefix(Balanced, events[s])
  BY <1>3, <1>4 DEF Sound
<1>6. IsPrefix(stored, events[s])
  <2>1. PICK e \in Seq(Sessions \cup {0}) : e = events[s]
    BY <1>0, <1>1 DEF SessionType
  <2>2. 0 \in Sessions \cup {0} /\ stored \in Seq(Sessions \cup {0})
    BY <1>0 DEF StoreType
  <2>3. CASE ~open
    BY <1>5, <2>3 DEF Balanced
  <2>4. CASE open
    <3>0. Append(stored, 0) \in Seq(Sessions \cup {0})
      BY <2>2
    <3>1. PICK b \in Seq(Sessions \cup {0}) : b = Append(stored, 0)
      BY <3>0
    <3>2. Len(b) = Len(stored) + 1 /\ Len(stored) \in Nat /\ \A i \in 1 .. Len(stored) : b[i] = stored[i]
      BY <2>2, <3>1
    <3>5. Balanced = b
      BY <2>4, <3>1 DEF Balanced
    <3>3. IsPrefix(b, e)
      BY <1>5, <2>1, <3>5
    <3>4. Len(b) <= Len(e) /\ \A i \in 1 .. Len(b) : b[i] = e[i]
      BY <3>3, PrefixPlaces
    <3>6. Len(stored) <= Len(e) /\ \A i \in 1 .. Len(stored) : stored[i] = e[i]
      <4>1. Len(e) \in Nat
        BY <2>1
      <4> QED BY <3>2, <3>4, <4>1
    <3>7. IsPrefix(stored, e)
      BY <2>1, <2>2, <3>6, PrefixPlaces
    <3> QED BY <2>1, <3>7
  <2> QED BY <2>3, <2>4
<1> QED BY <1>1, <1>2, <1>3, <1>6 DEF Publishable, Current

(* While a caller holds a prepared Session no Session of the id is live or *)
(* owns the log, the cursor is where publish() expects it, and the log it  *)
(* was built from is the one that is stored: publish() cannot throw.       *)
THEOREM HeldReservation == Spec => []ReservationHolds
BY PreparedAlways, Holding, PTL

(* The first of the chain leaves it by running. *)
LEMMA CheckRuns ==
  ASSUME PreparedInv, Next, Running("check"), chain' = Tail(chain)
  PROVE  Check
<1>1. chain \in Seq(Ops) /\ 1 \in DOMAIN chain /\ Drops(1)
  BY Runs DEF PreparedInv, Done
<1>2. /\ Len(chain) \in Nat /\ DOMAIN chain = 1 .. Len(chain) /\ DOMAIN chain' = 1 .. Len(chain) - 1
      /\ Len(chain) \in DOMAIN chain /\ Len(chain) \notin DOMAIN chain'
  BY SMTT(30), <1>1 DEF Drops
<1>3. chain' # chain
  BY <1>2
<1>4. ASSUME NEW o, chain' = Append(chain, o) PROVE FALSE
  <2>1. chain \in Seq(Ops \cup {o})
    BY SMTT(30), <1>1
  <2>2. DOMAIN chain' = 1 .. Len(chain) + 1
    <3>1. o \in Ops \cup {o}
      OBVIOUS
    <3>2. Adds(o)
      BY <1>4, <2>1, <3>1, ChainAppend
    <3> QED BY <3>2 DEF Adds
  <2>3. \A n \in Nat : n \in 1 .. n => n \in 1 .. n + 1
    OBVIOUS
  <2>4. Len(chain) \in Nat /\ Len(chain) \in 1 .. Len(chain) /\ Len(chain) \notin DOMAIN chain'
    BY <1>2, Zenon
  <2> QED BY <2>2, <2>3, <2>4, Zenon
<1>5. ASSUME NEW i \in 2 .. Len(chain), chain' = RemoveAt(chain, i) PROVE FALSE
  <2>1. Drops(i)
    BY <1>1, <1>2, <1>5, ChainRemove
  <2>2. 2 \in DOMAIN chain /\ 1 \in DOMAIN chain'
    BY <1>2, <1>5
  <2>3. chain'[1] = chain[2] /\ chain'[1] = chain[1]
    BY <1>1, <1>5, <2>1, <2>2 DEF Drops, Old
  <2>4. Same(chain[1], chain[2])
    <3>1. chain[1] = chain[2]
      BY <2>3
    <3>2. chain[1].s = chain[2].s /\ chain[1].c = chain[2].c
      BY <3>1, Zenon
    <3> QED BY <3>2 DEF Same
  <2> QED BY <1>1, <2>2, <2>4 DEF PreparedInv, Queue
<1>6. ASSUME NEW c \in Clients, GiveUp(c) PROVE FALSE
  BY <1>3, <1>5, <1>6 DEF GiveUp
<1>7. ASSUME NEW c \in Clients, Look(c) \/ Resume(c) \/ Publish(c) \/ Release(c) PROVE FALSE
  BY <1>3, <1>4, <1>7 DEF Look, Resume, Publish, Release
<1>8. ASSUME NEW s \in Sessions,
             SessionAppend(s) \/ Write(s) \/ Dispose(s) \/ Forget(s) \/ RetirementFails(s)
      PROVE  FALSE
  BY <1>3, <1>4, <1>8 DEF SessionAppend, Write, Dispose, Forget, RetirementFails
<1>9. CASE Arrival
  BY <1>3, <1>4, <1>9 DEF Arrival, AskAppend, Evict, Ask, Create
<1>10. Operation => Check
  BY DEF Operation, Load, Commit, CommitGivenUp, BeginAppend, EndAppend, WriteOp, Created, Suffix,
         Forgotten, Running
<1> QED BY <1>6, <1>7, <1>8, <1>9, <1>10 DEF Next

(* What inspect() answers with is the log as it is stored at that moment,  *)
(* closed where it is open, though the copy it answers with may have been  *)
(* read long before and be reserved by another caller.                     *)
THEOREM CurrentInspection == Spec => InspectIsCurrent
<1> DEFINE A == Running("check") /\ chain' = Tail(chain) =>
                  LET s == chain[1].s IN
                  pc'[chain[1].c] = "idle" /\ Live = {} => SubSeq(events[s], 1, balanced[s]) = Balanced
<1>1. PreparedInv /\ [Next]_vars => [A]_vars
  <2> SUFFICES ASSUME PreparedInv, Next, Running("check"), chain' = Tail(chain),
                      pc'[chain[1].c] = "idle", Live = {}
               PROVE  SubSeq(events[chain[1].s], 1, balanced[chain[1].s]) = Balanced
    OBVIOUS
  <2>0. StoreType /\ SessionType /\ ClientType /\ TypeOK
    BY TypeParts DEF PreparedInv
  <2>1. /\ chain \in Seq(Ops) /\ 1 \in DOMAIN chain /\ chain[1].kind = "check"
        /\ chain[1].s \in Sessions /\ chain[1].c \in Clients
    BY <2>0, Runs
  <2>2. PICK s \in Sessions, c \in Clients : s = chain[1].s /\ c = chain[1].c
    BY <2>1
  <2>3. on[c] = s /\ pc[c] = "checking" /\ phase[s] \notin {"loading", "failed"}
    BY <2>1, <2>2 DEF PreparedInv, Queue, Fit, Clerks, Clerk
  <2>4. Check
    BY <2>1, CheckRuns
  <2>5. Current(s) \/ Retained(s)
    BY <2>0, <2>2, <2>4 DEF Check, Turn, Wait, ClientType
  <2>6. base[s] = Len(stored)
    BY <2>2, <2>3, <2>5, PreparedAssumption DEF Current, Retained, PreparedInv, Cached, None
  <2>7. balanced[s] = Len(Balanced) /\ IsPrefix(Balanced, events[s])
    BY <2>3, <2>6 DEF PreparedInv, Revisions, Settled, Wanted, Sound
  <2>8. SubSeq(Balanced, 1, Len(Balanced)) = Balanced
    <3>1. PICK b \in Seq(Sessions \cup {0}) : b = Balanced
      BY <2>0, BalancedType
    <3> QED BY <3>1
  <2> QED BY <2>2, <2>7, <2>8 DEF IsPrefix
<1> HIDE DEF A
<1>2. Spec => [][A]_vars
  BY PreparedAlways, <1>1, PTL DEF Spec
<1> QED BY <1>2 DEF InspectIsCurrent, A

-----------------------------------------------------------------------------
(***************************************************************************)
(* What is known of the log, where no caller of append() leaves a turn     *)
(* open (the run prepared_stale_cursor shows what one that does breaks).   *)
(***************************************************************************)
LEMMA PrefixConcat ==
  ASSUME NEW S, NEW s \in Seq(S), NEW t \in Seq(S), NEW u \in Seq(S), IsPrefix(s, t),
         Len(s) + Len(u) <= Len(t), \A i \in 1 .. Len(u) : u[i] = t[Len(s) + i]
  PROVE  IsPrefix(s \o u, t)
<1>1. Len(s) <= Len(t) /\ \A i \in 1 .. Len(s) : s[i] = t[i]
  BY PrefixPlaces
<1>2. /\ Len(s) \in Nat /\ Len(u) \in Nat /\ Len(t) \in Nat
      /\ s \o u \in Seq(S) /\ Len(s \o u) = Len(s) + Len(u)
      /\ \A i \in 1 .. Len(s) : (s \o u)[i] = s[i]
      /\ \A i \in Len(s) + 1 .. Len(s) + Len(u) : (s \o u)[i] = u[i - Len(s)]
  OBVIOUS
<1>3. ASSUME NEW i \in 1 .. Len(s \o u) PROVE (s \o u)[i] = t[i]
  <2>1. CASE i <= Len(s)
    BY <1>1, <1>2, <2>1
  <2>2. CASE i > Len(s)
    <3>1. i - Len(s) \in 1 .. Len(u) /\ Len(s) + (i - Len(s)) = i /\ i \in Len(s) + 1 .. Len(s) + Len(u)
      BY <1>2, <2>2
    <3> QED BY <1>2, <3>1
  <2> QED BY <1>2, <2>1, <2>2
<1>4. Len(s \o u) <= Len(t)
  BY <1>2
<1> QED BY <1>2, <1>3, <1>4, PrefixPlaces

LEMMA PrefixStored ==
  ASSUME TypeOK, NEW s \in Sessions, NEW cursor \in Nat, NEW n \in Nat, NEW owner,
         cursor < n, n <= Len(events[s]), cursor = Len(stored),
         Stored(SubSeq(events[s], cursor + 1, n), cursor, owner)
  PROVE  Len(stored') = n /\ (IsPrefix(stored, events[s]) => IsPrefix(stored', events[s]))
<1>1. stored \in Seq(Sessions \cup {0}) /\ Len(stored) \in Nat
  BY TypeParts DEF StoreType
<1>2. PICK e \in Seq(Sessions \cup {0}) : e = events[s]
  BY TypeParts DEF SessionType
<1>3. PICK batch \in Seq(Sessions \cup {0}) :
        /\ batch = SubSeq(events[s], cursor + 1, n) /\ Len(batch) = n - cursor
        /\ \A i \in 1 .. n - cursor : batch[i] = events[s][cursor + i]
  <2>1. /\ SubSeq(events[s], cursor + 1, n) \in Seq(Sessions \cup {0})
        /\ Len(SubSeq(events[s], cursor + 1, n)) = IF cursor + 1 <= n THEN n - cursor ELSE 0
        /\ \A i \in 1 .. n - cursor : SubSeq(events[s], cursor + 1, n)[i] = events[s][cursor + i]
    BY SuffixType, Zenon
  <2>2. cursor + 1 <= n
    OBVIOUS
  <2> QED BY <2>1, <2>2, Zenon
<1>4. stored' = stored \o batch
  BY <1>3 DEF Stored
<1>5. Len(stored) + Len(batch) = n
  <2>1. Len(batch) = n - cursor
    BY <1>3
  <2>2. Len(stored) = cursor /\ cursor + (n - cursor) = n
    OBVIOUS
  <2> QED BY <2>1, <2>2
<1>6. Len(stored) + Len(batch) <= Len(e)
  BY <1>2, <1>5
<1>7. \A i \in 1 .. Len(batch) : batch[i] = e[Len(stored) + i]
  BY <1>2, <1>3
<1>8. IsPrefix(stored, e) => IsPrefix(stored \o batch, e)
  BY <1>1, <1>2, <1>6, <1>7, PrefixConcat
<1>9. Len(stored \o batch) = Len(stored) + Len(batch)
  BY <1>1, ConcatProperties
<1> QED BY <1>2, <1>4, <1>5, <1>8, <1>9

(* Whoever becomes the owner has the stored log, and what it adds of its   *)
(* own is stored.                                                          *)
LEMMA LogOwn ==
  ASSUME PreparedInv, NEW kind \in {"created", "suffix"}, Running(kind),
         state.intruded \/ IsPrefix(stored, events[chain[1].s]), events' = events,
         Own(chain[1].s, Len(stored), chain[1].n)
  PROVE  LogInv'
<1>0. StoreType /\ TypeOK
  BY TypeParts DEF PreparedInv
<1>n. \A s \in Sessions : s # None
  BY PreparedAssumption DEF None
<1>1. PICK s \in Sessions, n \in Nat, cursor \in Nat :
        s = chain[1].s /\ n = chain[1].n /\ n <= Len(events[s]) /\ cursor = Len(stored)
  <2>1. Len(stored) \in Nat
    BY <1>0 DEF StoreType
  <2> QED BY <2>1, Captured
<1>2. CASE n > cursor /\ Stored(SubSeq(events[s], cursor + 1, n), cursor, s)
  <2>0. TypeOK /\ cursor < n /\ n <= Len(events[s]) /\ cursor = Len(stored)
    BY <1>0, <1>1, <1>2
  <2>1. state'.cursor = n /\ state'.owner = s /\ state'.intruded = state.intruded
    BY <1>2, <2>0, StoredGrows
  <2>2. Len(stored') = n
    BY <1>2, <2>0, PrefixStored
  <2>3. state.intruded \/ IsPrefix(stored', events[s])
    BY <1>1, <1>2, <2>0, PrefixStored
  <2> QED BY <1>n, <2>1, <2>2, <2>3 DEF LogInv, OwnedLog
<1>3. CASE state' = Owned(s, cursor, cursor > 0) /\ UNCHANGED store
  <2>1. state'.cursor = cursor /\ state'.owner = s /\ state'.intruded = state.intruded
    BY <1>3 DEF Owned
  <2> QED BY <1>1, <1>3, <1>n, <2>1 DEF LogInv, OwnedLog, store
<1> QED BY <1>1, <1>2, <1>3 DEF Own

LEMMA LogSame ==
  ASSUME LogInv, UNCHANGED <<stored, open, state>>,
         state.owner # None => events'[state.owner] = events[state.owner]
  PROVE  LogInv'
BY DEF LogInv, OwnedLog

(* The log that a caller reserves is closed. *)
LEMMA LogReserved ==
  ASSUME PreparedInv, Running("commit"), Current(chain[1].s)
  PROVE  /\ balanced[chain[1].s] = base[chain[1].s] => open = FALSE
         /\ balanced[chain[1].s] > base[chain[1].s] => open = TRUE
         /\ base[chain[1].s] = Len(stored)
<1>0. StoreType /\ SessionType /\ TypeOK
  BY TypeParts DEF PreparedInv
<1>1. PICK s \in Sessions, c \in Clients : s = chain[1].s /\ c = chain[1].c
  BY <1>0, Runs
<1>2. on[c] = s /\ pc[c] = "committing" /\ phase[s] \in {"committing", "none"}
  <2>1. chain[1].kind = "commit" /\ Fit(chain[1])
    BY <1>0, Runs DEF PreparedInv, Queue
  <2>2. on[c] = s /\ pc[c] = "committing"
    BY <1>1, <2>1 DEF Fit
  <2> QED BY <2>2 DEF PreparedInv, Clerks, Clerk
<1>3. Sound(s) /\ base[s] = Len(stored)
  BY <1>1, <1>2 DEF PreparedInv, Revisions, Settled, Wanted, Current
<1>4. balanced[s] = IF open THEN Len(stored) + 1 ELSE Len(stored)
  BY <1>0, <1>3, BalancedType DEF Sound
<1>5. open \in BOOLEAN /\ Len(stored) \in Nat
  BY <1>0, BalancedType DEF StoreType
<1>6. CASE open = TRUE
  BY <1>1, <1>3, <1>4, <1>5, <1>6
<1>7. CASE open = FALSE
  BY <1>1, <1>3, <1>4, <1>5, <1>7
<1> QED BY <1>5, <1>6, <1>7

LEMMA LogStep ==
  ASSUME PreparedInv, LogInv, [Next]_vars, ~OpenAppends
  PROVE  LogInv'
<1>0. CacheType /\ SessionType /\ StateType /\ ClientType /\ StoreType /\ TypeOK
  BY TypeParts DEF PreparedInv
<1>n. \A s \in Sessions : s # None
  BY PreparedAssumption DEF None
<1>o. state.owner # None => state.owner \in Sessions
  BY <1>0 DEF StateType
<1>s. ASSUME UNCHANGED <<stored, open, state, events>> PROVE LogInv'
  BY <1>s, LogSame
<1>1. ASSUME NEW c \in Clients, Look(c) PROVE LogInv'
  <2>1. CASE UNCHANGED session
    BY <1>1, <1>s, <2>1 DEF Look, session, store
  <2>2. ASSUME NEW s \in Sessions, Fresh(s), events' = [events EXCEPT ![s] = <<>>]
        PROVE  LogInv'
    <3>1. s # state.owner
      BY <2>2 DEF Fresh, Free
    <3> QED BY <1>0, <1>1, <1>o, <2>2, <3>1, LogSame DEF Look, store, SessionType
  <2> QED BY <1>1, <2>1, <2>2 DEF Look
<1>2. ASSUME NEW c \in Clients, Resume(c) \/ Release(c) \/ GiveUp(c) PROVE LogInv'
  BY <1>2, <1>s DEF Resume, Release, GiveUp, session, store
<1>3. ASSUME NEW c \in Clients, Publish(c) PROVE LogInv'
  <2>1. IsPrefix(stored, events[on[c]]) /\ state.known
    BY <1>3, Holding DEF ReservationHolds, Publish, PreparedInv, Clerks, Clerk
  <2>2. /\ state'.owner = on[c] /\ state'.known = state.known /\ state'.cursor = state.cursor
        /\ on[c] \in Sessions /\ UNCHANGED <<store, events>>
    BY <1>0, <1>3 DEF Publish, StateType, ClientType
  <2> QED BY <1>n, <2>1, <2>2 DEF LogInv, OwnedLog, store
<1>4. ASSUME NEW s \in Sessions, NEW seed, Create(s, seed) PROVE LogInv'
  <2>1. s # state.owner
    BY <1>4 DEF Create, Fresh, Free
  <2> QED BY <1>0, <1>4, <1>o, <2>1, LogSame DEF Create, store, SessionType
<1>5. ASSUME NEW s \in Sessions, SessionAppend(s) PROVE LogInv'
  <2>1. CASE state.owner # s
    BY <1>0, <1>5, <1>o, <2>1, LogSame DEF SessionAppend, store, SessionType
  <2>2. CASE state.owner = s
    <3>1. PICK e \in Seq(Sessions \cup {0}) : e = events[s]
      BY <1>0 DEF SessionType
    <3>2. events'[s] = Append(e, s)
      BY <1>0, <1>5, <3>1 DEF SessionAppend, SessionType
    <3>3. UNCHANGED <<stored, open, state>>
      BY <1>5 DEF SessionAppend, store
    <3>4. stored \in Seq(Sessions \cup {0}) /\ s \in Sessions \cup {0}
      BY <1>0 DEF StoreType
    <3>5. IsPrefix(stored, e) => IsPrefix(stored, Append(e, s))
      BY <3>4, PrefixAppend
    <3> QED BY <2>2, <3>1, <3>2, <3>3, <3>5 DEF LogInv, OwnedLog
  <2> QED BY <2>1, <2>2
<1>6. ASSUME NEW s \in Sessions, Write(s) \/ Forget(s) \/ Dispose(s) \/ RetirementFails(s)
      PROVE  LogInv'
  BY <1>6, <1>s DEF Write, Forget, Dispose, RetirementFails, session, store
<1>7. ASSUME NEW c \in Clients, NEW w, Ask(c, w) PROVE LogInv'
  BY <1>7, <1>s DEF Ask, session, store
<1>8. CASE AskAppend \/ Evict \/ UNCHANGED vars
  BY <1>8, <1>s DEF AskAppend, Evict, vars, session, store
<1>9. CASE Aside
  BY <1>1, <1>2, <1>3, <1>4, <1>5, <1>6, <1>7, <1>8, <1>9 DEF Aside, Arrival
<1>10. CASE Load
  <2>1. chain[1].s \in Sessions /\ status[chain[1].s] = "unbuilt"
    BY <1>0, <1>10, Runs DEF Load, PreparedInv, Queue, Fit
  <2>2. state.owner # None => state.owner # chain[1].s
    BY <2>1 DEF PreparedInv, Owning
  <2>3. state.owner # None => events'[state.owner] = events[state.owner]
    BY <1>0, <1>10, <1>o, <2>1, <2>2 DEF Load, session, SessionType
  <2> QED BY <1>10, <2>3, LogSame DEF Load, store
<1>11. ASSUME NEW s \in Sessions, s = chain[1].s, Running("commit"), Current(s), balanced[s] = base[s],
              state' = Claim(balanced[s]), UNCHANGED store
       PROVE  LogInv'
  <2>1. open = FALSE /\ balanced[s] = Len(stored)
    BY <1>11, LogReserved
  <2> QED BY <1>11, <2>1 DEF Claim, LogInv, OwnedLog, store
<1>12. CASE Commit \/ CommitGivenUp
  <2>1. PICK s \in Sessions : s = chain[1].s
    BY SMTT(30), <1>0, <1>12, Runs DEF Commit, CommitGivenUp
  <2>2. Running("commit") /\ UNCHANGED events
    BY <1>12 DEF Commit, CommitGivenUp, session
  <2>3. CASE UNCHANGED <<store, state>>
    BY <1>s, <2>2, <2>3 DEF store
  <2>4. CASE Current(s) /\ state.owner = None /\ balanced[s] > base[s] /\ state' = state
    <3>1. open = TRUE
      BY <2>1, <2>2, <2>4, LogReserved
    <3> QED BY <2>4, <3>1 DEF LogInv, OwnedLog
  <2>5. CASE Current(s) /\ balanced[s] = base[s] /\ state' = Claim(balanced[s]) /\ UNCHANGED store
    BY <1>11, <2>1, <2>2, <2>5
  <2> QED BY <1>12, <2>1, <2>3, <2>4, <2>5 DEF Commit, CommitGivenUp
<1>13. CASE Check \/ BeginAppend
  BY <1>13, <1>s DEF Check, BeginAppend, session, store
<1>14. CASE EndAppend
  <2>1. UNCHANGED events
    BY <1>14 DEF EndAppend, session
  <2>2. CASE state' = state /\ stored' = stored /\ open' = open
    BY <1>s, <2>1, <2>2
  <2>3. CASE ~state.known /\ state' = state
    BY <2>3 DEF LogInv, OwnedLog
  <2>4. CASE stored' = Balanced /\ open' = FALSE /\ state' = Claim(Len(Balanced))
    BY <2>4 DEF Claim, LogInv, OwnedLog
  <2>5. CASE /\ open' \in {FALSE, OpenAppends}
             /\ \/ state.known /\ stored' = Append(stored, 0) /\ state' = Intrusion
                \/ stored' = Append(Balanced, 0) /\ state' = Claim(Len(Balanced) + 1)
    <3>1. /\ Len(Append(stored, 0)) = Len(stored) + 1
          /\ Len(Append(Balanced, 0)) = Len(Balanced) + 1
      BY <1>0, BalancedType DEF StoreType
    <3>2. open' = FALSE
      BY <2>5, PreparedAssumption
    <3>3. state.known => state.cursor = Len(stored)
      BY DEF LogInv, OwnedLog
    <3>4. CASE state.known /\ stored' = Append(stored, 0) /\ state' = Intrusion
      <4>1. state'.cursor = Len(stored') /\ (state'.owner # None => state'.intruded)
        BY <3>1, <3>3, <3>4 DEF Intrusion
      <4> QED BY <3>2, <4>1 DEF LogInv, OwnedLog
    <3>5. CASE stored' = Append(Balanced, 0) /\ state' = Claim(Len(Balanced) + 1)
      BY <3>1, <3>2, <3>5 DEF Claim, LogInv, OwnedLog
    <3> QED BY <2>5, <3>4, <3>5
  <2> QED BY <1>0, <1>14, <2>2, <2>3, <2>4, <2>5, EndCases
<1>15. CASE WriteOp
  <2>1. PICK s \in Sessions : s = chain[1].s
    BY <1>0, <1>15, Runs DEF WriteOp
  <2>2. state.owner = s /\ UNCHANGED events
    BY <1>0, <1>15, <2>1, Runs DEF WriteOp, PreparedInv, Queue, Fit
  <2>3. PICK cursor \in Nat, n \in Nat : cursor = state.cursor /\ n = Len(events[s])
    BY <1>0 DEF SessionType, StateType
  <2>4. CASE cursor < n /\ Stored(SubSeq(events[s], cursor + 1, n), cursor, s)
    <3>1. n <= Len(events[s]) /\ TypeOK
      BY <1>0, <2>3
    <3>2. cursor = Len(stored) /\ (state.intruded \/ IsPrefix(stored, events[s]))
      BY <1>n, <2>2, <2>3 DEF LogInv, OwnedLog, PreparedInv, Owning
    <3>3. state'.cursor = n /\ state'.owner = s /\ state'.intruded = state.intruded
      BY <2>4, <3>1, StoredGrows
    <3>4. Len(stored') = n /\ (state.intruded \/ IsPrefix(stored', events[s]))
      BY <2>4, <3>1, <3>2, PrefixStored
    <3> QED BY <1>n, <2>2, <3>3, <3>4 DEF LogInv, OwnedLog
  <2>5. CASE UNCHANGED <<store, state>>
    BY <1>s, <2>2, <2>5 DEF store
  <2> QED BY <1>15, <2>1, <2>2, <2>3, <2>4, <2>5 DEF WriteOp
<1>16. CASE Created
  <2>0. chain[1].s \in Sessions /\ Running("created") /\ UNCHANGED events
    BY <1>0, <1>16, Runs DEF Created
  <2>1. CASE Refuse(chain[1].s)
    BY <1>s, <2>0, <2>1 DEF Refuse, store
  <2>2. (IF state.known /\ state.owner = None THEN state.cursor ELSE Len(stored)) = Len(stored)
    BY DEF LogInv, OwnedLog
  <2>3. CASE Matches(chain[1].s, Len(stored)) /\ Own(chain[1].s, Len(stored), chain[1].n)
    <3>1. SubSeq(stored, 1, Len(stored)) = stored
      BY <1>0 DEF StoreType
    <3>2. IsPrefix(stored, events[chain[1].s])
      BY <2>3, <3>1 DEF Matches
    <3> QED BY <2>0, <2>3, <3>2, LogOwn
  <2> QED BY <1>16, <2>1, <2>2, <2>3 DEF Created
<1>17. CASE Suffix
  <2>1. chain[1].s \in Sessions /\ Running("suffix") /\ UNCHANGED events /\ state.owner = chain[1].s
    BY <1>0, <1>17, Runs DEF Suffix, PreparedInv, Queue, Fit
  <2>2. state.cursor = Len(stored) /\ (state.intruded \/ IsPrefix(stored, events[chain[1].s]))
    BY <1>n, <2>1 DEF LogInv, OwnedLog, PreparedInv, Owning
  <2>3. CASE Own(chain[1].s, state.cursor, chain[1].n)
    BY <2>1, <2>2, <2>3, LogOwn
  <2>4. CASE Refuse(chain[1].s)
    BY <1>s, <2>1, <2>4 DEF Refuse, store
  <2> QED BY <1>17, <2>3, <2>4 DEF Suffix
<1>18. CASE Forgotten
  <2>1. CASE state' = Unknown
    BY <2>1 DEF Unknown, LogInv, OwnedLog
  <2>2. CASE state' = state
    BY <1>18, <1>s, <2>2 DEF Forgotten, store
  <2> QED BY <1>18, <2>1, <2>2 DEF Forgotten
<1> QED BY <1>2, <1>9, <1>10, <1>12, <1>13, <1>14, <1>15, <1>16, <1>17, <1>18, NextCases DEF Operation

LEMMA LogAlways ==
  ASSUME ~OpenAppends
  PROVE  Spec => [](PreparedInv /\ LogInv)
<1>1. Init => LogInv
  BY DEF Init, Unknown, LogInv, OwnedLog
<1>2. PreparedInv /\ LogInv /\ [Next]_vars => LogInv'
  BY LogStep
<1> QED BY PreparedAlways, <1>1, <1>2, PTL DEF Spec

(* Where no caller of append() leaves a turn open behind, the cursor of an *)
(* id is the length of its stored log, and the log of the Session that     *)
(* owns it begins with what is stored: the owner's events are stored in    *)
(* their order and nothing is between them, unless a caller of append()    *)
(* has put something there since the Session took the log.                 *)
THEOREM OwnedLogHolds ==
  ASSUME ~OpenAppends
  PROVE  Spec => []OwnedLog
<1>1. LogInv => OwnedLog
  BY DEF LogInv
<1> QED BY LogAlways, <1>1, PTL

(* A retiring Session gets cold by nothing else. *)
LEMMA ForgetRuns ==
  ASSUME PreparedInv, Next, NEW s \in Sessions, status[s] = "retiring", status'[s] = "cold"
  PROVE  Running("forget") /\ chain[1].s = s
<1>0. SessionType /\ TypeOK
  BY TypeParts DEF PreparedInv
<1>1. CASE UNCHANGED status
  BY <1>1
<1>2. ASSUME NEW r \in Sessions, NEW x \in {"unbuilt", "live", "retiring", "stuck"},
             status' = [status EXCEPT ![r] = x]
      PROVE  FALSE
  BY <1>0, <1>2 DEF SessionType
<1>3. ASSUME NEW c \in Clients, Look(c) \/ Resume(c) \/ GiveUp(c) \/ Publish(c) \/ Release(c)
      PROVE  FALSE
  <2>1. Publish(c) => on[c] \in Sessions
    BY DEF Publish, PreparedInv, TypeOK
  <2> QED BY <1>1, <1>2, <1>3, <2>1 DEF Look, Resume, GiveUp, Publish, Release, session
<1>4. ASSUME NEW r \in Sessions,
             SessionAppend(r) \/ Write(r) \/ Dispose(r) \/ Forget(r) \/ RetirementFails(r)
      PROVE  FALSE
  BY <1>1, <1>2, <1>4 DEF SessionAppend, Write, Dispose, Forget, RetirementFails, Retire, session
<1>5. CASE Arrival
  BY <1>1, <1>2, <1>5 DEF Arrival, AskAppend, Evict, Ask, Create, session
<1>6. CASE Load
  <2>1. chain[1].s \in Sessions /\ status[chain[1].s] = "unbuilt"
    BY <1>0, <1>6, Runs DEF Load, PreparedInv, Queue, Fit
  <2> QED BY <1>0, <1>6, <2>1 DEF Load, session, SessionType
<1>7. CASE Commit \/ CommitGivenUp \/ Check \/ BeginAppend \/ EndAppend \/ Created \/ Suffix
  BY <1>1, <1>7 DEF Commit, CommitGivenUp, Check, BeginAppend, EndAppend, Created, Suffix, session
<1>8. CASE WriteOp
  <2>1. chain[1].s \in Sessions
    BY <1>0, <1>8, Runs DEF WriteOp
  <2> QED BY <1>1, <1>2, <1>8, <2>1 DEF WriteOp, Retire
<1>9. CASE Forgotten
  <2>1. chain[1].s \in Sessions
    BY <1>0, <1>9, Runs DEF Forgotten
  <2>2. chain[1].s = s
    BY <1>0, <1>9, <2>1 DEF Forgotten, Retire, SessionType
  <2> QED BY <1>9, <2>2 DEF Forgotten
<1> QED BY <1>3, <1>4, <1>5, <1>6, <1>7, <1>8, <1>9 DEF Next, Operation

(* A Session that owns the log is forgotten, when it retires, only once    *)
(* all its events are stored, under the same condition and unless a caller *)
(* of append() came in between.                                            *)
THEOREM RetiredIsStored ==
  ASSUME ~OpenAppends
  PROVE  Spec => NothingForgotten
<1> DEFINE A == ~state.intruded => \A s \in Sessions : ForgottenStored(s)
<1>1. PreparedInv /\ LogInv /\ [Next]_vars => [A]_vars
  <2> SUFFICES ASSUME PreparedInv, LogInv, Next, ~state.intruded, NEW s \in Sessions,
                      status[s] = "retiring", status'[s] = "cold", state.owner = s
               PROVE  IsPrefix(events[s], stored)
    BY DEF A, ForgottenStored
  <2>0. StoreType /\ SessionType /\ StateType /\ TypeOK
    BY TypeParts DEF PreparedInv
  <2>1. Running("forget") /\ chain[1].s = s
    BY ForgetRuns
  <2>2. init[s] = "ready" /\ ~HasWork(s)
    BY <2>0, <2>1, Runs DEF PreparedInv, Queue, Fit
  <2>3. s # None
    BY PreparedAssumption DEF None
  <2>4. state.cursor = Len(stored) /\ IsPrefix(stored, events[s]) /\ state.cursor >= entered[s]
    BY <2>2, <2>3 DEF LogInv, OwnedLog, PreparedInv, Owning
  <2>5. PICK e \in Seq(Sessions \cup {0}) : e = events[s]
    BY <2>0 DEF SessionType
  <2>6. Len(stored) \in Nat /\ Len(e) \in Nat /\ entered[s] \in Nat
    BY <2>0, <2>5 DEF StoreType, SessionType
  <2>7. Len(e) <= Len(stored)
    BY <2>2, <2>4, <2>5, <2>6 DEF HasWork
  <2>8. stored \in Seq(Sessions \cup {0}) /\ IsPrefix(stored, e)
    BY <2>0, <2>4, <2>5 DEF StoreType
  <2>9. Len(stored) <= Len(e) /\ \A i \in 1 .. Len(stored) : stored[i] = e[i]
    BY <2>8, PrefixPlaces
  <2>10. Len(e) <= Len(stored) /\ \A i \in 1 .. Len(e) : e[i] = stored[i]
    BY <2>6, <2>7, <2>9
  <2>11. IsPrefix(e, stored)
    BY <2>8, <2>10, PrefixPlaces
  <2> QED BY <2>5, <2>11
<1> HIDE DEF A
<1>2. Spec => [][A]_vars
  BY LogAlways, <1>1, PTL DEF Spec
<1> QED BY <1>2 DEF NothingForgotten, A

=============================================================================
