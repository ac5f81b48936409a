------------------------- MODULE PluginFibersProofs -------------------------
(***************************************************************************)
(* Proofs about the plugin kernel, for any set of plugins, services and    *)
(* dependencies among them that is not circular: type correctness, that a  *)
(* fiber that has settled is current, and that an unload ends last.        *)
(*                                                                         *)
(* Most steps end in notify(), whose effect spreads over the fibers by a   *)
(* least fixed point.  It is treated once, in the lemmas before the        *)
(* actions: given what an action hands to it (Ready), it leaves every      *)
(* fiber in one of three ways (Notified), and those keep the invariant     *)
(* (NotifyKeeps).                                                          *)
(***************************************************************************)
EXTENDS PluginFibers, TLAPS

-----------------------------------------------------------------------------
(***************************************************************************)
(* The invariant.                                                          *)
(***************************************************************************)
States == {"PENDING", "LOADING", "ACTIVE", "FAILED", "DISPOSED", "UNLOADING"}

Is(j, kind) == j # None /\ j.is = kind

(* A state, an epoch and a job that belong together. *)
Fits(d, s, e, j) ==
  /\ e \in [Inject[d] -> Fibers] \cup {None} /\ j \in Jobs(d) \cup {None} /\ s \in States
  /\ s = "LOADING" <=> Is(j, "reload")
  /\ s = "UNLOADING" <=> Is(j, "unload")
  /\ s = "ACTIVE" <=> j = None /\ e # None

(* The epoch a live fiber may have, when e calls for it. *)
Calls(d, e, loading, found0, failed) ==
  e = Epoch(found0[d]) \/ (e = None /\ failed[d] /\ ~loading)

Domains ==
  /\ DOMAIN state = Fibers /\ DOMAIN epoch = Fibers /\ DOMAIN inertia = Fibers
  /\ DOMAIN found = Fibers /\ DOMAIN using = Fibers

(* What a live fiber has found is what there is, whatever else it does. *)
Found == \A f \in Fibers : Live(f) => found[f] = [s \in Inject[f] |-> Visible(s)]

(* Its epoch follows from that, unless its body threw; others have none. *)
Called ==
  \A f \in Fibers :
    /\ Live(f) => epoch[f] = Epoch(found[f]) \/ (epoch[f] = None /\ error[f] /\ ~Reloading(f))
    /\ ~Live(f) => epoch[f] = None
    /\ uid[f] = "unmounted" => inertia[f] = None

(* What a fiber runs with is what it was loaded for. *)
Took ==
  \A f \in Fibers :
    /\ Reloading(f) => using[f] = inertia[f].old
    /\ state[f] = "ACTIVE" => using[f] = epoch[f]
    /\ inertia[f] = None /\ state[f] # "ACTIVE" => using[f] = None

(* An unload has on its list, or awaits, what it has not undone yet. *)
Undone ==
  \A f \in Fibers : Unloading(f) =>
    /\ \A c \in Mounted(f) : ~Gone(c) =>
         c \in inertia[f].left \/ (c \in inertia[f].awaits /\ uid[c] = "null")
    /\ \A x \in inertia[f].left \cap Fibers : uid[x] # "unmounted" /\ Parent[x] = f
    /\ \A s \in Services : s \in inertia[f].left <=> impl[s] = f

(* A provider that has taken its service off awaits who runs with it. *)
Users ==
  \A f, d \in Fibers : Live(d) /\ using[d] # None =>
    \A s \in Inject[d] : using[d][s] = f =>
      impl[s] = f \/ (Unloading(f) /\ d \in inertia[f].awaits)

KernelInv == TypeOK /\ Domains /\ Found /\ Called /\ Took /\ Undone /\ Users

-----------------------------------------------------------------------------
(***************************************************************************)
(* notify().                                                               *)
(***************************************************************************)
LEMMA TypeParts ==
  TypeOK <=> /\ uid \in [Fibers -> {"unmounted", "live", "null"}]
             /\ impl \in [Services -> Fibers \cup {None}]
             /\ error \in [Fibers -> BOOLEAN] /\ updates \in 0 .. MaxUpdates
             /\ \A f \in Fibers :
                  /\ found[f] \in [Inject[f] -> Fibers \cup {None}]
                  /\ using[f] \in [Inject[f] -> Fibers] \cup {None}
                  /\ Fits(f, state[f], epoch[f], inertia[f])
                  /\ state[f] = "DISPOSED" => uid[f] = "null" /\ Unload(f).left = {}
BY DEF TypeOK, Fits, States, Is, Reloading, Unloading, Runs

LEMMA TypePartsNext ==
  TypeOK' <=> /\ uid' \in [Fibers -> {"unmounted", "live", "null"}]
              /\ impl' \in [Services -> Fibers \cup {None}]
              /\ error' \in [Fibers -> BOOLEAN] /\ updates' \in 0 .. MaxUpdates
              /\ \A f \in Fibers :
                   /\ found'[f] \in [Inject[f] -> Fibers \cup {None}]
                   /\ using'[f] \in [Inject[f] -> Fibers] \cup {None}
                   /\ Fits(f, state'[f], epoch'[f], inertia'[f])
                   /\ state'[f] = "DISPOSED" => uid'[f] = "null" /\ Unload(f)'.left = {}
BY DEF TypeOK, Fits, States, Is, Reloading, Unloading, Runs

(* What a step hands to notify() is of one piece, and names all services   *)
(* that it shows differently.                                              *)
Ready(s0, e0, j0, names) ==
  /\ uid' \in [Fibers -> {"unmounted", "live", "null"}]
  /\ impl' \in [Services -> Fibers \cup {None}] /\ names \subseteq Services
  /\ \A d \in Fibers :
       /\ Fits(d, s0[d], e0[d], j0[d])
       /\ uid'[d] = "live" => Live(d) /\ Calls(d, e0[d], s0[d] = "LOADING", found, error')
       /\ uid'[d] # "live" => e0[d] = None
  /\ \A s \in Services \ names : Sees(s0, s, {}) = Visible(s)

LEMMA EpochType ==
  ASSUME NEW d \in Fibers, NEW seen \in [Inject[d] -> Fibers \cup {None}]
  PROVE  /\ Epoch(seen) \in [Inject[d] -> Fibers] \cup {None}
         /\ Epoch(seen) # None => Epoch(seen) = seen /\ seen \in [Inject[d] -> Fibers]
         /\ seen \in [Inject[d] -> Fibers] => Epoch(seen) = seen /\ seen # None
         /\ (\E s \in Inject[d] : seen[s] = None) => Epoch(seen) = None
BY FiberAssumption DEF Epoch

LEMMA SeenType ==
  ASSUME KernelInv, NEW s0, NEW e0, NEW j0, NEW names, Ready(s0, e0, j0, names),
         NEW L, NEW d \in Fibers
  PROVE  /\ Seen(d, s0, names, L) \in [Inject[d] -> Fibers \cup {None}]
         /\ ~Hit(d, names, L) => Seen(d, s0, names, L) = found[d]
<1>1. /\ found[d] \in [Inject[d] -> Fibers \cup {None}] /\ Inject[d] \subseteq Services
      /\ \A s \in Services : impl'[s] \in Fibers \cup {None}
  BY TypeParts, FiberAssumption DEF KernelInv, Ready
<1>2. \A s \in Inject[d] : Sees(s0, s, L) \in Fibers \cup {None}
  BY <1>1 DEF Sees
<1> QED BY <1>1, <1>2 DEF Seen, Hit

(* A fiber that runs leaves when it sees one of its services changed. *)
LEMMA TurnsAway ==
  ASSUME KernelInv, NEW s0, NEW e0, NEW j0, NEW names, Ready(s0, e0, j0, names),
         NEW L, NEW x \in Active(e0, j0)
  PROVE  /\ uid'[x] = "live" /\ found[x] \in [Inject[x] -> Fibers] /\ e0[x] = found[x]
         /\ Turn(x, s0, e0, names, L) # e0[x] <=>
              \E s \in Inject[x] : s \in Moved(names, L) /\ Sees(s0, s, L) # found[x][s]
<1>1. x \in Fibers /\ e0[x] # None /\ found[x] \in [Inject[x] -> Fibers \cup {None}]
  BY TypeParts DEF KernelInv, Active
<1>2. uid'[x] = "live" /\ e0[x] = Epoch(found[x])
  BY <1>1 DEF Ready, Calls
<1>3. e0[x] = found[x] /\ found[x] \in [Inject[x] -> Fibers]
  BY <1>1, <1>2, EpochType
<1>4. Seen(x, s0, names, L) \in [Inject[x] -> Fibers \cup {None}]
  BY <1>1, SeenType
<1>5. CASE \E s \in Inject[x] : s \in Moved(names, L) /\ Sees(s0, s, L) # found[x][s]
  <2>1. Hit(x, names, L)
    BY <1>2, <1>5 DEF Hit
  <2>2. Seen(x, s0, names, L) # found[x]
    BY <1>2, <1>5 DEF Seen
  <2>3. Epoch(Seen(x, s0, names, L)) # found[x]
    BY <1>1, <1>3, <1>4, <2>2, EpochType
  <2> QED BY <1>2, <1>3, <1>5, <2>1, <2>3 DEF Turn
<1>6. CASE ~\E s \in Inject[x] : s \in Moved(names, L) /\ Sees(s0, s, L) # found[x][s]
  <2>1. \A s \in Inject[x] : Seen(x, s0, names, L)[s] = found[x][s]
    BY <1>6 DEF Seen
  <2>2. Seen(x, s0, names, L) = found[x]
    BY <1>1, <1>4, <2>1
  <2> QED BY <1>2, <1>3, <1>6, <2>2 DEF Turn
<1> QED BY <1>5, <1>6

(* When more fibers leave, no fewer follow: the fixed point is one. *)
LEMMA LeftCloses ==
  ASSUME KernelInv, NEW s0, NEW e0, NEW j0, NEW names, Ready(s0, e0, j0, names)
  PROVE  /\ Left(s0, e0, j0, names) \subseteq Active(e0, j0)
         /\ Closed(s0, e0, j0, names, Left(s0, e0, j0, names))
<1>1. Left(s0, e0, j0, names) \subseteq Active(e0, j0)
  BY DEF Left
<1>2. ASSUME NEW x \in Active(e0, j0), NEW K, NEW L, K \subseteq L,
             Turn(x, s0, e0, names, K) # e0[x]
      PROVE  Turn(x, s0, e0, names, L) # e0[x]
  <2>1. PICK s \in Inject[x] : s \in Moved(names, K) /\ Sees(s0, s, K) # found[x][s]
    BY <1>2, TurnsAway
  <2>2. s \in Moved(names, L)
    BY <1>2, <2>1 DEF Moved
  <2>3. found[x][s] # None
    <3>1. found[x][s] \in Fibers
      BY TurnsAway
    <3> QED BY <3>1, FiberAssumption
  <2>4. Sees(s0, s, L) # found[x][s]
    BY <1>2, <2>1, <2>3 DEF Sees
  <2> QED BY <2>2, <2>4, TurnsAway
<1>3. ASSUME NEW x \in Active(e0, j0), Turn(x, s0, e0, names, Left(s0, e0, j0, names)) # e0[x]
      PROVE  x \in Left(s0, e0, j0, names)
  <2>1. ASSUME NEW L \in SUBSET Active(e0, j0), Closed(s0, e0, j0, names, L)
        PROVE  x \in L
    <3>1. Left(s0, e0, j0, names) \subseteq L
      BY <2>1 DEF Left
    <3>2. Turn(x, s0, e0, names, L) # e0[x]
      BY <1>2, <1>3, <3>1
    <3> QED BY <2>1, <3>2 DEF Closed
  <2> QED BY <2>1 DEF Left
<1> QED BY <1>1, <1>3 DEF Closed

LEMMA NobodyLeaves ==
  ASSUME NEW s0, NEW e0, NEW j0, NEW names,
         \A x \in Active(e0, j0) : Turn(x, s0, e0, names, {}) = e0[x]
  PROVE  Left(s0, e0, j0, names) = {}
<1>1. Closed(s0, e0, j0, names, {})
  BY DEF Closed
<1> QED BY <1>1 DEF Left

(* The three ways in which a fiber comes out of it. *)
Leaves(d, j0, e0) ==
  /\ j0[d] = None /\ e0[d] # None /\ uid'[d] = "live"
  /\ state'[d] = "UNLOADING" /\ inertia'[d] = Unload(d)
Loads(d, j0, e0) ==
  /\ j0[d] = None /\ e0[d] = None /\ uid'[d] = "live"
  /\ epoch'[d] # None /\ epoch'[d] = found'[d]
  /\ state'[d] = "LOADING" /\ inertia'[d] = Reload(epoch'[d])
Stays(d, s0, j0, e0) ==
  /\ state'[d] = s0[d] /\ inertia'[d] = j0[d]
  /\ j0[d] = None => epoch'[d] = e0[d]

LEMMA NotifiedEpoch ==
  ASSUME KernelInv, NEW s0, NEW e0, NEW j0, NEW names, Ready(s0, e0, j0, names),
         Notify(s0, e0, j0, names), NEW d \in Fibers
  PROVE  /\ found'[d] \in [Inject[d] -> Fibers \cup {None}]
         /\ epoch'[d] \in [Inject[d] -> Fibers] \cup {None}
         /\ uid'[d] = "live" =>
              \/ epoch'[d] = Epoch(found'[d])
              \/ e0[d] = None /\ epoch'[d] = None /\ error'[d] /\ s0[d] # "LOADING"
         /\ uid'[d] # "live" => epoch'[d] = None
         /\ epoch'[d] # e0[d] => uid'[d] = "live" /\ epoch'[d] = Epoch(found'[d])
<1> DEFINE L == Left(s0, e0, j0, names)
<1>1. found'[d] = Seen(d, s0, names, L) /\ epoch'[d] = Turn(d, s0, e0, names, L)
  BY DEF Notify
<1> HIDE DEF L
<1>2. Seen(d, s0, names, L) \in [Inject[d] -> Fibers \cup {None}]
  BY SeenType
<1>3. e0[d] \in [Inject[d] -> Fibers] \cup {None}
  BY DEF Ready, Fits
<1>4. CASE Hit(d, names, L)
  <2>1. epoch'[d] = Epoch(found'[d]) /\ uid'[d] = "live"
    BY <1>1, <1>4 DEF Turn, Hit
  <2> QED BY <1>1, <1>2, <2>1, EpochType
<1>5. CASE ~Hit(d, names, L)
  <2>1. epoch'[d] = e0[d] /\ found'[d] = found[d]
    BY <1>1, <1>5, SeenType DEF Turn
  <2> QED BY <1>1, <1>2, <1>3, <2>1 DEF Ready, Calls
<1> QED BY <1>4, <1>5

LEMMA NotifiedWay ==
  ASSUME KernelInv, NEW s0, NEW e0, NEW j0, NEW names, Ready(s0, e0, j0, names),
         Notify(s0, e0, j0, names), NEW d \in Fibers
  PROVE  \/ Leaves(d, j0, e0) /\ d \in Left(s0, e0, j0, names)
         \/ Loads(d, j0, e0) /\ d \notin Left(s0, e0, j0, names)
         \/ Stays(d, s0, j0, e0) /\ d \notin Left(s0, e0, j0, names)
<1> DEFINE L == Left(s0, e0, j0, names)
           Enters == j0[d] = None /\ e0[d] = None /\ Turn(d, s0, e0, names, L) # None
<1>1. /\ epoch'[d] = Turn(d, s0, e0, names, L)
      /\ state'[d] = IF d \in L THEN "UNLOADING" ELSE IF Enters THEN "LOADING" ELSE s0[d]
      /\ inertia'[d] = IF d \in L THEN Unload(d)
                       ELSE IF Enters THEN Reload(Turn(d, s0, e0, names, L)) ELSE j0[d]
  BY DEF Notify
<1>2. L \subseteq Active(e0, j0) /\ Closed(s0, e0, j0, names, L)
  BY LeftCloses
<1> HIDE DEF L
<1>3. CASE d \in L
  <2>1. d \in Active(e0, j0)
    BY <1>2, <1>3
  <2>2. uid'[d] = "live"
    BY <2>1, TurnsAway
  <2> QED BY <1>1, <1>3, <2>1, <2>2 DEF Leaves, Active, L
<1>4. CASE d \notin L /\ Enters
  <2>1. epoch'[d] # e0[d] /\ epoch'[d] # None
    BY <1>1, <1>4
  <2>2. uid'[d] = "live" /\ epoch'[d] = Epoch(found'[d])
    BY <2>1, NotifiedEpoch
  <2>3. epoch'[d] = found'[d]
    BY <2>1, <2>2, NotifiedEpoch, EpochType
  <2> QED BY <1>1, <1>4, <2>1, <2>2, <2>3 DEF Loads, L
<1>5. CASE d \notin L /\ ~Enters
  <2>1. j0[d] = None /\ e0[d] # None => epoch'[d] = e0[d]
    BY <1>1, <1>2, <1>5 DEF Closed, Active
  <2>2. j0[d] = None /\ e0[d] = None => epoch'[d] = e0[d]
    BY <1>1, <1>5
  <2> QED BY <1>1, <1>5, <2>1, <2>2 DEF Stays, L
<1> QED BY <1>3, <1>4, <1>5

(* What is shown of a service afterwards. *)
LEMMA NotifiedShown ==
  ASSUME KernelInv, NEW s0, NEW e0, NEW j0, NEW names, Ready(s0, e0, j0, names),
         Notify(s0, e0, j0, names), NEW s \in Services
  PROVE  Visible(s)' = Sees(s0, s, Left(s0, e0, j0, names))
<1>1. CASE impl'[s] = None
  BY <1>1 DEF Visible, Sees
<1>2. ASSUME NEW p \in Fibers, p = impl'[s]
      PROVE  state'[p] = "ACTIVE" <=> p \notin Left(s0, e0, j0, names) /\ s0[p] = "ACTIVE"
  <2>1. \/ state'[p] = "UNLOADING" /\ p \in Left(s0, e0, j0, names)
        \/ state'[p] = "LOADING" /\ j0[p] = None /\ e0[p] = None
        \/ state'[p] = s0[p] /\ p \notin Left(s0, e0, j0, names)
    BY NotifiedWay DEF Leaves, Loads, Stays
  <2> QED BY <2>1 DEF Ready, Fits
<1>3. impl'[s] \in Fibers \cup {None}
  BY DEF Ready
<1> QED BY <1>1, <1>2, <1>3 DEF Visible, Sees

LEMMA NotifiedFound ==
  ASSUME KernelInv, NEW s0, NEW e0, NEW j0, NEW names, Ready(s0, e0, j0, names),
         Notify(s0, e0, j0, names), NEW d \in Fibers, uid'[d] = "live"
  PROVE  found'[d] = [s \in Inject[d] |-> Visible(s)']
<1> DEFINE L == Left(s0, e0, j0, names)
<1>1. found'[d] = Seen(d, s0, names, L)
  BY DEF Notify
<1>2. Live(d) /\ found[d] = [s \in Inject[d] |-> Visible(s)] /\ Inject[d] \subseteq Services
  BY FiberAssumption DEF Ready, KernelInv, Found
<1>3. \A s \in Services : Visible(s)' = Sees(s0, s, L)
  BY NotifiedShown
<1> HIDE DEF L
<1>4. ASSUME NEW s \in Inject[d] PROVE found'[d][s] = Sees(s0, s, L)
  <2>1. CASE s \in Moved(names, L)
    BY <1>1, <2>1 DEF Seen
  <2>2. CASE s \notin Moved(names, L)
    <3>1. found'[d][s] = Visible(s)
      BY <1>1, <1>2, <2>2 DEF Seen
    <3>2. Visible(s) = Sees(s0, s, {})
      BY <1>2, <2>2 DEF Ready, Moved
    <3>3. Sees(s0, s, {}) = Sees(s0, s, L)
      BY <1>2, <2>2 DEF Sees, Moved
    <3> QED BY <3>1, <3>2, <3>3
  <2> QED BY <2>1, <2>2
<1>5. found'[d] \in [Inject[d] -> Fibers \cup {None}]
  BY NotifiedEpoch
<1> QED BY <1>2, <1>3, <1>4, <1>5

-----------------------------------------------------------------------------
(***************************************************************************)
(* What keeps the invariant.                                               *)
(***************************************************************************)

(* No fiber is mounted, or comes back from its disposal. *)
Lives ==
  \A c \in Fibers : /\ uid'[c] = "unmounted" <=> uid[c] = "unmounted"
                    /\ uid[c] = "null" => uid'[c] = "null"

(* The jobs that are handed over: a load goes on, or is new and took what  *)
(* was found; an unload still has to undo what it has not.                 *)
Undoing(d, j) ==
  /\ \A c \in Fibers : Parent[c] = d /\ uid'[c] # "unmounted" =>
       \/ uid'[c] = "null" /\ j[c] = None
       \/ c \in j[d].left
       \/ c \in j[d].awaits /\ uid'[c] = "null"
  /\ \A x \in j[d].left \cap Fibers : uid'[x] # "unmounted" /\ Parent[x] = d
  /\ \A s \in Services : s \in j[d].left <=> impl'[s] = d

Jobbed(s0, e0, j0) ==
  \A d \in Fibers :
    /\ uid[d] = "unmounted" => j0[d] = None
    /\ Gone(d) => j0[d] = None
    /\ Is(j0[d], "reload") => j0[d].old = IF Reloading(d) THEN inertia[d].old ELSE found'[d]
    /\ Is(j0[d], "unload") => Undoing(d, j0)
    /\ s0[d] = "ACTIVE" => using[d] = e0[d]
    /\ j0[d] = None /\ e0[d] = None => ~Reloading(d)
    /\ s0[d] = "DISPOSED" =>
         /\ uid'[d] = "null" /\ \A s \in Services : impl'[s] # d
         /\ \A c \in Fibers : Parent[c] = d /\ uid'[c] # "unmounted" => uid'[c] = "null" /\ j0[c] = None

(* Who goes on with what it took is still provided with it, or awaited. *)
Awaited(s0, j0) ==
  \A f, d \in Fibers :
    uid'[d] = "live" /\ using[d] # None /\ (j0[d] # None \/ s0[d] = "ACTIVE") =>
      \A s \in Inject[d] : using[d][s] = f =>
        impl'[s] = f \/ (Is(j0[f], "unload") /\ d \in j0[f].awaits)

(* Those that notify() makes leave lose no service in the same step. *)
Kept(s0, e0, j0, names) ==
  \A d \in Left(s0, e0, j0, names) : \A s \in Services : impl'[s] = d <=> impl[s] = d

LEMMA UsingAfter ==
  ASSUME KernelInv, NEW s0, NEW e0, NEW j0, NEW names, Ready(s0, e0, j0, names),
         Notify(s0, e0, j0, names), Snapshot, Jobbed(s0, e0, j0), NEW d \in Fibers
  PROVE  /\ Leaves(d, j0, e0) => using'[d] = using[d] /\ s0[d] = "ACTIVE"
         /\ Loads(d, j0, e0) => using'[d] = found'[d] /\ using'[d] \in [Inject[d] -> Fibers]
         /\ Stays(d, s0, j0, e0) =>
              /\ j0[d] = None => using'[d] = IF s0[d] = "ACTIVE" THEN using[d] ELSE None
              /\ Is(j0[d], "unload") => using'[d] = using[d]
              /\ Is(j0[d], "reload") =>
                   /\ using'[d] = j0[d].old /\ using'[d] \in [Inject[d] -> Fibers]
                   /\ using'[d] = IF Reloading(d) THEN using[d] ELSE found'[d]
<1>1. using'[d] = IF inertia'[d] = None THEN IF state'[d] = "ACTIVE" THEN using[d] ELSE None
                  ELSE IF inertia'[d].is = "reload" /\ ~Reloading(d) THEN found'[d] ELSE using[d]
  BY DEF Snapshot
<1>2. Unload(d).is = "unload" /\ \A e : Reload(e).is = "reload" /\ Reload(e).old = e
  BY DEF Unload, Reload
<1>3. Unload(d) # None
  <2>1. Unload(d) \in Jobs(d)
    BY DEF Unload, Jobs, Mounted, Provided
  <2> QED BY <2>1, FiberAssumption
<1>4. Fits(d, s0[d], e0[d], j0[d])
  BY DEF Ready
<1>5. epoch'[d] \in [Inject[d] -> Fibers] \cup {None}
  BY NotifiedEpoch
<1>6. \A e \in [Inject[d] -> Fibers] : Reload(e) # None
  <2>1. ASSUME NEW e \in [Inject[d] -> Fibers] PROVE Reload(e) \in Jobs(d)
    BY DEF Reload, Jobs
  <2> QED BY <2>1, FiberAssumption
<1>7. CASE Leaves(d, j0, e0)
  BY <1>1, <1>2, <1>3, <1>4, <1>7 DEF Leaves, Fits, Loads, Stays
<1>8. CASE Loads(d, j0, e0)
  BY <1>1, <1>2, <1>4, <1>5, <1>6, <1>8 DEF Loads, Jobbed, Leaves, Stays
<1>9. CASE Stays(d, s0, j0, e0) /\ j0[d] = None
  BY <1>1, <1>4, <1>7, <1>8, <1>9 DEF Stays, Is
<1>10. CASE Stays(d, s0, j0, e0) /\ Is(j0[d], "unload")
  BY <1>1, <1>7, <1>8, <1>10 DEF Stays, Is
<1>11. CASE Stays(d, s0, j0, e0) /\ Is(j0[d], "reload")
  <2>1. j0[d].old \in [Inject[d] -> Fibers]
    BY <1>4, <1>11 DEF Fits, Is, Jobs
  <2>2. Reloading(d) => using[d] = inertia[d].old
    BY DEF KernelInv, Took
  <2>3. using'[d] = IF Reloading(d) THEN using[d] ELSE found'[d]
    BY <1>1, <1>11 DEF Stays, Is
  <2> QED BY <1>7, <1>8, <1>11, <2>1, <2>2, <2>3 DEF Jobbed, Is
<1>12. j0[d] = None \/ Is(j0[d], "unload") \/ Is(j0[d], "reload")
  BY <1>4 DEF Fits, Is, Jobs
<1> QED BY <1>7, <1>8, <1>9, <1>10, <1>11, <1>12

LEMMA NotifyTypes ==
  ASSUME KernelInv, NEW s0, NEW e0, NEW j0, NEW names, Ready(s0, e0, j0, names),
         Notify(s0, e0, j0, names), Snapshot, Jobbed(s0, e0, j0), NEW d \in Fibers
  PROVE  /\ Fits(d, state'[d], epoch'[d], inertia'[d])
         /\ using'[d] \in [Inject[d] -> Fibers] \cup {None}
<1>1. /\ Fits(d, s0[d], e0[d], j0[d]) /\ using[d] \in [Inject[d] -> Fibers] \cup {None}
      /\ epoch'[d] \in [Inject[d] -> Fibers] \cup {None}
  BY TypeParts, NotifiedEpoch DEF Ready, KernelInv
<1>2. CASE Leaves(d, j0, e0)
  <2>1. Unload(d) \in Jobs(d) /\ Unload(d).is = "unload"
    BY DEF Unload, Jobs, Mounted, Provided
  <2>2. Unload(d) # None
    BY <2>1, FiberAssumption
  <2> QED BY <1>1, <1>2, <2>1, <2>2, UsingAfter DEF Leaves, Fits, Is, States
<1>3. CASE Loads(d, j0, e0)
  <2>1. Reload(epoch'[d]) \in Jobs(d) /\ Reload(epoch'[d]).is = "reload"
    BY <1>1, <1>3 DEF Loads, Reload, Jobs
  <2>2. Reload(epoch'[d]) # None
    BY <2>1, FiberAssumption
  <2> QED BY <1>1, <1>3, <2>1, <2>2, UsingAfter DEF Loads, Fits, Is, States
<1>4. CASE Stays(d, s0, j0, e0)
  <2>1. Fits(d, state'[d], epoch'[d], inertia'[d])
    BY <1>1, <1>4 DEF Stays, Fits, Is
  <2>2. j0[d] = None \/ Is(j0[d], "unload") \/ Is(j0[d], "reload")
    BY <1>1 DEF Fits, Is, Jobs
  <2> QED BY <1>1, <1>4, <2>1, <2>2, UsingAfter
<1> QED BY <1>2, <1>3, <1>4, NotifiedWay

(* One that is gone stays gone, and no other goes by notify() alone. *)
LEMMA NotifyGone ==
  ASSUME KernelInv, NEW s0, NEW e0, NEW j0, NEW names, Ready(s0, e0, j0, names),
         Notify(s0, e0, j0, names), NEW c \in Fibers
  PROVE  Gone(c)' <=> uid'[c] = "null" /\ j0[c] = None
<1>1. CASE uid'[c] = "live"
  BY <1>1 DEF Gone
<1>2. CASE uid'[c] # "live"
  <2>1. Stays(c, s0, j0, e0)
    BY <1>2, NotifiedWay DEF Leaves, Loads
  <2> QED BY <2>1 DEF Stays, Gone
<1> QED BY <1>1, <1>2

LEMMA NotifyUndone ==
  ASSUME KernelInv, NEW s0, NEW e0, NEW j0, NEW names, Ready(s0, e0, j0, names),
         Notify(s0, e0, j0, names), Snapshot, Lives, Jobbed(s0, e0, j0),
         Kept(s0, e0, j0, names)
  PROVE  Undone'
<1> SUFFICES ASSUME NEW f \in Fibers, Unloading(f)'
             PROVE  /\ \A c \in Mounted(f)' : ~Gone(c)' =>
                         c \in inertia'[f].left \/ (c \in inertia'[f].awaits /\ uid'[c] = "null")
                    /\ \A x \in inertia'[f].left \cap Fibers : uid'[x] # "unmounted" /\ Parent[x] = f
                    /\ \A s \in Services : s \in inertia'[f].left <=> impl'[s] = f
  BY DEF Undone
<1>1. \A c \in Mounted(f)' : c \in Fibers /\ Parent[c] = f /\ uid'[c] # "unmounted" /\ c \in Mounted(f)
  BY DEF Mounted, Lives
<1>2. \A c \in Fibers : Gone(c)' <=> uid'[c] = "null" /\ j0[c] = None
  BY NotifyGone
<1>3. CASE Leaves(f, j0, e0) /\ f \in Left(s0, e0, j0, names)
  <2>1. inertia'[f].left = {c \in Mounted(f) : ~Gone(c)} \cup Provided(f)
    BY <1>3 DEF Leaves, Unload
  <2>2. \A c \in Fibers : Gone(c) => Gone(c)'
    BY <1>2 DEF Gone, Lives, Jobbed
  <2>3. Mounted(f) \subseteq Fibers /\ Provided(f) \subseteq Services /\ Fibers \cap Services = {}
    BY FiberAssumption DEF Mounted, Provided
  <2>4. \A x \in inertia'[f].left \cap Fibers : uid'[x] # "unmounted" /\ Parent[x] = f
    BY <2>1, <2>3 DEF Mounted, Lives
  <2>5. \A s \in Services : s \in inertia'[f].left <=> impl[s] = f
    BY <2>1, <2>3 DEF Provided
  <2>6. \A s \in Services : impl'[s] = f <=> impl[s] = f
    BY <1>3 DEF Kept
  <2> QED BY <1>1, <2>1, <2>2, <2>4, <2>5, <2>6
<1>4. CASE Loads(f, j0, e0)
  BY <1>4 DEF Loads, Reload, Unloading, Runs
<1>5. CASE Stays(f, s0, j0, e0)
  <2>1. Is(j0[f], "unload") /\ inertia'[f] = j0[f]
    BY <1>5 DEF Stays, Unloading, Runs, Is
  <2>2. Undoing(f, j0)
    BY <2>1 DEF Jobbed
  <2> QED BY <1>1, <1>2, <2>1, <2>2 DEF Undoing
<1> QED BY <1>3, <1>4, <1>5, NotifiedWay

LEMMA NotifyUsers ==
  ASSUME KernelInv, NEW s0, NEW e0, NEW j0, NEW names, Ready(s0, e0, j0, names),
         Notify(s0, e0, j0, names), Snapshot, Jobbed(s0, e0, j0), Awaited(s0, j0)
  PROVE  Users'
<1> SUFFICES ASSUME NEW f \in Fibers, NEW d \in Fibers, uid'[d] = "live", using'[d] # None,
                    NEW s \in Inject[d], using'[d][s] = f
             PROVE  impl'[s] = f \/ (Unloading(f)' /\ d \in inertia'[f].awaits)
  BY DEF Users, Live
<1>1. f # None /\ s \in Services
  BY FiberAssumption
<1>2. CASE using'[d] = found'[d]
  <2>1. found'[d] = [x \in Inject[d] |-> Visible(x)']
    BY NotifiedFound
  <2>2. found'[d][s] = Visible(s)'
    BY <2>1
  <2> QED BY <1>1, <1>2, <2>2 DEF Visible
<1>3. CASE using'[d] = using[d] /\ (j0[d] # None \/ s0[d] = "ACTIVE")
  <2>1. impl'[s] = f \/ (Is(j0[f], "unload") /\ d \in j0[f].awaits)
    BY <1>3 DEF Awaited
  <2>2. ASSUME Is(j0[f], "unload") PROVE Unloading(f)' /\ inertia'[f] = j0[f]
    <3>1. Stays(f, s0, j0, e0)
      BY <2>2, NotifiedWay DEF Is, Leaves, Loads
    <3> QED BY <2>2, <3>1 DEF Stays, Is, Unloading, Runs
  <2> QED BY <2>1, <2>2
<1>4. \/ using'[d] = found'[d]
      \/ using'[d] = using[d] /\ (j0[d] # None \/ s0[d] = "ACTIVE")
  <2>1. j0[d] = None \/ Is(j0[d], "unload") \/ Is(j0[d], "reload")
    BY DEF Ready, Fits, Is, Jobs
  <2>2. CASE Leaves(d, j0, e0)
    BY <2>2, UsingAfter
  <2>3. CASE Loads(d, j0, e0)
    BY <2>3, UsingAfter
  <2>4. CASE Stays(d, s0, j0, e0)
    BY <2>1, <2>4, UsingAfter DEF Is
  <2> QED BY <2>2, <2>3, <2>4, NotifiedWay
<1> QED BY <1>2, <1>3, <1>4

LEMMA NotifyKeeps ==
  ASSUME KernelInv, NEW s0, NEW e0, NEW j0, NEW names, Ready(s0, e0, j0, names),
         Notify(s0, e0, j0, names), Snapshot, Lives, Jobbed(s0, e0, j0), Awaited(s0, j0),
         Kept(s0, e0, j0, names), error' \in [Fibers -> BOOLEAN], updates' \in 0 .. MaxUpdates
  PROVE  KernelInv'
<1>1. Domains'
  BY DEF Domains, Notify, Snapshot
<1>2. Found'
  BY NotifiedFound DEF Found, Live
<1>3. Called'
  <2> SUFFICES ASSUME NEW f \in Fibers
               PROVE  /\ uid'[f] = "live" => \/ epoch'[f] = Epoch(found'[f])
                                             \/ epoch'[f] = None /\ error'[f] /\ ~Reloading(f)'
                      /\ uid'[f] # "live" => epoch'[f] = None
                      /\ uid'[f] = "unmounted" => inertia'[f] = None
    BY DEF Called, Live
  <2>1. CASE Leaves(f, j0, e0)
    BY <2>1, NotifiedEpoch DEF Leaves
  <2>2. CASE Loads(f, j0, e0)
    BY <2>2, NotifiedEpoch DEF Loads
  <2>3. CASE Stays(f, s0, j0, e0)
    <3>1. s0[f] # "LOADING" => ~Reloading(f)'
      BY <2>3 DEF Stays, Ready, Fits, Is, Reloading, Runs
    <3>2. uid'[f] = "unmounted" => j0[f] = None
      BY DEF Lives, Jobbed
    <3> QED BY <2>3, <3>1, <3>2, NotifiedEpoch DEF Stays
  <2> QED BY <2>1, <2>2, <2>3, NotifiedWay
<1>4. Took'
  <2> SUFFICES ASSUME NEW f \in Fibers
               PROVE  /\ Reloading(f)' => using'[f] = inertia'[f].old
                      /\ state'[f] = "ACTIVE" => using'[f] = epoch'[f]
                      /\ inertia'[f] = None /\ state'[f] # "ACTIVE" => using'[f] = None
    BY DEF Took
  <2>1. Fits(f, state'[f], epoch'[f], inertia'[f]) /\ Fits(f, s0[f], e0[f], j0[f])
    BY NotifyTypes DEF Ready
  <2>2. Reloading(f)' <=> state'[f] = "LOADING"
    BY <2>1 DEF Fits, Is, Reloading, Runs
  <2>3. CASE Leaves(f, j0, e0)
    BY <2>1, <2>2, <2>3 DEF Leaves, Fits, Is
  <2>4. CASE Loads(f, j0, e0)
    BY SMTT(30), <2>1, <2>2, <2>4, UsingAfter DEF Loads, Fits, Is, Reload
  <2>5. CASE Stays(f, s0, j0, e0)
    <3>1. s0[f] = "LOADING" => using'[f] = j0[f].old
      BY <2>1, <2>5, UsingAfter DEF Fits
    <3>2. s0[f] = "ACTIVE" => j0[f] = None /\ using'[f] = using[f] /\ using[f] = e0[f] /\ epoch'[f] = e0[f]
      BY <2>1, <2>5, UsingAfter DEF Fits, Jobbed, Stays
    <3>3. j0[f] = None /\ s0[f] # "ACTIVE" => using'[f] = None
      BY <2>5, UsingAfter
    <3> QED BY <2>2, <2>5, <3>1, <3>2, <3>3 DEF Stays
  <2> QED BY <2>3, <2>4, <2>5, NotifiedWay
<1>5. TypeOK'
  <2>1. ASSUME NEW f \in Fibers, state'[f] = "DISPOSED"
        PROVE  uid'[f] = "null" /\ Unload(f)'.left = {}
    <3>1. Stays(f, s0, j0, e0) /\ s0[f] = "DISPOSED"
      BY <2>1, NotifiedWay DEF Leaves, Loads, Stays
    <3>2. /\ uid'[f] = "null" /\ \A s \in Services : impl'[s] # f
          /\ \A c \in Fibers : Parent[c] = f /\ uid'[c] # "unmounted" => uid'[c] = "null" /\ j0[c] = None
      BY <3>1 DEF Jobbed
    <3>3. \A c \in Mounted(f)' : Gone(c)'
      BY <3>2, NotifyGone DEF Mounted
    <3> QED BY <3>2, <3>3 DEF Unload, Provided
  <2>2. \A f \in Fibers : found'[f] \in [Inject[f] -> Fibers \cup {None}]
    BY NotifiedEpoch
  <2>3. \A f \in Fibers : /\ Fits(f, state'[f], epoch'[f], inertia'[f])
                          /\ using'[f] \in [Inject[f] -> Fibers] \cup {None}
    BY NotifyTypes
  <2> QED BY <2>1, <2>2, <2>3, TypePartsNext DEF Ready
<1> QED BY <1>1, <1>2, <1>3, <1>4, <1>5, NotifyUndone, NotifyUsers DEF KernelInv

-----------------------------------------------------------------------------
(***************************************************************************)
(* The actions.                                                            *)
(***************************************************************************)
LEMMA KernelInit == Init => KernelInv
<1> SUFFICES ASSUME Init PROVE KernelInv
  OBVIOUS
<1>1. /\ uid = [f \in Fibers |-> "unmounted"] /\ impl = [s \in Services |-> None]
      /\ \A f \in Fibers :
           /\ ~Live(f) /\ state[f] = "PENDING" /\ epoch[f] = None /\ inertia[f] = None
           /\ found[f] = [s \in Inject[f] |-> None] /\ using[f] = None
  BY DEF Init, Live
<1>2. TypeOK
  BY <1>1, TypeParts, FiberAssumption DEF Init, Fits, Is, States
<1>3. Domains /\ Found
  BY <1>1 DEF Init, Domains, Found
<1>4. Called /\ Took /\ Undone /\ Users
  BY <1>1 DEF Called, Took, Undone, Users, Reloading, Unloading
<1> QED BY <1>2, <1>3, <1>4 DEF KernelInv

(* The facts of the invariant about one fiber. *)
LEMMA FiberFacts ==
  ASSUME KernelInv, NEW d \in Fibers
  PROVE  /\ Fits(d, state[d], epoch[d], inertia[d])
         /\ found[d] \in [Inject[d] -> Fibers \cup {None}]
         /\ using[d] \in [Inject[d] -> Fibers] \cup {None}
         /\ uid[d] \in {"unmounted", "live", "null"}
         /\ Reloading(d) <=> Is(inertia[d], "reload")
         /\ Unloading(d) <=> Is(inertia[d], "unload")
         /\ Live(d) => Calls(d, epoch[d], state[d] = "LOADING", found, error)
         /\ ~Live(d) => epoch[d] = None
         /\ uid[d] = "unmounted" => inertia[d] = None
<1>1. Reloading(d) <=> Is(inertia[d], "reload")
  BY DEF Reloading, Runs, Is
<1>2. Unloading(d) <=> Is(inertia[d], "unload")
  BY DEF Unloading, Runs, Is
<1>3. /\ Fits(d, state[d], epoch[d], inertia[d])
      /\ found[d] \in [Inject[d] -> Fibers \cup {None}]
      /\ using[d] \in [Inject[d] -> Fibers] \cup {None}
      /\ uid[d] \in {"unmounted", "live", "null"}
  BY TypeParts DEF KernelInv
<1>4. state[d] = "LOADING" <=> Reloading(d)
  BY <1>1, <1>3 DEF Fits
<1> QED BY <1>1, <1>2, <1>3, <1>4 DEF KernelInv, Called, Calls

(* What the invariant says of the jobs that run, in the words of Jobbed. *)
LEMMA RunningJobs ==
  ASSUME KernelInv, NEW d \in Fibers
  PROVE  /\ Unloading(d) =>
              /\ \A c \in Fibers : Parent[c] = d /\ uid[c] # "unmounted" =>
                   \/ uid[c] = "null" /\ inertia[c] = None
                   \/ c \in inertia[d].left
                   \/ c \in inertia[d].awaits /\ uid[c] = "null"
              /\ \A x \in inertia[d].left \cap Fibers : uid[x] # "unmounted" /\ Parent[x] = d
              /\ \A s \in Services : s \in inertia[d].left <=> impl[s] = d
         /\ state[d] = "ACTIVE" => using[d] = epoch[d]
         /\ state[d] = "DISPOSED" =>
              /\ uid[d] = "null" /\ \A s \in Services : impl[s] # d
              /\ \A c \in Fibers : Parent[c] = d /\ uid[c] # "unmounted" =>
                   uid[c] = "null" /\ inertia[c] = None
<1>1. \A c \in Fibers : Parent[c] = d /\ uid[c] # "unmounted" <=> c \in Mounted(d)
  BY DEF Mounted
<1>2. ASSUME Unloading(d)
      PROVE  /\ \A c \in Fibers : Parent[c] = d /\ uid[c] # "unmounted" =>
                  \/ uid[c] = "null" /\ inertia[c] = None
                  \/ c \in inertia[d].left
                  \/ c \in inertia[d].awaits /\ uid[c] = "null"
             /\ \A x \in inertia[d].left \cap Fibers : uid[x] # "unmounted" /\ Parent[x] = d
             /\ \A s \in Services : s \in inertia[d].left <=> impl[s] = d
  BY <1>1, <1>2 DEF KernelInv, Undone, Gone
<1>3. ASSUME state[d] = "DISPOSED"
      PROVE  /\ uid[d] = "null" /\ \A s \in Services : impl[s] # d
             /\ \A c \in Fibers : Parent[c] = d /\ uid[c] # "unmounted" =>
                  uid[c] = "null" /\ inertia[c] = None
  <2>1. uid[d] = "null" /\ Unload(d).left = {}
    BY <1>3, TypeParts DEF KernelInv
  <2>2. Provided(d) = {} /\ \A c \in Mounted(d) : Gone(c)
    BY <2>1 DEF Unload
  <2> QED BY <1>1, <2>1, <2>2 DEF Provided, Gone
<1> QED BY <1>2, <1>3 DEF KernelInv, Took

(* One fiber changes its state, and nobody's services change hands.        *)
LEMMA BecomesStep ==
  ASSUME KernelInv, NEW f \in Fibers, NEW s, NEW e, NEW j, NEW names,
         Becomes(f, s, e, j, names), uid' = uid, impl' = impl,
         error' \in [Fibers -> BOOLEAN], \A d \in Fibers \ {f} : error'[d] = error[d],
         updates' \in 0 .. MaxUpdates,
         Fits(f, s, e, j), uid[f] # "unmounted", ~Gone(f),
         Live(f) => Calls(f, e, s = "LOADING", found, error'), ~Live(f) => e = None,
         names = Provided(f) \/ (names = {} /\ (s = "ACTIVE" <=> state[f] = "ACTIVE")),
         Is(j, "reload") => \/ Reloading(f) /\ j.old = inertia[f].old
                            \/ ~Reloading(f) /\ names = {} /\ j.old = found[f],
         Is(j, "unload") => j = Unload(f) \/ (Unloading(f) /\ j = inertia[f]),
         Unloading(f) => j = inertia[f] \/ inertia[f].awaits = {},
         s = "ACTIVE" => using[f] = e,
         j = None /\ e = None => ~Reloading(f),
         s = "DISPOSED" => uid[f] = "null" /\ Provided(f) = {} /\ \A c \in Mounted(f) : Gone(c)
  PROVE  KernelInv'
<1> PICK s0 : s0 = [state EXCEPT ![f] = s]
  OBVIOUS
<1> PICK e0 : e0 = [epoch EXCEPT ![f] = e]
  OBVIOUS
<1> PICK j0 : j0 = [inertia EXCEPT ![f] = j]
  OBVIOUS
<1>1. /\ s0[f] = s /\ e0[f] = e /\ j0[f] = j
      /\ \A d \in Fibers \ {f} : s0[d] = state[d] /\ e0[d] = epoch[d] /\ j0[d] = inertia[d]
  BY DEF KernelInv, Domains
<1>2. Notify(s0, e0, j0, names) /\ Snapshot
  BY DEF Becomes
<1>3. Ready(s0, e0, j0, names)
  <2>1. /\ uid' \in [Fibers -> {"unmounted", "live", "null"}]
        /\ impl' \in [Services -> Fibers \cup {None}] /\ names \subseteq Services
    BY TypeParts DEF KernelInv, Provided
  <2>2. ASSUME NEW d \in Fibers
        PROVE  /\ Fits(d, s0[d], e0[d], j0[d])
               /\ uid'[d] = "live" => Live(d) /\ Calls(d, e0[d], s0[d] = "LOADING", found, error')
               /\ uid'[d] # "live" => e0[d] = None
    <3>1. CASE d = f
      BY <1>1, <3>1 DEF Live
    <3>2. CASE d # f
      BY <1>1, <3>2, FiberFacts DEF Live, Calls
    <3> QED BY <3>1, <3>2
  <2>3. ASSUME NEW x \in Services \ names PROVE Sees(s0, x, {}) = Visible(x)
    <3>1. CASE impl[x] = f
      BY <1>1, <2>3, <3>1 DEF Provided, Sees, Visible
    <3>2. CASE impl[x] # f
      BY <1>1, <2>1, <3>2 DEF Sees, Visible
    <3> QED BY <3>1, <3>2
  <2> QED BY <2>1, <2>2, <2>3 DEF Ready
<1>4. names = {} => found'[f] = found[f]
  <2>1. SUFFICES ASSUME names = {} PROVE found'[f] = found[f]
    OBVIOUS
  <2>2. \A x \in Fibers : ~Hit(x, names, {})
    BY <2>1 DEF Hit, Moved
  <2>3. \A x \in Active(e0, j0) : Turn(x, s0, e0, names, {}) = e0[x]
    BY <2>2 DEF Turn, Active
  <2>4. Left(s0, e0, j0, names) = {}
    BY <2>3, NobodyLeaves
  <2>5. found'[f] = Seen(f, s0, names, {})
    BY <1>2, <2>4 DEF Notify
  <2> QED BY <1>3, <2>2, <2>5, SeenType
<1>5. Jobbed(s0, e0, j0)
  <2> SUFFICES ASSUME NEW d \in Fibers
               PROVE  /\ uid[d] = "unmounted" => j0[d] = None
                      /\ Gone(d) => j0[d] = None
                      /\ Is(j0[d], "reload") =>
                           j0[d].old = IF Reloading(d) THEN inertia[d].old ELSE found'[d]
                      /\ Is(j0[d], "unload") => Undoing(d, j0)
                      /\ s0[d] = "ACTIVE" => using[d] = e0[d]
                      /\ j0[d] = None /\ e0[d] = None => ~Reloading(d)
                      /\ s0[d] = "DISPOSED" =>
                           /\ uid'[d] = "null" /\ \A x \in Services : impl'[x] # d
                           /\ \A c \in Fibers : Parent[c] = d /\ uid'[c] # "unmounted" =>
                                uid'[c] = "null" /\ j0[c] = None
    BY DEF Jobbed
  <2>1. \A c \in Fibers : uid[c] = "null" /\ inertia[c] = None => j0[c] = None
    BY <1>1 DEF Gone
  <2>2. CASE d # f
    <3>1. s0[d] = state[d] /\ e0[d] = epoch[d] /\ j0[d] = inertia[d]
      BY <1>1, <2>2
    <3>2. Is(j0[d], "unload") => Undoing(d, j0)
      BY <2>1, <3>1, FiberFacts, RunningJobs DEF Undoing
    <3>3. s0[d] = "ACTIVE" => using[d] = e0[d]
      BY <3>1 DEF KernelInv, Took
    <3>4. s0[d] = "DISPOSED" =>
            /\ uid'[d] = "null" /\ \A x \in Services : impl'[x] # d
            /\ \A c \in Fibers : Parent[c] = d /\ uid'[c] # "unmounted" =>
                 uid'[c] = "null" /\ j0[c] = None
      <4>1. state[d] = "DISPOSED" =>
              /\ uid[d] = "null" /\ \A x \in Services : impl[x] # d
              /\ \A c \in Fibers : Parent[c] = d /\ uid[c] # "unmounted" =>
                   uid[c] = "null" /\ inertia[c] = None
        BY RunningJobs
      <4> QED BY <2>1, <3>1, <4>1
    <3>5. Reloading(d) <=> Is(inertia[d], "reload")
      BY FiberFacts
    <3> QED BY <3>1, <3>2, <3>3, <3>4, <3>5, FiberFacts DEF Gone, Is
  <2>3. CASE d = f
    <3>1. s0[d] = s /\ e0[d] = e /\ j0[d] = j
      BY <1>1, <2>3
    <3>2. Is(j0[d], "unload") => Undoing(d, j0)
      <4>1. CASE Unloading(f) /\ j = inertia[f]
        BY <2>1, <2>3, <3>1, <4>1, RunningJobs DEF Undoing
      <4>2. CASE j = Unload(f)
        <5>1. j.left = {c \in Mounted(f) : ~Gone(c)} \cup Provided(f)
          BY <4>2 DEF Unload
        <5>2. Mounted(f) \subseteq Fibers /\ Provided(f) \subseteq Services /\ Fibers \cap Services = {}
          BY FiberAssumption DEF Mounted, Provided
        <5>3. \A x \in j.left \cap Fibers : uid'[x] # "unmounted" /\ Parent[x] = d
          BY <2>3, <5>1, <5>2 DEF Mounted
        <5>4. \A x \in Services : x \in j.left <=> impl'[x] = d
          BY <2>3, <5>1, <5>2 DEF Provided
        <5>5. \A c \in Fibers : Parent[c] = d /\ uid'[c] # "unmounted" =>
                (uid'[c] = "null" /\ j0[c] = None) \/ c \in j.left
          BY <2>1, <2>3, <5>1 DEF Mounted, Gone
        <5> QED BY <3>1, <5>3, <5>4, <5>5 DEF Undoing
      <4> QED BY <3>1, <4>1, <4>2
    <3>3. s0[d] = "DISPOSED" =>
            /\ uid'[d] = "null" /\ \A x \in Services : impl'[x] # d
            /\ \A c \in Fibers : Parent[c] = d /\ uid'[c] # "unmounted" =>
                 uid'[c] = "null" /\ j0[c] = None
      BY <2>1, <2>3, <3>1 DEF Provided, Mounted, Gone
    <3>4. Is(j0[d], "reload") => j0[d].old = IF Reloading(d) THEN inertia[d].old ELSE found'[d]
      BY <1>4, <2>3, <3>1
    <3> QED BY <2>3, <3>1, <3>2, <3>3, <3>4
  <2> QED BY <2>2, <2>3
<1>6. Awaited(s0, j0)
  <2> SUFFICES ASSUME NEW g \in Fibers, NEW d \in Fibers, uid'[d] = "live", using[d] # None,
                      NEW x \in Inject[d], using[d][x] = g
               PROVE  impl'[x] = g \/ (Is(j0[g], "unload") /\ d \in j0[g].awaits)
    BY DEF Awaited
  <2>1. impl[x] = g \/ (Unloading(g) /\ d \in inertia[g].awaits)
    BY DEF KernelInv, Users, Live
  <2>2. Unloading(g) => Is(inertia[g], "unload")
    BY FiberFacts
  <2>3. CASE g # f
    BY <1>1, <2>1, <2>2, <2>3
  <2>4. CASE g = f
    BY <1>1, <2>1, <2>2, <2>4
  <2> QED BY <2>3, <2>4
<1>7. Lives /\ Kept(s0, e0, j0, names)
  BY DEF Lives, Kept
<1> QED BY <1>2, <1>3, <1>5, <1>6, <1>7, NotifyKeeps

(* What a job that has moved on by a part of its work looks like.          *)
LEMMA AwaitingJobs ==
  ASSUME KernelInv, NEW g \in Fibers, Unloading(g), NEW x, NEW who \in SUBSET Fibers,
         NEW jobs, jobs = Awaiting(g, x, who)
  PROVE  /\ \A d \in Fibers \ {g} : jobs[d] = inertia[d]
         /\ DOMAIN jobs = Fibers /\ jobs[g] \in Jobs(g) /\ Is(jobs[g], "unload")
         /\ jobs[g].left = inertia[g].left \ {x} /\ jobs[g].awaits = inertia[g].awaits \cup who
<1>1. Is(inertia[g], "unload") /\ inertia[g] \in Jobs(g)
  BY FiberFacts DEF Fits, Is
<1>2. inertia[g] \in [is : {"unload"}, left : SUBSET (Fibers \cup Services), awaits : SUBSET Fibers]
  BY <1>1 DEF Jobs, Is
<1> PICK half : half = [inertia[g] EXCEPT !.left = inertia[g].left \ {x}]
  OBVIOUS
<1>3. /\ half \in [is : {"unload"}, left : SUBSET (Fibers \cup Services), awaits : SUBSET Fibers]
      /\ half.left = inertia[g].left \ {x} /\ half.awaits = inertia[g].awaits
  BY <1>2
<1>4. /\ DOMAIN jobs = Fibers /\ \A d \in Fibers \ {g} : jobs[d] = inertia[d]
      /\ jobs[g] = [half EXCEPT !.awaits = inertia[g].awaits \cup who]
  BY DEF Awaiting, KernelInv, Domains
<1>5. /\ jobs[g] \in [is : {"unload"}, left : SUBSET (Fibers \cup Services), awaits : SUBSET Fibers]
      /\ jobs[g].left = half.left /\ jobs[g].awaits = inertia[g].awaits \cup who
  <2> PICK waits : waits = inertia[g].awaits \cup who
    OBVIOUS
  <2>1. waits \in SUBSET Fibers
    BY <1>2
  <2>2. jobs[g] = [half EXCEPT !.awaits = waits]
    BY <1>4
  <2> QED BY <1>3, <2>1, <2>2
<1>6. jobs[g] \in Jobs(g) /\ jobs[g].is = "unload"
  BY <1>5 DEF Jobs
<1>7. jobs[g] # None
  BY <1>6, FiberAssumption
<1> QED BY <1>3, <1>4, <1>5, <1>6, <1>7 DEF Is

(* A live fiber is disposed of, by anybody or by the unload of its parent. *)
LEMMA DisposeStep ==
  ASSUME KernelInv, NEW f \in Fibers, Live(f), NEW jobs, DisposeOf(f, jobs),
         impl' = impl, error' = error, updates' = updates,
         \/ jobs = inertia
         \/ \E g \in Fibers \ {f} : Unloading(g) /\ f \in inertia[g].left /\ jobs = Awaiting(g, f, {f})
  PROVE  KernelInv'
<1>1. /\ DOMAIN jobs = Fibers /\ jobs[f] = inertia[f]
      /\ \A d \in Fibers : inertia[d] = None <=> jobs[d] = None
      /\ \A d \in Fibers : jobs[d] = inertia[d] \/
           /\ Unloading(d) /\ jobs[d] \in Jobs(d) /\ Is(jobs[d], "unload")
           /\ jobs[d].left = inertia[d].left \ {f} /\ jobs[d].awaits = inertia[d].awaits \cup {f}
  <2>1. CASE jobs = inertia
    BY <2>1 DEF KernelInv, Domains
  <2>2. CASE \E g \in Fibers \ {f} : /\ Unloading(g) /\ f \in inertia[g].left
                                     /\ jobs = Awaiting(g, f, {f})
    <3>1. PICK g \in Fibers \ {f} : Unloading(g) /\ jobs = Awaiting(g, f, {f})
      BY <2>2
    <3>2. /\ \A d \in Fibers \ {g} : jobs[d] = inertia[d]
          /\ DOMAIN jobs = Fibers /\ jobs[g] \in Jobs(g) /\ Is(jobs[g], "unload")
          /\ jobs[g].left = inertia[g].left \ {f} /\ jobs[g].awaits = inertia[g].awaits \cup {f}
      BY <3>1, AwaitingJobs
    <3> QED BY <3>1, <3>2 DEF Is, Unloading
  <2> QED BY <2>1, <2>2
<1>2. Lives /\ uid' = [uid EXCEPT ![f] = "null"] /\ uid \in [Fibers -> {"unmounted", "live", "null"}]
  BY TypeParts DEF DisposeOf, Lives, Live, KernelInv
<1>3. /\ uid'[f] = "null" /\ uid[f] = "live"
      /\ \A d \in Fibers \ {f} : uid'[d] = uid[d]
      /\ uid' \in [Fibers -> {"unmounted", "live", "null"}]
  BY <1>2 DEF Live
(* Whatever is handed to notify() differs from what was in this way. *)
<1> DEFINE Handed(s0, e0, j0, names) ==
      /\ Notify(s0, e0, j0, names) /\ names \subseteq Services
      /\ e0[f] = None
      /\ \A d \in Fibers \ {f} : s0[d] = state[d] /\ e0[d] = epoch[d] /\ j0[d] = jobs[d]
      /\ \/ /\ inertia[f] = None /\ s0[f] = "UNLOADING" /\ j0[f] = Unload(f)
            /\ state[f] = "ACTIVE" => names = Provided(f)
         \/ inertia[f] # None /\ s0[f] = state[f] /\ j0[f] = inertia[f]
<1> HIDE DEF Handed
<1>4. PICK s0, e0, j0, names : Handed(s0, e0, j0, names)
  <2>1. CASE inertia[f] = None
    <3> PICK s0 : s0 = [state EXCEPT ![f] = "UNLOADING"]
      OBVIOUS
    <3> PICK e0 : e0 = [epoch EXCEPT ![f] = None]
      OBVIOUS
    <3> PICK j0 : j0 = [jobs EXCEPT ![f] = Unload(f)]
      OBVIOUS
    <3> PICK names : names = IF state[f] = "ACTIVE" THEN Provided(f) ELSE {}
      OBVIOUS
    <3>1. Notify(s0, e0, j0, names) /\ names \subseteq Services
      BY <2>1 DEF DisposeOf, Provided
    <3>2. /\ s0[f] = "UNLOADING" /\ e0[f] = None /\ j0[f] = Unload(f)
          /\ \A d \in Fibers \ {f} : s0[d] = state[d] /\ e0[d] = epoch[d] /\ j0[d] = jobs[d]
      BY <1>1 DEF KernelInv, Domains
    <3>3. Handed(s0, e0, j0, names)
      BY <2>1, <3>1, <3>2 DEF Handed
    <3> QED BY <3>3
  <2>2. CASE inertia[f] # None
    <3> PICK e0 : e0 = [epoch EXCEPT ![f] = None]
      OBVIOUS
    <3>1. Notify(state, e0, jobs, {})
      BY <2>2 DEF DisposeOf
    <3>2. e0[f] = None /\ \A d \in Fibers \ {f} : e0[d] = epoch[d]
      BY DEF KernelInv, Domains
    <3>3. Handed(state, e0, jobs, {})
      BY <1>1, <2>2, <3>1, <3>2 DEF Handed
    <3> QED BY <3>3
  <2> QED BY <2>1, <2>2
<1> USE DEF Handed
<1>5. Fits(f, s0[f], e0[f], j0[f])
  <2>1. Unload(f) \in Jobs(f) /\ Unload(f).is = "unload"
    BY DEF Unload, Jobs, Mounted, Provided
  <2>2. Unload(f) # None
    BY <2>1, FiberAssumption
  <2> QED BY <1>4, <2>1, <2>2, FiberFacts DEF Fits, Is, States
<1>6. Ready(s0, e0, j0, names)
  <2>1. ASSUME NEW d \in Fibers
        PROVE  /\ Fits(d, s0[d], e0[d], j0[d])
               /\ uid'[d] = "live" => Live(d) /\ Calls(d, e0[d], s0[d] = "LOADING", found, error')
               /\ uid'[d] # "live" => e0[d] = None
    <3>1. CASE d = f
      BY <1>3, <1>4, <1>5, <3>1
    <3>2. CASE d # f
      <4>1. s0[d] = state[d] /\ e0[d] = epoch[d] /\ j0[d] = jobs[d] /\ uid'[d] = uid[d]
        BY <1>3, <1>4, <3>2
      <4>2. Fits(d, state[d], epoch[d], inertia[d]) /\ (Unloading(d) <=> Is(inertia[d], "unload"))
        BY FiberFacts
      <4>3. Fits(d, s0[d], e0[d], j0[d])
        BY <1>1, <4>1, <4>2 DEF Fits, Is
      <4> QED BY <4>1, <4>3, FiberFacts DEF Live, Calls
    <3> QED BY <3>1, <3>2
  <2>2. ASSUME NEW x \in Services \ names PROVE Sees(s0, x, {}) = Visible(x)
    <3>1. CASE impl[x] = f
      <4>1. state[f] # "ACTIVE" /\ s0[f] # "ACTIVE"
        BY <1>4, <2>2, <3>1, FiberFacts DEF Fits, Provided
      <4> QED BY <3>1, <4>1 DEF Sees, Visible
    <3>2. CASE impl[x] # f
      <4>1. impl[x] \in Fibers \cup {None}
        BY TypeParts DEF KernelInv
      <4> QED BY <1>4, <3>2, <4>1 DEF Sees, Visible
    <3> QED BY <3>1, <3>2
  <2>3. impl' \in [Services -> Fibers \cup {None}]
    BY TypeParts DEF KernelInv
  <2> QED BY <1>3, <1>4, <2>1, <2>2, <2>3 DEF Ready
<1>7. Jobbed(s0, e0, j0)
  <2> SUFFICES ASSUME NEW d \in Fibers
               PROVE  /\ uid[d] = "unmounted" => j0[d] = None
                      /\ Gone(d) => j0[d] = None
                      /\ Is(j0[d], "reload") =>
                           j0[d].old = IF Reloading(d) THEN inertia[d].old ELSE found'[d]
                      /\ Is(j0[d], "unload") => Undoing(d, j0)
                      /\ s0[d] = "ACTIVE" => using[d] = e0[d]
                      /\ j0[d] = None /\ e0[d] = None => ~Reloading(d)
                      /\ s0[d] = "DISPOSED" =>
                           /\ uid'[d] = "null" /\ \A x \in Services : impl'[x] # d
                           /\ \A c \in Fibers : Parent[c] = d /\ uid'[c] # "unmounted" =>
                                uid'[c] = "null" /\ j0[c] = None
    BY DEF Jobbed
  <2>1. \A c \in Fibers : uid[c] = "null" /\ inertia[c] = None =>
          c # f /\ uid'[c] = "null" /\ j0[c] = None
    BY <1>1, <1>3, <1>4
  <2>2. /\ Fits(d, state[d], epoch[d], inertia[d])
        /\ (Reloading(d) <=> Is(inertia[d], "reload")) /\ (Unloading(d) <=> Is(inertia[d], "unload"))
        /\ uid[d] = "unmounted" => inertia[d] = None
    BY FiberFacts
  <2>3. /\ Unloading(d) =>
             /\ \A c \in Fibers : Parent[c] = d /\ uid[c] # "unmounted" =>
                  \/ uid[c] = "null" /\ inertia[c] = None
                  \/ c \in inertia[d].left
                  \/ c \in inertia[d].awaits /\ uid[c] = "null"
             /\ \A x \in inertia[d].left \cap Fibers : uid[x] # "unmounted" /\ Parent[x] = d
             /\ \A x \in Services : x \in inertia[d].left <=> impl[x] = d
    BY RunningJobs
  <2>4. CASE d # f
    <3>1. s0[d] = state[d] /\ e0[d] = epoch[d] /\ j0[d] = jobs[d] /\ uid'[d] = uid[d]
      BY <1>3, <1>4, <2>4
    <3>2. Is(j0[d], "unload") => Undoing(d, j0)
      <4>0. SUFFICES ASSUME Is(j0[d], "unload") PROVE Undoing(d, j0)
        OBVIOUS
      <4>1. Unloading(d)
        BY <1>1, <2>2, <3>1, <4>0
      <4>2. /\ f \notin Services /\ inertia[d].left \ {f} \subseteq j0[d].left
            /\ j0[d].left \subseteq inertia[d].left /\ inertia[d].awaits \subseteq j0[d].awaits
            /\ f \in inertia[d].left => f \in j0[d].left \/ f \in j0[d].awaits
        BY <1>1, <3>1, FiberAssumption
      <4>3. ASSUME NEW c \in Fibers, Parent[c] = d, uid'[c] # "unmounted"
            PROVE  \/ uid'[c] = "null" /\ j0[c] = None
                   \/ c \in j0[d].left
                   \/ c \in j0[d].awaits /\ uid'[c] = "null"
        <5>1. uid[c] # "unmounted" /\ (uid[c] = "null" => uid'[c] = "null")
          BY <1>3, <4>3
        <5>2. CASE c = f
          BY <1>3, <2>3, <4>1, <4>2, <4>3, <5>1, <5>2
        <5>3. CASE c # f
          BY <2>1, <2>3, <4>1, <4>2, <4>3, <5>1, <5>3
        <5> QED BY <5>2, <5>3
      <4>4. \A x \in j0[d].left \cap Fibers : uid'[x] # "unmounted" /\ Parent[x] = d
        BY <1>3, <2>3, <4>1, <4>2
      <4>5. \A x \in Services : x \in j0[d].left <=> impl'[x] = d
        BY <2>3, <4>1, <4>2
      <4> QED BY <4>3, <4>4, <4>5 DEF Undoing
    <3>3. s0[d] = "ACTIVE" => using[d] = e0[d]
      BY <3>1 DEF KernelInv, Took
    <3>4. state[d] = "DISPOSED" =>
            /\ uid[d] = "null" /\ \A x \in Services : impl[x] # d
            /\ \A c \in Fibers : Parent[c] = d /\ uid[c] # "unmounted" =>
                 uid[c] = "null" /\ inertia[c] = None
      BY RunningJobs
    <3>5. s0[d] = "DISPOSED" =>
            /\ uid'[d] = "null" /\ \A x \in Services : impl'[x] # d
            /\ \A c \in Fibers : Parent[c] = d /\ uid'[c] # "unmounted" =>
                 uid'[c] = "null" /\ j0[c] = None
      BY <1>3, <2>1, <3>1, <3>4
    <3>6. Is(j0[d], "reload") => Reloading(d) /\ j0[d] = inertia[d]
      BY <1>1, <2>2, <3>1 DEF Is
    <3> QED BY <1>1, <2>2, <3>1, <3>2, <3>3, <3>5, <3>6 DEF Gone, Is
  <2>5. CASE d = f /\ inertia[f] # None
    <3>1. s0[d] = state[d] /\ e0[d] = None /\ j0[d] = inertia[d]
      BY <1>4, <2>5
    <3>2. Is(j0[d], "unload") => Undoing(d, j0)
      <4>1. \A c \in Fibers : uid'[c] # "unmounted" => uid[c] # "unmounted"
        BY <1>3
      <4>2. \A c \in Fibers : uid[c] = "null" => uid'[c] = "null"
        BY <1>3
      <4>3. \A c \in Fibers : uid[c] # "unmounted" => uid'[c] # "unmounted"
        BY <1>3
      <4> QED BY <2>1, <2>2, <2>3, <3>1, <4>1, <4>2, <4>3 DEF Undoing
    <3>3. state[d] # "ACTIVE" /\ state[d] # "DISPOSED"
      <4>1. inertia[d] \in Jobs(d)
        BY <2>2, <2>5 DEF Fits
      <4>2. Is(inertia[d], "reload") \/ Is(inertia[d], "unload")
        BY <2>5, <4>1 DEF Is, Jobs
      <4> QED BY <2>2, <4>2 DEF Fits
    <3> QED BY <2>2, <2>5, <3>1, <3>2, <3>3 DEF Is, Gone
  <2>6. CASE d = f /\ inertia[f] = None
    <3>1. s0[d] = "UNLOADING" /\ e0[d] = None /\ j0[d] = Unload(f)
      BY <1>4, <2>6
    <3>2. Undoing(d, j0)
      <4>1. j0[d].left = {c \in Mounted(f) : ~Gone(c)} \cup Provided(f)
        BY <3>1 DEF Unload
      <4>2. Mounted(f) \subseteq Fibers /\ Provided(f) \subseteq Services /\ Fibers \cap Services = {}
        BY FiberAssumption DEF Mounted, Provided
      <4>3. \A x \in j0[d].left \cap Fibers : uid'[x] # "unmounted" /\ Parent[x] = d
        BY <1>3, <2>6, <4>1, <4>2 DEF Mounted
      <4>4. \A x \in Services : x \in j0[d].left <=> impl'[x] = d
        BY <2>6, <4>1, <4>2 DEF Provided
      <4>5. \A c \in Fibers : Parent[c] = d /\ uid'[c] # "unmounted" => c \in Mounted(f)
        BY <1>3, <2>6 DEF Mounted
      <4>6. \A c \in Fibers : Parent[c] = d /\ uid'[c] # "unmounted" =>
              (uid'[c] = "null" /\ j0[c] = None) \/ c \in j0[d].left
        BY <2>1, <4>1, <4>5 DEF Gone
      <4> QED BY <4>3, <4>4, <4>6 DEF Undoing
    <3>3. ~Gone(d) /\ uid[d] # "unmounted" /\ ~Reloading(d) /\ ~Is(j0[d], "reload")
      BY <1>3, <2>2, <2>6, <3>1 DEF Gone, Is, Unload
    <3> QED BY <3>1, <3>2, <3>3
  <2> QED BY <2>4, <2>5, <2>6
<1>8. Awaited(s0, j0)
  <2> SUFFICES ASSUME NEW g \in Fibers, NEW d \in Fibers, uid'[d] = "live", using[d] # None,
                      NEW x \in Inject[d], using[d][x] = g
               PROVE  impl'[x] = g \/ (Is(j0[g], "unload") /\ d \in j0[g].awaits)
    BY DEF Awaited
  <2>1. uid[d] = "live"
    BY <1>3
  <2>2. impl[x] = g \/ (Unloading(g) /\ d \in inertia[g].awaits)
    BY <2>1 DEF KernelInv, Users, Live
  <2>3. CASE Unloading(g) /\ d \in inertia[g].awaits
    <3>1. Is(inertia[g], "unload")
      BY <2>3, FiberFacts
    <3>2. Is(jobs[g], "unload") /\ d \in jobs[g].awaits
      BY <1>1, <2>3, <3>1
    <3>3. j0[g] = jobs[g]
      BY <1>1, <1>4, <3>1 DEF Is
    <3> QED BY <3>2, <3>3
  <2> QED BY <2>2, <2>3
<1>9. Kept(s0, e0, j0, names) /\ Snapshot /\ error' \in [Fibers -> BOOLEAN]
      /\ updates' \in 0 .. MaxUpdates /\ Notify(s0, e0, j0, names)
  BY <1>4, TypeParts DEF Kept, DisposeOf, KernelInv
<1> QED BY <1>2, <1>6, <1>7, <1>8, <1>9, NotifyKeeps

(* A job moves on, and nothing else changes.                               *)
LEMMA JobStep ==
  ASSUME KernelInv, NEW f \in Fibers, inertia[f] # None,
         \A d \in Fibers \ {f} : inertia'[d] = inertia[d], DOMAIN inertia' = Fibers,
         inertia'[f] \in Jobs(f), inertia'[f].is = inertia[f].is,
         UNCHANGED <<uid, state, epoch, found, using, error, impl, updates>>,
         Reloading(f) => inertia'[f].old = inertia[f].old,
         Unloading(f) =>
           /\ inertia'[f].left \subseteq inertia[f].left
           /\ \A s \in Services : s \in inertia[f].left => s \in inertia'[f].left
           /\ \A c \in Fibers : c \in inertia[f].left /\ c \notin inertia'[f].left =>
                uid[c] = "null" /\ c \in inertia'[f].awaits
           /\ \A d \in Fibers : d \in inertia[f].awaits /\ d \notin inertia'[f].awaits =>
                inertia[d] = None
  PROVE  KernelInv'
<1>1. inertia'[f] # None /\ \A d \in Fibers : inertia'[d] = None <=> inertia[d] = None
  BY FiberAssumption
<1>2. \A d \in Fibers : \A kind : Is(inertia'[d], kind) <=> Is(inertia[d], kind)
  BY <1>1 DEF Is
<1>3. \A d \in Fibers : /\ Reloading(d)' <=> Is(inertia'[d], "reload")
                        /\ Unloading(d)' <=> Is(inertia'[d], "unload")
  BY DEF Reloading, Unloading, Runs, Is
<1>4. \A d \in Fibers : (Reloading(d)' <=> Reloading(d)) /\ (Unloading(d)' <=> Unloading(d))
  BY <1>2, <1>3, FiberFacts
<1>5. \A c \in Fibers : (Gone(c)' <=> Gone(c)) /\ Mounted(c)' = Mounted(c) /\ Provided(c)' = Provided(c)
  BY <1>1 DEF Gone, Mounted, Provided
<1>6. TypeOK'
  <2>1. ASSUME NEW d \in Fibers PROVE Fits(d, state'[d], epoch'[d], inertia'[d])
    <3>1. Fits(d, state[d], epoch[d], inertia[d])
      BY FiberFacts
    <3>2. inertia'[d] \in Jobs(d) \cup {None}
      BY <3>1 DEF Fits
    <3> QED BY <1>1, <1>2, <3>1, <3>2 DEF Fits
  <2>2. ASSUME NEW d \in Fibers, state'[d] = "DISPOSED"
        PROVE  uid'[d] = "null" /\ Unload(d)'.left = {}
    <3>1. uid[d] = "null" /\ Unload(d).left = {}
      BY <2>2, TypeParts DEF KernelInv
    <3>2. Unload(d)'.left = Unload(d).left
      BY <1>5 DEF Unload, Mounted
    <3> QED BY <3>1, <3>2
  <2> QED BY <2>1, <2>2, TypeParts, TypePartsNext DEF KernelInv
<1>7. Domains' /\ Found'
  BY DEF KernelInv, Domains, Found, Live, Visible
<1>8. Called' /\ Took'
  <2>1. Called'
    BY <1>1, <1>4 DEF KernelInv, Called, Live
  <2>2. ASSUME NEW d \in Fibers, Reloading(d) PROVE inertia'[d].old = inertia[d].old
    BY <2>2
  <2> QED BY <1>1, <1>4, <2>1, <2>2 DEF KernelInv, Took
<1>9. Undone'
  <2> SUFFICES ASSUME NEW g \in Fibers, Unloading(g)'
               PROVE  /\ \A c \in Mounted(g)' : ~Gone(c)' =>
                           c \in inertia'[g].left \/ (c \in inertia'[g].awaits /\ uid'[c] = "null")
                      /\ \A x \in inertia'[g].left \cap Fibers : uid'[x] # "unmounted" /\ Parent[x] = g
                      /\ \A s \in Services : s \in inertia'[g].left <=> impl'[s] = g
    BY DEF Undone
  <2>1. /\ \A c \in Mounted(g) : ~Gone(c) =>
             c \in inertia[g].left \/ (c \in inertia[g].awaits /\ uid[c] = "null")
        /\ \A x \in inertia[g].left \cap Fibers : uid[x] # "unmounted" /\ Parent[x] = g
        /\ \A s \in Services : s \in inertia[g].left <=> impl[s] = g
    BY <1>4 DEF KernelInv, Undone
  <2>2. Mounted(g)' = Mounted(g) /\ Mounted(g) \subseteq Fibers
    BY <1>5 DEF Mounted
  <2>3. CASE g # f
    BY <1>5, <2>1, <2>2, <2>3
  <2>4. CASE g = f
    <3>1. ASSUME NEW c \in Mounted(f), ~Gone(c)
          PROVE  c \in inertia'[f].left \/ (c \in inertia'[f].awaits /\ uid[c] = "null")
      <4>1. c \in inertia[f].left \/ (c \in inertia[f].awaits /\ uid[c] = "null")
        BY <2>1, <2>4, <3>1
      <4>2. Unloading(f) /\ c \in Fibers
        BY <1>4, <2>2, <2>4, <3>1
      <4> QED BY <3>1, <4>1, <4>2 DEF Gone
    <3>2. Unloading(f)
      BY <1>4, <2>4
    <3> QED BY <1>5, <2>1, <2>2, <2>4, <3>1, <3>2
  <2> QED BY <2>3, <2>4
<1>10. Users'
  <2> SUFFICES ASSUME NEW g \in Fibers, NEW d \in Fibers, Live(d), using[d] # None,
                      NEW s \in Inject[d], using[d][s] = g
               PROVE  impl[s] = g \/ (Unloading(g)' /\ d \in inertia'[g].awaits)
    BY DEF Users, Live
  <2>1. impl[s] = g \/ (Unloading(g) /\ d \in inertia[g].awaits)
    BY DEF KernelInv, Users
  <2>2. CASE g # f \/ d \in inertia'[f].awaits
    BY <1>4, <2>1, <2>2
  <2>3. CASE g = f /\ Unloading(f) /\ d \in inertia[f].awaits /\ d \notin inertia'[f].awaits
    <3>1. inertia[d] = None
      BY <2>3
    <3>2. state[d] = "ACTIVE" /\ using[d] = epoch[d] /\ epoch[d] # None
      <4>1. Fits(d, state[d], epoch[d], inertia[d])
        BY FiberFacts
      <4> QED BY <3>1, <4>1 DEF KernelInv, Took, Fits
    <3>3. epoch[d] = found[d]
      BY <3>2, FiberFacts, EpochType DEF Calls
    <3>4. found[d] = [x \in Inject[d] |-> Visible(x)] /\ found[d][s] = g
      BY <3>2, <3>3 DEF KernelInv, Found
    <3>5. Visible(s) = g /\ g # None
      BY <3>4, FiberAssumption
    <3> QED BY <3>5 DEF Visible
  <2> QED BY <2>1, <2>2, <2>3
<1> QED BY <1>6, <1>7, <1>8, <1>9, <1>10 DEF KernelInv

LEMMA MountStep ==
  ASSUME KernelInv, NEW f \in Fibers, Mount(f)
  PROVE  KernelInv'
<1> PICK seen : seen = [s \in Inject[f] |-> Visible(s)]
  OBVIOUS
<1>1. /\ uid[f] = "unmounted" /\ MayMount(f) /\ uid' = [uid EXCEPT ![f] = "live"]
      /\ Snapshot /\ error' = error /\ impl' = impl /\ updates' = updates
      /\ found' = [found EXCEPT ![f] = seen] /\ epoch' = [epoch EXCEPT ![f] = Epoch(seen)]
      /\ Epoch(seen) = None => state' = state /\ inertia' = inertia
      /\ Epoch(seen) # None => /\ state' = [state EXCEPT ![f] = "LOADING"]
                               /\ inertia' = [inertia EXCEPT ![f] = Reload(Epoch(seen))]
  <2>1. seen = [s \in Inject[f] |->
                  IF impl[s] = None THEN None
                  ELSE IF state[impl[s]] = "ACTIVE" THEN impl[s] ELSE None]
    BY DEF Visible
  <2> QED BY <2>1 DEF Mount
<1>2. /\ inertia[f] = None /\ epoch[f] = None /\ using[f] = None
      /\ state[f] \in {"PENDING", "FAILED"}
  <2>1. inertia[f] = None /\ epoch[f] = None
    BY <1>1, FiberFacts DEF Live
  <2>2. state[f] \in {"PENDING", "FAILED", "DISPOSED"}
    BY <2>1, FiberFacts DEF Fits, Is, States
  <2>3. state[f] # "DISPOSED"
    BY <1>1, TypeParts DEF KernelInv
  <2> QED BY <2>1, <2>2, <2>3 DEF KernelInv, Took
<1>3. /\ seen \in [Inject[f] -> Fibers \cup {None}]
      /\ Epoch(seen) \in [Inject[f] -> Fibers] \cup {None}
      /\ Epoch(seen) # None => Epoch(seen) = seen
  <2>1. \A s \in Inject[f] : Visible(s) \in Fibers \cup {None}
    BY TypeParts, FiberAssumption DEF KernelInv, Visible
  <2> QED BY <2>1, EpochType
<1>4. /\ uid'[f] = "live" /\ found'[f] = seen /\ epoch'[f] = Epoch(seen)
      /\ Epoch(seen) = None => state'[f] = state[f] /\ inertia'[f] = None
      /\ Epoch(seen) # None => state'[f] = "LOADING" /\ inertia'[f] = Reload(seen)
      /\ \A d \in Fibers \ {f} : /\ uid'[d] = uid[d] /\ found'[d] = found[d] /\ epoch'[d] = epoch[d]
                                 /\ state'[d] = state[d] /\ inertia'[d] = inertia[d]
      /\ uid' \in [Fibers -> {"unmounted", "live", "null"}]
  BY <1>1, <1>2, <1>3, TypeParts DEF KernelInv, Domains
<1>5. /\ Epoch(seen) # None => /\ Reload(seen) \in Jobs(f) /\ Reload(seen) # None
                               /\ Reload(seen).is = "reload" /\ Reload(seen).old = seen
  <2>1. SUFFICES ASSUME Epoch(seen) # None
                 PROVE  Reload(seen) \in Jobs(f) /\ Reload(seen).is = "reload" /\ Reload(seen).old = seen
    BY FiberAssumption
  <2> QED BY <1>3, <2>1 DEF Reload, Jobs
<1>6. \A d \in Fibers \ {f} : /\ (Reloading(d)' <=> Reloading(d)) /\ (Unloading(d)' <=> Unloading(d))
                              /\ (Live(d)' <=> Live(d))
  BY <1>4 DEF Reloading, Unloading, Runs, Live
<1>7. /\ ~Reloading(f) /\ ~Unloading(f) /\ ~Unloading(f)'
      /\ Live(f)' /\ (Reloading(f)' <=> Epoch(seen) # None)
  BY <1>2, <1>4, <1>5 DEF Reloading, Unloading, Runs, Live
<1>8. /\ using'[f] = IF Epoch(seen) = None THEN None ELSE seen
      /\ \A d \in Fibers \ {f} : using'[d] = using[d]
  <2>1. \A d \in Fibers : using'[d] =
          IF inertia'[d] = None THEN IF state'[d] = "ACTIVE" THEN using[d] ELSE None
          ELSE IF inertia'[d].is = "reload" /\ ~Reloading(d) THEN found'[d] ELSE using[d]
    BY <1>1 DEF Snapshot
  <2>2. using'[f] = IF Epoch(seen) = None THEN None ELSE seen
    BY <1>2, <1>4, <1>5, <1>7, <2>1
  <2>3. ASSUME NEW d \in Fibers \ {f} PROVE using'[d] = using[d]
    <3>1. inertia[d] = None /\ state[d] # "ACTIVE" => using[d] = None
      BY DEF KernelInv, Took
    <3>2. inertia[d] # None /\ inertia[d].is = "reload" => Reloading(d)
      BY DEF Reloading, Runs
    <3> QED BY <1>4, <2>1, <3>1, <3>2
  <2> QED BY <2>2, <2>3
<1>9. \A s \in Services : Visible(s)' = Visible(s)
  <2> SUFFICES ASSUME NEW s \in Services, impl[s] # None
               PROVE  state'[impl[s]] = "ACTIVE" <=> state[impl[s]] = "ACTIVE"
    BY <1>1 DEF Visible
  <2>1. impl[s] \in Fibers
    BY TypeParts DEF KernelInv
  <2> QED BY <1>2, <1>4, <2>1
<1>10. Found'
  BY <1>4, <1>6, <1>9, FiberAssumption DEF KernelInv, Found
<1>11. Called'
  <2>1. ASSUME NEW d \in Fibers \ {f}
        PROVE  /\ Live(d)' => epoch'[d] = Epoch(found'[d])
                               \/ (epoch'[d] = None /\ error'[d] /\ ~Reloading(d)')
               /\ ~Live(d)' => epoch'[d] = None
               /\ uid'[d] = "unmounted" => inertia'[d] = None
    BY <1>1, <1>4, <1>6 DEF KernelInv, Called
  <2> QED BY <1>4, <1>7, <2>1 DEF Called
<1>12. Took'
  BY <1>2, <1>3, <1>4, <1>5, <1>6, <1>7, <1>8 DEF KernelInv, Took
<1>13. \A c \in Fibers \ {f} : Gone(c)' <=> Gone(c)
  BY <1>4 DEF Gone
<1>14. \A d \in Fibers : Unloading(d) \/ state[d] = "DISPOSED" => Mounted(d)' = Mounted(d) /\ f \notin Mounted(d)
  <2> SUFFICES ASSUME NEW d \in Fibers, Unloading(d) \/ state[d] = "DISPOSED"
               PROVE  Parent[f] # d
    BY <1>1, <1>4 DEF Mounted
  <2>1. SUFFICES ASSUME Parent[f] = d PROVE FALSE
    OBVIOUS
  <2>2. uid[d] = "live" /\ (InBody(d) \/ state[d] = "ACTIVE")
    BY <1>1, <2>1, FiberAssumption DEF MayMount
  <2>3. CASE Unloading(d)
    BY <2>2, <2>3, FiberFacts DEF Fits, Is, InBody
  <2>4. CASE state[d] = "DISPOSED"
    BY <2>2, <2>4, TypeParts DEF KernelInv
  <2> QED BY <2>3, <2>4
<1>15. Undone'
  <2> SUFFICES ASSUME NEW g \in Fibers, Unloading(g)'
               PROVE  /\ \A c \in Mounted(g)' : ~Gone(c)' =>
                           c \in inertia'[g].left \/ (c \in inertia'[g].awaits /\ uid'[c] = "null")
                      /\ \A x \in inertia'[g].left \cap Fibers : uid'[x] # "unmounted" /\ Parent[x] = g
                      /\ \A s \in Services : s \in inertia'[g].left <=> impl'[s] = g
    BY DEF Undone
  <2>1. g # f /\ Unloading(g) /\ inertia'[g] = inertia[g]
    BY <1>4, <1>6, <1>7
  <2>2. /\ \A c \in Mounted(g) : ~Gone(c) =>
             c \in inertia[g].left \/ (c \in inertia[g].awaits /\ uid[c] = "null")
        /\ \A x \in inertia[g].left \cap Fibers : uid[x] # "unmounted" /\ Parent[x] = g
        /\ \A s \in Services : s \in inertia[g].left <=> impl[s] = g
    BY <2>1 DEF KernelInv, Undone
  <2>3. Mounted(g)' = Mounted(g) /\ f \notin Mounted(g) /\ Mounted(g) \subseteq Fibers
    BY <1>14, <2>1 DEF Mounted
  <2>4. \A x \in inertia[g].left \cap Fibers : x # f
    BY <1>1, <2>2
  <2> QED BY <1>1, <1>4, <1>13, <2>1, <2>2, <2>3, <2>4
<1>16. Users'
  <2> SUFFICES ASSUME NEW g \in Fibers, NEW d \in Fibers, Live(d)', using'[d] # None,
                      NEW s \in Inject[d], using'[d][s] = g
               PROVE  impl[s] = g \/ (Unloading(g)' /\ d \in inertia'[g].awaits)
    BY <1>1 DEF Users
  <2>1. CASE d = f
    <3>1. using'[f] = seen
      BY <1>8, <2>1
    <3>2. Visible(s) = g
      BY <2>1, <3>1
    <3>3. g # None
      BY FiberAssumption
    <3> QED BY <3>2, <3>3 DEF Visible
  <2>2. CASE d # f
    <3>1. Live(d) /\ using'[d] = using[d]
      BY <1>6, <1>8, <2>2
    <3>2. impl[s] = g \/ (Unloading(g) /\ d \in inertia[g].awaits)
      BY <3>1 DEF KernelInv, Users
    <3> QED BY <1>4, <1>6, <1>7, <3>2
  <2> QED BY <2>1, <2>2
<1>17. TypeOK'
  <2>1. ASSUME NEW d \in Fibers
        PROVE  /\ found'[d] \in [Inject[d] -> Fibers \cup {None}]
               /\ using'[d] \in [Inject[d] -> Fibers] \cup {None}
               /\ Fits(d, state'[d], epoch'[d], inertia'[d])
    <3>1. CASE d = f
      <4>1. CASE Epoch(seen) = None
        BY <1>2, <1>3, <1>4, <1>8, <3>1, <4>1 DEF Fits, Is, States
      <4>2. CASE Epoch(seen) # None
        BY <1>2, <1>3, <1>4, <1>5, <1>8, <3>1, <4>2 DEF Fits, Is, States
      <4> QED BY <4>1, <4>2
    <3>2. CASE d # f
      BY <1>4, <1>8, <3>2, FiberFacts
    <3> QED BY <3>1, <3>2
  <2>2. ASSUME NEW d \in Fibers, state'[d] = "DISPOSED"
        PROVE  uid'[d] = "null" /\ Unload(d)'.left = {}
    <3>1. d # f /\ state[d] = "DISPOSED"
      BY <1>2, <1>4, <2>2
    <3>2. uid[d] = "null" /\ Unload(d).left = {}
      BY <3>1, TypeParts DEF KernelInv
    <3>3. Mounted(d)' = Mounted(d) /\ f \notin Mounted(d) /\ Mounted(d) \subseteq Fibers
      BY <1>14, <3>1 DEF Mounted
    <3>4. Provided(d)' = Provided(d)
      BY <1>1 DEF Provided
    <3>5. Unload(d)'.left = Unload(d).left
      BY <1>13, <3>3, <3>4 DEF Unload
    <3> QED BY <1>4, <3>1, <3>2, <3>5
  <2> QED BY <1>1, <1>4, <2>1, <2>2, TypeParts, TypePartsNext DEF KernelInv
<1>18. Domains'
  <2>1. DOMAIN state' = Fibers /\ DOMAIN inertia' = Fibers
    BY <1>1 DEF KernelInv, Domains
  <2> QED BY <1>1, <2>1 DEF KernelInv, Domains, Snapshot
<1> QED BY <1>10, <1>11, <1>12, <1>15, <1>16, <1>17, <1>18 DEF KernelInv

(* The jobs go on as they are while services change hands.                 *)
LEMMA ServiceJobs ==
  ASSUME KernelInv, NEW s \in Services, NEW j0, NEW p, uid' = uid,
         impl'[s] = p, \A x \in Services \ {s} : impl'[x] = impl[x],
         \A d \in Fibers : state[d] = "DISPOSED" => p # d,
         \A d \in Fibers : j0[d] = inertia[d] \/
           /\ Unloading(d) /\ Is(j0[d], "unload") /\ j0[d].left = inertia[d].left \ {s}
           /\ inertia[d].awaits \subseteq j0[d].awaits,
         \A d \in Fibers : Unloading(d) => (s \in j0[d].left <=> p = d)
  PROVE  Jobbed(state, epoch, j0)
<1> SUFFICES ASSUME NEW d \in Fibers
             PROVE  /\ uid[d] = "unmounted" => j0[d] = None
                    /\ Gone(d) => j0[d] = None
                    /\ Is(j0[d], "reload") =>
                         j0[d].old = IF Reloading(d) THEN inertia[d].old ELSE found'[d]
                    /\ Is(j0[d], "unload") => Undoing(d, j0)
                    /\ state[d] = "ACTIVE" => using[d] = epoch[d]
                    /\ j0[d] = None /\ epoch[d] = None => ~Reloading(d)
                    /\ state[d] = "DISPOSED" =>
                         /\ uid'[d] = "null" /\ \A x \in Services : impl'[x] # d
                         /\ \A c \in Fibers : Parent[c] = d /\ uid'[c] # "unmounted" =>
                              uid'[c] = "null" /\ j0[c] = None
  BY DEF Jobbed
<1>1. \A c \in Fibers : inertia[c] = None <=> j0[c] = None
  BY DEF Is, Unloading
<1>2. impl'[s] = p /\ \A x \in Services \ {s} : impl'[x] = impl[x]
  OBVIOUS
<1>3. /\ (Reloading(d) <=> Is(inertia[d], "reload")) /\ (Unloading(d) <=> Is(inertia[d], "unload"))
      /\ uid[d] = "unmounted" => inertia[d] = None
  BY FiberFacts
<1>4. /\ Is(j0[d], "reload") => j0[d] = inertia[d] /\ Reloading(d)
      /\ Is(j0[d], "unload") => Unloading(d)
  BY <1>3 DEF Is
<1>5. ASSUME Is(j0[d], "unload") PROVE Undoing(d, j0)
  <2>1. /\ \A c \in Fibers : Parent[c] = d /\ uid[c] # "unmounted" =>
             \/ uid[c] = "null" /\ inertia[c] = None
             \/ c \in inertia[d].left
             \/ c \in inertia[d].awaits /\ uid[c] = "null"
        /\ \A x \in inertia[d].left \cap Fibers : uid[x] # "unmounted" /\ Parent[x] = d
        /\ \A x \in Services : x \in inertia[d].left <=> impl[x] = d
    BY <1>4, <1>5, RunningJobs
  <2>2. /\ \A c \in Fibers : c \in inertia[d].left <=> c \in j0[d].left
        /\ inertia[d].awaits \subseteq j0[d].awaits
        /\ \A x \in Services \ {s} : x \in inertia[d].left <=> x \in j0[d].left
    BY FiberAssumption
  <2>3. s \in j0[d].left <=> impl'[s] = d
    BY <1>2, <1>4, <1>5
  <2> QED BY <1>1, <1>2, <2>1, <2>2, <2>3 DEF Undoing
<1>6. ASSUME state[d] = "DISPOSED"
      PROVE  /\ uid'[d] = "null" /\ \A x \in Services : impl'[x] # d
             /\ \A c \in Fibers : Parent[c] = d /\ uid'[c] # "unmounted" =>
                  uid'[c] = "null" /\ j0[c] = None
  <2>1. /\ uid[d] = "null" /\ \A x \in Services : impl[x] # d
        /\ \A c \in Fibers : Parent[c] = d /\ uid[c] # "unmounted" => uid[c] = "null" /\ inertia[c] = None
    BY <1>6, RunningJobs
  <2> QED BY <1>1, <1>2, <1>6, <2>1
<1>7. state[d] = "ACTIVE" => using[d] = epoch[d]
  BY DEF KernelInv, Took
<1> QED BY <1>1, <1>3, <1>4, <1>5, <1>6, <1>7 DEF Gone, Is

LEMMA ProvideStep ==
  ASSUME KernelInv, NEW f \in Fibers, NEW s \in Services, ProvideService(f, s)
  PROVE  KernelInv'
<1> PICK names : names = IF state[f] = "ACTIVE" THEN {s} ELSE {}
  OBVIOUS
<1>1. /\ impl[s] = None /\ Live(f) /\ (InBody(f) \/ state[f] = "ACTIVE")
      /\ uid' = uid /\ error' = error /\ updates' = updates
      /\ impl' = [impl EXCEPT ![s] = f] /\ Notify(state, epoch, inertia, names) /\ Snapshot
  BY DEF ProvideService
<1>2. impl'[s] = f /\ \A x \in Services \ {s} : impl'[x] = impl[x]
  BY <1>1, TypeParts DEF KernelInv
<1>3. ~Unloading(f)
  <2>1. Reloading(f) \/ state[f] = "ACTIVE"
    BY <1>1 DEF InBody
  <2> QED BY <2>1, FiberFacts DEF Fits, Is
<1>4. Ready(state, epoch, inertia, names)
  <2>1. /\ uid' \in [Fibers -> {"unmounted", "live", "null"}]
        /\ impl' \in [Services -> Fibers \cup {None}] /\ names \subseteq Services
    BY <1>1, TypeParts DEF KernelInv
  <2>2. ASSUME NEW d \in Fibers
        PROVE  /\ Fits(d, state[d], epoch[d], inertia[d])
               /\ uid'[d] = "live" => Live(d) /\ Calls(d, epoch[d], state[d] = "LOADING", found, error')
               /\ uid'[d] # "live" => epoch[d] = None
    BY <1>1, FiberFacts DEF Live
  <2>3. ASSUME NEW x \in Services \ names PROVE Sees(state, x, {}) = Visible(x)
    <3>1. CASE x = s
      BY <1>1, <1>2, <2>3, <3>1 DEF Sees, Visible
    <3>2. CASE x # s
      BY <1>2, <3>2 DEF Sees, Visible
    <3> QED BY <3>1, <3>2
  <2> QED BY <2>1, <2>2, <2>3 DEF Ready
<1>5. Jobbed(state, epoch, inertia)
  <2>1. \A d \in Fibers : state[d] = "DISPOSED" => f # d
    BY <1>1, TypeParts DEF KernelInv, Live
  <2>2. ASSUME NEW d \in Fibers, Unloading(d) PROVE s \in inertia[d].left <=> f = d
    <3>1. s \in inertia[d].left <=> impl[s] = d
      BY <2>2 DEF KernelInv, Undone
    <3> QED BY <1>1, <1>3, <2>2, <3>1, FiberAssumption
  <2> QED BY <1>1, <1>2, <2>1, <2>2, ServiceJobs
<1>6. Awaited(state, inertia)
  <2> SUFFICES ASSUME NEW g \in Fibers, NEW d \in Fibers, uid'[d] = "live", using[d] # None,
                      NEW x \in Inject[d], using[d][x] = g
               PROVE  impl'[x] = g \/ (Is(inertia[g], "unload") /\ d \in inertia[g].awaits)
    BY DEF Awaited
  <2>1. impl[x] = g \/ (Unloading(g) /\ d \in inertia[g].awaits)
    BY <1>1 DEF KernelInv, Users, Live
  <2>2. Unloading(g) => Is(inertia[g], "unload")
    BY FiberFacts
  <2>3. g # None /\ x \in Services
    BY FiberAssumption
  <2> QED BY <1>1, <1>2, <2>1, <2>2, <2>3
(* Nobody ran with a service that was not there.                           *)
<1>7. Left(state, epoch, inertia, names) = {}
  <2>1. ASSUME NEW x \in Active(epoch, inertia)
        PROVE  Turn(x, state, epoch, names, {}) = epoch[x]
    <3>1. /\ uid'[x] = "live" /\ found[x] \in [Inject[x] -> Fibers] /\ x \in Fibers
          /\ Turn(x, state, epoch, names, {}) # epoch[x] =>
               \E y \in Inject[x] : y \in Moved(names, {})
      BY <1>4, TurnsAway DEF Active
    <3>2. Moved(names, {}) \subseteq {s}
      BY DEF Moved
    <3>3. ASSUME s \in Inject[x] PROVE FALSE
      <4>1. found[x] = [y \in Inject[x] |-> Visible(y)]
        BY <1>1, <3>1 DEF KernelInv, Found, Live
      <4>2. found[x][s] = None
        BY <1>1, <3>3, <4>1 DEF Visible
      <4> QED BY <3>1, <3>3, <4>2, FiberAssumption
    <3> QED BY <3>1, <3>2, <3>3
  <2> QED BY <2>1, NobodyLeaves
<1>8. Lives /\ Kept(state, epoch, inertia, names)
  BY <1>1, <1>7 DEF Lives, Kept
<1>9. error' \in [Fibers -> BOOLEAN] /\ updates' \in 0 .. MaxUpdates
  BY <1>1, TypeParts DEF KernelInv
<1> QED BY <1>1, <1>4, <1>5, <1>6, <1>8, <1>9, NotifyKeeps

(* The disposer of provide(): the service goes, its users are awaited.     *)
LEMMA ServiceGoes ==
  ASSUME KernelInv, NEW f \in Fibers, NEW s \in Services, Unloading(f), s \in inertia[f].left,
         uid' = uid, error' = error, updates' = updates, impl' = [impl EXCEPT ![s] = None],
         Notify(state, epoch, Awaiting(f, s, Declaring(s)), {s}), Snapshot
  PROVE  KernelInv'
<1> PICK j0 : j0 = Awaiting(f, s, Declaring(s))
  OBVIOUS
<1>1. /\ \A d \in Fibers \ {f} : j0[d] = inertia[d]
      /\ DOMAIN j0 = Fibers /\ j0[f] \in Jobs(f) /\ Is(j0[f], "unload")
      /\ j0[f].left = inertia[f].left \ {s} /\ j0[f].awaits = inertia[f].awaits \cup Declaring(s)
  <2>1. Declaring(s) \in SUBSET Fibers
    BY DEF Declaring
  <2> QED BY <2>1, AwaitingJobs
<1>2. /\ impl[s] = f /\ impl'[s] = None
      /\ \A x \in Services \ {s} : impl'[x] = impl[x]
  BY TypeParts DEF KernelInv, Undone
<1>3. Ready(state, epoch, j0, {s})
  <2>1. /\ uid' \in [Fibers -> {"unmounted", "live", "null"}]
        /\ impl' \in [Services -> Fibers \cup {None}] /\ {s} \subseteq Services
    BY TypeParts DEF KernelInv
  <2>2. ASSUME NEW d \in Fibers
        PROVE  /\ Fits(d, state[d], epoch[d], j0[d])
               /\ uid'[d] = "live" => Live(d) /\ Calls(d, epoch[d], state[d] = "LOADING", found, error')
               /\ uid'[d] # "live" => epoch[d] = None
    <3>1. Fits(d, state[d], epoch[d], inertia[d])
      BY FiberFacts
    <3>2. Is(inertia[f], "unload")
      BY FiberFacts
    <3>3. Fits(d, state[d], epoch[d], j0[d])
      BY <1>1, <3>1, <3>2 DEF Fits, Is
    <3> QED BY <3>3, FiberFacts DEF Live
  <2>3. ASSUME NEW x \in Services \ {s} PROVE Sees(state, x, {}) = Visible(x)
    BY <1>2 DEF Sees, Visible
  <2> QED BY <2>1, <2>2, <2>3 DEF Ready
<1>4. Jobbed(state, epoch, j0)
  <2>1. \A d \in Fibers : j0[d] = inertia[d] \/
          /\ Unloading(d) /\ Is(j0[d], "unload") /\ j0[d].left = inertia[d].left \ {s}
          /\ inertia[d].awaits \subseteq j0[d].awaits
    BY <1>1
  <2> PICK p : p = None
    OBVIOUS
  <2>2. ASSUME NEW d \in Fibers, Unloading(d) PROVE s \in j0[d].left <=> p = d
    <3>1. s \in inertia[d].left <=> impl[s] = d
      BY <2>2 DEF KernelInv, Undone
    <3>2. s \notin j0[d].left
      BY <1>1, <1>2, <3>1
    <3>3. p # d
      BY FiberAssumption
    <3> QED BY <3>2, <3>3
  <2>3. \A d \in Fibers : state[d] = "DISPOSED" => p # d
    BY FiberAssumption
  <2>4. impl'[s] = p
    BY <1>2
  <2> QED BY <1>2, <2>1, <2>2, <2>3, <2>4, ServiceJobs
<1>5. Awaited(state, j0)
  <2> SUFFICES ASSUME NEW g \in Fibers, NEW d \in Fibers, uid'[d] = "live", using[d] # None,
                      NEW x \in Inject[d], using[d][x] = g
               PROVE  impl'[x] = g \/ (Is(j0[g], "unload") /\ d \in j0[g].awaits)
    BY DEF Awaited
  <2>1. impl[x] = g \/ (Unloading(g) /\ d \in inertia[g].awaits)
    BY DEF KernelInv, Users, Live
  <2>2. Unloading(g) => Is(inertia[g], "unload")
    BY FiberFacts
  <2>3. x = s => d \in Declaring(s)
    BY DEF Declaring, Live
  <2>4. x \in Services
    BY FiberAssumption
  <2> QED BY <1>1, <1>2, <2>1, <2>2, <2>3, <2>4
<1>6. Kept(state, epoch, j0, {s})
  <2> SUFFICES ASSUME NEW d \in Left(state, epoch, j0, {s}), NEW x \in Services
               PROVE  impl'[x] = d <=> impl[x] = d
    BY DEF Kept
  <2>1. d \in Fibers /\ j0[d] = None
    BY DEF Left, Active
  <2>2. d # f /\ d # None
    BY <1>1, <2>1, FiberAssumption DEF Is
  <2> QED BY <1>2, <2>2
<1>7. Lives /\ error' \in [Fibers -> BOOLEAN] /\ updates' \in 0 .. MaxUpdates
  BY TypeParts DEF KernelInv, Lives
<1> QED BY <1>3, <1>4, <1>5, <1>6, <1>7, NotifyKeeps

LEMMA UpdateStep ==
  ASSUME KernelInv, NEW f \in Fibers, Update(f)
  PROVE  KernelInv'
<1> PICK e : e = Epoch(found[f])
  OBVIOUS
<1>1. /\ Live(f) /\ uid' = uid /\ impl' = impl /\ error' = [error EXCEPT ![f] = FALSE]
      /\ error' \in [Fibers -> BOOLEAN] /\ updates' \in 0 .. MaxUpdates
  BY TypeParts, FiberAssumption DEF Update, KernelInv
<1>2. \A d \in Fibers \ {f} : error'[d] = error[d]
  BY <1>1, TypeParts DEF KernelInv
<1>3. /\ uid[f] # "unmounted" /\ ~Gone(f)
      /\ \A loading : Calls(f, e, loading, found, error')
  BY <1>1 DEF Live, Gone, Calls
<1>4. /\ e \in [Inject[f] -> Fibers] \cup {None}
      /\ e # None => e = found[f]
  BY FiberFacts, EpochType
<1>5. /\ Fits(f, state[f], epoch[f], inertia[f])
      /\ (Reloading(f) <=> Is(inertia[f], "reload")) /\ (Unloading(f) <=> Is(inertia[f], "unload"))
  BY FiberFacts
<1>6. CASE state[f] = "ACTIVE" /\ Becomes(f, "UNLOADING", e, Unload(f), Provided(f))
  <2>1. Unload(f) \in Jobs(f) /\ Unload(f).is = "unload"
    BY DEF Unload, Jobs, Mounted, Provided
  <2>2. Unload(f) # None
    BY <2>1, FiberAssumption
  <2>3. Fits(f, "UNLOADING", e, Unload(f))
    BY <1>4, <2>1, <2>2 DEF Fits, Is, States
  <2>4. ~Unloading(f) /\ ~Is(Unload(f), "reload")
    BY <1>5, <1>6, <2>1 DEF Fits, Is
  <2> QED BY <1>1, <1>2, <1>3, <1>6, <2>2, <2>3, <2>4, BecomesStep
<1>7. CASE inertia[f] # None /\ Becomes(f, state[f], e, inertia[f], {})
  <2>1. Fits(f, state[f], e, inertia[f]) /\ state[f] # "ACTIVE" /\ state[f] # "DISPOSED"
    <3>1. Is(inertia[f], "reload") \/ Is(inertia[f], "unload")
      BY <1>5, <1>7 DEF Fits, Is, Jobs
    <3> QED BY <1>4, <1>5, <1>7, <3>1 DEF Fits
  <2> QED BY <1>1, <1>2, <1>3, <1>5, <1>7, <2>1, BecomesStep
<1>8. CASE /\ inertia[f] = None /\ state[f] # "ACTIVE" /\ e # None
           /\ Becomes(f, "LOADING", e, Reload(e), {})
  <2>1. Reload(e) \in Jobs(f) /\ Reload(e).is = "reload" /\ Reload(e).old = found[f]
    BY <1>4, <1>8 DEF Reload, Jobs
  <2>2. Reload(e) # None
    BY <2>1, FiberAssumption
  <2>3. Fits(f, "LOADING", e, Reload(e)) /\ ~Is(Reload(e), "unload")
    BY <1>4, <2>1, <2>2 DEF Fits, Is, States
  <2>4. ~Unloading(f) /\ ~Reloading(f)
    BY <1>5, <1>8 DEF Is
  <2> QED BY <1>1, <1>2, <1>3, <1>8, <2>1, <2>2, <2>3, <2>4, BecomesStep
<1>9. CASE /\ inertia[f] = None /\ state[f] # "ACTIVE" /\ e = None
           /\ UNCHANGED <<state, epoch, inertia, found, using>>
  <2>1. epoch[f] = Epoch(found[f])
    BY <1>5, <1>9 DEF Fits
  <2>2. TypeOK' /\ Domains'
    <3>1. \A d \in Fibers : Unload(d)' = Unload(d)
      BY <1>1, <1>9 DEF Unload, Mounted, Provided, Gone
    <3> QED BY <1>1, <1>9, <3>1, TypeParts, TypePartsNext DEF KernelInv, Domains
  <2>3. Found' /\ Took' /\ Users'
    <3>1. Found'
      BY <1>1, <1>9 DEF KernelInv, Found, Live, Visible
    <3>2. Took'
      BY <1>9 DEF KernelInv, Took, Reloading, Runs
    <3>3. Users'
      BY <1>1, <1>9 DEF KernelInv, Users, Live, Unloading, Runs
    <3> QED BY <3>1, <3>2, <3>3
  <2>4. Called'
    <3>1. \A d \in Fibers : (Live(d)' <=> Live(d)) /\ (Reloading(d)' <=> Reloading(d))
      BY <1>1, <1>9 DEF Live, Reloading, Runs
    <3> QED BY <1>1, <1>2, <1>9, <2>1, <3>1 DEF KernelInv, Called
  <2>5. Undone'
    BY <1>1, <1>9 DEF KernelInv, Undone, Unloading, Runs, Mounted, Gone
  <2> QED BY <2>2, <2>3, <2>4, <2>5 DEF KernelInv
<1> QED BY <1>6, <1>7, <1>8, <1>9 DEF Update

(* The end of a load, with the epoch that has been called for meanwhile.   *)
LEMMA ReloadedStep ==
  ASSUME KernelInv, NEW f \in Fibers, Reloading(f), NEW e, Reloaded(f, e),
         e = epoch[f] \/ (e = None /\ error'[f]), uid' = uid, impl' = impl,
         error' \in [Fibers -> BOOLEAN], \A d \in Fibers \ {f} : error'[d] = error[d],
         updates' = updates
  PROVE  KernelInv'
<1>1. /\ Fits(f, state[f], epoch[f], inertia[f])
      /\ Is(inertia[f], "reload") /\ ~Unloading(f)
  BY FiberFacts DEF Is
<1>2. inertia[f].old \in [Inject[f] -> Fibers] /\ using[f] = inertia[f].old
  BY <1>1 DEF Fits, Is, Jobs, KernelInv, Took
<1>3. uid[f] # "unmounted" /\ ~Gone(f) /\ updates' \in 0 .. MaxUpdates
  BY <1>1, FiberFacts, TypeParts DEF Is, Gone, KernelInv
<1>4. Live(f) => epoch[f] = Epoch(found[f])
  BY DEF KernelInv, Called
<1>5. ~Live(f) => e = None
  BY FiberFacts
<1>6. CASE e = inertia[f].old
  <2>1. e \in [Inject[f] -> Fibers] /\ e # None /\ e = epoch[f]
    BY <1>2, <1>6, FiberAssumption
  <2>2. Becomes(f, "ACTIVE", e, None, Provided(f))
    BY <1>6 DEF Reloaded
  <2>3. Fits(f, "ACTIVE", e, None) /\ \A kind : ~Is(None, kind)
    BY <2>1 DEF Fits, Is, States
  <2>4. Live(f) => Calls(f, e, FALSE, found, error')
    BY <1>4, <2>1 DEF Calls
  <2> QED BY <1>1, <1>2, <1>3, <1>5, <1>6, <2>1, <2>2, <2>3, <2>4, BecomesStep
<1>7. CASE e # inertia[f].old
  <2>1. Becomes(f, "UNLOADING", e, Unload(f), {})
    BY <1>7 DEF Reloaded
  <2>2. Unload(f) \in Jobs(f) /\ Unload(f).is = "unload"
    BY DEF Unload, Jobs, Mounted, Provided
  <2>3. Unload(f) # None
    BY <2>2, FiberAssumption
  <2>4. /\ Fits(f, "UNLOADING", e, Unload(f)) /\ ~Is(Unload(f), "reload")
        /\ state[f] # "ACTIVE"
    BY <1>1, <2>2, <2>3 DEF Fits, Is, States
  <2>5. Live(f) => Calls(f, e, FALSE, found, error')
    BY <1>4 DEF Calls
  <2> QED BY <1>1, <1>3, <1>5, <2>1, <2>3, <2>4, <2>5, BecomesStep
<1> QED BY <1>6, <1>7

LEMMA FinishStep ==
  ASSUME KernelInv, NEW f \in Fibers, FinishUnload(f)
  PROVE  KernelInv'
<1>1. /\ Unloading(f) /\ inertia[f].left = {} /\ inertia[f].awaits = {}
      /\ uid' = uid /\ impl' = impl /\ updates' = updates /\ error' = error
  BY DEF FinishUnload
<1>2. /\ Fits(f, state[f], epoch[f], inertia[f]) /\ Is(inertia[f], "unload") /\ ~Reloading(f)
      /\ Live(f) => Calls(f, epoch[f], state[f] = "LOADING", found, error)
      /\ ~Live(f) => epoch[f] = None
  BY <1>1, FiberFacts DEF Is
<1>3. /\ uid[f] # "unmounted" /\ ~Gone(f) /\ updates' \in 0 .. MaxUpdates
      /\ error' \in [Fibers -> BOOLEAN] /\ state[f] # "ACTIVE" /\ state[f] # "LOADING"
  BY <1>1, <1>2, FiberFacts, TypeParts DEF Is, Gone, KernelInv, Fits
<1>4. Provided(f) = {} /\ \A c \in Mounted(f) : Gone(c)
  BY <1>1 DEF KernelInv, Undone, Provided
<1>5. \A s : Live(f) => Calls(f, epoch[f], s, found, error') \/ s
  BY <1>1, <1>2, <1>3 DEF Calls
<1>6. CASE epoch[f] = None
  <2>1. Becomes(f, Resting(f), None, None, {})
    BY <1>6 DEF FinishUnload
  <2>2. /\ Resting(f) \in {"PENDING", "FAILED", "DISPOSED"}
        /\ Resting(f) = "DISPOSED" => uid[f] = "null"
    BY DEF Resting
  <2>3. Fits(f, Resting(f), None, None) /\ \A kind : ~Is(None, kind)
    BY <2>2 DEF Fits, Is, States
  <2>4. Live(f) => Calls(f, None, Resting(f) = "LOADING", found, error')
    BY <1>1, <1>2, <1>3, <1>6, <2>2 DEF Calls
  <2> QED BY <1>1, <1>2, <1>3, <1>4, <2>1, <2>2, <2>3, <2>4, BecomesStep
<1>7. CASE epoch[f] # None
  <2>1. Becomes(f, "LOADING", epoch[f], Reload(epoch[f]), {})
    BY <1>7 DEF FinishUnload
  <2>2. Live(f) /\ epoch[f] = found[f] /\ epoch[f] \in [Inject[f] -> Fibers]
    BY <1>2, <1>7, FiberFacts, EpochType DEF Calls, Fits
  <2>3. /\ Reload(epoch[f]) \in Jobs(f) /\ Reload(epoch[f]).is = "reload"
        /\ Reload(epoch[f]).old = found[f]
    BY <2>2 DEF Reload, Jobs
  <2>4. Reload(epoch[f]) # None
    BY <2>3, FiberAssumption
  <2>5. Fits(f, "LOADING", epoch[f], Reload(epoch[f])) /\ ~Is(Reload(epoch[f]), "unload")
    BY <2>2, <2>3, <2>4, <1>7 DEF Fits, Is, States
  <2>6. Calls(f, epoch[f], TRUE, found, error')
    BY <1>2, <1>7, <2>2 DEF Calls
  <2> QED BY <1>1, <1>2, <1>3, <2>1, <2>2, <2>3, <2>4, <2>5, <2>6, BecomesStep
<1> QED BY <1>6, <1>7

LEMMA RunDisposableStep ==
  ASSUME KernelInv, NEW f \in Fibers, NEW x \in Fibers \cup Services, RunDisposable(f, x)
  PROVE  KernelInv'
<1>1. Unloading(f) /\ x \in inertia[f].left /\ error' = error /\ updates' = updates
  BY DEF RunDisposable
<1>2. CASE x \in Fibers /\ Live(x) /\ impl' = impl /\ DisposeOf(x, Awaiting(f, x, {x}))
  <2>1. x # f
    <3>1. Parent[x] = f
      BY <1>1, <1>2 DEF KernelInv, Undone
    <3>2. PICK rank \in [Fibers -> 1 .. Cardinality(Fibers)] : \A a, b \in Fibers :
            Parent[a] = b \/ Inject[a] \cap Provide[b] # {} => rank[b] < rank[a]
      BY FiberAssumption
    <3>3. rank[f] < rank[x] /\ rank[f] \in 1 .. Cardinality(Fibers)
      BY <1>2, <3>1, <3>2
    <3> QED BY <3>3
  <2> QED BY <1>1, <1>2, <2>1, DisposeStep
<1>3. CASE /\ x \in Fibers /\ ~Live(x) /\ inertia' = Awaiting(f, x, {x})
           /\ UNCHANGED <<uid, impl, state, epoch, found, using>>
  <2>1. {x} \in SUBSET Fibers
    BY <1>3
  <2>2. /\ \A d \in Fibers \ {f} : inertia'[d] = inertia[d]
        /\ DOMAIN inertia' = Fibers /\ inertia'[f] \in Jobs(f) /\ Is(inertia'[f], "unload")
        /\ inertia'[f].left = inertia[f].left \ {x} /\ inertia'[f].awaits = inertia[f].awaits \cup {x}
    BY <1>1, <1>3, <2>1, AwaitingJobs
  <2>3. Is(inertia[f], "unload") /\ ~Reloading(f)
    BY <1>1, FiberFacts DEF Is
  <2>4. uid[x] = "null" /\ x \notin Services
    <3>1. uid[x] # "unmounted"
      BY <1>1, <1>3 DEF KernelInv, Undone
    <3> QED BY <1>3, <3>1, FiberFacts, FiberAssumption DEF Live
  <2> QED BY <1>1, <1>3, <2>2, <2>3, <2>4, JobStep DEF Is
<1>4. CASE /\ x \in Services /\ uid' = uid /\ impl' = [impl EXCEPT ![x] = None]
           /\ Notify(state, epoch, Awaiting(f, x, Declaring(x)), {x}) /\ Snapshot
  BY <1>1, <1>4, ServiceGoes
<1> QED BY <1>2, <1>3, <1>4 DEF RunDisposable

LEMMA SeesSettledStep ==
  ASSUME KernelInv, NEW f \in Fibers, NEW d \in Fibers, SeesSettled(f, d)
  PROVE  KernelInv'
<1>1. /\ Unloading(f) /\ inertia[d] = None /\ inertia' = [inertia EXCEPT ![f].awaits = @ \ {d}]
      /\ UNCHANGED <<uid, state, epoch, found, using, error, impl, updates>>
  BY DEF SeesSettled
<1>2. /\ Is(inertia[f], "unload") /\ ~Reloading(f) /\ inertia[f] \in Jobs(f)
  BY <1>1, FiberFacts DEF Is, Fits
<1>3. inertia[f] \in [is : {"unload"}, left : SUBSET (Fibers \cup Services), awaits : SUBSET Fibers]
  BY <1>2 DEF Jobs, Is
<1> PICK waits : waits = inertia[f].awaits \ {d}
  OBVIOUS
<1>4. /\ \A g \in Fibers \ {f} : inertia'[g] = inertia[g]
      /\ DOMAIN inertia' = Fibers /\ inertia'[f] = [inertia[f] EXCEPT !.awaits = waits]
  BY <1>1 DEF KernelInv, Domains
<1>5. /\ waits \in SUBSET Fibers
      /\ inertia'[f] \in [is : {"unload"}, left : SUBSET (Fibers \cup Services), awaits : SUBSET Fibers]
      /\ inertia'[f].left = inertia[f].left /\ inertia'[f].awaits = waits
  BY <1>3, <1>4
<1>6. inertia'[f] \in Jobs(f) /\ inertia'[f].is = inertia[f].is
  BY <1>3, <1>5 DEF Jobs
<1> QED BY <1>1, <1>2, <1>4, <1>5, <1>6, JobStep DEF Is

LEMMA StartBodyStep ==
  ASSUME KernelInv, NEW f \in Fibers, StartBody(f)
  PROVE  KernelInv'
<1>1. /\ Reloading(f) /\ inertia' = [inertia EXCEPT ![f].body = TRUE]
      /\ UNCHANGED <<uid, state, epoch, found, using, error, impl, updates>>
  BY DEF StartBody
<1>2. Is(inertia[f], "reload") /\ ~Unloading(f) /\ inertia[f] \in Jobs(f)
  BY <1>1, FiberFacts DEF Is, Fits
<1>3. inertia[f] \in [is : {"reload"}, body : BOOLEAN, old : [Inject[f] -> Fibers]]
  BY <1>2 DEF Jobs, Is
<1>4. /\ \A g \in Fibers \ {f} : inertia'[g] = inertia[g]
      /\ DOMAIN inertia' = Fibers /\ inertia'[f] = [inertia[f] EXCEPT !.body = TRUE]
  BY <1>1 DEF KernelInv, Domains
<1>5. /\ inertia'[f] \in [is : {"reload"}, body : BOOLEAN, old : [Inject[f] -> Fibers]]
      /\ inertia'[f].old = inertia[f].old
  BY <1>3, <1>4
<1>6. inertia'[f] \in Jobs(f) /\ inertia'[f].is = inertia[f].is
  BY <1>3, <1>5 DEF Jobs
<1> QED BY <1>1, <1>2, <1>4, <1>5, <1>6, JobStep DEF Is

LEMMA KernelStep ==
  KernelInv /\ [Next]_vars => KernelInv'
<1> SUFFICES ASSUME KernelInv, [Next]_vars PROVE KernelInv'
  OBVIOUS
<1>1. ASSUME NEW f \in Fibers, Mount(f) PROVE KernelInv'
  BY <1>1, MountStep
<1>2. ASSUME NEW f \in Fibers, Update(f) PROVE KernelInv'
  BY <1>2, UpdateStep
<1>3. ASSUME NEW f \in Fibers, Dispose(f) PROVE KernelInv'
  <2>1. /\ Live(f) /\ DisposeOf(f, inertia) /\ error' = error /\ impl' = impl /\ updates' = updates
    BY <1>3 DEF Dispose
  <2> PICK jobs : jobs = inertia
    OBVIOUS
  <2>2. DisposeOf(f, jobs)
    BY <2>1
  <2> QED BY <2>1, <2>2, DisposeStep
<1>4. ASSUME NEW f \in Fibers, NEW s \in Services, ProvideService(f, s) PROVE KernelInv'
  BY <1>4, ProvideStep
<1>5. ASSUME NEW f \in Fibers, StartBody(f) PROVE KernelInv'
  BY <1>5, StartBodyStep
<1>6. ASSUME NEW f \in Fibers, SkipBody(f) \/ BodyReturns(f) \/ BodyThrows(f) PROVE KernelInv'
  <2>1. /\ Reloading(f) /\ uid' = uid /\ impl' = impl /\ updates' = updates
        /\ error' = error \/ \E b \in BOOLEAN : error' = [error EXCEPT ![f] = b]
    BY <1>6 DEF SkipBody, BodyReturns, BodyThrows, InBody
  <2>2. error' \in [Fibers -> BOOLEAN] /\ \A d \in Fibers \ {f} : error'[d] = error[d]
    BY <2>1, TypeParts DEF KernelInv
  <2>3. PICK e : Reloaded(f, e) /\ (e = epoch[f] \/ (e = None /\ error'[f]))
    <3>1. CASE SkipBody(f) \/ BodyReturns(f)
      BY <3>1 DEF SkipBody, BodyReturns
    <3>2. CASE BodyThrows(f)
      <4>1. error'[f]
        BY <3>2, TypeParts DEF BodyThrows, KernelInv
      <4> QED BY <3>2, <4>1 DEF BodyThrows
    <3> QED BY <1>6, <3>1, <3>2
  <2> QED BY <2>1, <2>2, <2>3, ReloadedStep
<1>7. ASSUME NEW f \in Fibers, NEW x \in Fibers \cup Services, RunDisposable(f, x) PROVE KernelInv'
  BY <1>7, RunDisposableStep
<1>8. ASSUME NEW f \in Fibers, NEW d \in Fibers, SeesSettled(f, d) PROVE KernelInv'
  BY <1>8, SeesSettledStep
<1>9. ASSUME NEW f \in Fibers, FinishUnload(f) PROVE KernelInv'
  BY <1>9, FinishStep
<1>10. CASE UNCHANGED vars
  <2>1. TypeOK'
    BY <1>10 DEF vars, KernelInv, TypeOK, Reloading, Unloading, Runs, Unload, Mounted, Provided, Gone
  <2>2. Domains' /\ Found' /\ Called' /\ Took'
    BY <1>10 DEF vars, KernelInv, Domains, Found, Called, Took, Live, Visible, Reloading, Runs
  <2>3. Undone' /\ Users'
    BY <1>10 DEF vars, KernelInv, Undone, Users, Unloading, Live, Runs, Mounted, Gone
  <2> QED BY <2>1, <2>2, <2>3 DEF KernelInv
<1> QED BY <1>1, <1>2, <1>3, <1>4, <1>5, <1>6, <1>7, <1>8, <1>9, <1>10 DEF Next, Continue

-----------------------------------------------------------------------------
(***************************************************************************)
(* The theorems.                                                           *)
(***************************************************************************)
(* In every state the invariant holds: what a live fiber has found is what *)
(* there is, its epoch follows from it, and an unload has undone or awaits *)
(* all it took off its fiber's list (fiber.js, reflect.js notify()).       *)
THEOREM KernelAlways == Spec => []KernelInv
<1>1. KernelInv /\ [Next]_vars => KernelInv'
  BY KernelStep
<1> QED BY KernelInit, <1>1, PTL DEF Spec

(* The types of the kernel's state, and that a fiber is LOADING, UNLOADING *)
(* or ACTIVE exactly when its inertia and epoch say so (Fiber.state).      *)
THEOREM TypeCorrect == Spec => []TypeOK
<1>1. KernelInv => TypeOK
  BY DEF KernelInv
<1> QED BY KernelAlways, <1>1, PTL

(* A fiber that has settled runs with the very providers there are now, or *)
(* lacks one, or its body threw, however its services changed while it     *)
(* loaded or unloaded (_setEpoch() and the ends of _reload(), _unload()).  *)
THEOREM SettledFibersCurrent == Spec => []SettledIsCurrent
<1>1. KernelInv => SettledIsCurrent
  <2> SUFFICES ASSUME KernelInv, NEW f \in Fibers, Live(f), inertia[f] = None
               PROVE  /\ found[f] = [s \in Inject[f] |-> Visible(s)]
                      /\ state[f] = "ACTIVE" => using[f] = found[f] /\ Epoch(found[f]) # None
                      /\ state[f] # "ACTIVE" => error[f] \/ Epoch(found[f]) = None
    BY DEF SettledIsCurrent
  <2>1. /\ Fits(f, state[f], epoch[f], inertia[f])
        /\ Calls(f, epoch[f], state[f] = "LOADING", found, error)
        /\ found[f] \in [Inject[f] -> Fibers \cup {None}]
    BY FiberFacts
  <2>2. state[f] = "ACTIVE" <=> epoch[f] # None
    BY <2>1 DEF Fits
  <2>3. state[f] = "ACTIVE" => epoch[f] = Epoch(found[f]) /\ Epoch(found[f]) = found[f]
    BY <2>1, <2>2, EpochType DEF Calls
  <2>4. state[f] = "ACTIVE" => using[f] = epoch[f]
    BY DEF KernelInv, Took
  <2>5. found[f] = [s \in Inject[f] |-> Visible(s)]
    BY DEF KernelInv, Found
  <2> QED BY <2>1, <2>2, <2>3, <2>4, <2>5 DEF Calls
<1> QED BY KernelAlways, <1>1, PTL

(* notify() takes no fiber out of an unload that was running.              *)
LEMMA UnloadingStays ==
  ASSUME NEW f \in Fibers, NEW s0, NEW e0, NEW j0, NEW names, Notify(s0, e0, j0, names),
         s0[f] = "UNLOADING", j0[f] # None
  PROVE  state'[f] = "UNLOADING"
BY DEF Notify

(* Only its own last step ends an unload.                                  *)
LEMMA UnloadEnds ==
  ASSUME KernelInv, NEW f \in Fibers, Unloading(f), [Next]_vars, ~FinishUnload(f)
  PROVE  state'[f] = "UNLOADING"
<1>1. /\ state[f] = "UNLOADING" /\ inertia[f] # None /\ ~Reloading(f)
      /\ DOMAIN state = Fibers /\ DOMAIN inertia = Fibers
  BY FiberFacts DEF Fits, Is, KernelInv, Domains
<1>2. ASSUME NEW g \in Fibers, NEW s, NEW e, NEW j, NEW names, Becomes(g, s, e, j, names),
             g # f \/ (s = "UNLOADING" /\ j # None)
      PROVE  state'[f] = "UNLOADING"
  <2> PICK s0 : s0 = [state EXCEPT ![g] = s]
    OBVIOUS
  <2> PICK j0 : j0 = [inertia EXCEPT ![g] = j]
    OBVIOUS
  <2>1. Notify(s0, [epoch EXCEPT ![g] = e], j0, names)
    BY <1>2 DEF Becomes
  <2>2. s0[f] = "UNLOADING" /\ j0[f] # None
    BY <1>1, <1>2
  <2> QED BY <2>1, <2>2, UnloadingStays
<1>3. ASSUME NEW g \in Fibers, NEW jobs, DisposeOf(g, jobs), DOMAIN jobs = Fibers, jobs[f] # None
      PROVE  state'[f] = "UNLOADING"
  <2>1. CASE inertia[g] = None
    <3> PICK s0 : s0 = [state EXCEPT ![g] = "UNLOADING"]
      OBVIOUS
    <3> PICK j0 : j0 = [jobs EXCEPT ![g] = Unload(g)]
      OBVIOUS
    <3> PICK names : names = IF state[g] = "ACTIVE" THEN Provided(g) ELSE {}
      OBVIOUS
    <3>1. Notify(s0, [epoch EXCEPT ![g] = None], j0, names)
      BY <1>3, <2>1 DEF DisposeOf
    <3>2. s0[f] = "UNLOADING" /\ j0[f] # None
      BY <1>1, <1>3, <2>1
    <3> QED BY <3>1, <3>2, UnloadingStays
  <2>2. CASE inertia[g] # None
    <3>1. Notify(state, [epoch EXCEPT ![g] = None], jobs, {})
      BY <1>3, <2>2 DEF DisposeOf
    <3> QED BY <1>1, <1>3, <3>1, UnloadingStays
  <2> QED BY <2>1, <2>2
<1>4. ASSUME NEW g \in Fibers, Mount(g) PROVE state'[f] = "UNLOADING"
  <2>1. g # f
    BY <1>1, <1>4, FiberFacts DEF Mount
  <2> QED BY <1>1, <1>4, <2>1 DEF Mount
<1>5. ASSUME NEW g \in Fibers, Update(g) PROVE state'[f] = "UNLOADING"
  BY <1>1, <1>2, <1>5 DEF Update
<1>6. ASSUME NEW g \in Fibers, Dispose(g) PROVE state'[f] = "UNLOADING"
  BY <1>1, <1>3, <1>6 DEF Dispose
<1>7. ASSUME NEW g \in Fibers, NEW s \in Services, ProvideService(g, s) PROVE state'[f] = "UNLOADING"
  BY <1>1, <1>7, UnloadingStays DEF ProvideService
<1>8. ASSUME NEW g \in Fibers, SkipBody(g) \/ BodyReturns(g) \/ BodyThrows(g)
      PROVE  state'[f] = "UNLOADING"
  <2>1. Reloading(g) /\ \E e : Reloaded(g, e)
    BY <1>8 DEF SkipBody, BodyReturns, BodyThrows, InBody
  <2>2. g # f
    BY <1>1, <2>1
  <2> QED BY <1>2, <2>1, <2>2 DEF Reloaded
<1>9. ASSUME NEW g \in Fibers, NEW x \in Fibers \cup Services, RunDisposable(g, x)
      PROVE  state'[f] = "UNLOADING"
  <2>1. ASSUME NEW who \in SUBSET Fibers, NEW jobs, jobs = Awaiting(g, x, who)
        PROVE  DOMAIN jobs = Fibers /\ jobs[f] # None
    <3>1. Unloading(g)
      BY <1>9 DEF RunDisposable
    <3>2. /\ \A d \in Fibers \ {g} : jobs[d] = inertia[d]
          /\ DOMAIN jobs = Fibers /\ Is(jobs[g], "unload")
      BY <2>1, <3>1, AwaitingJobs
    <3> QED BY <1>1, <3>2 DEF Is
  <2>2. CASE x \in Fibers /\ DisposeOf(x, Awaiting(g, x, {x}))
    <3> PICK jobs : jobs = Awaiting(g, x, {x})
      OBVIOUS
    <3>1. {x} \in SUBSET Fibers /\ DisposeOf(x, jobs)
      BY <2>2
    <3>2. DOMAIN jobs = Fibers /\ jobs[f] # None
      BY <2>1, <3>1
    <3> QED BY <1>3, <2>2, <3>1, <3>2
  <2>3. CASE state' = state
    BY <1>1, <2>3
  <2>4. CASE Notify(state, epoch, Awaiting(g, x, Declaring(x)), {x})
    <3> PICK jobs : jobs = Awaiting(g, x, Declaring(x))
      OBVIOUS
    <3>1. Declaring(x) \in SUBSET Fibers /\ Notify(state, epoch, jobs, {x})
      BY <2>4 DEF Declaring
    <3>2. jobs[f] # None
      BY <2>1, <3>1
    <3> QED BY <1>1, <3>1, <3>2, UnloadingStays
  <2> QED BY <1>9, <2>2, <2>3, <2>4 DEF RunDisposable
<1>10. ASSUME NEW g \in Fibers, FinishUnload(g) PROVE state'[f] = "UNLOADING"
  <2>1. g # f
    BY <1>10
  <2> QED BY <1>2, <1>10, <2>1 DEF FinishUnload
<1>11. ASSUME NEW g \in Fibers, StartBody(g) PROVE state'[f] = "UNLOADING"
  BY <1>1, <1>11 DEF StartBody
<1>12. ASSUME NEW g \in Fibers, NEW d \in Fibers, SeesSettled(g, d) PROVE state'[f] = "UNLOADING"
  BY <1>1, <1>12 DEF SeesSettled
<1>13. CASE UNCHANGED vars
  BY <1>1, <1>13 DEF vars
<1> QED BY <1>4, <1>5, <1>6, <1>7, <1>8, <1>9, <1>10, <1>11, <1>12, <1>13 DEF Next, Continue

(* An unload ends last: when it does, the fibers mounted in its fiber are  *)
(* disposed of and every live fiber that had loaded with one of its        *)
(* services has let go of it (the disposers of plugin() and provide()).    *)
THEOREM UnloadsEndLast == Spec => InnerFirst
<1> DEFINE Last == \A f \in Fibers : Unloading(f) /\ state'[f] # "UNLOADING" =>
                     /\ \A c \in Mounted(f) : Gone(c)
                     /\ \A d \in Fibers : Live(d) /\ using[d] # None =>
                          \A s \in Inject[d] : using[d][s] # f
<1>1. KernelInv /\ [Next]_vars => [Last]_vars
  <2> SUFFICES ASSUME KernelInv, [Next]_vars, NEW f \in Fibers, Unloading(f),
                      state'[f] # "UNLOADING"
               PROVE  /\ \A c \in Mounted(f) : Gone(c)
                      /\ \A d \in Fibers : Live(d) /\ using[d] # None =>
                           \A s \in Inject[d] : using[d][s] # f
    OBVIOUS
  <2>1. inertia[f].left = {} /\ inertia[f].awaits = {}
    BY UnloadEnds DEF FinishUnload
  <2>2. /\ \A c \in Mounted(f) : Gone(c)
        /\ \A s \in Services : impl[s] # f
    BY <2>1 DEF KernelInv, Undone
  <2>3. ASSUME NEW d \in Fibers, Live(d), using[d] # None, NEW s \in Inject[d], using[d][s] = f
        PROVE  FALSE
    <3>1. impl[s] = f
      BY <2>1, <2>3 DEF KernelInv, Users
    <3> QED BY <2>2, <3>1, FiberAssumption
  <2> QED BY <2>2, <2>3
<1>2. Spec => [][Last]_vars
  <2> HIDE DEF Last
  <2> QED BY KernelAlways, <1>1, PTL DEF Spec
<1> QED BY <1>2 DEF InnerFirst

=============================================================================
