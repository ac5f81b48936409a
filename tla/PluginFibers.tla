---------------------------- MODULE PluginFibers ----------------------------
(***************************************************************************)
(* The plugin kernel: fibers (plugin instances) that load when the         *)
(* services they inject are there, unload when one of them goes, provide   *)
(* services of their own and mount further fibers.  framework/cordis/src:  *)
(* Fiber of fiber.js, provide() and notify() of reflect.js, plugin() of    *)
(* registry.js.                                                            *)
(*                                                                         *)
(* A fiber's epoch names the fibers its services come from.  Whatever      *)
(* changes it while a load or an unload runs only changes the epoch; the   *)
(* load or unload compares it when it ends.  A step here is the code from  *)
(* one await to the next, and it reaches every fiber notify() reaches,     *)
(* those that the fibers it unloads notify included.  A fiber is mounted   *)
(* once: another instance of a plugin is another fiber, with another uid.  *)
(***************************************************************************)
EXTENDS Naturals, FiniteSets

CONSTANTS
  Fibers,              \* the plugin instances
  Services,            \* the names of services
  Inject,              \* per fiber: the services its plugin declares
  Provide,             \* per fiber: the services its plugin may provide
  Parent,              \* per fiber: the fiber that mounts it, or None (root)
  MaxUpdates,          \* bound: calls of update()
  None

\* What a fiber's inertia runs: a load, or an unload.
Jobs(f) ==
  [is : {"reload"}, body : BOOLEAN, old : [Inject[f] -> Fibers]]
    \cup [is : {"unload"}, left : SUBSET (Fibers \cup Services), awaits : SUBSET Fibers]

\* Nobody waits for itself: a fiber's parent and providers come before it.
ASSUME FiberAssumption ==
  /\ Inject \in [Fibers -> SUBSET Services]
  /\ Provide \in [Fibers -> SUBSET Services]
  /\ Parent \in [Fibers -> Fibers \cup {None}]
  /\ None \notin Fibers \cup Services /\ Fibers \cap Services = {}
  /\ \A f \in Fibers : None \notin [Inject[f] -> Fibers] \cup Jobs(f)
  /\ MaxUpdates \in Nat
  /\ \E rank \in [Fibers -> 1 .. Cardinality(Fibers)] : \A f, g \in Fibers :
       Parent[f] = g \/ Inject[f] \cap Provide[g] # {} => rank[g] < rank[f]

VARIABLES
  uid,                 \* per fiber: "unmounted", "live" or "null" (disposed)
  state,               \* per fiber: its FiberState
  epoch,               \* per fiber: what it should run with, or None (INACTIVE)
  inertia,             \* per fiber: the load or unload that runs, or None
  found,               \* per fiber, _store: the provider it found per service
  using,               \* per fiber, store: what it found when it last loaded
  error,               \* per fiber: _error is set
  impl,                \* reflect.store: the provider of each service, or None
  updates              \* calls of update() so far

vars == <<uid, state, epoch, inertia, found, using, error, impl, updates>>

Init ==
  /\ uid = [f \in Fibers |-> "unmounted"]
  /\ state = [f \in Fibers |-> "PENDING"]
  /\ epoch = [f \in Fibers |-> None]
  /\ inertia = [f \in Fibers |-> None]
  /\ found = [f \in Fibers |-> [s \in Inject[f] |-> None]]
  /\ using = [f \in Fibers |-> None]
  /\ error = [f \in Fibers |-> FALSE]
  /\ impl = [s \in Services |-> None]
  /\ updates = 0

Live(f)     == uid[f] = "live"
Provided(f) == {s \in Services : impl[s] = f}
Runs(f, is) == inertia[f] # None => inertia[f].is = is
Reloading(f) == inertia[f] # None /\ Runs(f, "reload")
Unloading(f) == inertia[f] # None /\ Runs(f, "unload")
InBody(f)   == Reloading(f) /\ inertia[f].body

\* _refresh(): the epoch that the services found call for.
Epoch(seen) ==
  IF \E s \in DOMAIN seen : seen[s] = None THEN None ELSE seen

Reload(e) == [is |-> "reload", body |-> FALSE, old |-> e]

\* What a fiber has to undo: the fibers mounted in it, unless they are gone,
\* and its services.  _unload() takes them all off the list at once.
Gone(c)    == uid[c] = "null" /\ inertia[c] = None
Mounted(f) == {c \in Fibers : Parent[c] = f /\ uid[c] # "unmounted"}
Unload(f)  ==
  [is |-> "unload", left |-> {c \in Mounted(f) : ~Gone(c)} \cup Provided(f), awaits |-> {}]

(***************************************************************************)
(* notify(), in a step that leaves states s0, epochs e0 and jobs j0        *)
(* behind: the fibers that inject one of the names whose providers have    *)
(* changed look those services up again and refresh their epochs.  One     *)
(* that was ACTIVE then unloads, and all it provides has changed as well:  *)
(* Left are the fibers that this closes over.  Below, L have unloaded.     *)
(***************************************************************************)
Sees(s0, s, L) ==
  IF impl'[s] # None /\ impl'[s] \notin L /\ s0[impl'[s]] = "ACTIVE" THEN impl'[s] ELSE None

Moved(names, L) == names \cup {s \in Services : impl'[s] \in L}
Hit(d, names, L) == uid'[d] = "live" /\ Inject[d] \cap Moved(names, L) # {}
Seen(d, s0, names, L) ==
  [s \in Inject[d] |-> IF uid'[d] = "live" /\ s \in Moved(names, L) THEN Sees(s0, s, L)
                                                                     ELSE found[d][s]]
Turn(d, s0, e0, names, L) == IF Hit(d, names, L) THEN Epoch(Seen(d, s0, names, L)) ELSE e0[d]

Active(e0, j0) == {d \in Fibers : j0[d] = None /\ e0[d] # None}
Closed(s0, e0, j0, names, L) ==
  \A x \in Active(e0, j0) : Turn(x, s0, e0, names, L) # e0[x] => x \in L
Left(s0, e0, j0, names) ==
  {d \in Active(e0, j0) : \A L \in SUBSET Active(e0, j0) : Closed(s0, e0, j0, names, L) => d \in L}

Notify(s0, e0, j0, names) ==
  LET L         == Left(s0, e0, j0, names)
      Enters(d) == j0[d] = None /\ e0[d] = None /\ Turn(d, s0, e0, names, L) # None
  IN  /\ found' = [d \in Fibers |-> Seen(d, s0, names, L)]
      /\ epoch' = [d \in Fibers |-> Turn(d, s0, e0, names, L)]
      /\ state' = [d \in Fibers |-> IF d \in L THEN "UNLOADING"
                                    ELSE IF Enters(d) THEN "LOADING" ELSE s0[d]]
      /\ inertia' = [d \in Fibers |-> IF d \in L THEN Unload(d)
                                      ELSE IF Enters(d) THEN Reload(Turn(d, s0, e0, names, L))
                                      ELSE j0[d]]

\* this.store: taken when a load starts, dropped when an unload has ended.
Snapshot ==
  using' = [d \in Fibers |->
    IF inertia'[d] = None
      THEN IF state'[d] = "ACTIVE" THEN using[d] ELSE None
      ELSE IF inertia'[d].is = "reload" /\ ~Reloading(d) THEN found'[d] ELSE using[d]]

\* A step in which fiber f takes state s, epoch e and job j.
Becomes(f, s, e, j, names) ==
  /\ Notify([state EXCEPT ![f] = s], [epoch EXCEPT ![f] = e],
            [inertia EXCEPT ![f] = j], names)
  /\ Snapshot

(***************************************************************************)
(* Mounting, updating and disposing of fibers, by anybody.                 *)
(***************************************************************************)

\* A parent that is disposed of or unloads refuses the effect.
MayMount(f) ==
  Parent[f] # None =>
    /\ uid[Parent[f]] = "live"
    /\ InBody(Parent[f]) \/ state[Parent[f]] = "ACTIVE"

\* plugin(): the constructor looks its services up and loads if all are there.
Mount(f) ==
  /\ uid[f] = "unmounted" /\ MayMount(f)
  /\ uid' = [uid EXCEPT ![f] = "live"]
  /\ LET seen == [s \in Inject[f] |->
                    IF impl[s] = None THEN None
                    ELSE IF state[impl[s]] = "ACTIVE" THEN impl[s] ELSE None]
     IN  /\ found' = [found EXCEPT ![f] = seen]
         /\ epoch' = [epoch EXCEPT ![f] = Epoch(seen)]
         /\ IF Epoch(seen) = None THEN UNCHANGED <<state, inertia>>
            ELSE /\ state' = [state EXCEPT ![f] = "LOADING"]
                 /\ inertia' = [inertia EXCEPT ![f] = Reload(Epoch(seen))]
  /\ Snapshot
  /\ UNCHANGED <<error, impl, updates>>

\* update(): INACTIVE and the right epoch again.  An ACTIVE fiber unloads and
\* will load afterwards; one that loads or unloads sees an epoch, no change.
Update(f) ==
  /\ Live(f) /\ updates < MaxUpdates
  /\ updates' = updates + 1
  /\ error' = [error EXCEPT ![f] = FALSE]
  /\ UNCHANGED <<uid, impl>>
  /\ LET e == Epoch(found[f])
     IN  \/ state[f] = "ACTIVE" /\ Becomes(f, "UNLOADING", e, Unload(f), Provided(f))
         \/ inertia[f] # None /\ Becomes(f, state[f], e, inertia[f], {})
         \/ /\ inertia[f] = None /\ state[f] # "ACTIVE" /\ e # None
            /\ Becomes(f, "LOADING", e, Reload(e), {})
         \/ /\ inertia[f] = None /\ state[f] # "ACTIVE" /\ e = None
            /\ UNCHANGED <<state, epoch, inertia, found, using>>

\* The disposer of plugin(), of which jobs are the jobs of everybody else.
\* The fiber is off the registry before the first fiber is notified.
DisposeOf(f, jobs) ==
  /\ uid' = [uid EXCEPT ![f] = "null"]
  /\ IF inertia[f] = None
       THEN Notify([state EXCEPT ![f] = "UNLOADING"], [epoch EXCEPT ![f] = None],
                   [jobs EXCEPT ![f] = Unload(f)],
                   IF state[f] = "ACTIVE" THEN Provided(f) ELSE {})
       ELSE Notify(state, [epoch EXCEPT ![f] = None], jobs, {})
  /\ Snapshot

Dispose(f) ==
  /\ Live(f)
  /\ UNCHANGED <<error, impl, updates>>
  /\ DisposeOf(f, inertia)

(***************************************************************************)
(* _reload(): one microtask later the plugin's body runs, unless the epoch *)
(* has changed; when it has returned or thrown, the epoch is compared.     *)
(***************************************************************************)
StartBody(f) ==
  /\ Reloading(f) /\ ~inertia[f].body /\ epoch[f] = inertia[f].old
  /\ inertia' = [inertia EXCEPT ![f].body = TRUE]
  /\ UNCHANGED <<uid, state, epoch, found, using, error, impl, updates>>

\* The body, or the plugin later on, provides a service.  It throws where the
\* fiber is disposed of or unloads, or the name is taken.
ProvideService(f, s) ==
  /\ s \in Provide[f] /\ impl[s] = None /\ Live(f)
  /\ InBody(f) \/ state[f] = "ACTIVE"
  /\ UNCHANGED <<uid, error, updates>>
  /\ impl' = [impl EXCEPT ![s] = f]
  /\ Notify(state, epoch, inertia, IF state[f] = "ACTIVE" THEN {s} ELSE {})
  /\ Snapshot

\* Mutation: the epoch is not compared when a load has ended.
MutReloaded(f, e) == Becomes(f, "ACTIVE", e, None, Provided(f))

Reloaded(f, e) ==
  IF e = inertia[f].old
    THEN Becomes(f, "ACTIVE", e, None, Provided(f))
    ELSE Becomes(f, "UNLOADING", e, Unload(f), {})

SkipBody(f) ==
  /\ Reloading(f) /\ ~inertia[f].body /\ epoch[f] # inertia[f].old
  /\ UNCHANGED <<uid, impl, updates, error>>
  /\ Reloaded(f, epoch[f])

BodyReturns(f) ==
  /\ InBody(f)
  /\ UNCHANGED <<uid, impl, updates>>
  /\ error' = [error EXCEPT ![f] = FALSE]
  /\ Reloaded(f, epoch[f])

BodyThrows(f) ==
  /\ InBody(f)
  /\ UNCHANGED <<uid, impl, updates>>
  /\ error' = [error EXCEPT ![f] = TRUE]
  /\ Reloaded(f, None)

(***************************************************************************)
(* _unload(): all effects are undone at the same time, each a microtask    *)
(* later.  A mounted fiber is disposed of, or its running disposal joined; *)
(* a service is taken off the store, and every fiber that declares it is   *)
(* awaited until it has settled.                                           *)
(***************************************************************************)
Awaiting(f, x, who) ==
  [inertia EXCEPT ![f].left = @ \ {x}, ![f].awaits = @ \cup who]

\* Mutation: only fibers that still run are awaited.
MutDeclaring(s) == {d \in Fibers : Live(d) /\ s \in Inject[d] /\ state[d] = "ACTIVE"}

Declaring(s) == {d \in Fibers : Live(d) /\ s \in Inject[d]}

RunDisposable(f, x) ==
  /\ Unloading(f) /\ x \in inertia[f].left
  /\ UNCHANGED <<error, updates>>
  /\ \/ /\ x \in Fibers /\ Live(x)
        /\ UNCHANGED impl
        /\ DisposeOf(x, Awaiting(f, x, {x}))
     \/ /\ x \in Fibers /\ ~Live(x)
        /\ inertia' = Awaiting(f, x, {x})
        /\ UNCHANGED <<uid, impl, state, epoch, found, using>>
     \/ /\ x \in Services
        /\ UNCHANGED uid
        /\ impl' = [impl EXCEPT ![x] = None]
        /\ Notify(state, epoch, Awaiting(f, x, Declaring(x)), {x})
        /\ Snapshot

\* await(): the loop ends when it finds nothing running.
SeesSettled(f, d) ==
  /\ Unloading(f) /\ d \in inertia[f].awaits /\ inertia[d] = None
  /\ inertia' = [inertia EXCEPT ![f].awaits = @ \ {d}]
  /\ UNCHANGED <<uid, state, epoch, found, using, error, impl, updates>>

\* _getState(), for an epoch that is INACTIVE
Resting(f) ==
  IF uid[f] = "null" THEN "DISPOSED" ELSE IF error[f] THEN "FAILED" ELSE "PENDING"

\* Mutation: an unload does not look at the epoch when it has ended.
MutFinishUnload(f) ==
  /\ Unloading(f) /\ inertia[f].left = {} /\ inertia[f].awaits = {}
  /\ UNCHANGED <<uid, impl, updates, error>>
  /\ Becomes(f, Resting(f), None, None, {})

FinishUnload(f) ==
  /\ Unloading(f) /\ inertia[f].left = {} /\ inertia[f].awaits = {}
  /\ UNCHANGED <<uid, impl, updates, error>>
  /\ IF epoch[f] = None
       THEN Becomes(f, Resting(f), None, None, {})
       ELSE Becomes(f, "LOADING", epoch[f], Reload(epoch[f]), {})

Continue(f) ==
  \/ StartBody(f) \/ SkipBody(f) \/ BodyReturns(f) \/ BodyThrows(f)
  \/ \E x \in Fibers \cup Services : RunDisposable(f, x)
  \/ \E d \in Fibers : SeesSettled(f, d)
  \/ FinishUnload(f)

Next ==
  \E f \in Fibers :
    \/ Mount(f) \/ Update(f) \/ Dispose(f)
    \/ \E s \in Services : ProvideService(f, s)
    \/ Continue(f)

Spec == Init /\ [][Next]_vars
-----------------------------------------------------------------------------
(***************************************************************************)
(* Properties                                                              *)
(***************************************************************************)
\* The types of the variables; that a fiber is LOADING or UNLOADING exactly
\* while such a job runs, and that nothing runs or is owned after disposal.
TypeOK ==
  /\ uid \in [Fibers -> {"unmounted", "live", "null"}]
  /\ impl \in [Services -> Fibers \cup {None}]
  /\ error \in [Fibers -> BOOLEAN] /\ updates \in 0 .. MaxUpdates
  /\ \A f \in Fibers :
       /\ found[f] \in [Inject[f] -> Fibers \cup {None}]
       /\ epoch[f] \in [Inject[f] -> Fibers] \cup {None}
       /\ using[f] \in [Inject[f] -> Fibers] \cup {None}
       /\ inertia[f] \in Jobs(f) \cup {None}
       /\ state[f] = "LOADING" <=> Reloading(f)
       /\ state[f] = "UNLOADING" <=> Unloading(f)
       /\ state[f] = "ACTIVE" <=> inertia[f] = None /\ epoch[f] # None
       /\ state[f] = "DISPOSED" => uid[f] = "null" /\ Unload(f).left = {}
       /\ state[f] \in {"PENDING", "LOADING", "ACTIVE", "FAILED", "DISPOSED", "UNLOADING"}

Visible(s) == IF impl[s] # None /\ state[impl[s]] = "ACTIVE" THEN impl[s] ELSE None

\* No fiber misses a change of its services, whatever else was going on when
\* it came: one that has settled runs with the very providers there are now,
\* and one that waits lacks a service.  (Fiber._setEpoch() ignores changes
\* while a load or unload runs; its end must make up for them.)
SettledIsCurrent ==
  \A f \in Fibers : Live(f) /\ inertia[f] = None =>
    /\ found[f] = [s \in Inject[f] |-> Visible(s)]
    /\ state[f] = "ACTIVE" => using[f] = found[f] /\ Epoch(found[f]) # None
    /\ state[f] # "ACTIVE" => error[f] \/ Epoch(found[f]) = None

\* An unload ends last: the fibers mounted in it are disposed of, and every
\* live fiber that loaded with one of its services has let go of it.  (The
\* disposer of provide() and the one of plugin() await them.)
InnerFirst ==
  [][\A f \in Fibers : Unloading(f) /\ state'[f] # "UNLOADING" =>
       /\ \A c \in Mounted(f) : Gone(c)
       /\ \A d \in Fibers : Live(d) /\ using[d] # None =>
            \A s \in Inject[d] : using[d][s] # f]_vars
=============================================================================
