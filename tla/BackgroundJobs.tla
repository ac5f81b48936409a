--------------------------- MODULE BackgroundJobs ---------------------------
(***************************************************************************)
(* Background jobs, those who wait for them and the agents that own them:  *)
(* LocalJobRegistry of packages/jobs/jobs-local/src/index.js, with the     *)
(* completion notices of jobs/tool-jobs/src/index.js and the disposal of   *)
(* an agent as core/agent-loop/src/index.js orders it: its scope first,    *)
(* with the effect that cleans its jobs up, and then its registration.     *)
(*                                                                         *)
(* Whether a completion needs a notice is decided when the job settles: by *)
(* then a reader, a waiter that is still to resume, or whoever had the job *)
(* stopped may be known to hear of it.                                     *)
(*                                                                         *)
(* start() looks at no flag of its own while disposeAll() awaits the jobs  *)
(* it has found.  That none is added then is the callers' doing: each tool *)
(* asks ctx.get('jobs') where it starts one, and the kernel answers only   *)
(* while the service's fiber is active, which it ceases to be some         *)
(* microtasks before its effects are disposed of (framework/cordis).       *)
(***************************************************************************)
EXTENDS Naturals, FiniteSets

CONSTANTS
  Jobs,
  Agents,
  Callers,             \* calls of wait(), one at a time each
  CallerOf,            \* per caller: the agent whose tool it is
  MaxJobs,             \* maxConcurrentJobsPerOwner
  None

ASSUME JobAssumption ==
  /\ CallerOf \in [Callers -> Agents]
  /\ MaxJobs \in Nat \ {0}
  /\ None \notin Agents \cup Jobs

VARIABLES
  store,               \* the jobs on record
  status,              \* per job: "unstarted", "running", "stopping" or
                       \* "settled" (completed, failed or killed)
  owner,               \* per job: an agent, or None
  reported,            \* per job: somebody is known to hear how it ended
  pc,                  \* per caller: "idle", "waiting", "expired" (timed out,
                       \* still counted) or "resolved"
  on,                  \* per caller: the job it waits for
  life,                \* per agent: "live", "closing" (its scope is disposed
                       \* of), "cleaning", "clean" or "gone"
  cleanup,             \* ownerCleanups: the agents with an effect attached
  leaving,             \* per agent: the jobs its cleanup awaits
  service,             \* the registry: "open", "unloading" (its fiber is not
                       \* active any more), "closing" (disposeAll() awaits)
                       \* or "closed"
  ending,              \* the jobs disposeAll() has found and awaits
  serving,             \* a mount of tool-jobs controls and listens
  \* what has been said of each job, for the properties
  notice,              \* "none", "sent", "spared" (reported) or "unheard"
  heard                \* it was told to stop before it settled, or a wait that
                       \* began before has returned how it ended

registry == <<store, status, owner, reported>>
wait     == <<pc, on>>
agents   == <<life, cleanup, leaving>>
told     == <<notice, heard>>
unit     == <<service, ending>>
vars     == <<registry, wait, agents, unit, serving, told>>

Init ==
  /\ store = {} /\ status = [j \in Jobs |-> "unstarted"]
  /\ owner = [j \in Jobs |-> None] /\ reported = [j \in Jobs |-> FALSE]
  /\ pc = [w \in Callers |-> "idle"] /\ on = [w \in Callers |-> None]
  /\ life = [a \in Agents |-> "live"] /\ cleanup = {}
  /\ leaving = [a \in Agents |-> {}]
  /\ service = "open" /\ ending = {} /\ serving = TRUE
  /\ notice = [j \in Jobs |-> "none"]
  /\ heard = [j \in Jobs |-> FALSE]

Terminal(j) == status[j] = "settled"
Active(j)   == status[j] \in {"running", "stopping"}
OwnedBy(a)  == {j \in store : owner[j] = a}
Access(j, a) == owner[j] \in {None, a}

(***************************************************************************)
(* start(), read() and kill(), by the tools of an agent                    *)
(***************************************************************************)

\* Mutation: the effect is attached whatever the state of the scope.
MutHasCleanup(a) == life[a] # "gone"

\* ensureOwnerCleanup(): a registered agent, whose scope takes the effect
\* unless it is there already.
HasCleanup(a) == life[a] = "live" \/ (life[a] # "gone" /\ a \in cleanup)

\* Mutation: a tool that has kept the service from an earlier ctx.get().
MutVisible == TRUE

\* ctx.get('jobs') at the head of every tool that starts a job, with no await
\* before start(): the service, if its fiber is active.
Visible == service = "open"

\* The tool's ctx.get() and the start() that follows it; serving is
\* servesOwner(), a controller that tool-jobs has attached.
Start(j, a) ==
  /\ Visible /\ serving /\ status[j] = "unstarted"
  /\ a # None => HasCleanup(a)
  /\ cleanup' = IF a = None THEN cleanup ELSE cleanup \cup {a}
  /\ Cardinality({i \in OwnedBy(a) : Active(i)}) < MaxJobs
  /\ store' = store \cup {j}
  /\ status' = [status EXCEPT ![j] = "running"]
  /\ owner' = [owner EXCEPT ![j] = a]
  /\ UNCHANGED <<reported, wait, life, leaving, unit, serving, told>>

\* read(), and a wait() for a job that has settled
Read(j, a) ==
  /\ j \in store /\ Access(j, a) /\ Terminal(j)
  /\ reported' = [reported EXCEPT ![j] = TRUE]
  /\ UNCHANGED <<store, status, owner, wait, agents, unit, serving, told>>

\* A cancel() that throws leaves all as it was.
Kill(j, a) ==
  /\ j \in store /\ Access(j, a)
  /\ reported' = [reported EXCEPT ![j] = TRUE]
  /\ IF Terminal(j) THEN UNCHANGED <<status, heard>>
     ELSE /\ status' = [status EXCEPT ![j] = "stopping"]
          /\ heard' = [heard EXCEPT ![j] = TRUE]
  /\ UNCHANGED <<store, owner, wait, agents, unit, serving, notice>>

(***************************************************************************)
(* wait().  Between the timer or the settlement and the code after the     *)
(* await the call still counts as a waiter; an abort discounts it at once. *)
(***************************************************************************)
Wait(w, j) ==
  /\ pc[w] = "idle" /\ life[CallerOf[w]] = "live"
  /\ j \in store /\ Access(j, CallerOf[w]) /\ ~Terminal(j)
  /\ pc' = [pc EXCEPT ![w] = "waiting"] /\ on' = [on EXCEPT ![w] = j]
  /\ UNCHANGED <<registry, agents, unit, serving, told>>

Back(w) == pc' = [pc EXCEPT ![w] = "idle"] /\ on' = [on EXCEPT ![w] = None]

Expire(w) ==
  /\ pc[w] = "waiting"
  /\ pc' = [pc EXCEPT ![w] = "expired"]
  /\ UNCHANGED <<registry, on, agents, unit, serving, told>>

AbortWait(w) ==
  /\ pc[w] = "waiting"
  /\ Back(w)
  /\ UNCHANGED <<registry, agents, unit, serving, told>>

Return(w) ==
  /\ pc[w] \in {"expired", "resolved"}
  /\ Back(w)
  /\ IF Terminal(on[w])
       THEN /\ reported' = [reported EXCEPT ![on[w]] = TRUE]
            /\ heard' = [heard EXCEPT ![on[w]] = TRUE]
       ELSE UNCHANGED <<reported, heard>>
  /\ UNCHANGED <<store, status, owner, agents, unit, serving, notice>>

(***************************************************************************)
(* settle(): the first outcome stands.  Waiters are released, and those    *)
(* who listen are told, unless the service is closing.                     *)
(***************************************************************************)

\* Mutation: a wait stops counting when its time has run out.
MutWaiters(j) == {w \in Callers : on[w] = j /\ pc[w] = "waiting"}

Waiters(j) == {w \in Callers : on[w] = j /\ pc[w] \in {"waiting", "expired"}}

ListenersClosed == service \in {"closing", "closed"}

\* onJobDone of tool-jobs: none where somebody hears of it, none without an
\* owner; rep are the jobs reported by now, closed that listeners are.
Notice(j, rep, closed) ==
  IF closed \/ ~serving THEN "unheard"
  ELSE IF rep \/ owner[j] = None THEN "spared" ELSE "sent"

Settle(j) ==
  /\ Active(j)
  /\ status' = [status EXCEPT ![j] = "settled"]
  /\ LET rep == reported[j] \/ Waiters(j) # {}
     IN  /\ reported' = [reported EXCEPT ![j] = rep]
         /\ notice' = [notice EXCEPT ![j] = Notice(j, rep, ListenersClosed)]
  /\ pc' = [w \in Callers |-> IF on[w] = j /\ pc[w] = "waiting" THEN "resolved" ELSE pc[w]]
  /\ UNCHANGED <<store, owner, on, agents, unit, serving, heard>>

\* Mutation: jobs that have settled are told to stop as well.
MutToStop(js) == js

\* cancelForTeardown(): every job of js that runs is marked and told to stop;
\* one whose cancel() throws, those of broken, is settled by force.
ToStop(js) == {j \in js : ~Terminal(j)}

CancelForTeardown(js, broken, closed) ==
  /\ status' = [j \in Jobs |-> IF j \notin ToStop(js) THEN status[j]
                               ELSE IF j \in broken THEN "settled" ELSE "stopping"]
  /\ reported' = [j \in Jobs |-> reported[j] \/ j \in ToStop(js)]
  /\ heard' = [j \in Jobs |-> heard[j] \/ j \in ToStop(js)]
  /\ notice' = [j \in Jobs |-> IF j \in ToStop(js) \cap broken
                                 THEN Notice(j, TRUE, closed) ELSE notice[j]]
  /\ pc' = [w \in Callers |-> IF pc[w] = "waiting" /\ on[w] \in ToStop(js) \cap broken
                                THEN "resolved" ELSE pc[w]]
  /\ UNCHANGED <<owner, on>>

(***************************************************************************)
(* The disposal of an agent, once its turn has ended.  scope.dispose()     *)
(* runs the cleanup effect; then the agent is taken off the registry.      *)
(***************************************************************************)
CloseScope(a) ==
  /\ life[a] = "live"
  /\ \A w \in Callers : CallerOf[w] = a => pc[w] = "idle"
  /\ life' = [life EXCEPT ![a] = "closing"]
  /\ UNCHANGED <<registry, wait, cleanup, leaving, unit, serving, told>>

DisposeOwned(a) ==
  /\ life[a] = "closing"
  /\ \/ /\ a \in cleanup
        /\ cleanup' = cleanup \ {a}
        /\ leaving' = [leaving EXCEPT ![a] = OwnedBy(a)]
        /\ life' = [life EXCEPT ![a] = "cleaning"]
        /\ \E broken \in SUBSET OwnedBy(a) :
             CancelForTeardown(OwnedBy(a), broken, ListenersClosed)
     \/ /\ a \notin cleanup
        /\ life' = [life EXCEPT ![a] = "clean"]
        /\ UNCHANGED <<cleanup, leaving, status, owner, reported, wait, told>>
  /\ UNCHANGED <<store, unit, serving>>

FinishCleanup(a) ==
  /\ life[a] = "cleaning" /\ \A j \in leaving[a] : Terminal(j)
  /\ store' = store \ leaving[a]
  /\ leaving' = [leaving EXCEPT ![a] = {}]
  /\ life' = [life EXCEPT ![a] = "clean"]
  /\ UNCHANGED <<status, owner, reported, wait, cleanup, unit, serving, told>>

Detach(a) ==
  /\ life[a] = "clean"
  /\ life' = [life EXCEPT ![a] = "gone"]
  /\ UNCHANGED <<registry, wait, cleanup, leaving, unit, serving, told>>

(***************************************************************************)
(* The disposal of the registry, and of a mount of tool-jobs, which needs  *)
(* the registry to be mounted and is withdrawn when its own fiber comes to *)
(* it, before or after the registry's effects.                             *)
(***************************************************************************)
Unload ==
  /\ service = "open"
  /\ service' = "unloading"
  /\ UNCHANGED <<registry, wait, agents, ending, serving, told>>

DisposeAll ==
  /\ service = "unloading"
  /\ service' = "closing" /\ ending' = store
  /\ \E broken \in SUBSET store : CancelForTeardown(store, broken, TRUE)
  /\ UNCHANGED <<store, agents, serving>>

\* The records are dropped whatever was added meanwhile.  The effects left on
\* agents are detached; they find no job any more.
FinishAll ==
  /\ service = "closing" /\ \A j \in ending : Terminal(j)
  /\ service' = "closed" /\ ending' = {}
  /\ store' = {} /\ cleanup' = {}
  /\ UNCHANGED <<status, owner, reported, wait, life, leaving, serving, told>>

Reload ==
  /\ serving \/ Visible
  /\ serving' = ~serving
  /\ UNCHANGED <<registry, wait, agents, unit, told>>

Next ==
  \/ \E j \in Jobs :
       \/ \E a \in Agents \cup {None} : Start(j, a)
       \/ \E a \in Agents : Read(j, a) \/ Kill(j, a)
       \/ Settle(j)
  \/ \E w \in Callers :
       \/ \E j \in Jobs : Wait(w, j)
       \/ Expire(w) \/ AbortWait(w) \/ Return(w)
  \/ \E a \in Agents : CloseScope(a) \/ DisposeOwned(a) \/ FinishCleanup(a) \/ Detach(a)
  \/ Unload \/ DisposeAll \/ FinishAll \/ Reload

Spec == Init /\ [][Next]_vars
-----------------------------------------------------------------------------
(***************************************************************************)
(* Properties                                                              *)
(***************************************************************************)

\* The types of the variables; that a job has settled once and for good, and
\* that whoever was released has a job that has settled.
TypeOK ==
  /\ store \subseteq Jobs /\ cleanup \subseteq Agents
  /\ status \in [Jobs -> {"unstarted", "running", "stopping", "settled"}]
  /\ owner \in [Jobs -> Agents \cup {None}] /\ reported \in [Jobs -> BOOLEAN]
  /\ pc \in [Callers -> {"idle", "waiting", "expired", "resolved"}]
  /\ on \in [Callers -> Jobs \cup {None}]
  /\ life \in [Agents -> {"live", "closing", "cleaning", "clean", "gone"}]
  /\ leaving \in [Agents -> SUBSET Jobs]
  /\ service \in {"open", "unloading", "closing", "closed"}
  /\ ending \subseteq Jobs /\ serving \in BOOLEAN
  /\ notice \in [Jobs -> {"none", "sent", "spared", "unheard"}]
  /\ heard \in [Jobs -> BOOLEAN]
  /\ \A j \in Jobs : notice[j] # "none" <=> Terminal(j)
  /\ \A w \in Callers : (pc[w] = "idle" <=> on[w] = None)
  /\ \A w \in Callers : pc[w] = "resolved" => Terminal(on[w])

Hears(j) == \E w \in Callers : on[w] = j /\ pc[w] \in {"expired", "resolved"}

\* The end of an agent's job reaches the agent exactly once: a notice is sent
\* if nobody had it stopped and no wait that was under way when it settled has
\* returned or will return it.  Without a notice there is such a one, unless
\* nobody listened.  (reported and the count of waiters in settle(), wait().)
ToldOnce ==
  \A j \in Jobs : owner[j] # None /\ notice[j] \in {"sent", "spared"} =>
    (notice[j] = "sent" <=> ~(heard[j] \/ Hears(j)))

\* An agent that is gone has left no job running or on record, however late
\* one of its tools called start(); no more has a registry that is closed,
\* although disposeAll() awaits only the jobs it found when it began.
NoneOutlives ==
  /\ \A j \in Jobs : owner[j] # None =>
       (life[owner[j]] = "gone" => j \notin store /\ Terminal(j))
  /\ service = "closed" => store = {} /\ \A j \in Jobs : ~Active(j)
=============================================================================
