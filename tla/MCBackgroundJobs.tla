-------------------------- MODULE MCBackgroundJobs --------------------------
(* Two callers of one agent; another agent with jobs of its own. *)
EXTENDS BackgroundJobs, TLC

CONSTANTS a1, a2
CallerAgents    == [w \in Callers |-> a1]

\* A permutation of the jobs, or of the callers, maps a behaviour to one.
Interchangeable == Permutations(Jobs) \cup Permutations(Callers)
=============================================================================
