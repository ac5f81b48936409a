--------------------------- MODULE MCPluginFibers ---------------------------
(* Two providers of a service, a plugin that injects it and provides      *)
(* another, and one that injects this and is mounted by the first provider. *)
EXTENDS PluginFibers

FiberSet   == {"p", "q", "d", "e"}
ServiceSet == {"s", "t"}
Injects    == [f \in FiberSet |-> CASE f = "d" -> {"s"} [] f = "e" -> {"t"} [] OTHER -> {}]
Provides   == [f \in FiberSet |-> CASE f = "d" -> {"t"} [] f = "e" -> {} [] OTHER -> {"s"}]
MountedBy  == [f \in FiberSet |-> IF f = "e" THEN "p" ELSE None]
=============================================================================
