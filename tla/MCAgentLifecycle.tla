------------------------- MODULE MCAgentLifecycle -------------------------
(* One Agent that is created, changed (with and without a protocol),        *)
(* deleted and created again while its children, their caches, the garbage  *)
(* collector and operator restarts interleave.                              *)
EXTENDS AgentReconciler, TLC

CONSTANT agent

Serving(port) == [port |-> port, subs |-> {}, tools |-> {}, gateway |-> None]

LifecycleSpecs == agent :> {Serving(1), Serving(2), Serving(None)}
=============================================================================
