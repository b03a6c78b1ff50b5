--------------------------- MODULE MCAgentPair ---------------------------
(* Two Agents, a parent that references a child, and a child whose port     *)
(* users change: the smallest cluster in which a URL propagates.            *)
EXTENDS AgentReconciler, TLC

CONSTANTS parent, child

Simple(port, subs) == [port |-> port, subs |-> subs, tools |-> {}, gateway |-> None]

PairSpecs == (parent :> {Simple(1, {child})}) @@ (child :> {Simple(1, {}), Simple(2, {})})
============================================================================
