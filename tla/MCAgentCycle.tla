---------------------------- MODULE MCAgentCycle ----------------------------
(* Two Agents that use each other as sub-agents, in an environment at rest. *)
EXTENDS AgentReconciler, TLC

CONSTANTS left, right

Using(other) == [port |-> 1, subs |-> {other}, tools |-> {}, gateway |-> None]

CycleSpecs == (left :> {Using(right)}) @@ (right :> {Using(left)})

\* agent_types.go says of status.url that it is "automatically populated by the
\* controller when the agent has an A2A protocol configured": once nothing changes
\* any more, every Agent with a protocol has a URL.  This is about the order in
\* which resolveSubAgentUrl and updateAgentStatusReady read and write the URLs.
UrlIsPopulated ==
  <>[]((\A a \in Agents : agents[a] # None) =>
         \A a \in Agents : agents[a].status.url # None)
=============================================================================
