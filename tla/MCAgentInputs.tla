-------------------------- MODULE MCAgentInputs ---------------------------
(* One Agent that uses a tool and either its own AiGateway or the default   *)
(* one, while the tool's URL, the runtime configurations and the gateways   *)
(* change under it and API calls fail.                                      *)
EXTENDS AgentReconciler, TLC

CONSTANTS agent, tool, gateway

UsingTool(ref) == [port |-> 1, subs |-> {}, tools |-> {tool}, gateway |-> ref]

InputSpecs == agent :> {UsingTool(None), UsingTool(gateway)}
============================================================================
