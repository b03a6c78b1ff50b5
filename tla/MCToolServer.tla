---------------------------- MODULE MCToolServer ----------------------------
(* One ToolServer with two ports and two paths to change between.             *)
EXTENDS ToolServerReconciler

Served == {[port |-> 1, path |-> "mcp"], [port |-> 2, path |-> "mcp"],
           [port |-> 1, path |-> "sse"]}
=============================================================================
