--------------------------- MODULE ToolServerPromise ---------------------------
(***************************************************************************)
(* What the ToolServer controller promises to the Agents that read the     *)
(* status of a ToolServer: it is written only about the generation stored  *)
(* at that moment; Ready comes with the URL of that generation; and a URL, *)
(* once published, is never withdrawn, whatever fails, so that Agents are  *)
(* not taken down by the conflicts of a ToolServer.                        *)
(*                                                                         *)
(* Unlike AgentPromise it says nothing of the Deployment: the controller   *)
(* may claim Ready on the word of an outdated copy and repair that later.  *)
(***************************************************************************)
EXTENDS Naturals

CONSTANT None

VARIABLES
  wanted,     \* uid, generation and address of the ToolServer, or None
  published   \* its status: ready, url and observed generation

vars == <<wanted, published>>

Blank == [ready |-> "Unknown", url |-> None, observed |-> 0]

Init ==
  /\ wanted # None => wanted.generation = 1
  /\ published = Blank

\* A user creates or removes the ToolServer; no status survives that.
Appear ==
  /\ wanted = None \/ wanted' = None
  /\ wanted' # None => wanted'.generation = 1
  /\ published' = Blank

\* A user changes the spec; the status stays, about the old generation.
Amend ==
  /\ wanted # None /\ wanted' # None
  /\ wanted'.uid = wanted.uid
  /\ wanted'.generation = wanted.generation + 1
  /\ UNCHANGED published

Publish ==
  /\ wanted # None
  /\ \/ published'.ready = "True" /\ published'.url = wanted.address
     \/ published'.ready = "False" /\ published'.url = published.url
  /\ published'.observed = wanted.generation
  /\ UNCHANGED wanted

Next == Appear \/ Amend \/ Publish

Spec == Init /\ [][Next]_vars
=============================================================================
