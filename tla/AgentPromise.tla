---------------------------- MODULE AgentPromise ----------------------------
(***************************************************************************)
(* What the Agent controller promises to whoever reads an Agent's status:  *)
(* a status is written only about the generation stored at that moment,    *)
(* and Ready is claimed of a generation only once its Deployment has been  *)
(* rolled out, and stays true of it until the Agent changes.               *)
(*                                                                         *)
(* The steps constrain the new values instead of choosing them: this       *)
(* specification is only ever the target of a refinement.                  *)
(***************************************************************************)
EXTENDS Naturals

CONSTANTS Agents, None

VARIABLES
  wanted,      \* wanted[a]: uid, generation, spec and address of Agent a, or None;
               \* the address is None for a spec without an A2A protocol
  rolledOut,   \* rolledOut[a]: owner and spec of a's Deployment, or None
  published    \* published[a]: ready, url and observed generation

vars == <<wanted, rolledOut, published>>

Blank == [ready |-> "Unknown", url |-> None, observed |-> 0]

Init ==
  /\ wanted = [a \in Agents |-> wanted[a]]
  /\ \A a \in Agents : wanted[a] # None => wanted[a].generation = 1
  /\ rolledOut = [a \in Agents |-> None]
  /\ published = [a \in Agents |-> Blank]

\* The status of Agent a claims that its current generation serves.
Claims(a) ==
  /\ wanted[a] # None
  /\ wanted[a].address # None
  /\ published[a].ready = "True"
  /\ published[a].observed = wanted[a].generation

\* The Deployment of a runs what a wants.
Fulfilled(a) == rolledOut[a] = [owner |-> wanted[a].uid, spec |-> wanted[a].spec]

\* The function f changes at a only.
Touches(f, g, a) == g = [f EXCEPT ![a] = g[a]]

\* A user creates or removes Agent a; no status survives that.
Appear(a) ==
  /\ Touches(wanted, wanted', a)
  /\ wanted'[a] # None => wanted[a] = None /\ wanted'[a].generation = 1
  /\ published' = [published EXCEPT ![a] = Blank]
  /\ UNCHANGED rolledOut

\* A user changes the spec of Agent a; the status stays, about the old generation.
Amend(a) ==
  /\ Touches(wanted, wanted', a)
  /\ wanted[a] # None /\ wanted'[a] # None
  /\ wanted'[a].uid = wanted[a].uid
  /\ wanted'[a].generation = wanted[a].generation + 1
  /\ UNCHANGED <<rolledOut, published>>

\* The Deployment of a is written or collected.
RollOut(a) ==
  /\ Touches(rolledOut, rolledOut', a)
  /\ Claims(a) => Fulfilled(a)'
  /\ UNCHANGED <<wanted, published>>

\* The status of a is written.
Publish(a) ==
  /\ wanted[a] # None
  /\ Touches(published, published', a)
  /\ published'[a].observed = wanted[a].generation
  /\ \/ /\ published'[a].ready = "True"
        /\ published'[a].url = wanted[a].address
        /\ wanted[a].address # None => Fulfilled(a)
     \/ published'[a].ready = "False" /\ published'[a].url = None
  /\ UNCHANGED <<wanted, rolledOut>>

Next == \E a \in Agents : Appear(a) \/ Amend(a) \/ RollOut(a) \/ Publish(a)

Spec == Init /\ [][Next]_vars
=============================================================================
