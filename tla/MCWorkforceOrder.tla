-------------------------- MODULE MCWorkforceOrder --------------------------
(* A workforce with two entry points, in an environment at rest.              *)
EXTENDS AgenticWorkforce, TLC

CONSTANTS first, second, third

Graphs ==
  (first :> {[subs |-> {third}, tools |-> {}, remotes |-> {}]})
  @@ (second :> {[subs |-> {}, tools |-> {}, remotes |-> {}]})
  @@ (third :> {[subs |-> {}, tools |-> {}, remotes |-> {}]})

Entries == {{first, second}}

\* collectTransitiveAgentsAndTools says it converts its map to a slice "for consistent
\* output": a reconcile that finds the same Agents writes the same status, so that the
\* status write does not trigger the next reconcile.
OutputIsConsistent ==
  [][workforce'.status.observed = workforce.status.observed
       /\ Listed(workforce'.status.agents) = Listed(workforce.status.agents)
     => workforce'.status.agents = workforce.status.agents]_workforce
=============================================================================
