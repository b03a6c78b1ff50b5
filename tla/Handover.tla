------------------------------- MODULE Handover -------------------------------
(***************************************************************************)
(* Several processes of the operator over one Agent.  With leader election *)
(* (the manifests ask for it, the binary does not by default) one of them  *)
(* runs controllers; a lease is not released by a process that ends, and   *)
(* may expire while its holder is still at work.  Without it they all run. *)
(*                                                                         *)
(* The reconcile is that of AgentReconciler for an Agent without           *)
(* references, its Deployment standing for what is written; each process   *)
(* has caches, a queue and a worker.                                       *)
(***************************************************************************)
EXTENDS Naturals

CONSTANTS
  Operators,   \* processes
  Specs, None,
  MaxEdits, MaxExits,
  MaxExpiries  \* leases that expire although their holder lives

Kinds == {"agent", "deployment"}

ASSUME SpecsAssumption == Specs # {} /\ None \notin Specs \cup Operators

\* What is wanted of an Agent, which None is not
Addresses == {"url", None}
Demands == [uid : {1}, generation : Nat, spec : Specs, address : Addresses]
ASSUME NoneAssumption == None # "url" /\ None \notin Demands

ASSUME BoundsAssumption == {MaxEdits, MaxExits, MaxExpiries} \subseteq Nat

VARIABLES
  elects,    \* the processes run with --leader-elect
  probed,    \* the Agent has protocols, so that its container has a probe
  lease,     \* the process the lease names, or None
  running,   \* the processes whose controllers run
  agent, deployment,    \* API server: the Agent, the spec its Deployment is of
  cAgent, cDeployment,  \* the informer caches of each process; of the Agent, its spec
  stale,     \* stale[p]: the kinds whose copy at p is not the current version
  queued, worker,
  spent

storeVars == <<agent, deployment>>
cacheVars == <<cAgent, cDeployment>>
leaseVars == <<elects, probed, lease, running>>
vars == <<leaseVars, storeVars, cacheVars, stale, queued, worker, spent>>

Idle == [pc |-> "idle", held |-> None, current |-> FALSE]
NewAgent(s) == [spec |-> s, generation |-> 1, ready |-> "Unknown", observed |-> 0]

\* What a reconcile reads of the Agent
Version(a) == [spec |-> a.spec, generation |-> a.generation]

Init ==
  /\ elects \in BOOLEAN /\ probed \in BOOLEAN /\ lease = None /\ running = {}
  /\ agent = NewAgent(CHOOSE s \in Specs : TRUE)
  /\ deployment = None
  /\ cAgent = [p \in Operators |-> None]
  /\ cDeployment = [p \in Operators |-> None]
  /\ stale = [p \in Operators |-> {}]
  /\ queued = {}
  /\ worker = [p \in Operators |-> Idle]
  /\ spent = [edits |-> 0, exits |-> 0, expiries |-> 0]

-----------------------------------------------------------------------------
(* Processes and the lease                                                   *)

\* Mistake: controllers are started without being elected.
StartAtOnce(p) ==
  /\ p \notin running
  /\ lease' = IF elects /\ lease = None THEN p ELSE lease
  /\ running' = running \cup {p}
  /\ cAgent' = [cAgent EXCEPT ![p] = Version(agent)]
  /\ cDeployment' = [cDeployment EXCEPT ![p] = deployment]
  /\ stale' = [stale EXCEPT ![p] = {}]
  /\ queued' = queued \cup {p}
  /\ UNCHANGED <<elects, probed, storeVars, worker, spent>>

\* Mistake: a process that takes over waits for the Agent to change.
StartQuietly(p) ==
  /\ p \notin running
  /\ IF elects THEN lease = None /\ lease' = p ELSE UNCHANGED lease
  /\ running' = running \cup {p}
  /\ cAgent' = [cAgent EXCEPT ![p] = Version(agent)]
  /\ cDeployment' = [cDeployment EXCEPT ![p] = deployment]
  /\ stale' = [stale EXCEPT ![p] = {}]
  /\ UNCHANGED <<elects, probed, storeVars, queued, worker, spent>>

\* The controllers of p start, once p is elected if it has to be; the informers list
\* what is there, and the Agent is an Add event.
Start(p) ==
  /\ p \notin running
  /\ IF elects THEN lease = None /\ lease' = p ELSE UNCHANGED lease
  /\ running' = running \cup {p}
  /\ cAgent' = [cAgent EXCEPT ![p] = Version(agent)]
  /\ cDeployment' = [cDeployment EXCEPT ![p] = deployment]
  /\ stale' = [stale EXCEPT ![p] = {}]
  /\ queued' = queued \cup {p}
  /\ UNCHANGED <<elects, probed, storeVars, worker, spent>>

\* The process ends, with whatever it was doing, and is started anew as a candidate.
Stop(p) ==
  /\ p \in running
  /\ running' = running \ {p}
  /\ cAgent' = [cAgent EXCEPT ![p] = None] /\ cDeployment' = [cDeployment EXCEPT ![p] = None]
  /\ stale' = [stale EXCEPT ![p] = {}]
  /\ queued' = queued \ {p}
  /\ worker' = [worker EXCEPT ![p] = Idle]

Exit(p) ==
  /\ spent.exits < MaxExits /\ spent' = [spent EXCEPT !.exits = @ + 1]
  /\ Stop(p)
  /\ UNCHANGED <<elects, probed, lease, storeVars>>

\* mgr.Start returns an error when the lease is lost, and main exits.
LoseElection(p) ==
  /\ elects /\ lease # p
  /\ Stop(p)
  /\ UNCHANGED <<elects, probed, lease, storeVars, spent>>

\* Nobody renews the lease of a process that has ended.
Expire ==
  /\ lease # None /\ lease \notin running
  /\ lease' = None
  /\ UNCHANGED <<elects, probed, running, storeVars, cacheVars, stale, queued, worker, spent>>

\* The holder is too slow to renew it, and has not noticed yet.
ExpireEarly ==
  /\ spent.expiries < MaxExpiries /\ spent' = [spent EXCEPT !.expiries = @ + 1]
  /\ lease \in running
  /\ lease' = None
  /\ UNCHANGED <<elects, probed, running, storeVars, cacheVars, stale, queued, worker>>

-----------------------------------------------------------------------------
\* A new version of an object outdates every copy of it.
Outdate(k) == stale' = [p \in Operators |-> IF p \in running THEN stale[p] \cup {k} ELSE {}]

Edit(s) ==
  /\ spent.edits < MaxEdits /\ spent' = [spent EXCEPT !.edits = @ + 1]
  /\ agent.spec # s
  /\ agent' = [agent EXCEPT !.spec = s, !.generation = @ + 1]
  /\ Outdate("agent")
  /\ worker' = [p \in Operators |-> [worker[p] EXCEPT !.current = FALSE]]
  /\ UNCHANGED <<leaseVars, deployment, cacheVars, queued>>

\* Mistake: an event that arrives during a reconcile is dropped.
SyncWhenIdle(p, k) ==
  /\ k \in stale[p]
  /\ stale' = [stale EXCEPT ![p] = @ \ {k}]
  /\ IF k = "agent"
       THEN cAgent' = [cAgent EXCEPT ![p] = Version(agent)] /\ UNCHANGED cDeployment
       ELSE cDeployment' = [cDeployment EXCEPT ![p] = deployment] /\ UNCHANGED cAgent
  /\ queued' = IF worker[p] = Idle THEN queued \cup {p} ELSE queued
  /\ UNCHANGED <<leaseVars, storeVars, worker, spent>>

Sync(p, k) ==
  /\ k \in stale[p]
  /\ stale' = [stale EXCEPT ![p] = @ \ {k}]
  /\ IF k = "agent"
       THEN cAgent' = [cAgent EXCEPT ![p] = Version(agent)] /\ UNCHANGED cDeployment
       ELSE cDeployment' = [cDeployment EXCEPT ![p] = deployment] /\ UNCHANGED cAgent
  /\ queued' = queued \cup {p}
  /\ UNCHANGED <<leaseVars, storeVars, worker, spent>>

-----------------------------------------------------------------------------
(* The reconcile of process p                                                *)

Fetch(p) ==
  /\ worker[p].pc = "idle" /\ p \in queued
  /\ queued' = queued \ {p}
  /\ worker' = [worker EXCEPT ![p] = [pc |-> "deployment", held |-> cAgent[p],
                                      current |-> "agent" \notin stale[p]]]
  /\ UNCHANGED <<leaseVars, storeVars, cacheVars, stale, spent>>

Goto(p, label) == worker' = [worker EXCEPT ![p].pc = label]

\* An unchanged Deployment is sent all the same if its container has a probe.
Sends(p) == probed \/ cDeployment[p] # worker[p].held.spec

Accepts(p) == IF cDeployment[p] = None THEN deployment = None
              ELSE "deployment" \notin stale[p]

Write(s) ==
  IF deployment = s THEN UNCHANGED <<deployment, stale>>
  ELSE deployment' = s /\ Outdate("deployment")

Ensure(p) ==
  /\ worker[p].pc = "deployment"
  /\ IF Sends(p) THEN Accepts(p) /\ Write(worker[p].held.spec)
     ELSE UNCHANGED <<deployment, stale>>
  /\ Goto(p, "ready")
  /\ UNCHANGED <<leaseVars, agent, cacheVars, queued, spent>>

Rejected(p) ==
  /\ worker[p].pc = "deployment"
  /\ Sends(p) /\ ~Accepts(p)
  /\ Goto(p, "notReady")
  /\ UNCHANGED <<leaseVars, storeVars, cacheVars, stale, queued, spent>>

Reported(p) == [agent EXCEPT !.ready = IF worker[p].pc = "ready" THEN "True" ELSE "False",
                             !.observed = worker[p].held.generation]

\* The status write, refused unless p holds the current version, and what Reconcile
\* returns: an error of either kind puts the key back.
Publish(p) ==
  /\ worker[p].pc \in {"ready", "notReady"}
  /\ IF worker[p].current /\ Reported(p) # agent
       THEN /\ agent' = Reported(p)
            /\ Outdate("agent")
            /\ worker' = [q \in Operators |->
                 IF q = p THEN Idle ELSE [worker[q] EXCEPT !.current = FALSE]]
       ELSE /\ worker' = [worker EXCEPT ![p] = Idle]
            /\ UNCHANGED <<agent, stale>>
  /\ queued' = IF worker[p].pc = "ready" /\ worker[p].current THEN queued
               ELSE queued \cup {p}
  /\ UNCHANGED <<leaseVars, deployment, cacheVars, spent>>

-----------------------------------------------------------------------------
Step(p) ==
  \/ Fetch(p)
  \/ Ensure(p) \/ Rejected(p)
  \/ Publish(p)

Next ==
  \/ \E s \in Specs : Edit(s)
  \/ Expire \/ ExpireEarly
  \/ \E p \in Operators : \/ Start(p) \/ Exit(p) \/ LoseElection(p)
                          \/ \E k \in Kinds : Sync(p, k)
                          \/ Step(p)

Spec == Init /\ [][Next]_vars

\* Processes are restarted and stand for election, one that lost it ends, leases
\* expire, watches deliver, workers are scheduled.
Fairness ==
  /\ WF_vars(Expire) /\ WF_vars(\E p \in Operators : Start(p))
  /\ \A p \in Operators : /\ WF_vars(~elects /\ Start(p)) /\ WF_vars(LoseElection(p))
                          /\ \A k \in Kinds : WF_vars(Sync(p, k))
                          /\ WF_vars(Step(p))

FairSpec == Spec /\ Fairness

-----------------------------------------------------------------------------
(* Properties                                                                *)

Reconciled ==
  deployment = agent.spec /\ agent.ready = "True" /\ agent.observed = agent.generation

\* A process that runs and has nothing left to do leaves the Agent reconciled, even
\* while another one is in the middle of a reconcile or has just ended in one.
QuiescentIsReconciled ==
  \A p \in running :
    p \notin queued /\ worker[p] = Idle /\ stale[p] = {} => Reconciled

\* What a reader of the API sees, as AgentPromise names it for the one Agent; Ready and
\* the URL are written together, and an Agent without protocols has none.
One(x) == [a \in {"agent"} |-> x]
Address == IF probed THEN "url" ELSE None

Wanted == One([uid |-> 1, generation |-> agent.generation, spec |-> agent.spec,
               address |-> Address])
RolledOut == One(IF deployment = None THEN None ELSE [owner |-> 1, spec |-> deployment])
Published == One([ready |-> agent.ready, observed |-> agent.observed,
                  url |-> IF agent.ready = "True" THEN Address ELSE None])

Promise == INSTANCE AgentPromise WITH
  Agents <- {"agent"}, wanted <- Wanted, rolledOut <- RolledOut, published <- Published

\* Leader election keeps to one process.
OneLeads == elects /\ spent.expiries = 0

\* As long as one process leads, the operator keeps the promise of a single controller
\* through every handover: the one that takes over neither trusts nor repeats what the
\* former one left half done, and Ready of the current generation stays true of the
\* Deployment.  (With two at work, one that still holds the former spec may write it over
\* the new one, until the events of that write reach either of them.)
KeepsPromise == Promise!Init /\ [][OneLeads => Promise!Next]_(Promise!vars)

\* Whoever runs, they do not fight: once users rest and no more processes end, the
\* Agent is reconciled and stays so.  No handover leaves it without an operator.
Settles == <>[]Reconciled
=============================================================================
