-------------------------- MODULE AgentReconciler --------------------------
(***************************************************************************)
(* The Agent controller: the reconcile loop of agent_reconciler.go with    *)
(* its resolvers (agent_subagent.go, agent_tool.go, agent_aigateway.go),   *)
(* its status writes (agent_status.go) and its watches, running against an *)
(* API server and an informer cache that lags behind it.                   *)
(*                                                                         *)
(* One worker goroutine processes one Agent key at a time                  *)
(* (MaxConcurrentReconciles is 1).  Every read of the code goes to the     *)
(* cache, every write to the API server.  A write carries the              *)
(* resourceVersion of the copy it was computed from; resourceVersions are  *)
(* represented by the sets stale* (the cached copy is not the current      *)
(* version) and by worker.current (the Agent the worker holds is the       *)
(* current version), so no version counter is needed.                      *)
(***************************************************************************)
EXTENDS Naturals

CONSTANTS
  Agents,          \* names of Agent resources
  Tools,           \* names of ToolRoutes and ToolServers that publish a URL
  Ports,           \* ports of A2A protocols
  ToolUrls,        \* URLs tools may publish
  Configs,         \* AgentRuntimeConfigurations of the operator's namespace
  Gateways,        \* AiGateways of the default gateway namespace
  None,            \* no object, no URL, no reference
  SpecsOf,         \* SpecsOf[a]: the specs users apply to Agent a
  WatchesGateways, \* was the AiGateway CRD installed when the manager started?
  MaxEdits, MaxDeletes, MaxBumps, MaxFaults, MaxCrashes   \* bounds of the environment

Urls == (Agents \X Ports) \cup ToolUrls
Refs == Agents \cup Tools

\* A spec: the port of the first A2A protocol (None: no protocols at all), the
\* cluster agents and the tools it references, and its explicit AiGatewayRef.
SpecType == [port : Ports \cup {None}, subs : SUBSET Agents,
             tools : SUBSET Tools, gateway : Gateways \cup {None}]

StatusType == [ready : {"Unknown", "True", "False"}, url : Urls \cup {None},
               observed : Nat, gateway : Gateways \cup {None}]

AgentType == [uid : Nat, generation : Nat, spec : SpecType, status : StatusType]

\* An Agent without its status, and the address its spec gives it
DemandType == [uid : Nat, generation : Nat, spec : SpecType, address : Urls \cup {None}]

\* What ensureDeployment writes: the fields of the template are functions of
\* the spec, the resolved URLs, the runtime configuration and the gateway.
DeploymentType == [owner : Nat, spec : SpecType,
                   urls : [Refs -> Urls \cup {None}],
                   config : Configs \cup {None}, gateway : Gateways \cup {None}]

ServiceType == [owner : Nat, port : Ports]

ASSUME SpecAssumption ==
  SpecsOf \in [Agents -> SUBSET SpecType]

ASSUME NoneAssumption ==
  /\ None \notin AgentType /\ None \notin DeploymentType /\ None \notin ServiceType
  /\ None \notin DemandType
  /\ None \notin Agents /\ None \notin Urls /\ None \notin Ports
  /\ None \notin Gateways /\ None \notin Configs

ASSUME NamesAssumption ==
  /\ Agents \cap Tools = {}
  /\ WatchesGateways \in BOOLEAN
  /\ {MaxEdits, MaxDeletes, MaxBumps, MaxFaults, MaxCrashes} \subseteq Nat

VARIABLES
  agents, deployments, services,      \* API server: objects the controller writes
  tools, configs, gateways,           \* API server: objects it only reads
  cAgents, cDeployments, cServices,   \* the informer cache of each kind
  cTools, cConfigs, cGateways,
  staleAgents, staleDeployments, staleServices,  \* cached copies that lag
  queue,                              \* keys waiting in the workqueue
  worker,                             \* the reconcile in progress
  births,                             \* how often each Agent was created (its uid)
  spent                               \* how much of the environment's bounds is used

apiVars == <<agents, deployments, services>>
inputVars == <<tools, configs, gateways>>
cacheVars == <<cAgents, cDeployments, cServices, cTools, cConfigs, cGateways>>
staleVars == <<staleAgents, staleDeployments, staleServices>>
vars == <<apiVars, inputVars, cacheVars, staleVars, queue, worker, births, spent>>

-----------------------------------------------------------------------------
NoUrls == [r \in Refs |-> None]
BlankStatus == [ready |-> "Unknown", url |-> None, observed |-> 0, gateway |-> None]

Idle == [pc |-> "idle", agent |-> None, held |-> None, current |-> FALSE,
         todo |-> {}, urls |-> NoUrls, config |-> None, gateway |-> None]

\* buildA2AAgentCardUrl: the host is the Agent's name, None without a protocol
CardUrl(a, s) == IF s.port = None THEN None ELSE <<a, s.port>>

\* The status.url of a referenced object, None when the object is missing
PublishedUrl(as, ts, r) ==
  IF r \in Tools THEN ts[r] ELSE IF as[r] = None THEN None ELSE as[r].status.url

\* Agent a as the API server stores it on creation
NewAgent(s, n) == [uid |-> n, generation |-> 1, spec |-> s, status |-> BlankStatus]

Init ==
  /\ \E chosen \in [Agents -> UNION {SpecsOf[a] : a \in Agents} \cup {None}] :
       /\ \A a \in Agents : chosen[a] \in SpecsOf[a] \cup {None}
       /\ agents = [a \in Agents |->
                      IF chosen[a] = None THEN None ELSE NewAgent(chosen[a], 1)]
  /\ deployments = [a \in Agents |-> None]
  /\ services = [a \in Agents |-> None]
  /\ tools \in [Tools -> ToolUrls \cup {None}]
  /\ configs \in SUBSET Configs
  /\ gateways \in SUBSET Gateways
  /\ cAgents = agents /\ cDeployments = deployments /\ cServices = services
  /\ cTools = tools /\ cConfigs = configs /\ cGateways = gateways
  /\ staleAgents = {} /\ staleDeployments = {} /\ staleServices = {}
  /\ queue = {a \in Agents : agents[a] # None}
  /\ worker = Idle
  /\ births = [a \in Agents |-> IF agents[a] = None THEN 0 ELSE 1]
  /\ spent = [edits |-> 0, deletes |-> 0, bumps |-> 0, faults |-> 0, crashes |-> 0]

-----------------------------------------------------------------------------
(* The environment: users, other operators, the Deployment controller, the  *)
(* garbage collector.                                                       *)

CanEdit == spent.edits < MaxEdits /\ spent' = [spent EXCEPT !.edits = @ + 1]

\* A write to Agent a by anyone but the worker outdates the copy it holds.
Outdate(a) == [worker EXCEPT !.current = @ /\ worker.agent # a]

\* A user creates Agent a or changes its spec.
Apply(a, s) ==
  /\ CanEdit
  /\ IF agents[a] = None
       THEN /\ agents' = [agents EXCEPT ![a] = NewAgent(s, births[a] + 1)]
            /\ births' = [births EXCEPT ![a] = @ + 1]
       ELSE /\ agents[a].spec # s
            /\ agents' = [agents EXCEPT ![a].spec = s, ![a].generation = @ + 1]
            /\ UNCHANGED births
  /\ staleAgents' = staleAgents \cup {a}
  /\ worker' = Outdate(a)
  /\ UNCHANGED <<deployments, services, inputVars, cacheVars,
                 staleDeployments, staleServices, queue>>

\* A user deletes Agent a.
Delete(a) ==
  /\ spent.deletes < MaxDeletes
  /\ spent' = [spent EXCEPT !.deletes = @ + 1]
  /\ agents[a] # None
  /\ agents' = [agents EXCEPT ![a] = None]
  /\ staleAgents' = staleAgents \cup {a}
  /\ worker' = Outdate(a)
  /\ UNCHANGED <<deployments, services, inputVars, cacheVars,
                 staleDeployments, staleServices, queue, births>>

\* The owner a child names in its ownerReference no longer exists.
Orphaned(a, child) ==
  child # None /\ (agents[a] # None => agents[a].uid # child.owner)

CollectDeployment(a) ==
  /\ Orphaned(a, deployments[a])
  /\ deployments' = [deployments EXCEPT ![a] = None]
  /\ staleDeployments' = staleDeployments \cup {a}
  /\ UNCHANGED <<agents, services, inputVars, cacheVars, staleAgents,
                 staleServices, queue, worker, births, spent>>

CollectService(a) ==
  /\ Orphaned(a, services[a])
  /\ services' = [services EXCEPT ![a] = None]
  /\ staleServices' = staleServices \cup {a}
  /\ UNCHANGED <<agents, deployments, inputVars, cacheVars, staleAgents,
                 staleDeployments, queue, worker, births, spent>>

\* The Deployment controller writes the status of a's Deployment.
BumpDeployment(a) ==
  /\ spent.bumps < MaxBumps
  /\ spent' = [spent EXCEPT !.bumps = @ + 1]
  /\ deployments[a] # None
  /\ staleDeployments' = staleDeployments \cup {a}
  /\ UNCHANGED <<apiVars, inputVars, cacheVars, staleAgents, staleServices,
                 queue, worker, births>>

\* Other operators and administrators change what Agents resolve against.
ChangeTool(t, u) ==
  /\ CanEdit
  /\ tools[t] # u
  /\ tools' = [tools EXCEPT ![t] = u]
  /\ UNCHANGED <<apiVars, configs, gateways, cacheVars, staleVars, queue, worker, births>>

Toggle(S, x) == IF x \in S THEN S \ {x} ELSE S \cup {x}

ChangeConfig(c) ==
  /\ CanEdit
  /\ configs' = Toggle(configs, c)
  /\ UNCHANGED <<apiVars, tools, gateways, cacheVars, staleVars, queue, worker, births>>

ChangeGateway(g) ==
  /\ CanEdit
  /\ gateways' = Toggle(gateways, g)
  /\ UNCHANGED <<apiVars, tools, configs, cacheVars, staleVars, queue, worker, births>>

-----------------------------------------------------------------------------
(* The informers: a delivery brings the cached copy to the current version  *)
(* and runs the map functions registered in SetupWithManager.               *)

\* Mistake: no watch on referenced tools.
NoToolWatch(t) == {}

\* The cached Agents that a changed object makes the map functions enqueue
ReferencingSubAgent(as, b) == {a \in Agents : as[a] # None /\ b \in as[a].spec.subs}
ReferencingTool(t) == {a \in Agents : cAgents[a] # None /\ t \in cAgents[a].spec.tools}
AllCachedAgents == {a \in Agents : cAgents[a] # None}
ReferencingGateway(g) ==
  {a \in AllCachedAgents : cAgents[a].spec.gateway \in {None, g}}

\* Mistake: a predicate drops Agent events that leave the generation as it was.
SyncAgentOnNewGeneration(a) ==
  /\ a \in staleAgents
  /\ cAgents' = [cAgents EXCEPT ![a] = agents[a]]
  /\ staleAgents' = staleAgents \ {a}
  /\ LET dropped == /\ cAgents[a] # None /\ agents[a] # None
                    /\ cAgents[a].generation = agents[a].generation
     IN queue' = IF dropped THEN queue ELSE queue \cup {a} \cup ReferencingSubAgent(cAgents', a)
  /\ UNCHANGED <<apiVars, inputVars, cDeployments, cServices, cTools, cConfigs,
                 cGateways, staleDeployments, staleServices, worker, births, spent>>

SyncAgent(a) ==
  /\ a \in staleAgents
  /\ cAgents' = [cAgents EXCEPT ![a] = agents[a]]
  /\ staleAgents' = staleAgents \ {a}
  /\ queue' = queue \cup {a} \cup ReferencingSubAgent(cAgents', a)
  /\ UNCHANGED <<apiVars, inputVars, cDeployments, cServices, cTools, cConfigs,
                 cGateways, staleDeployments, staleServices, worker, births, spent>>

SyncDeployment(a) ==
  /\ a \in staleDeployments
  /\ cDeployments' = [cDeployments EXCEPT ![a] = deployments[a]]
  /\ staleDeployments' = staleDeployments \ {a}
  /\ queue' = queue \cup {a}
  /\ UNCHANGED <<apiVars, inputVars, cAgents, cServices, cTools, cConfigs,
                 cGateways, staleAgents, staleServices, worker, births, spent>>

SyncService(a) ==
  /\ a \in staleServices
  /\ cServices' = [cServices EXCEPT ![a] = services[a]]
  /\ staleServices' = staleServices \ {a}
  /\ queue' = queue \cup {a}
  /\ UNCHANGED <<apiVars, inputVars, cAgents, cDeployments, cTools, cConfigs,
                 cGateways, staleAgents, staleDeployments, worker, births, spent>>

SyncTool(t) ==
  /\ cTools[t] # tools[t]
  /\ cTools' = [cTools EXCEPT ![t] = tools[t]]
  /\ queue' = queue \cup ReferencingTool(t)
  /\ UNCHANGED <<apiVars, inputVars, cAgents, cDeployments, cServices, cConfigs,
                 cGateways, staleVars, worker, births, spent>>

SyncConfig(c) ==
  /\ (c \in cConfigs) # (c \in configs)
  /\ cConfigs' = Toggle(cConfigs, c)
  /\ queue' = queue \cup AllCachedAgents
  /\ UNCHANGED <<apiVars, inputVars, cAgents, cDeployments, cServices, cTools,
                 cGateways, staleVars, worker, births, spent>>

SyncGateway(g) ==
  /\ (g \in cGateways) # (g \in gateways)
  /\ cGateways' = Toggle(cGateways, g)
  /\ queue' = IF WatchesGateways THEN queue \cup ReferencingGateway(g) ELSE queue
  /\ UNCHANGED <<apiVars, inputVars, cAgents, cDeployments, cServices, cTools,
                 cConfigs, staleVars, worker, births, spent>>

-----------------------------------------------------------------------------
(* The reconcile loop.                                                       *)

envVars == <<inputVars, cacheVars, births, spent>>

\* reconcileAgent returned an error: the status write of Reconcile is next.
Fail == worker' = [worker EXCEPT !.pc = "notReady"]

Goto(label) == worker' = [worker EXCEPT !.pc = label]

\* getAgentRuntimeConfiguration: the ones the cache lists, None when there is none
RuntimeConfigurations == IF cConfigs = {} THEN {None} ELSE cConfigs

\* Reconcile takes a key off the queue, reads the Agent from the cache and lists
\* the runtime configurations; more than one of them is an error.
Fetch(a) ==
  /\ worker.pc = "idle"
  /\ a \in queue
  /\ queue' = queue \ {a}
  /\ \/ cAgents[a] = None /\ UNCHANGED worker
     \/ /\ cAgents[a] # None
        /\ \E c \in RuntimeConfigurations :
             worker' = [pc |-> IF cConfigs \subseteq {c} THEN "resolve" ELSE "notReady",
                        agent |-> a, held |-> cAgents[a],
                        current |-> a \notin staleAgents,
                        todo |-> cAgents[a].spec.subs \cup cAgents[a].spec.tools,
                        urls |-> NoUrls, config |-> c, gateway |-> None]
  /\ UNCHANGED <<apiVars, envVars, staleVars>>

\* resolveSubAgentUrl, resolveToolUrl: read the status.url of one reference.
\* Sub-agents come first; tools are not read when one of them is unresolved.
Resolve(r) ==
  /\ worker.pc = "resolve"
  /\ r \in worker.todo
  /\ r \in Tools => /\ worker.todo \cap Agents = {}
                    /\ \A b \in worker.held.spec.subs : worker.urls[b] # None
  /\ worker' = [worker EXCEPT !.todo = @ \ {r},
                              !.urls[r] = PublishedUrl(cAgents, cTools, r)]
  /\ UNCHANGED <<apiVars, envVars, staleVars, queue>>

\* Mistake: sub-agents without a URL are skipped.
UnresolvedTools == {r \in worker.held.spec.tools :
                      r \notin worker.todo /\ worker.urls[r] = None}

Unresolved == {r \in worker.held.spec.subs \cup worker.held.spec.tools :
                 r \notin worker.todo /\ worker.urls[r] = None}

\* resolveAllSubAgents, resolveAllTools: all references were tried, some failed.
ResolveFailed ==
  /\ worker.pc = "resolve"
  /\ Unresolved # {}
  /\ worker.todo \cap Agents = {}
  /\ Unresolved \cap Agents = {} => worker.todo = {}
  /\ Fail
  /\ UNCHANGED <<apiVars, envVars, staleVars, queue>>

\* resolveAiGateway: the referenced one must exist; without a reference any
\* cached one is taken (List has no defined order), or none.
ResolveGateway ==
  /\ worker.pc = "resolve"
  /\ worker.todo = {} /\ Unresolved = {}
  /\ LET ref == worker.held.spec.gateway IN
     \/ /\ ref # None /\ ref \notin cGateways
        /\ Fail
     \/ \E g \in Gateways \cup {None} :
          /\ IF ref # None THEN g = ref /\ g \in cGateways
             ELSE IF cGateways = {} THEN g = None ELSE g \in cGateways
          /\ worker' = [worker EXCEPT !.pc = "deployment", !.gateway = g]
  /\ UNCHANGED <<apiVars, envVars, staleVars, queue>>

\* Mistake: the owner reference lacks the UID.
DeploymentWithoutOwner ==
  [owner |-> 0, spec |-> worker.held.spec, urls |-> worker.urls,
   config |-> worker.config, gateway |-> worker.gateway]

\* The Deployment the mutate function of ensureDeployment produces
WantedDeployment ==
  [owner |-> worker.held.uid, spec |-> worker.held.spec, urls |-> worker.urls,
   config |-> worker.config, gateway |-> worker.gateway]

WantedService ==
  IF worker.held.spec.port = None THEN None
  ELSE [owner |-> worker.held.uid, port |-> worker.held.spec.port]

\* CreateOrUpdate: the API server accepts a Create when the name is free and an
\* Update when the cached copy it was computed from is the current version.
Accepts(cached, stored, stale) ==
  IF cached = None THEN stored = None ELSE ~stale /\ stored # None

\* CreateOrUpdate sends nothing when the mutated copy equals the cached one.  With
\* an A2A protocol it never does: generateReadinessProbe leaves the httpGet scheme
\* to the API server's default, so the probe it assigns differs from the stored one.
SendsDeployment ==
  \/ cDeployments[worker.agent] # WantedDeployment
  \/ worker.held.spec.port # None

EnsureDeployment ==
  /\ worker.pc = "deployment"
  /\ LET a == worker.agent IN
     \/ /\ ~SendsDeployment
        /\ UNCHANGED <<deployments, staleDeployments>>
     \/ /\ SendsDeployment
        /\ Accepts(cDeployments[a], deployments[a], a \in staleDeployments)
        /\ deployments' = [deployments EXCEPT ![a] = WantedDeployment]
        /\ staleDeployments' = IF deployments[a] = WantedDeployment THEN staleDeployments
                               ELSE staleDeployments \cup {a}
  /\ Goto("service")
  /\ UNCHANGED <<agents, services, envVars, staleAgents, staleServices, queue>>

\* Mistake: a rejected Deployment is logged, and the reconcile goes on.
DeploymentRejectionIgnored ==
  /\ worker.pc = "deployment"
  /\ SendsDeployment
  /\ LET a == worker.agent IN
       ~Accepts(cDeployments[a], deployments[a], a \in staleDeployments)
  /\ Goto("service")
  /\ UNCHANGED <<apiVars, envVars, staleVars, queue>>

\* AlreadyExists, NotFound, or a Conflict that outlives RetryOnConflict (each
\* retry reads the cache again: it succeeds if a SyncDeployment comes first).
DeploymentRejected ==
  /\ worker.pc = "deployment"
  /\ SendsDeployment
  /\ LET a == worker.agent IN
       ~Accepts(cDeployments[a], deployments[a], a \in staleDeployments)
  /\ Fail
  /\ UNCHANGED <<apiVars, envVars, staleVars, queue>>

\* Mistake: without protocols an existing Service is left alone.
ServiceLeftAlone ==
  /\ worker.pc = "service"
  /\ LET a == worker.agent IN
     \/ /\ WantedService \in {None, cServices[a]}
        /\ UNCHANGED <<services, staleServices>>
     \/ /\ WantedService \notin {None, cServices[a]}
        /\ Accepts(cServices[a], services[a], a \in staleServices)
        /\ services' = [services EXCEPT ![a] = WantedService]
        /\ staleServices' = staleServices \cup {a}
  /\ Goto("ready")
  /\ UNCHANGED <<agents, deployments, envVars, staleAgents, staleDeployments, queue>>

\* Without protocols the Service is deleted: Get from the cache, then Delete
\* without a resourceVersion.
EnsureService ==
  /\ worker.pc = "service"
  /\ LET a == worker.agent IN
     \/ /\ cServices[a] = WantedService
        /\ UNCHANGED <<services, staleServices>>
     \/ /\ cServices[a] # WantedService
        /\ IF WantedService = None THEN services[a] # None
           ELSE Accepts(cServices[a], services[a], a \in staleServices)
        /\ services' = [services EXCEPT ![a] = WantedService]
        /\ staleServices' = staleServices \cup {a}
  /\ Goto("ready")
  /\ UNCHANGED <<agents, deployments, envVars, staleAgents, staleDeployments, queue>>

\* Includes the Delete of a Service that is only left in the cache: NotFound is
\* an error there.
ServiceRejected ==
  /\ worker.pc = "service"
  /\ LET a == worker.agent IN
       /\ cServices[a] # WantedService
       /\ IF WantedService = None THEN services[a] = None
          ELSE ~Accepts(cServices[a], services[a], a \in staleServices)
  /\ Fail
  /\ UNCHANGED <<apiVars, envVars, staleVars, queue>>

ReadyStatus ==
  [ready |-> "True", url |-> CardUrl(worker.agent, worker.held.spec),
   observed |-> worker.held.generation, gateway |-> worker.gateway]

\* Mistake: a failing Agent keeps publishing its URL.
NotReadyKeepsUrl ==
  [ready |-> "False", url |-> worker.held.status.url,
   observed |-> worker.held.generation, gateway |-> None]

NotReadyStatus ==
  [ready |-> "False", url |-> None, observed |-> worker.held.generation, gateway |-> None]

\* Mistake: a status write that meets a conflict fetches the Agent anew and
\* writes the status over it.
WriteStatusOverLatest(status) ==
  LET a == worker.agent IN
    IF agents[a] # None /\ [status EXCEPT !.observed = agents[a].generation] # agents[a].status
    THEN /\ agents' = [agents EXCEPT ![a].status =
                          [status EXCEPT !.observed = agents[a].generation]]
         /\ staleAgents' = staleAgents \cup {a}
    ELSE UNCHANGED <<agents, staleAgents>>

\* Status().Update of the held Agent.  Its resourceVersion is never refreshed by
\* the retries, so it succeeds only while the held copy is the current version;
\* an update that changes nothing creates no new version.
WriteStatus(status) ==
  LET a == worker.agent IN
    IF worker.current /\ status # agents[a].status
    THEN /\ agents' = [agents EXCEPT ![a].status = status]
         /\ staleAgents' = staleAgents \cup {a}
    ELSE UNCHANGED <<agents, staleAgents>>

\* Reconcile returns nil, or the error of the status write.
PublishReady ==
  /\ worker.pc = "ready"
  /\ WriteStatus(ReadyStatus)
  /\ queue' = IF worker.current THEN queue ELSE queue \cup {worker.agent}
  /\ worker' = Idle
  /\ UNCHANGED <<deployments, services, envVars, staleDeployments, staleServices>>

\* Mistake: an error is returned without a status.
PublishNothing ==
  /\ worker.pc = "notReady"
  /\ queue' = queue \cup {worker.agent}
  /\ worker' = Idle
  /\ UNCHANGED <<apiVars, envVars, staleVars>>

\* Mistake: the worker goes on holding what it read.
PublishNotReadyAndKeep ==
  /\ worker.pc = "notReady"
  /\ WriteStatus(NotReadyStatus)
  /\ queue' = queue \cup {worker.agent}
  /\ worker' = [worker EXCEPT !.pc = "idle"]
  /\ UNCHANGED <<deployments, services, envVars, staleDeployments, staleServices>>

\* Reconcile returns reconcileErr, whatever becomes of the status write.
PublishNotReady ==
  /\ worker.pc = "notReady"
  /\ WriteStatus(NotReadyStatus)
  /\ queue' = queue \cup {worker.agent}
  /\ worker' = Idle
  /\ UNCHANGED <<deployments, services, envVars, staleDeployments, staleServices>>

\* An API call fails for a reason outside the model and changes nothing.
ApiFault ==
  /\ spent.faults < MaxFaults
  /\ spent' = [spent EXCEPT !.faults = @ + 1]
  /\ \/ /\ worker.pc \in {"deployment", "service"}
        /\ Fail
        /\ UNCHANGED queue
     \/ /\ worker.pc \in {"ready", "notReady"}
        /\ worker' = Idle
        /\ queue' = queue \cup {worker.agent}
  /\ UNCHANGED <<apiVars, inputVars, cacheVars, staleVars, births>>

\* The operator dies and restarts: the caches are listed anew and every object
\* found is delivered as an Add event.
Restart ==
  /\ spent.crashes < MaxCrashes
  /\ spent' = [spent EXCEPT !.crashes = @ + 1]
  /\ worker' = Idle
  /\ cAgents' = agents /\ cDeployments' = deployments /\ cServices' = services
  /\ cTools' = tools /\ cConfigs' = configs /\ cGateways' = gateways
  /\ staleAgents' = {} /\ staleDeployments' = {} /\ staleServices' = {}
  /\ queue' = {a \in Agents : agents[a] # None \/ deployments[a] # None \/ services[a] # None}
  /\ UNCHANGED <<apiVars, inputVars, births>>

-----------------------------------------------------------------------------
Environment ==
  \/ \E a \in Agents : \/ \E s \in SpecsOf[a] : Apply(a, s)
                       \/ Delete(a)
                       \/ CollectDeployment(a)
                       \/ CollectService(a)
                       \/ BumpDeployment(a)
  \/ \E t \in Tools, u \in ToolUrls \cup {None} : ChangeTool(t, u)
  \/ \E c \in Configs : ChangeConfig(c)
  \/ \E g \in Gateways : ChangeGateway(g)

Informers ==
  \/ \E a \in Agents : SyncAgent(a) \/ SyncDeployment(a) \/ SyncService(a)
  \/ \E t \in Tools : SyncTool(t)
  \/ \E c \in Configs : SyncConfig(c)
  \/ \E g \in Gateways : SyncGateway(g)

\* The steps of a reconcile that has begun
Proceed ==
  \/ \E r \in Refs : Resolve(r)
  \/ ResolveFailed \/ ResolveGateway
  \/ EnsureDeployment \/ DeploymentRejected
  \/ EnsureService \/ ServiceRejected
  \/ PublishReady \/ PublishNotReady

Next == Environment \/ Informers \/ (\E a \in Agents : Fetch(a)) \/ Proceed
        \/ ApiFault \/ Restart

Spec == Init /\ [][Next]_vars

\* Watches deliver, goroutines are scheduled, the queue is first-in first-out
\* (so a waiting key is taken although others keep coming), orphans are collected.
Fairness ==
  /\ WF_vars(Proceed)
  /\ \A a \in Agents : /\ SF_vars(Fetch(a))
                       /\ WF_vars(SyncAgent(a)) /\ WF_vars(SyncDeployment(a))
                       /\ WF_vars(SyncService(a))
                       /\ WF_vars(CollectDeployment(a)) /\ WF_vars(CollectService(a))
  /\ \A t \in Tools : WF_vars(SyncTool(t))
  /\ \A c \in Configs : WF_vars(SyncConfig(c))
  /\ \A g \in Gateways : WF_vars(SyncGateway(g))

FairSpec == Spec /\ Fairness

-----------------------------------------------------------------------------
(* Properties                                                                *)

WorkerType ==
  [pc : {"idle", "resolve", "deployment", "service", "ready", "notReady"},
   agent : Agents \cup {None}, held : AgentType \cup {None}, current : BOOLEAN,
   todo : SUBSET Refs, urls : [Refs -> Urls \cup {None}],
   config : Configs \cup {None}, gateway : Gateways \cup {None}]

ApiType ==
  /\ agents \in [Agents -> AgentType \cup {None}]
  /\ deployments \in [Agents -> DeploymentType \cup {None}]
  /\ services \in [Agents -> ServiceType \cup {None}]
  /\ births \in [Agents -> Nat]

InputType ==
  /\ tools \in [Tools -> ToolUrls \cup {None}]
  /\ configs \in SUBSET Configs
  /\ gateways \in SUBSET Gateways

CacheType ==
  /\ cAgents \in [Agents -> AgentType \cup {None}]
  /\ cDeployments \in [Agents -> DeploymentType \cup {None}]
  /\ cServices \in [Agents -> ServiceType \cup {None}]
  /\ cTools \in [Tools -> ToolUrls \cup {None}]
  /\ cConfigs \in SUBSET Configs
  /\ cGateways \in SUBSET Gateways

WorkType ==
  /\ queue \in SUBSET Agents
  /\ worker \in WorkerType
  /\ worker.pc = "idle" => worker = Idle
  /\ worker.pc # "idle" => worker.agent \in Agents /\ worker.held \in AgentType

\* Every variable has its type; a reconcile in progress holds an Agent, and
\* nothing of a reconcile is left over when it has ended.
TypeOK ==
  /\ ApiType /\ InputType /\ CacheType /\ WorkType
  /\ staleAgents \in SUBSET Agents
  /\ staleDeployments \in SUBSET Agents
  /\ staleServices \in SUBSET Agents
  /\ spent \in [edits : Nat, deletes : Nat, bumps : Nat, faults : Nat, crashes : Nat]

\* Something is still under way for Agent a: its key waits or is being processed,
\* or a watch event that will enqueue it has not been delivered.
Pending(a) ==
  \/ a \in queue \/ worker.agent = a
  \/ a \in staleAgents \/ a \in staleDeployments \/ a \in staleServices
  \/ agents[a].spec.subs \cap staleAgents # {}
  \/ \E t \in agents[a].spec.tools : cTools[t] # tools[t]
  \/ cConfigs # configs
  \/ cGateways # gateways

\* The result of reconcileAgent against the current state of the cluster
Reconciled(a) ==
  LET s == agents[a].spec
      d == deployments[a] IN
  /\ d # None
  /\ d.owner = agents[a].uid /\ d.spec = s
  /\ \A r \in s.subs \cup s.tools :
       d.urls[r] = PublishedUrl(agents, tools, r) /\ d.urls[r] # None
  /\ IF configs = {} THEN d.config = None ELSE configs = {d.config}
  /\ IF s.gateway # None THEN d.gateway = s.gateway /\ s.gateway \in gateways
     ELSE IF gateways = {} THEN d.gateway = None ELSE d.gateway \in gateways
  /\ services[a] = IF s.port = None THEN None
                   ELSE [owner |-> agents[a].uid, port |-> s.port]
  /\ agents[a].status = [ready |-> "True", url |-> CardUrl(a, s),
                         observed |-> agents[a].generation, gateway |-> d.gateway]

\* No wake-up is lost: whenever nothing is pending for an Agent, its Deployment,
\* Service and status are what its spec, the URLs its references publish now, the
\* runtime configuration and the gateways call for.
QuiescentIsReconciled ==
  WatchesGateways =>
    \A a \in Agents : agents[a] # None /\ ~Pending(a) => Reconciled(a)

\* An Agent reported Ready at its current generation has a Deployment built from
\* that very spec and owned by that very object (Agents with an A2A protocol).
ReadyIsRolledOut ==
  \A a \in Agents :
    /\ agents[a] # None /\ agents[a].spec.port # None
    /\ agents[a].status.ready = "True"
    /\ agents[a].status.observed = agents[a].generation
    => /\ deployments[a] # None
       /\ deployments[a].spec = agents[a].spec
       /\ deployments[a].owner = agents[a].uid
       /\ agents[a].status.url = CardUrl(a, agents[a].spec)

\* No Deployment is ever given an empty URL for a sub-agent or tool of its spec.
NoUnresolvedRollout ==
  \A a \in Agents : deployments[a] # None =>
    \A r \in deployments[a].spec.subs \cup deployments[a].spec.tools :
      deployments[a].urls[r] # None

\* What a reader of the API sees, as AgentPromise names it
Demanded(a, x) == [uid |-> x.uid, generation |-> x.generation, spec |-> x.spec,
                   address |-> CardUrl(a, x.spec)]

Wanted == [a \in Agents |-> IF agents[a] = None THEN None ELSE Demanded(a, agents[a])]

RolledOut ==
  [a \in Agents |-> IF deployments[a] = None THEN None ELSE
     [owner |-> deployments[a].owner, spec |-> deployments[a].spec]]

Published ==
  [a \in Agents |->
     LET st == IF agents[a] = None THEN BlankStatus ELSE agents[a].status IN
     [ready |-> st.ready, url |-> st.url, observed |-> st.observed]]

Promise == INSTANCE AgentPromise WITH
  wanted <- Wanted, rolledOut <- RolledOut, published <- Published

\* The controller keeps the promise of AgentPromise: a Deployment is never changed
\* or removed under a Ready status that still claims it, and a Ready status is
\* only ever written over the generation whose Deployment is in place.
KeepsPromise == Promise!Spec

\* What Agent a needs in order to become Ready, when the Agents in R are
NeedsMet(a, R) ==
  /\ agents[a] # None
  /\ \A b \in agents[a].spec.subs :
       b \in R /\ agents[b] # None /\ agents[b].spec.port # None
  /\ \A t \in agents[a].spec.tools : tools[t] # None
  /\ \A c, d \in configs : c = d
  /\ agents[a].spec.gateway \in gateways \cup {None}

\* Agents whose needs are met from the ground up: the least fixed point
MustWork == {a \in Agents : \A R \in SUBSET Agents :
               (\A x \in Agents : NeedsMet(x, R) => x \in R) => a \in R}

\* Agents that could sustain each other: the greatest fixed point
MayWork == UNION {R \in SUBSET Agents : \A x \in R : NeedsMet(x, R)}

\* Once the environment rests, every Agent whose references can be satisfied from
\* the ground up ends up reconciled and stays so, whatever conflicts, stale reads
\* and withdrawn URLs happen on the way.  (With several default gateways the choice
\* among them may differ from one reconcile to the next, and nothing settles.)
Converges ==
  <>[]((\A g, h \in gateways : g = h) => \A a \in MustWork : Reconciled(a))

\* Once the environment rests, every Agent whose references cannot be satisfied is
\* reported not Ready, and its URL is withdrawn.
Degrades ==
  <>[](\A a \in Agents \ MayWork : agents[a] # None =>
         agents[a].status.ready = "False" /\ agents[a].status.url = None)

\* Children of a deleted Agent do not survive it, even when a reconcile working
\* on a stale copy creates them after the deletion.
OrphansCollected ==
  <>[](\A a \in Agents : ~Orphaned(a, deployments[a]) /\ ~Orphaned(a, services[a]))
=============================================================================
