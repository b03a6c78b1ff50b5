# Verification of the agent runtime operator

TLA+ models of the Kubernetes operator in this repository, the TLC runs that
check them on small instances, and TLAPS proofs of theorems about them. Paths
below are relative to `src/`.

How to run: `tlc -workers 2 -config MCAgentPair.cfg MCAgentPair` checks a run,
`tlapm AgentReconcilerProofs.tla` checks proofs (likewise the other modules named `*Proofs`). `PROJECT.json` lists the
components, the runs, one mutation per property that the run detects, the source
lines each definition stands for, the hazards and the theorems.

## 1. The system

One process (`cmd/main.go`) runs a controller-runtime manager with three
reconcilers and three admission webhooks. All of them talk to the Kubernetes API
server; the reconcilers never talk to each other directly.

| Component | State | Operations | Talks to |
|---|---|---|---|
| Agent controller (`internal/controller/agent_reconciler.go`, `agent_status.go`) | none of its own; everything is in the API server: `Agent.status`, the Agent's Deployment and Service | `Reconcile`, `ensureDeployment`, `ensureService`, `updateAgentStatusReady`, `updateAgentStatusNotReady`, six watches with their map functions | informer caches (reads), API server (writes) |
| Reference resolvers (`agent_subagent.go`, `agent_tool.go`, `agent_aigateway.go`) | none | `resolveAllSubAgents`, `resolveAllTools`, `resolveAiGateway` | caches of Agents, ToolRoutes, ToolServers, AiGateways |
| ToolServer controller (`toolserver_reconciler.go`) | `ToolServer.status`, its Deployment and Service | the same pattern, without references | caches, API server |
| AgenticWorkforce controller (`agenticworkforce_reconciler.go`) | `AgenticWorkforce.status` | validate the entry points, walk the graph of Agents, write what was found; a watch on Agents | cache of Agents, API server |
| Agent admission (`internal/webhook/v1alpha1/agent_webhook.go`) | the stored spec | `applyDefaults`, `validateAgent` | called by the API server |
| ToolServer admission (`toolserver_webhook.go`) | the stored spec | `applyDefaults`, `validateToolServer` | called by the API server |
| AgentGateway admission (`agentgateway_webhook.go`) | the stored spec | two defaults | called by the API server |
| Container environment, metadata, probes (`agent_config.go`, `util.go`, `agent_probe.go`) | none (pure functions) | `buildTemplateEnvironmentVars`, `mergeEnvironmentVariables`, `sanitizeAgentName`, metadata merging, `generateReadinessProbe` | used by the controllers |
| Manager (`cmd/main.go`) | process, caches, workqueues | start, stop, optional leader election | all of the above |
| API types, manifests | | | |

What couples them:

- A parent Agent reads the `status.url` of its sub-agents and tools. That URL is
  published by another reconcile (of the same controller, of the ToolServer
  controller, or of another operator), and withdrawn by it again, so a rollout of
  one object propagates through the status of another.
- Each controller is woken by watches. A wake-up happens only when an informer
  delivers an event and a map function, which looks into the cache of *another*
  kind, finds the dependent object.
- An Agent and a ToolServer of one name use the same names for their Deployment and their
  Service; `SetControllerReference` decides who gets them.
- Several processes of the operator may run at once: elected, one after the other, with a
  lease that outlives its holder; or, without `--leader-elect`, side by side.
- Deletion is left to the garbage collector, which follows owner references by UID.
- The webhooks establish what the controllers take for granted: a port and a name
  for each protocol, exactly one kind of reference, a usable framework.

What is hard here: every read is from a cache that lags behind the writes of the
same process; optimistic concurrency turns a late read into a Conflict; the status
write and the object writes are separate calls, between which anything may happen;
levels of objects depend on each other's status, in cycles if users write them; an
object can be deleted and created again under its name while a reconcile still
holds the old one; the process may die between any two calls, and another one takes over
or is already at work; users, sidecar injectors, autoscalers and `kubectl` write the
same Deployments; a failing status is
written with a copy that may be outdated; and defaults written by a webhook come back
as if a user had asked for them.

What makes each component correct:

- *Agent controller*: it may be late but not forget: once nothing is pending for
  an Agent, its Deployment, Service and status are what its spec and everything it
  refers to call for. Ready is never claimed of a generation that is not rolled
  out. A container is never given an unresolved URL. Agents that can work end up
  working, those that cannot end up not Ready without a URL. Nothing outlives a
  deleted Agent.
- *ToolServer controller*: the same without references; and a published URL is
  not withdrawn because of a conflict.
- *AgenticWorkforce controller*: the status describes the graph that is there,
  although the graph moves while it is walked and the watch that reports changes
  relies on the status itself. A status never judges a spec it was not computed from.
- *What is written* (environment, metadata, `ensureDeployment`, `ensureService`): what
  the operator sets of the pod template depends on the present inputs alone and the
  rest stays as others left it, a reconcile of the same inputs rolls nothing out, users
  win over templates but not over what keeps the selector working, nothing that is
  generated or merged gets an object refused, and what belongs to others is kept.
- *Ownership*: a controller neither takes nor changes what another one controls, two
  resources of one name are never both Ready, and each is told where it stands.
- *Several processes*: whoever is left finishes what was left undone; they do not fight.
- *Admission*: defaulting is idempotent and never overrides a user; whatever is
  stored is safe for the controllers, also after the runtime configuration changed.

## 2. Modules

| Module | What it models |
|---|---|
| `AgentReconciler` | the Agent controller with resolvers, watches, caches, API server, garbage collector, faults, restarts |
| `AgentPromise` | the abstract specification of what a reader of an Agent's status may rely on |
| `AgentReconcilerProofs` | theorems about `AgentReconciler` |
| `ToolServerReconciler` | the ToolServer controller |
| `ToolServerPromise` | the abstract specification of what a reader of a ToolServer's status may rely on |
| `ToolServerProofs` | theorems about `ToolServerReconciler` |
| `AgenticWorkforce` | the AgenticWorkforce controller |
| `AgenticWorkforceProofs` | theorems about `AgenticWorkforce` |
| `AgentDeployment` | what `ensureDeployment` and `ensureService` write, what they leave to others, and what the API server refuses of it |
| `AgentDeploymentProofs` | theorems about `AgentDeployment` |
| `SharedNames` | both controllers over one name, with foreign objects and the garbage collector |
| `SharedNamesProofs` | theorems about `SharedNames` |
| `Handover` | several processes of the operator over one Agent: leader election, the lease, crashes |
| `HandoverProofs` | theorems about `Handover` |
| `AgentAdmission`, `ToolServerAdmission` | defaulting and validation over sequences of requests |
| `AgentAdmissionProofs`, `ToolServerAdmissionProofs` | theorems about them |
| `MC*` | the instances TLC checks; the properties that quote a document and fail are in `MCAgentCycle` and `MCWorkforceOrder` |

How they fit together: `AgentReconciler` is the centre and shows *when* the Agent
controller writes and from which copies. `AgentDeployment` opens up the one thing it
keeps closed, the value of the Deployment, and takes a reconcile as one step.
`SharedNames` and `Handover` keep that value closed, cut the Agent down to what ownership
or several processes can tell apart, and repeat its reconcile step by step next to
another controller or another copy of itself. The composition of all of them in one
state space is out of TLC's reach, and no property needs it.

Operators whose comment starts with "Mistake:" are not part of the model: each is the
version of a definition that a plausible bug would give, and is substituted for it to
see that the property notices.

### AgentReconciler

Variables and code:

- `agents`, `deployments`, `services`: the objects in the API server. An Agent is
  its uid, generation, spec (the port of its A2A protocol, its cluster sub-agents,
  its tools, its gateway reference) and status. A Deployment is its owner and the
  inputs its template is a function of (spec, resolved URLs, runtime configuration,
  gateway); the template itself is never spelled out.
- `tools`, `configs`, `gateways`: ToolRoutes and ToolServers with the URL they
  publish, AgentRuntimeConfigurations, AiGateways: read, never written.
- `cAgents` ... `cGateways`: the informer caches. `stale*`: the copies that are not
  the current version. A version that differs only in what the model leaves out
  (the status of a Deployment) is stale although it is equal, which is why the sets
  are kept apart from the copies.
- `queue`: the workqueue, a set because the workqueue deduplicates. `worker`: the
  one reconcile in progress: the step it is at, the Agent it holds, and whether that
  copy is still the stored version (`current`), which is all that optimistic
  concurrency on the status can tell.

| Action | Code |
|---|---|
| `Fetch` | `Reconcile` up to and with `getAgentRuntimeConfiguration` |
| `Resolve`, `ResolveFailed` | `resolveAllSubAgents`, `resolveAllTools`; one read per step |
| `ResolveGateway` | `resolveAiGateway`, `resolveDefaultAiGateway` |
| `EnsureDeployment`, `DeploymentRejected` | `ensureDeployment` with `RetryOnConflict` |
| `EnsureService`, `ServiceRejected` | `ensureService`, with the Delete for an Agent without protocols |
| `PublishReady`, `PublishNotReady` | the two status writes and what `Reconcile` returns |
| `SyncAgent`, `SyncTool`, ... | an informer event with the map function registered for it in `SetupWithManager` |
| `Restart` | the process dies; the next one lists everything (`cmd/main.go`) |
| `ApiFault` | any other error of an API call |
| `Apply`, `Delete`, `Change*`, `BumpDeployment`, `Collect*` | users, other operators, the Deployment controller, the garbage collector |

Decisions a reader should know:

- A watch event updates the cache and runs the map functions in one step in
  `AgentReconciler`. In `AgenticWorkforce` the two are separate steps (`SyncAgent`,
  `Notify`), since there the map function reads another kind's cache.
- An informer may skip intermediate versions in the model. The controllers are
  level-triggered: they only read the cached copy, never the event.
- A status or object write that changes nothing creates no version and no event, as
  in the API server. `SendsDeployment` records that the Deployment of an Agent with a
  protocol is sent on *every* reconcile: the readiness probe is rebuilt without the
  fields the API server defaults, so the copy always differs; the write is then
  subject to conflicts although it changes nothing.
- Conflict retries of `ensureDeployment` read the cache again, so a retry that
  succeeds is `EnsureDeployment` taken after a `SyncDeployment`; one that does not
  is `DeploymentRejected`. The retries of the status writes re-use the held copy and
  cannot succeed after a conflict; they are not steps.
- A URL is the pair of name and port: two Agents never share one. The wording of
  messages is left out.
- Remote sub-agents and external tools have a URL in the spec: nothing about them
  can change behind the Agent's back, so they are left to `AgentAdmission`.
- The Agent defaulter gives every Agent an A2A protocol, so specs without a protocol
  reach the controller only with `ENABLE_WEBHOOKS=false` or when they were stored
  before the webhook was installed. They are modelled, since `ensureService` handles
  them.
- Objects of the same name with a foreign owner are in `SharedNames`, a second process of
  the operator in `Handover`.

### AgentPromise

Four actions per Agent: it appears or goes, its spec is amended, its Deployment is
rolled out or goes, its status is published. Its guards are the promise: a status is
written only about the stored generation; Ready is written only over a Deployment
of that very object and spec, with its URL; not Ready withdraws the URL; and a
Deployment is not touched, while Ready claims it, in a way that makes the claim
false. `AgentReconciler` maps to it by projection (`Wanted`, `RolledOut`,
`Published`), checked as `KeepsPromise` and proved as `ControllerKeepsPromise`.
Agents without a protocol are exempt from the Deployment clause because the
controller does not keep it for them: their Deployment is not rewritten when a stale
cached copy happens to equal what is wanted, and Ready may then be written while the
stored Deployment still is of an earlier spec or owner. The watch repairs that later
(`QuiescentIsReconciled`).

### ToolServerReconciler

One ToolServer, since none affects another. It differs from the Agent controller in ways the
checks depend on: an unchanged Deployment is not sent, conflicts are not retried, and a
failing ToolServer keeps its URL. `available` is the one fact of the Deployment's
status that the documentation speaks of.

`ToolServerPromise` has three actions: the ToolServer appears or goes, its spec is
amended, its status is published. A status is written only about the stored generation,
Ready comes with the address of that generation, and not Ready keeps the URL that
was there: the guarantee Agents with that tool depend on, since an Agent whose tool has no URL is
taken down. `ToolServerReconciler` maps to it by projection (`Wanted`, `Published`). It
says nothing of the Deployment, unlike `AgentPromise`, because an unchanged copy makes
the controller skip the write: Ready may be claimed on the word of an outdated copy.
That is repaired, which is what `QuiescentIsReconciled` says.

### AgenticWorkforce

One workforce over any number of Agents. The traversal reads one Agent per step
(`Traverse`) from a cache that may move in between; `visited` is marked before the
read, as in `traverseAgent`. The recursion visits in the order of the lists; the
model leaves the order open. Remote sub-agents are kept by URL, and of two names for one
URL the one found later stays (`Over`); in the status they are a set beside the list,
without a place in its order. The list of Agents in the status is a sequence
(`Listings`), since the Go code builds it from a map; `findWorkforcesReferencingAgent`
reads it back from the cached workforce (`Concerns`).

### AgentDeployment

Variables: the `spec` of the Agent, field by field, with the URLs its references resolved
to; the `gateway`; the stored `deployment` and `service`; the `outcome` of the reconcile of these
inputs. Two history variables serve the properties: `basis`, the inputs of the last write, and
`theirs`, what others last put where the operator sets nothing.

| Definition | Code |
|---|---|
| `buildTemplateEnvironmentVars`, `SubAgentMaps`, `mergeEnvironmentVariables`, `sanitizeAgentName` | the functions of those names in `agent_config.go`; names are sequences of characters, because what sanitizing makes of them decides which keys collide |
| `PodLabels`, `PodAnnotations`, `ObjectMetadata` | `buildPodTemplateMetadata`, `applyCommonMetadataToObjectMeta` (`util.go`) |
| `MutatedDeployments`, `Template`, `MutatedService` | the mutate functions in `agent_reconciler.go` |
| `Unset` | the fields of a pod template that the mutate function never assigns |
| `Reconcile` | `ensureDeployment`, and `ensureService` unless the first was refused |
| `Edit`, `ChangeGateway` | users, references, gateways |
| `PutLabel`, `SetVariable`, `SetCommand`, `SetPod`, `RolloutRestart`, `Inject`, `Scale`, `Remove` | other writers of the Deployment |
| `Valid`, `ValidService` | the API server, for every writer |

Maps of labels, annotations and variables are functions, and `f ++ g` is all of `f` with what
`g` adds to it. The list of variables is sorted by name and has no name twice, so it is modelled as a map; what
Go's map iteration leaves open (which of two sub-agents with one key stays) is
nondeterministic. A reconcile is one step because a write from an outdated copy is
refused and changes nothing. An object that does not exist is `Nothing`.

The pod template is changed in place, as in the code. Labels, annotations, volumes and, of the agent
container, variables, ports and mounts are replaced as a whole (so are image, probe, `envFrom` and
resources, which are left out). Its other fields, such as the command, the other containers, init
containers and the rest of the pod stay, also in a Deployment that was there before the Agent; one without
an agent container gets one.

`Valid` and `ValidService` are the rules of the API server that a spec, a merge or another writer can
break: the selector selects the template's labels; ports, volumes and mount paths are distinct, the
ports of a Service by number too; each mounted volume is there, for sidecars as well; names, keys and
label values have a format. A value that breaks a rule on its own is a member of `Malformed`.
Neither defaulting nor validation of Agents sees to most of this: two protocols that leave name
and port open get the same ones (`agent_webhook.go:104`), equal mount paths are left to the API server
(`agent_webhook.go:337`), labels and names of variables are not looked at. `WellFormed` is the list of what a user
has to get right.

Facts the model records: `replicas` that nobody set are 0 on creation (the webhook sets 1); the annotations
of the pod template are replaced, so that the mark of `kubectl rollout restart` is taken back by the next
reconcile; a label removed from `commonMetadata` stays on the object; a Deployment that
was there before with a selector of its own, or with a sidecar whose volume the spec does not have,
is refused at every update; two protocols with different names and one port give a Deployment that is rolled out
with a Service that is refused, and stays the old one.

### SharedNames

Two controllers, each with a queue and a worker, over one Deployment and one
Service. An object is who its controller reference names. `MayOwn` is
`SetControllerReference`: it replaces a reference of the same kind and name whatever its
UID, adopts an object without one, and refuses any other. `Ensure`, `Refused`, `Withdraw`, `Publish` are the
steps of the reconcile, as in the other modules; what the spec says is left out but for the Agent having protocols
(without them the Service is deleted by name, whoever's it is). The caches are shared, as in
the manager; the resource itself is read as stored, since a copy that lags acts like one
that was read early and outdated before it was used.

The state space shows three things worth knowing. A reconcile of an Agent without
protocols deletes the Service of a ToolServer of that name, even when the Agent is already gone; the
ToolServer restores it, woken by the event. A foreign Service that
appears under a protocol-less Agent raises no event and stays. And a Deployment removed
by hand at the wrong moment can leave the Deployment to the ToolServer and the Service
to the Agent: both stay not Ready, and neither gives way (`NameIsSettled` therefore
promises an owner only while `removals = 0`).

### Handover

`lease` is who the Lease names, `running` the processes whose controllers run; caches,
`queued`, `worker` per process. `Start` is election and the listing of the informers (a
process that waits has no caches in use), `Exit` a crash at any point, `LoseElection`
the end of a process whose lease went (`mgr.Start` returns an error, `main` exits), `Expire` the
end of a dead process's lease (`LeaderElectionReleaseOnCancel` is not set), `ExpireEarly`
that of a live one. `elects` is chosen initially: off is the default of the binary
(`cmd/main.go:73`), on is what `config/manager/manager.yaml:58` asks for. The reconcile is that of `AgentReconciler` for an
Agent without references. An API request that is still on its way when its process dies
is not modelled.

### AgentAdmission, ToolServerAdmission

`AgentAdmission` submits every combination of edits to one Agent, stores what passes,
and lets the runtime configuration change in between; `ContainerImage` and
`ResolvesTo` are what the controller makes of a stored spec. A generated protocol name is the pair of
its type and port, a mount path is its sequence of segments. `ToolServerAdmission` has
two kinds of client: a replace sends the whole spec, an apply merges (the three-way
merge of kubectl is external). In both, a request that fails validation is not a step.

## 3. Runs

| Run | Checks | Distinct states |
|---|---|---|
| `agent_pair` | a parent, its sub-agent whose port changes, a Deployment status update: `TypeOK`, `NoUnresolvedRollout`, and under fairness `Converges`, `Degrades` | 523 000 |
| `agent_lifecycle` | one Agent created, edited (with and without a protocol), deleted, re-created, with a restart: `QuiescentIsReconciled`, `ReadyIsRolledOut`, `KeepsPromise` (the refinement of `AgentPromise`), and under fairness `OrphansCollected` | 839 000 |
| `agent_inputs` | the URL of a tool, two runtime configurations and two gateways change under an Agent, an API call fails: `Converges`, `Degrades` | 895 000 |
| `workforce` | three Agents with and without a cycle, a remote agent under two names, changes and a restart: `TypeOK`, `QuiescentIsTrue`, `StatusJudgesCurrentSpec`, and under fairness `StatusBecomesTrue` | 1 819 000 |
| `toolserver` | two edits, a deletion, and a fault, a restart or an availability report: `TypeOK`, `QuiescentIsReconciled`, `KeepsPromise` (the refinement of `ToolServerPromise`), and under fairness `Settles` | 1 657 000 |
| `agent_admission` | any sequence of edits: `TypeOK`, `DefaultsAreStable`, `DefaultsOnlyFill`, `FallbackUnreachable`, `ReferencesResolve`, `MountsAreDisjoint` | 113 000 |
| `toolserver_admission` | any sequence of creates, applies and replaces: `TypeOK`, `ReapplyIsStable`, `ManifestWins` | 109 |
| `agent_deployment` | three edits of any fields, one foreign write, reconciles in between, over no Deployment or one that was there: `OursAndTheirs`, `ContainerSees`, `RefusalsHaveCauses`, `NoSpuriousRollout`, `OthersAreKept` | 708 000 |
| `shared_names` | both resources created twice, two other events: `TypeOK`, `DeploymentFirst`, `QuiescentIsOwner`, `NothingIsStolen`, and under fairness `NameIsSettled` | 1 175 000 |
| `handover` | two processes, elected or not, an edit, two crashes, an early expiry: `QuiescentIsReconciled`, `KeepsPromise` (`AgentPromise`, as long as one leads), and under fairness `Settles` | 512 000 |

What the central properties say:

- `QuiescentIsReconciled` (Agents): if an Agent is neither queued nor being processed,
  and no event that would enqueue it is outstanding, everything is as the *current*
  cluster calls for: not the cached one, and including the URLs its references
  publish now. It fails as soon as one watch, one map function, one requeue or one
  compare-with-the-cache is wrong. `QuiescentIsTrue` is the same for workforces,
  where an event only reaches the controller if the lagging status lists the
  Agent.
- `ReadyIsRolledOut`, `KeepsPromise`: a claim of Ready is never made, and never
  becomes, false of the current generation, although Deployment and status are written
  separately from copies that lag, and although the Agent may be deleted
  and re-created in between.
- `Converges` and `Degrades` compare with two fixed points of the graph of references:
  an Agent that can be satisfied from the ground up (`MustWork`) ends up reconciled;
  one that cannot be satisfied at all, not even by Agents sustaining each other
  (`MayWork`), ends up not Ready without a URL. Agents in a cycle lie between the two.
- `OrphansCollected`: also what a reconcile creates *after* the deletion of the Agent
  it still holds.
- `OursAndTheirs`: after any sequence of edits, reconciles and foreign writes what the operator sets of
  the pod template is what a Deployment created just now would have, and the rest is what others last
  put there. `NoSpuriousRollout`: the same inputs
  never roll out twice, unless names of sub-agents collide. `ContainerSees`: what reaches the container, compared
  with the lists of the spec rather than with the code that merges them. `RefusalsHaveCauses`: what the
  operator generates and merges never makes the API server refuse an object. Where it does refuse one,
  the present spec breaks a rule by itself (`WellFormed`, or a port used twice), or others are in the way
  (`Obstructed`: a selector of their own, or a sidecar whose volume goes). These causes are the code's; the property
  says that there are no more. A spec that was corrected is therefore rolled out, whatever was refused or
  half written before.
- `NothingIsStolen`, `DeploymentFirst`, `QuiescentIsOwner`, `NameIsSettled`: no controller writes
  over what another one controls although it judges that by a lagging copy; Ready means owning the
  Deployment, and the Service is never somebody else's than the Deployment, so that the two
  cannot block each other (both unless somebody removes objects by hand); who is left without,
  or with the wrong status, is never at rest; in the end everybody is told
  the truth, and after the one that had the name is deleted the other one gets it.
- `Handover`: `QuiescentIsReconciled` for each process on its own, `KeepsPromise` as
  long as one leads: each step is one of `AgentPromise` or invisible to readers of the API (it
  fails without: a second process may write a spec it still holds over a newer one that is
  claimed Ready, which the events of that write repair), and `Settles`, that they do not undo each other's
  work for ever.

### Bounds and why they are enough

- Agents: the map functions and the resolver look one reference deep, so parent and
  child show every way in which a status change reaches its reader. Deeper chains
  repeat that step; the traversal of workforces, which does look deeper, is checked
  with three Agents, enough for a chain, a cycle and an Agent that disappears in its middle.
- `MaxEdits` 1 or 2: one edit at any moment of the two reconciles it races with; the
  second (lifecycle, toolserver) covers an edit that meets the reconcile of the previous one and a re-creation
  with an edit after it. `MaxDeletes` 1: one deletion with re-creation gives two uids.
- `MaxBumps`, `MaxFaults`, `MaxCrashes` 1 (`MaxIncidents`, `MaxEvents` where one budget
  covers several): each makes one copy stale or aborts one reconcile, at every point; the state after a restart is a fresh initial state with
  objects in it.
- `agent_deployment`: a third edit can undo or combine two others, which is as much history
  as a template could remember; the values include the operator's own label keys, three
  sub-agent names of which two collide and one starts with a digit, variables the operator sets itself, ports, names and
  paths used twice, and a malformed label. The Deployments found are one with a selector and a container of
  its own and one with an agent container that others configured.
- `shared_names`: each resource may be created twice, so that one can leave and come back around
  the other; two more events allow a deletion with a deletion, an edit, a foreign
  object or a removal. `handover`: two processes and two crashes let each one take over
  from the other; `MaxExpiries` 1 makes both believe they are the leader once.
- Initial states: every combination of existing Agents, tools, configurations and gateways,
  with nothing created yet. Stored objects of an earlier run of the operator arise
  through `Restart`.
- The admission runs have no bound other than the choices a request may make: each
  field has values that are left open, right, wrong in each way the code tells apart,
  and clashing.
- Deadlock checking is off in the reconciler runs because the system rests when nothing
  is left to do; the admission models never rest.
- No symmetry is used: in the runs with several Agents each has another role, and liveness is
  checked.

### Fairness

`Fairness` gives weak fairness to the informers (a watch delivers eventually, or is
re-established with a list), to the steps of a running reconcile (goroutines are
scheduled, calls return), and to the garbage collector. Taking a key off the workqueue
gets strong fairness for each key in `AgentReconciler`, because the queue is first-in
first-out and rate limiting delays a key only for a bounded time: while
other keys keep coming back, the worker is busy in between, and weak fairness would let
it starve one. Users, faults and crashes have no fairness; their bounds make the
environment rest, which is what "eventually" is measured against. A restart
between any two steps is allowed but not required.

`SharedNames` has weak fairness for each controller's worker, the informers and the garbage
collector. `Handover` adds that *some* candidate is started and elected (not a particular one),
that without election each process runs, that a process which lost the lease ends, and that
the lease of a dead one expires. Crashes are bounded and unfair. `AgentDeployment` and the admission models
have no liveness.

## 4. Disagreements between code and documentation

Two runs are expected to be violated. Each checks one sentence of a comment.

| Run | The sentence | What the code does |
|---|---|---|
| `agent_cycle` | `status.url` is populated for an Agent with an A2A protocol (`api/v1alpha1/agent_types.go:211`) | Agents that are each other's sub-agent wait for each other for ever |
| `workforce_order` | "for consistent output" (`agenticworkforce_reconciler.go:169`) | map iteration order: an unchanged workforce may be rewritten, which triggers its next reconcile |

Three more, plain from the code and without a run:

- A test calls the choice of the default gateway deterministic (`agent_aigateway_test.go:286`);
  it is the first of a cached List, which has no order (`agent_aigateway.go:108`), so that
  reconciles of an unchanged Agent may move its Deployment between gateways. The models choose
  any gateway, and their properties hold whichever is chosen.
- The URL of a ToolServer is said to be published once all replicas are available
  (`docs/modules/tool-servers/pages/how-to-guide.adoc:62`); it is published once the objects
  are written (`toolserver_reconciler.go:108`).
- The default path is said to follow the transport (`toolserver_types.go:66`); one that was
  stored outlives the transport it was chosen for, if the user never mentions a path.

Noticed while modelling the admission of Agents, without a run of their own since each is
the absence of a check: a mount of `/` is accepted next to any other mount, although
`agent_webhook.go:342` means to refuse nested paths (`MountsAreDisjoint` therefore exempts the root); nothing
makes the name of a tool unique within its Agent, as `agent_types.go:78` says it is; and a
volume whose name starts with `agent-operator-` is stored, although `agent_types.go:188` and
`docs/modules/agents/pages/reference.adoc:168` say that such names "will be rejected".

## 5. Proofs

### The Agent controller

`AgentReconcilerProofs` proves, for every finite or infinite set of Agents, tools,
ports, configurations and gateways, all specs and all bounds:

| Theorem | Statement |
|---|---|
| `TypeCorrect` | `Spec => []TypeOK` |
| `EveryRolloutResolved` | `Spec => []NoUnresolvedRollout` |
| `ReadyMeansRolledOut` | `Spec => []ReadyIsRolledOut` |
| `ControllerKeepsPromise` | `Spec => KeepsPromise`: `AgentReconciler` implements `AgentPromise` |
| `NoAgentIsForgotten` | `Spec => []QuiescentIsReconciled` |
| `NobodyRestsUnsatisfied` | `Spec => []OnlySatisfiedRest` (defined beside it): a group of Agents at rest that refer only to each other is part of `MayWork` |

Assumptions: `SpecAssumption` (what users apply are specs), `NoneAssumption` (`None`
is none of the objects it stands in for), `NamesAssumption` (no name is both an Agent
and a tool; the bounds are natural numbers). TLC evaluates all three in every Agent run.

The argument:

1. `TypeInv` is `TypeOK` with `CacheIsFresh` (a copy that is not marked stale equals the
   stored object) and `HeldIsCurrent` (a worker that believes its copy current holds the
   stored object). `TypeOK` alone is not inductive: a status write applies the generation
   and the URL of the *held* Agent to the *stored* one, and only `HeldIsCurrent`
   says that there is one.
2. `ResolvedInv` adds `ResolvedBeforeRollout`: past the resolving steps the worker has
   a URL for each reference of the spec it holds. The write of the Deployment copies exactly that.
3. `RolloutInv` is `ReadyIsRolledOut` with `ObservedIsKnown` (no status observes a generation
   that does not exist yet) and `InPlace` (from the Service step on, while the held
   copy is current and has a protocol, the stored Deployment is the one this worker
   wrote). `InPlace` is the heart: nobody but the worker rewrites a Deployment, the
   garbage collector takes only those whose owner is gone, and deleting or editing the
   Agent ends `current`. It holds only because the Deployment is *sent*; for an Agent
   without a protocol it may be skipped on the word of a stale cache, which is why the
   theorem is about Agents with one.
4. The refinement uses both invariants: each action maps to `Appear`, `Amend`, `RollOut`,
   `Publish` or a stutter. That a status write maps to `Publish`
   needs `HeldIsCurrent` (it observes the stored generation) and `InPlace` (it
   is fulfilled); that an `EnsureDeployment` maps to `RollOut` needs that
   the Deployment of a Ready Agent is only overwritten with what the current spec wants.
5. `QuiescentIsReconciled` compares with the stored references and is not inductive. `RestInv`
   compares with the *cached* ones: an Agent without a key, without an event of its own or of its
   children, and without a worker is `Done` as far as the caches tell. `WorkerInv` says the
   same of what the worker has established so far, while its Agent is `Calm`. Steps of others either
   end that calm or leave `Untouched` what the Agent depends on; for a delivery that is the
   statement that the map functions find every Agent that refers to what is delivered, which
   needs the cached spec to be the stored one (`CacheIsFresh`). A write skipped because the copy
   is as wanted is right by `CopiesAreFresh`, a status found in place already by
   `NotForgotten`: a worker whose copy is outdated has an event or a key outstanding. When nothing is
   pending, the caches of the references are the stored ones, and `Done` becomes `Reconciled`.
6. `OnlySatisfiedRest` puts this together along the references: what a reconciled Agent has resolved
   is published now, and by a sub-agent that is reconciled itself it is published for a protocol it
   has; so the needs of each in the group are met by the group. It is the safety half of `Degrades`.

### The ToolServer controller

`ToolServerProofs`, for every set of specs and all bounds, from `ToolServerAssumption`:

| Theorem | Statement |
|---|---|
| `ToolServerTypeCorrect` | `Spec => []TypeOK` |
| `NoWakeUpIsLost` | `Spec => []QuiescentIsReconciled` |
| `ToolServerKeepsPromise` | `Spec => KeepsPromise`: `ToolServerReconciler` implements `ToolServerPromise` |

`QuiescentIsReconciled` speaks of moments at which nothing is pending and is not
inductive. `NothingIsForgotten` says of every moment at which no event and no key is
outstanding what the worker has established by then: on the way, that its copy is
current; past the Deployment, that the Deployment is what the copy calls for; past the
Service, both; idle, that everything is reconciled. An action of anybody else either marks a copy
stale, so that an event is outstanding and nothing has to hold, or changes nothing the
worker relies on; a write that the worker skips because its copy equals what is wanted is right
exactly because that copy is then not stale. The refinement needs `HeldIsCurrent` only.

### The AgenticWorkforce controller

`AgenticWorkforceProofs`, for every set of Agents and names, every graph and all bounds, from
`WorkforceAssumption`:

| Theorem | Statement |
|---|---|
| `WorkforceTypeCorrect` | `Spec => []TypeOK` |
| `StatusFitsItsSpec` | `Spec => StatusJudgesCurrentSpec` |
| `NoChangeIsMissed` | `Spec => []QuiescentIsTrue` |

`StatusJudgesCurrentSpec` follows from `HeldIsCurrent` and `AboutEntries`: what the walk has
visited and missed has to do with the entry points of the workforce it holds. `NoChangeIsMissed` is the hard one: the watch
finds the workforce through the Agents its status lists, so while a walk is under way, a change
of an Agent that was read but is not listed yet raises no key. The invariant therefore speaks of the graph *as
read*: there is a graph that explains everything found so far, and it differs from the
cached one only at Agents whose event is outstanding, or which neither the stored status lists
nor the workforce names. In the second case publishing the walk changes the status, which is an
event of the workforce itself and starts another walk; at rest only the first is left. No induction
over paths is needed: what explains the set that was found is that it is closed under references
and contained in every such set around the entry points, which one more read preserves.

### Several processes

`HandoverProofs`, for any set of processes (finite or not), all specs and bounds, from
`SpecsAssumption`, `NoneAssumption` and `BoundsAssumption`:

| Theorem | Statement |
|---|---|
| `NoProcessForgets` | `Spec => []QuiescentIsReconciled` |
| `LeaderKeepsReadyTrue` | `Spec => []ReadyIsRolledOut` |
| `LeadersKeepPromise` | `Spec => KeepsPromise`: refinement of `AgentPromise`, as long as one leads |

The first goes as for ToolServers, for each process on its own: what others write is an
event for it. The second is about one leader. `OneLeader` says that whoever runs holds the
lease; `VersionsKnown` that no copy is of a generation that does not exist yet, and a copy of
the current one has the current spec; `ReportIsSeen` that whoever runs has seen every
generation that was reported on; `InPlace` that the Deployment is the one the worker wrote when it
is about to report. So a leader that still holds an old spec has the Deployment to itself, but
cannot overwrite a newer one that was claimed Ready: that claim was made about a generation
it would have had to see. `ReportIsSeen` is where a handover matters: a new leader lists
everything, and so it has seen it. The third maps the one Agent to `AgentPromise` (`Wanted`,
`RolledOut`, `Published`; no protocols, no address). A write of the Deployment is a `RollOut`,
which `ReadyIsRolledOut` after it allows; a report is a `Publish`, about the stored generation
(`HeldIsCurrent`), and of Ready only over the Deployment of its spec (`InPlace`); elections, crashes,
leases and caches are stutters. `OneLeads` is a condition of each step, not of the behaviour:
the promise is kept up to the first early expiry, and nothing is said of what comes after it.
`ClaimIsReady` says that what is protected is what a reader takes from the status.

### One name for two

`SharedNamesProofs`, for any number of births and events, from `BoundsAssumption` and
`NoneAssumption`:

| Theorem | Statement |
|---|---|
| `SharedTypeCorrect` | `Spec => []TypeOK` |
| `NoTheft` | `Spec => NothingIsStolen` |
| `DeploymentComesFirst` | `Spec => []DeploymentFirst` |
| `NobodyRestsWithout` | `Spec => []QuiescentIsOwner` |

`NoTheft` is a property of single steps, given that a copy which is not marked stale is the
stored object: the check for another controller is made on a copy, and an update computed from an
old copy is refused.

`DeploymentFirst` needs four more facts. `ObjectsKnown`: no object and
no copy names a later UID than the last one created, or than the one its controller is
reconciling; so a worker with an outdated copy of its resource cannot put an older UID where a
newer one is. `CopyIsKept`: a copy that says a resource owns the Deployment is right about it,
however old, which is why skipping the write on its word is safe. `InPlace`: past the Deployment a
worker has it, if the resource it holds still exists, in this version or another; what it
then does to the Service it does as the owner of the Deployment. `NothingObservedAhead`: an edit makes the
claim of being Ready one about an earlier generation. `CopyIsKept` and `InPlace` fail once
somebody removes the Deployment by hand, hence the condition of `DeploymentFirst`.

`QuiescentIsOwner` has no such condition and needs none of these facts. Its invariant says, of a
resource whose name is not queued, what the worker has established so far (`NotForgotten`), for each
object of which no event for the resource is outstanding. Such an object can change, but not from
or to one that names the resource (`EventStep`, `HasStays`). A write that is skipped
because the copy is as wanted is right by `CopyConcerns`: a copy that names the resource
and differs from the stored object has an event outstanding.

### What is written

`AgentDeploymentProofs`, for every Agent, all lists, names and metadata users may give and all that
others may put on the Deployment, from `FieldsAssumption` (a spec has the fields it has),
`ListsAssumption` (lists are lists, names are texts), `StorageAssumption` (validation refuses a mount of a
volume the spec does not have), `OwnNamesAssumption` (the names the operator brings are well-formed),
`DigitsAssumption` (an underscore is not a
digit, nor is the name an Agent without one gets) and `AdoptableAssumption` (what was there was accepted):

| Theorem | Statement |
|---|---|
| `PastIsOnlyOthers` | `Spec => []OursAndTheirs` |
| `RefusalsAreExplained` | `Spec => []RefusalsHaveCauses` |
| `ContainersSee` | `Spec => []ContainerSees` |
| `RolloutsHaveReasons` | `Spec => NoSpuriousRollout` |
| `OthersKeepTheirs` | `Spec => OthersAreKept` |

The inductive invariant says what is stored after a write: the Deployment is one the mutate
function may leave *given that very Deployment* and the inputs in `basis`, and the Service
likewise, unless that one is refused (`WrittenFromBasis`); that both were accepted (`Stored`); and that
`theirs` is what the template has where the operator sets nothing. A write keeps that last part
(`TemplateLeaves`), and what it sets does not depend on what was there (`AssignedAlike`): together that is
`OursAndTheirs`. `RefusalsHaveCauses` follows rule by rule (`WellFormedIsAccepted`, `WellFormedIsServed`): each
override of well-formed maps is well-formed, the operator's labels come last, and what is left on the
objects from earlier writes was accepted then, so only the spec as it is now can break a rule.
`NoSpuriousRollout` rests on this: writing twice is the same as writing once, because what is merged into
labels and annotations is there already (`f ++ (f ++ g) = f ++ g`); with it a second
reconcile can differ from the first only by its choice among `SubAgentMaps`, and without colliding
keys there is only one choice (`OneSubAgentMap`). What the container sees goes through
`LastOfEachName`: an entry that no later one overrides is the one chosen for its name
(`LastOfEachNameValue`), which the list's order decides and needs no induction over the list. That a
key of `SUB_AGENTS` never starts with a digit is where `DigitsAssumption` is used.

### Admission

`AgentAdmissionProofs` and `ToolServerAdmissionProofs`, for every set of choices users have and
all defaults of the operator, from `AdmissionAssumption` and `ToolServerAdmissionAssumption` (both
type the constants; the default port is not 0, `None` is not a number):

| Theorem | Statement |
|---|---|
| `AdmissionTypeCorrect` (in both) | `Spec => []TypeOK` |
| `DefaultingIsIdempotent` | `Spec => []DefaultsAreStable` |
| `UserIsNeverOverruled` | `Spec => []DefaultsOnlyFill` |
| `FallbackIsUnreachable` | `Spec => []FallbackUnreachable` |
| `ReferencesAlwaysResolve` | `Spec => []ReferencesResolve` |
| `MountsNeverHide` | `Spec => []MountsAreDisjoint` |
| `ManifestAlwaysWins` | `Spec => []ManifestWins` |
| `ReapplyChangesNothing` | `Spec => []ReapplyIsStable` |

For Agents the invariant is that the stored spec is the last request after defaulting and that it
passed validation in this form (`AdmittedAsDefaulted`). Everything else is about one
spec: defaulting completes it (`DefaultsComplete`), and a complete spec is a fixed point
(`CompleteSpecIsStable`). `FallbackIsUnreachable` holds of every configuration because it uses
validation only. For ToolServers `ReapplyIsStable` is not inductive: an apply
merges over what is stored, so it matters where that came from. `ManifestWins`, that the stored
value of every field the last manifest mentions is the manifest's, is what an
apply, a replace and defaulting each preserve; it makes the second merge of one manifest find all
it would write.

### Only model-checked

The liveness properties (`Converges`, `Degrades`, `OrphansCollected`, `StatusBecomesTrue`,
`NameIsSettled` and the two `Settles`): fairness and ENABLED are outside the reach of the prover. Every
invariant and every action property of a passing run is proved.

## 6. What is not modelled, and why

- `agentgateway_webhook.go`: two independent defaults on an object this operator does not
  reconcile; its unit tests cover it.
- Of `agent_config.go` the texts: JSON, URLs, descriptions; the marshalling errors, which the
  types exclude, and the error for a missing interaction type, for which the CRD has a default.
- Image, resources, `envFrom` and the probe of the agent container: each is assigned from one
  field of the spec. Volumes are their names, also in the rules of the API server.
- Of the API server's rules those whose breach neither the spec nor another writer of the modelled fields
  can cause. A rule about one value is `Malformed`, without telling kinds of objects apart: the
  name of an Agent with a dot in it, which a Deployment may have and a Service may not, counts as malformed for both.
- Read errors other than NotFound, which a cache that has synced does not give.
- A second worker per controller (`MaxConcurrentReconciles` is 1), an API request that
  outlives its process.
- Certificates, metrics and health servers, flags in `cmd/main.go`; manifests; generated code.
- The types of AgentGateway, ToolGateway, Guard, GuardrailProvider: other operators reconcile them.

## 7. Plan

Done, in this order: `AgentReconciler` with `AgentPromise` and its proofs;
`AgenticWorkforce`; `ToolServerReconciler`; `AgentAdmission`; `ToolServerAdmission`;
`AgentDeployment`; `SharedNames` and `Handover` with their proofs; `ToolServerPromise` and the
proofs about ToolServers; remote agents in `AgenticWorkforce`; the proofs about shared names and
workforces; `NoAgentIsForgotten`; the proofs about admission and about what is written.

What could be proved next: that after an early expiry, once the loser has noticed it and the
events of what it wrote have arrived, the remaining leader keeps the promise again.
