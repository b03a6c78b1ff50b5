----------------------- MODULE AgentReconcilerProofs -----------------------
(***************************************************************************)
(* Proofs about the Agent controller.                                      *)
(***************************************************************************)
EXTENDS AgentReconciler, TLAPS

\* An Agent that is not marked stale is cached as the API server stores it.
CacheIsFresh == \A a \in Agents : a \notin staleAgents => cAgents[a] = agents[a]

\* The copy a worker believes current is the cached and the stored one.
HeldIsCurrent ==
  worker.pc # "idle" /\ worker.current =>
    worker.agent \notin staleAgents /\ agents[worker.agent] = worker.held

TypeInv == TypeOK /\ CacheIsFresh /\ HeldIsCurrent

-----------------------------------------------------------------------------
LEMMA IdleType == Idle \in WorkerType /\ Idle.pc = "idle"
  BY DEF Idle, WorkerType, NoUrls

LEMMA NewAgentType ==
  ASSUME NEW s \in SpecType, NEW n \in Nat
  PROVE  NewAgent(s, n) \in AgentType
  BY DEF NewAgent, AgentType, BlankStatus, StatusType

LEMMA TypeInit == Init => TypeInv
<1> SUFFICES ASSUME Init PROVE TypeInv
  OBVIOUS
<1>1. ApiType
  <2>1. PICK chosen \in [Agents -> UNION {SpecsOf[a] : a \in Agents} \cup {None}] :
          /\ \A a \in Agents : chosen[a] \in SpecsOf[a] \cup {None}
          /\ agents = [a \in Agents |->
                         IF chosen[a] = None THEN None ELSE NewAgent(chosen[a], 1)]
    BY DEF Init
  <2>2. \A a \in Agents : chosen[a] # None => NewAgent(chosen[a], 1) \in AgentType
    BY <2>1, NewAgentType, SpecAssumption
  <2> QED
    BY <2>1, <2>2 DEF Init, ApiType
<1>2. InputType /\ CacheType
  BY <1>1 DEF Init, ApiType, InputType, CacheType
<1>3. WorkType
  BY IdleType DEF Init, WorkType
<1>4. TypeOK
  BY <1>1, <1>2, <1>3 DEF Init, TypeOK
<1>5. CacheIsFresh /\ HeldIsCurrent
  BY IdleType DEF Init, CacheIsFresh, HeldIsCurrent
<1> QED
  BY <1>4, <1>5 DEF TypeInv

LEMMA StatusTypes ==
  ASSUME TypeOK, worker.pc # "idle"
  PROVE  ReadyStatus \in StatusType /\ NotReadyStatus \in StatusType
<1>1. worker.agent \in Agents /\ worker.held \in AgentType /\ worker \in WorkerType
  BY DEF TypeOK, WorkType
<1>2. CardUrl(worker.agent, worker.held.spec) \in Urls \cup {None}
  BY <1>1 DEF CardUrl, Urls, AgentType, SpecType
<1> QED
  BY <1>1, <1>2 DEF ReadyStatus, NotReadyStatus, StatusType, AgentType, WorkerType

\* The only write of a status keeps the types, and what is not stale fresh.
LEMMA WriteStatusType ==
  ASSUME TypeInv, worker.pc # "idle", NEW status \in StatusType, WriteStatus(status)
  PROVE  /\ agents' \in [Agents -> AgentType \cup {None}]
         /\ staleAgents' \in SUBSET Agents
         /\ \A a \in Agents : a \notin staleAgents' =>
              a \notin staleAgents /\ agents'[a] = agents[a]
<1>1. worker.agent \in Agents /\ worker.held \in AgentType /\ worker \in WorkerType
  BY DEF TypeInv, TypeOK, WorkType
<1>2. agents \in [Agents -> AgentType \cup {None}] /\ staleAgents \in SUBSET Agents
  BY DEF TypeInv, TypeOK, ApiType
<1>3. CASE worker.current /\ status # agents[worker.agent].status
  <2>1. agents[worker.agent] \in AgentType
    BY <1>1, <1>3 DEF TypeInv, HeldIsCurrent
  <2>2. [agents[worker.agent] EXCEPT !.status = status] \in AgentType
    BY <2>1 DEF AgentType
  <2>3. /\ agents' = [agents EXCEPT ![worker.agent] =
                        [agents[worker.agent] EXCEPT !.status = status]]
        /\ staleAgents' = staleAgents \cup {worker.agent}
    BY <1>1, <1>2, <1>3 DEF WriteStatus
  <2> QED
    BY <1>1, <1>2, <2>2, <2>3
<1>4. CASE ~(worker.current /\ status # agents[worker.agent].status)
  BY <1>2, <1>4 DEF WriteStatus
<1> QED
  BY <1>3, <1>4

LEMMA TypeStep == TypeInv /\ [Next]_vars => TypeInv'
<1> SUFFICES ASSUME TypeInv, [Next]_vars PROVE TypeInv'
  OBVIOUS
<1> USE DEF TypeInv
<1> USE IdleType
<1>1. ASSUME NEW a \in Agents, NEW s \in SpecsOf[a], Apply(a, s) PROVE TypeInv'
  <2>1. s \in SpecType
    BY SpecAssumption
  <2>2. ApiType'
    <3>1. CASE agents[a] = None
      BY <1>1, <2>1, <3>1, NewAgentType DEF Apply, TypeOK, ApiType
    <3>2. CASE agents[a] # None
      <4>1. /\ agents' = [agents EXCEPT ![a] = [agents[a] EXCEPT !.spec = s,
                            !.generation = agents[a].generation + 1]]
            /\ UNCHANGED births
        BY <1>1, <3>2 DEF Apply, TypeOK, ApiType
      <4>2. agents[a] \in AgentType
        BY <3>2 DEF TypeOK, ApiType
      <4>3. PICK n \in Nat : n = agents[a].generation + 1
        BY <4>2 DEF AgentType
      <4>4. [agents[a] EXCEPT !.spec = s, !.generation = n] \in AgentType
        BY <2>1, <4>2 DEF AgentType
      <4> QED
        BY <1>1, <4>1, <4>3, <4>4 DEF Apply, TypeOK, ApiType
    <3> QED
      BY <3>1, <3>2
  <2>3. WorkType'
    BY <1>1 DEF Apply, Outdate, TypeOK, WorkType, WorkerType, Idle
  <2>4. TypeOK'
    BY <1>1, <2>2, <2>3 DEF Apply, CanEdit, TypeOK, InputType, CacheType, inputVars, cacheVars
  <2>5. CacheIsFresh' /\ HeldIsCurrent'
    BY <1>1 DEF Apply, Outdate, TypeOK, ApiType, WorkType, WorkerType, cacheVars,
                CacheIsFresh, HeldIsCurrent
  <2> QED
    BY <2>4, <2>5
<1>2. ASSUME NEW a \in Agents, Delete(a) PROVE TypeInv'
  <2>1. ApiType'
    BY <1>2 DEF Delete, TypeOK, ApiType
  <2>2. WorkType'
    BY <1>2 DEF Delete, Outdate, TypeOK, WorkType, WorkerType, Idle
  <2>3. TypeOK'
    BY <1>2, <2>1, <2>2 DEF Delete, TypeOK, InputType, CacheType, inputVars, cacheVars
  <2>4. CacheIsFresh' /\ HeldIsCurrent'
    BY <1>2 DEF Delete, Outdate, TypeOK, ApiType, WorkType, WorkerType, cacheVars,
                CacheIsFresh, HeldIsCurrent
  <2> QED
    BY <2>3, <2>4
<1>3. ASSUME NEW a \in Agents,
             CollectDeployment(a) \/ CollectService(a) \/ BumpDeployment(a)
      PROVE  TypeInv'
  <2>1. ApiType'
    BY <1>3 DEF CollectDeployment, CollectService, BumpDeployment, TypeOK, ApiType, apiVars
  <2>2. UNCHANGED <<agents, inputVars, cacheVars, staleAgents, queue, worker>>
    BY <1>3 DEF CollectDeployment, CollectService, BumpDeployment, apiVars
  <2>3. TypeOK'
    BY <1>3, <2>1, <2>2 DEF CollectDeployment, CollectService, BumpDeployment,
         TypeOK, InputType, CacheType, WorkType, inputVars, cacheVars
  <2> QED
    BY <2>2, <2>3 DEF CacheIsFresh, HeldIsCurrent, cacheVars
<1>4. ASSUME \/ \E t \in Tools, u \in ToolUrls \cup {None} : ChangeTool(t, u)
             \/ \E c \in Configs : ChangeConfig(c)
             \/ \E g \in Gateways : ChangeGateway(g)
      PROVE  TypeInv'
  <2>1. InputType'
    BY <1>4 DEF ChangeTool, ChangeConfig, ChangeGateway, Toggle, TypeOK, InputType
  <2>2. UNCHANGED <<apiVars, cacheVars, staleVars, queue, worker, births>>
    BY <1>4 DEF ChangeTool, ChangeConfig, ChangeGateway
  <2>3. spent' \in [edits : Nat, deletes : Nat, bumps : Nat, faults : Nat, crashes : Nat]
    BY <1>4 DEF ChangeTool, ChangeConfig, ChangeGateway, CanEdit, TypeOK
  <2> QED
    BY <2>1, <2>2, <2>3 DEF TypeOK, ApiType, CacheType, WorkType, CacheIsFresh,
         HeldIsCurrent, apiVars, cacheVars, staleVars
<1>5. ASSUME NEW a \in Agents, SyncAgent(a) PROVE TypeInv'
  <2>1. CacheType' /\ queue' \in SUBSET Agents
    BY <1>5 DEF SyncAgent, TypeOK, ApiType, CacheType, WorkType, ReferencingSubAgent
  <2>2. TypeOK'
    BY <1>5, <2>1 DEF SyncAgent, TypeOK, ApiType, InputType, WorkType, apiVars, inputVars
  <2>3. CacheIsFresh' /\ HeldIsCurrent'
    BY <1>5 DEF SyncAgent, TypeOK, CacheType, CacheIsFresh, HeldIsCurrent, apiVars
  <2> QED
    BY <2>2, <2>3
<1>6. ASSUME \/ \E a \in Agents : SyncDeployment(a) \/ SyncService(a)
             \/ \E t \in Tools : SyncTool(t)
             \/ \E c \in Configs : SyncConfig(c)
             \/ \E g \in Gateways : SyncGateway(g)
      PROVE  TypeInv'
  <2>1. CacheType'
    BY <1>6 DEF SyncDeployment, SyncService, SyncTool, SyncConfig, SyncGateway, Toggle,
                TypeOK, ApiType, InputType, CacheType
  <2>2. queue' \in SUBSET Agents
    BY <1>6 DEF SyncDeployment, SyncService, SyncTool, SyncConfig, SyncGateway,
                TypeOK, WorkType, ReferencingTool, AllCachedAgents, ReferencingGateway
  <2>3. /\ UNCHANGED <<apiVars, inputVars, cAgents, staleAgents, worker, births, spent>>
        /\ staleDeployments' \in SUBSET Agents /\ staleServices' \in SUBSET Agents
    BY <1>6 DEF SyncDeployment, SyncService, SyncTool, SyncConfig, SyncGateway,
                TypeOK, staleVars
  <2> QED
    BY <2>1, <2>2, <2>3 DEF TypeOK, ApiType, InputType, WorkType, CacheIsFresh,
         HeldIsCurrent, apiVars, inputVars
<1>7. ASSUME NEW a \in Agents, Fetch(a) PROVE TypeInv'
  <2>1. CASE cAgents[a] = None
    BY <1>7, <2>1 DEF Fetch, RuntimeConfigurations, TypeOK, ApiType, InputType, CacheType, WorkType, CacheIsFresh,
         HeldIsCurrent, apiVars, inputVars, cacheVars, envVars, staleVars
  <2>2. CASE cAgents[a] # None
    <3>1. PICK c \in IF cConfigs = {} THEN {None} ELSE cConfigs :
            worker' = [pc |-> IF cConfigs \subseteq {c} THEN "resolve" ELSE "notReady",
                       agent |-> a, held |-> cAgents[a],
                       current |-> a \notin staleAgents,
                       todo |-> cAgents[a].spec.subs \cup cAgents[a].spec.tools,
                       urls |-> NoUrls, config |-> c, gateway |-> None]
      BY <1>7, <2>2 DEF Fetch, RuntimeConfigurations
    <3>2. c \in Configs \cup {None} /\ cAgents[a] \in AgentType
      BY <2>2, <3>1 DEF TypeOK, CacheType
    <3>3. cAgents[a].spec.subs \cup cAgents[a].spec.tools \in SUBSET Refs
      BY <3>2 DEF AgentType, SpecType, Refs
    <3>4. worker' \in WorkerType /\ worker'.pc # "idle"
      BY <3>1, <3>2, <3>3 DEF WorkerType, NoUrls
    <3>5. WorkType'
      BY <1>7, <3>1, <3>2, <3>4 DEF WorkType, TypeOK, Fetch
    <3>6. UNCHANGED <<apiVars, inputVars, cacheVars, births, spent, staleVars>>
      BY <1>7 DEF Fetch, envVars
    <3>7. HeldIsCurrent'
      BY <3>1, <3>6 DEF HeldIsCurrent, CacheIsFresh, apiVars, cacheVars, staleVars
    <3> QED
      BY <3>5, <3>6, <3>7 DEF TypeOK, ApiType, InputType, CacheType, CacheIsFresh,
           apiVars, inputVars, cacheVars, staleVars
  <2> QED
    BY <2>1, <2>2
<1>8. ASSUME \/ \E r \in Refs : Resolve(r)
             \/ ResolveFailed \/ ResolveGateway \/ DeploymentRejected \/ ServiceRejected
      PROVE  TypeInv'
  <2>1. worker.pc # "idle" /\ UNCHANGED <<apiVars, envVars, staleVars, queue>>
    BY <1>8 DEF Resolve, ResolveFailed, ResolveGateway, DeploymentRejected, ServiceRejected
  <2>2. /\ worker' \in WorkerType /\ worker'.pc # "idle"
        /\ worker'.agent = worker.agent /\ worker'.held = worker.held
        /\ worker'.current = worker.current
    <3>1. ASSUME NEW r \in Refs, Resolve(r) PROVE <2>2
      <4>1. PublishedUrl(cAgents, cTools, r) \in Urls \cup {None}
        BY DEF PublishedUrl, TypeOK, CacheType, AgentType, StatusType, Refs, Urls
      <4> QED
        BY <3>1, <4>1 DEF Resolve, TypeOK, WorkType, WorkerType
    <3>2. ASSUME ResolveFailed \/ DeploymentRejected \/ ServiceRejected PROVE <2>2
      BY <3>2 DEF ResolveFailed, DeploymentRejected, ServiceRejected, Fail, TypeOK, WorkType,
                  WorkerType
    <3>3. ASSUME ResolveGateway PROVE <2>2
      BY <3>3 DEF ResolveGateway, Fail, TypeOK, WorkType, WorkerType
    <3> QED
      BY <1>8, <3>1, <3>2, <3>3
  <2> QED
    BY <2>1, <2>2 DEF TypeOK, ApiType, InputType, CacheType, WorkType, CacheIsFresh,
         HeldIsCurrent, apiVars, inputVars, cacheVars, envVars, staleVars
<1>9. CASE EnsureDeployment \/ EnsureService
  <2>1. /\ worker.pc # "idle"
        /\ UNCHANGED <<agents, envVars, staleAgents, queue>>
    BY <1>9 DEF EnsureDeployment, EnsureService
  <2>2. /\ worker' \in WorkerType /\ worker'.pc # "idle"
        /\ worker'.agent = worker.agent /\ worker'.held = worker.held
        /\ worker'.current = worker.current
    BY <1>9 DEF EnsureDeployment, EnsureService, Goto, TypeOK, WorkType, WorkerType
  <2>3. worker.agent \in Agents /\ worker.held \in AgentType /\ worker \in WorkerType
    BY <2>1 DEF TypeOK, WorkType
  <2>4. WantedDeployment \in DeploymentType
    BY <2>3 DEF WantedDeployment, DeploymentType, AgentType, WorkerType
  <2>5. WantedService \in ServiceType \cup {None}
    BY <2>3 DEF WantedService, ServiceType, AgentType, SpecType
  <2>6. /\ deployments' \in [Agents -> DeploymentType \cup {None}]
        /\ services' \in [Agents -> ServiceType \cup {None}]
        /\ staleDeployments' \in SUBSET Agents /\ staleServices' \in SUBSET Agents
    BY <1>9, <2>3, <2>4, <2>5 DEF EnsureDeployment, EnsureService, TypeOK, ApiType
  <2> QED
    BY <2>1, <2>2, <2>6 DEF TypeOK, ApiType, InputType, CacheType, WorkType, CacheIsFresh,
         HeldIsCurrent, inputVars, cacheVars, envVars
<1>10. CASE PublishReady \/ PublishNotReady
  <2>1. /\ worker.pc # "idle" /\ worker' = Idle
        /\ UNCHANGED <<deployments, services, envVars, staleDeployments, staleServices>>
    BY <1>10 DEF PublishReady, PublishNotReady
  <2>2. PICK status \in StatusType : WriteStatus(status)
    BY <1>10, <2>1, StatusTypes DEF PublishReady, PublishNotReady
  <2>3. queue' \in SUBSET Agents
    BY <1>10, <2>1 DEF PublishReady, PublishNotReady, TypeOK, WorkType
  <2> HIDE DEF TypeInv
  <2>4. /\ agents' \in [Agents -> AgentType \cup {None}]
        /\ staleAgents' \in SUBSET Agents
        /\ \A a \in Agents : a \notin staleAgents' =>
             a \notin staleAgents /\ agents'[a] = agents[a]
    BY <2>1, <2>2, WriteStatusType
  <2> USE DEF TypeInv
  <2> QED
    BY <2>1, <2>3, <2>4 DEF TypeOK, ApiType, InputType, CacheType, WorkType, CacheIsFresh,
         HeldIsCurrent, inputVars, cacheVars, envVars
<1>11. CASE ApiFault
  <2>1. UNCHANGED <<apiVars, inputVars, cacheVars, staleVars, births>>
    BY <1>11 DEF ApiFault
  <2>2. spent' \in [edits : Nat, deletes : Nat, bumps : Nat, faults : Nat, crashes : Nat]
    BY <1>11 DEF ApiFault, TypeOK
  <2>3. WorkType' /\ HeldIsCurrent'
    BY <1>11, <2>1 DEF ApiFault, Fail, TypeOK, WorkType, WorkerType, HeldIsCurrent,
         apiVars, staleVars
  <2> QED
    BY <2>1, <2>2, <2>3 DEF TypeOK, ApiType, InputType, CacheType, CacheIsFresh,
         apiVars, inputVars, cacheVars, staleVars
<1>12. CASE Restart
  <2>1. WorkType' /\ HeldIsCurrent'
    BY <1>12 DEF Restart, WorkType, HeldIsCurrent
  <2>2. TypeOK'
    BY <1>12, <2>1 DEF Restart, TypeOK, ApiType, InputType, CacheType, apiVars, inputVars
  <2>3. CacheIsFresh'
    BY <1>12 DEF Restart, CacheIsFresh, apiVars
  <2> QED
    BY <2>1, <2>2, <2>3
<1>13. CASE UNCHANGED vars
  BY <1>13 DEF vars, TypeOK, ApiType, InputType, CacheType, WorkType, CacheIsFresh,
       HeldIsCurrent, apiVars, inputVars, cacheVars, staleVars
<1> QED
  BY <1>1, <1>2, <1>3, <1>4, <1>5, <1>6, <1>7, <1>8, <1>9, <1>10, <1>11, <1>12, <1>13
  DEF Next, Environment, Informers, Proceed

\* In every reachable state each variable has its type, and a reconcile that has
\* ended leaves nothing behind.
THEOREM TypeCorrect == Spec => []TypeOK
<1>1. TypeInv => TypeOK
  BY DEF TypeInv
<1> QED
  BY <1>1, TypeInit, TypeStep, PTL DEF Spec

-----------------------------------------------------------------------------
\* A Deployment is only ever about to be written with every URL resolved.
ResolvedBeforeRollout ==
  worker.pc = "deployment" =>
    \A r \in worker.held.spec.subs \cup worker.held.spec.tools : worker.urls[r] # None

ResolvedInv == NoUnresolvedRollout /\ ResolvedBeforeRollout

\* A write of a user touches nothing of the worker but its being current.
LEMMA OutdateKeeps ==
  ASSUME TypeInv, NEW a \in Agents, worker' = Outdate(a)
  PROVE  /\ worker'.pc = worker.pc /\ worker'.agent = worker.agent
         /\ worker'.held = worker.held /\ worker'.urls = worker.urls
         /\ worker'.current = (worker.current /\ worker.agent # a)
  BY DEF Outdate, TypeInv, TypeOK, WorkType, WorkerType

LEMMA ResolvedStep == TypeInv /\ ResolvedInv /\ [Next]_vars => ResolvedInv'
<1> SUFFICES ASSUME TypeInv, ResolvedInv, [Next]_vars PROVE ResolvedInv'
  OBVIOUS
<1> USE DEF ResolvedInv
<1>1. CASE UNCHANGED deployments /\ (UNCHANGED worker \/ worker'.pc # "deployment")
  BY <1>1 DEF NoUnresolvedRollout, ResolvedBeforeRollout
<1>2. ASSUME NEW a \in Agents, (\E s \in SpecsOf[a] : Apply(a, s)) \/ Delete(a)
      PROVE  ResolvedInv'
  BY <1>2, OutdateKeeps DEF Apply, Delete, NoUnresolvedRollout, ResolvedBeforeRollout
<1>3. ASSUME NEW a \in Agents, CollectDeployment(a) PROVE ResolvedInv'
  BY <1>3 DEF CollectDeployment, TypeInv, TypeOK, ApiType,
              NoUnresolvedRollout, ResolvedBeforeRollout
<1>4. CASE ResolveGateway
  <2>1. NoUnresolvedRollout'
    BY <1>4 DEF ResolveGateway, apiVars, NoUnresolvedRollout
  <2>2. ResolvedBeforeRollout'
    BY <1>4 DEF ResolveGateway, Fail, Unresolved, TypeInv, TypeOK, WorkType, WorkerType,
                ResolvedBeforeRollout
  <2> QED
    BY <2>1, <2>2
<1>5. CASE EnsureDeployment
  <2>1. worker \in WorkerType
    BY DEF TypeInv, TypeOK, WorkType
  <2>2. ResolvedBeforeRollout'
    BY <1>5, <2>1 DEF EnsureDeployment, Goto, WorkerType, ResolvedBeforeRollout
  <2>3. \A r \in WantedDeployment.spec.subs \cup WantedDeployment.spec.tools :
          WantedDeployment.urls[r] # None
    BY <1>5 DEF EnsureDeployment, WantedDeployment, ResolvedBeforeRollout
  <2>4. \A a \in Agents : deployments'[a] \in {deployments[a], WantedDeployment}
    BY <1>5 DEF EnsureDeployment, TypeInv, TypeOK, ApiType
  <2>5. NoUnresolvedRollout'
    BY <2>3, <2>4 DEF NoUnresolvedRollout
  <2> QED
    BY <2>2, <2>5
<1>6. ASSUME NEW r \in Refs, Resolve(r) PROVE ResolvedInv'
  BY <1>1, <1>6 DEF Resolve, TypeInv, TypeOK, WorkType, WorkerType, apiVars
<1>7. CASE \/ ResolveFailed \/ DeploymentRejected \/ EnsureService \/ ServiceRejected
           \/ PublishReady \/ PublishNotReady \/ ApiFault \/ Restart
           \/ \E a \in Agents : Fetch(a)
  <2>1. CASE \/ ResolveFailed \/ DeploymentRejected \/ EnsureService \/ ServiceRejected
             \/ PublishReady \/ PublishNotReady
    BY <1>1, <2>1, IdleType DEF ResolveFailed, DeploymentRejected, EnsureService,
       ServiceRejected, PublishReady, PublishNotReady, Fail, Goto,
       TypeInv, TypeOK, WorkType, WorkerType, apiVars
  <2>2. CASE ApiFault \/ Restart
    BY <1>1, <2>2, IdleType DEF ApiFault, Restart, Fail, TypeInv, TypeOK, WorkType,
       WorkerType, apiVars
  <2>3. ASSUME NEW a \in Agents, Fetch(a) PROVE ResolvedInv'
    BY <1>1, <2>3 DEF Fetch, apiVars
  <2> QED
    BY <1>7, <2>1, <2>2, <2>3
<1>8. CASE \/ \E a \in Agents : CollectService(a) \/ BumpDeployment(a)
           \/ \E t \in Tools, u \in ToolUrls \cup {None} : ChangeTool(t, u)
           \/ \E c \in Configs : ChangeConfig(c)
           \/ \E g \in Gateways : ChangeGateway(g)
           \/ Informers
           \/ UNCHANGED vars
  BY <1>1, <1>8 DEF CollectService, BumpDeployment, ChangeTool, ChangeConfig,
     ChangeGateway, Informers, SyncAgent, SyncDeployment, SyncService, SyncTool, SyncConfig,
     SyncGateway, vars, apiVars
<1> QED
  BY <1>2, <1>3, <1>4, <1>5, <1>6, <1>7, <1>8 DEF Next, Environment, Proceed

\* No Deployment ever carries an empty URL for a sub-agent or tool of its spec.
THEOREM EveryRolloutResolved == Spec => []NoUnresolvedRollout
<1>1. Init => ResolvedInv
  BY IdleType DEF Init, ResolvedInv, NoUnresolvedRollout, ResolvedBeforeRollout
<1>2. ResolvedInv => NoUnresolvedRollout
  BY DEF ResolvedInv
<1> QED
  BY <1>1, <1>2, TypeInit, TypeStep, ResolvedStep, PTL DEF Spec

-----------------------------------------------------------------------------
\* Two copies of an Agent that differ in their status at most
SameDemand(x, y) ==
  /\ x # None /\ y # None
  /\ x.uid = y.uid /\ x.generation = y.generation /\ x.spec = y.spec

\* A status never runs ahead of its Agent; once it observes the generation that is
\* stored, the cache and the worker have that generation too, so that no older
\* spec can be rolled out any more.
ObservedIsKnown ==
  \A a \in Agents : agents[a] # None =>
    /\ agents[a].status.observed \leq agents[a].generation
    /\ agents[a].status.observed = agents[a].generation =>
         /\ SameDemand(agents[a], cAgents[a])
         /\ worker.pc # "idle" /\ worker.agent = a => SameDemand(agents[a], worker.held)

\* Past ensureDeployment, a worker whose copy is current has its Deployment in place.
InPlace ==
  /\ worker.pc \in {"service", "ready"} /\ worker.current
  /\ worker.held.spec.port # None
  => /\ deployments[worker.agent] # None
     /\ deployments[worker.agent].owner = worker.held.uid
     /\ deployments[worker.agent].spec = worker.held.spec

RolloutInv == ObservedIsKnown /\ InPlace /\ ReadyIsRolledOut

\* Where the worker goes within a reconcile, it holds on to what it holds.
LEMMA WorkerMoves ==
  ASSUME TypeInv,
         \/ \E r \in Refs : Resolve(r)
         \/ ResolveFailed \/ ResolveGateway \/ DeploymentRejected \/ ServiceRejected
  PROVE  /\ worker'.agent = worker.agent /\ worker'.held = worker.held
         /\ worker.pc # "idle" /\ worker'.pc \notin {"idle", "service", "ready"}
         /\ UNCHANGED <<apiVars, envVars, staleVars, queue>>
<1>1. ASSUME NEW r \in Refs, Resolve(r)
      PROVE  worker'.agent = worker.agent /\ worker'.held = worker.held /\ worker'.pc = worker.pc
  BY <1>1 DEF Resolve, TypeInv, TypeOK, WorkType, WorkerType
<1>2. CASE ResolveFailed \/ ResolveGateway \/ DeploymentRejected \/ ServiceRejected
  BY <1>2 DEF ResolveFailed, ResolveGateway, DeploymentRejected, ServiceRejected, Fail,
     TypeInv, TypeOK, WorkType, WorkerType
<1> QED
  BY <1>1, <1>2 DEF Resolve

\* What ensureDeployment leaves behind
LEMMA EnsureDeploymentWrites ==
  ASSUME TypeInv, EnsureDeployment
  PROVE  /\ worker.agent \in Agents /\ worker.held \in AgentType
         /\ \A b \in Agents \ {worker.agent} : deployments'[b] = deployments[b]
         /\ deployments'[worker.agent] \in {deployments[worker.agent], WantedDeployment}
         /\ worker.held.spec.port # None => deployments'[worker.agent] = WantedDeployment
  BY DEF EnsureDeployment, SendsDeployment, TypeInv, TypeOK, ApiType, WorkType

\* What a status write leaves behind
LEMMA WriteStatusWrites ==
  ASSUME TypeInv, worker.pc # "idle", NEW status \in StatusType, WriteStatus(status)
  PROVE  /\ \A b \in Agents \ {worker.agent} : agents'[b] = agents[b]
         /\ \/ agents' = agents
            \/ /\ worker.agent \in Agents /\ worker.current
               /\ agents[worker.agent] = worker.held /\ worker.held \in AgentType
               /\ cAgents[worker.agent] = worker.held
               /\ agents'[worker.agent] = [worker.held EXCEPT !.status = status]
<1>1. worker.agent \in Agents /\ worker.held \in AgentType
  BY DEF TypeInv, TypeOK, WorkType
<1>2. agents \in [Agents -> AgentType \cup {None}]
  BY DEF TypeInv, TypeOK, ApiType
<1>3. worker.current => /\ agents[worker.agent] = worker.held
                        /\ cAgents[worker.agent] = worker.held
  BY <1>1 DEF TypeInv, CacheIsFresh, HeldIsCurrent
<1> QED
  BY <1>1, <1>2, <1>3 DEF WriteStatus

LEMMA RolloutStep == TypeInv /\ RolloutInv /\ [Next]_vars => RolloutInv'
<1> SUFFICES ASSUME TypeInv, RolloutInv, [Next]_vars PROVE RolloutInv'
  OBVIOUS
<1> USE DEF RolloutInv
<1>t. /\ agents \in [Agents -> AgentType \cup {None}]
      /\ cAgents \in [Agents -> AgentType \cup {None}]
      /\ deployments \in [Agents -> DeploymentType \cup {None}]
      /\ worker.pc # "idle" => worker.agent \in Agents /\ worker.held \in AgentType
  BY DEF TypeInv, TypeOK, ApiType, CacheType, WorkType
<1>n. \A a \in Agents : agents[a] # None =>
        agents[a].status.observed \in Nat /\ agents[a].generation \in Nat
  BY <1>t DEF AgentType, StatusType
<1>1. CASE UNCHANGED <<agents, cAgents, deployments, worker>>
  BY <1>1 DEF ObservedIsKnown, SameDemand, InPlace, ReadyIsRolledOut
<1>2. ASSUME NEW a \in Agents, NEW s \in SpecsOf[a], Apply(a, s) PROVE RolloutInv'
  <2>1. /\ \A b \in Agents \ {a} : agents'[b] = agents[b]
        /\ agents'[a].status.observed < agents'[a].generation
        /\ UNCHANGED <<cAgents, deployments>>
    <3>1. CASE agents[a] = None
      BY <1>2, <1>t, <3>1 DEF Apply, NewAgent, BlankStatus, cacheVars
    <3>2. CASE agents[a] # None
      <4>1. /\ agents' = [agents EXCEPT ![a] = [agents[a] EXCEPT !.spec = s,
                            !.generation = agents[a].generation + 1]]
            /\ UNCHANGED <<cAgents, deployments>>
        BY <1>2, <1>t, <3>2 DEF Apply, cacheVars
      <4>2. PICK n \in Nat : n = agents[a].generation + 1
        BY <1>n, <3>2
      <4>3. agents'[a].status = agents[a].status /\ agents'[a].generation = n
        BY <1>t, <3>2, <4>1, <4>2 DEF AgentType
      <4>4. agents[a].status.observed < n
        BY <1>n, <3>2, <4>2 DEF ObservedIsKnown
      <4> QED
        BY <1>t, <4>1, <4>3, <4>4
    <3> QED
      BY <3>1, <3>2
  <2>2. /\ worker'.pc = worker.pc /\ worker'.agent = worker.agent
        /\ worker'.held = worker.held
        /\ worker'.current = (worker.current /\ worker.agent # a)
    BY <1>2, OutdateKeeps DEF Apply
  <2>3. agents'[a] # None =>
          /\ agents'[a].status.observed \leq agents'[a].generation
          /\ agents'[a].status.observed # agents'[a].generation
    <3>1. ApiType'
      BY TypeStep DEF TypeInv, TypeOK
    <3> QED
      BY <2>1, <3>1 DEF ApiType, AgentType, StatusType
  <2>4. ObservedIsKnown'
    BY <2>1, <2>2, <2>3 DEF ObservedIsKnown, SameDemand
  <2>5. InPlace'
    BY <2>1, <2>2 DEF InPlace
  <2>6. ReadyIsRolledOut'
    BY <2>1, <2>3 DEF ReadyIsRolledOut
  <2> QED
    BY <2>4, <2>5, <2>6
<1>3. ASSUME NEW a \in Agents, Delete(a) PROVE RolloutInv'
  <2>1. /\ \A b \in Agents \ {a} : agents'[b] = agents[b]
        /\ agents'[a] = None
        /\ UNCHANGED <<cAgents, deployments>>
    BY <1>3, <1>t DEF Delete, cacheVars
  <2>2. /\ worker'.pc = worker.pc /\ worker'.agent = worker.agent
        /\ worker'.held = worker.held
        /\ worker'.current = (worker.current /\ worker.agent # a)
    BY <1>3, OutdateKeeps DEF Delete
  <2>3. ObservedIsKnown'
    BY <2>1, <2>2 DEF ObservedIsKnown, SameDemand
  <2>4. InPlace'
    BY <2>1, <2>2 DEF InPlace
  <2>5. ReadyIsRolledOut'
    BY <2>1 DEF ReadyIsRolledOut
  <2> QED
    BY <2>3, <2>4, <2>5
<1>4. ASSUME NEW a \in Agents, CollectDeployment(a) PROVE RolloutInv'
  <2>1. /\ \A b \in Agents \ {a} : deployments'[b] = deployments[b]
        /\ agents[a] # None => agents[a].uid # deployments[a].owner
        /\ UNCHANGED <<agents, cAgents, worker>>
    BY <1>4, <1>t DEF CollectDeployment, Orphaned, cacheVars
  <2>2. ReadyIsRolledOut'
    BY <2>1 DEF ReadyIsRolledOut
  <2>3. InPlace'
    BY <1>t, <2>1, NoneAssumption DEF InPlace, TypeInv, HeldIsCurrent
  <2> QED
    BY <2>1, <2>2, <2>3 DEF ObservedIsKnown, SameDemand
<1>5. ASSUME NEW a \in Agents, SyncAgent(a) PROVE RolloutInv'
  <2>1. /\ \A b \in Agents \ {a} : cAgents'[b] = cAgents[b]
        /\ cAgents'[a] = agents[a]
        /\ UNCHANGED <<agents, deployments, worker>>
    BY <1>5, <1>t DEF SyncAgent, apiVars
  <2> QED
    BY <2>1 DEF ObservedIsKnown, SameDemand, InPlace, ReadyIsRolledOut
<1>6. ASSUME NEW a \in Agents, Fetch(a) PROVE RolloutInv'
  <2>1. UNCHANGED <<agents, cAgents, deployments>>
    BY <1>6 DEF Fetch, RuntimeConfigurations, apiVars, envVars, cacheVars
  <2>2. CASE UNCHANGED worker
    BY <1>1, <2>1, <2>2
  <2>3. CASE /\ worker'.pc \notin {"service", "ready"} /\ worker'.agent = a
             /\ worker'.held = cAgents[a]
    BY <2>1, <2>3 DEF ObservedIsKnown, SameDemand, InPlace, ReadyIsRolledOut
  <2> QED
    BY <1>6, <2>2, <2>3 DEF Fetch, RuntimeConfigurations
<1>7. CASE \/ \E r \in Refs : Resolve(r)
           \/ ResolveFailed \/ ResolveGateway \/ DeploymentRejected \/ ServiceRejected
  <2>1. /\ UNCHANGED <<agents, cAgents, deployments>>
        /\ worker.pc # "idle" /\ worker'.pc \notin {"service", "ready"}
        /\ worker'.agent = worker.agent /\ worker'.held = worker.held
    BY <1>7, WorkerMoves DEF apiVars, envVars, cacheVars
  <2> QED
    BY <2>1 DEF ObservedIsKnown, SameDemand, InPlace, ReadyIsRolledOut
<1>8. CASE EnsureDeployment
  <2>1. /\ worker.pc # "idle" /\ UNCHANGED <<agents, cAgents>>
        /\ worker'.agent = worker.agent /\ worker'.held = worker.held
        /\ worker'.current = worker.current
    BY <1>8 DEF EnsureDeployment, Goto, envVars, cacheVars, TypeInv, TypeOK, WorkType, WorkerType
  <2>2. ObservedIsKnown'
    BY <2>1 DEF ObservedIsKnown, SameDemand
  <2>3. worker.held.spec.port # None =>
          /\ deployments'[worker.agent] # None
          /\ deployments'[worker.agent].owner = worker.held.uid
          /\ deployments'[worker.agent].spec = worker.held.spec
    <3>1. WantedDeployment \in DeploymentType
      BY <1>t, <2>1 DEF WantedDeployment, DeploymentType, AgentType, TypeInv, TypeOK,
         WorkType, WorkerType
    <3> QED
      BY <1>8, <3>1, EnsureDeploymentWrites, NoneAssumption DEF WantedDeployment
  <2>4. InPlace'
    BY <2>1, <2>3 DEF InPlace
  <2>5. ASSUME NEW a \in Agents, agents[a] # None, agents[a].spec.port # None,
               agents[a].status.ready = "True",
               agents[a].status.observed = agents[a].generation
        PROVE  /\ deployments'[a] # None
               /\ deployments'[a].spec = agents[a].spec
               /\ deployments'[a].owner = agents[a].uid
    <3>1. CASE worker.agent = a
      BY <2>1, <2>3, <2>5, <3>1 DEF ObservedIsKnown, SameDemand
    <3>2. CASE worker.agent # a
      BY <1>8, <2>5, <3>2, EnsureDeploymentWrites DEF ReadyIsRolledOut
    <3> QED
      BY <3>1, <3>2
  <2>6. ReadyIsRolledOut'
    BY <2>1, <2>5 DEF ReadyIsRolledOut
  <2> QED
    BY <2>2, <2>4, <2>6
<1>9. CASE EnsureService
  <2>1. /\ worker.pc = "service" /\ UNCHANGED <<agents, cAgents, deployments>>
        /\ worker'.agent = worker.agent /\ worker'.held = worker.held
        /\ worker'.current = worker.current
    BY <1>9 DEF EnsureService, Goto, envVars, cacheVars, TypeInv, TypeOK, WorkType, WorkerType
  <2> QED
    BY <2>1 DEF ObservedIsKnown, SameDemand, InPlace, ReadyIsRolledOut
<1>10. CASE PublishReady \/ PublishNotReady
  <2>1. /\ worker.pc # "idle" /\ worker' = Idle /\ worker'.pc = "idle"
        /\ UNCHANGED <<cAgents, deployments>>
    BY <1>10, IdleType DEF PublishReady, PublishNotReady, envVars, cacheVars
  <2>2. PICK status \in StatusType :
          /\ WriteStatus(status)
          /\ (status = ReadyStatus /\ worker.pc = "ready") \/ status = NotReadyStatus
    BY <1>10, <2>1, StatusTypes DEF PublishReady, PublishNotReady, TypeInv
  <2>3. InPlace'
    BY <2>1 DEF InPlace
  <2>4. CASE agents' = agents
    BY <2>1, <2>3, <2>4 DEF ObservedIsKnown, SameDemand, ReadyIsRolledOut
  <2>5. CASE /\ worker.agent \in Agents /\ worker.current
             /\ agents[worker.agent] = worker.held /\ worker.held \in AgentType
             /\ cAgents[worker.agent] = worker.held
             /\ agents'[worker.agent] = [worker.held EXCEPT !.status = status]
    <3> DEFINE a == worker.agent
    <3>1. /\ agents'[a].uid = worker.held.uid /\ agents'[a].spec = worker.held.spec
          /\ agents'[a].generation = worker.held.generation
          /\ agents'[a].status = status
      BY <2>5 DEF AgentType
    <3>2. \A b \in Agents \ {a} : agents'[b] = agents[b]
      BY <2>1, <2>2, WriteStatusWrites
    <3>3. status.observed = worker.held.generation /\ worker.held.generation \in Nat
      BY <2>2, <2>5 DEF ReadyStatus, NotReadyStatus, AgentType
    <3>4. worker.held # None
      BY <2>5, NoneAssumption
    <3>5. ObservedIsKnown'
      <4> SUFFICES ASSUME NEW b \in Agents, agents'[b] # None
                   PROVE  /\ agents'[b].status.observed \leq agents'[b].generation
                          /\ agents'[b].status.observed = agents'[b].generation =>
                               SameDemand(agents'[b], cAgents[b])
        BY <2>1 DEF ObservedIsKnown
      <4>1. CASE b = a
        <5>1. /\ agents'[b].status.observed = worker.held.generation
              /\ agents'[b].generation = worker.held.generation
          BY <3>1, <3>3, <4>1
        <5>2. agents'[b].status.observed \leq agents'[b].generation
          BY <3>3, <5>1
        <5>3. cAgents[b] = worker.held /\ agents'[b] # None
          BY <2>5, <4>1
        <5>4. SameDemand(agents'[b], cAgents[b])
          BY <3>1, <3>4, <4>1, <5>3 DEF SameDemand
        <5> QED
          BY <5>2, <5>4
      <4>2. CASE b # a
        <5>1. agents'[b] = agents[b]
          BY <3>2, <4>2
        <5>2. /\ agents[b].status.observed \leq agents[b].generation
              /\ agents[b].status.observed = agents[b].generation =>
                   SameDemand(agents[b], cAgents[b])
          BY <5>1 DEF ObservedIsKnown
        <5> QED
          BY <5>1, <5>2
      <4> QED
        BY <4>1, <4>2
    <3>6. status.ready = "True" =>
            worker.pc = "ready" /\ status.url = CardUrl(a, worker.held.spec)
      BY <2>2 DEF ReadyStatus, NotReadyStatus
    <3>7. ReadyIsRolledOut'
      <4>1. status.ready = "True" /\ worker.held.spec.port # None =>
              /\ deployments[a] # None /\ deployments[a].owner = worker.held.uid
              /\ deployments[a].spec = worker.held.spec
        BY <2>5, <3>6 DEF InPlace
      <4>2. ASSUME NEW b \in Agents, agents'[b] # None, agents'[b].spec.port # None,
                   agents'[b].status.ready = "True",
                   agents'[b].status.observed = agents'[b].generation
            PROVE  /\ deployments[b] # None /\ deployments[b].spec = agents'[b].spec
                   /\ deployments[b].owner = agents'[b].uid
                   /\ agents'[b].status.url = CardUrl(b, agents'[b].spec)
        <5>1. CASE b = a
          BY <3>1, <3>6, <4>1, <4>2, <5>1
        <5>2. CASE b # a
          BY <3>2, <4>2, <5>2 DEF ReadyIsRolledOut
        <5> QED
          BY <5>1, <5>2
      <4> QED
        BY <2>1, <4>2 DEF ReadyIsRolledOut
    <3> QED
      BY <2>3, <3>5, <3>7
  <2> QED
    BY <2>1, <2>2, <2>4, <2>5, WriteStatusWrites
<1>11. CASE ApiFault
  <2>1. /\ UNCHANGED <<agents, cAgents, deployments>>
        /\ \/ worker'.pc = "idle"
           \/ /\ worker.pc # "idle" /\ worker'.pc = "notReady"
              /\ worker'.agent = worker.agent /\ worker'.held = worker.held
    BY <1>11, IdleType DEF ApiFault, Fail, apiVars, cacheVars, TypeInv, TypeOK, WorkType,
       WorkerType
  <2> QED
    BY <2>1 DEF ObservedIsKnown, SameDemand, InPlace, ReadyIsRolledOut
<1>12. CASE Restart
  <2>1. /\ UNCHANGED <<agents, deployments>>
        /\ cAgents' = agents /\ worker'.pc = "idle"
    BY <1>12, IdleType DEF Restart, apiVars
  <2> QED
    BY <2>1 DEF ObservedIsKnown, SameDemand, InPlace, ReadyIsRolledOut
<1>13. CASE \/ \E a \in Agents : \/ CollectService(a) \/ BumpDeployment(a)
                                 \/ SyncDeployment(a) \/ SyncService(a)
            \/ \E t \in Tools : SyncTool(t) \/ \E u \in ToolUrls \cup {None} : ChangeTool(t, u)
            \/ \E c \in Configs : ChangeConfig(c) \/ SyncConfig(c)
            \/ \E g \in Gateways : ChangeGateway(g) \/ SyncGateway(g)
            \/ UNCHANGED vars
  BY <1>1, <1>13 DEF CollectService, BumpDeployment, ChangeTool, ChangeConfig,
     ChangeGateway, SyncDeployment, SyncService, SyncTool, SyncConfig,
     SyncGateway, vars, apiVars, cacheVars
<1> QED
  BY <1>2, <1>3, <1>4, <1>5, <1>6, <1>7, <1>8, <1>9, <1>10, <1>11, <1>12, <1>13
  DEF Next, Environment, Informers, Proceed

LEMMA RolloutInit == Init => RolloutInv
<1> SUFFICES ASSUME Init PROVE RolloutInv
  OBVIOUS
<1>1. \A a \in Agents : agents[a] # None =>
        agents[a].generation = 1 /\ agents[a].status = BlankStatus
  <2>1. PICK chosen : agents = [a \in Agents |->
                         IF chosen[a] = None THEN None ELSE NewAgent(chosen[a], 1)]
    BY DEF Init
  <2> QED
    BY <2>1 DEF NewAgent
<1>2. ObservedIsKnown /\ ReadyIsRolledOut
  BY <1>1 DEF ObservedIsKnown, ReadyIsRolledOut, BlankStatus
<1>3. InPlace
  BY IdleType DEF Init, InPlace
<1> QED
  BY <1>2, <1>3 DEF RolloutInv

\* Whoever reads a Ready status of the current generation finds the Deployment of
\* that generation, whatever conflicts, stale reads, deletions, faults and crashes
\* lie between: the status and the Deployment are two objects written one after
\* the other, from a cache, by a worker that never checks either again.
THEOREM ReadyMeansRolledOut == Spec => []ReadyIsRolledOut
<1>1. RolloutInv => ReadyIsRolledOut
  BY DEF RolloutInv
<1> QED
  BY <1>1, TypeInit, TypeStep, RolloutInit, RolloutStep, PTL DEF Spec

-----------------------------------------------------------------------------
\* A step that leaves all Agents but one alone changes what is wanted and published
\* there only.
LEMMA OneAgent ==
  ASSUME NEW a \in Agents, \A b \in Agents \ {a} : agents'[b] = agents[b]
  PROVE  /\ Promise!Touches(Wanted, Wanted', a)
         /\ Promise!Touches(Published, Published', a)
<1>1. \A b \in Agents \ {a} : Wanted'[b] = Wanted[b] /\ Published'[b] = Published[b]
  BY DEF Wanted, Published
<1>2. Wanted = [b \in Agents |-> Wanted[b]] /\ Wanted' = [b \in Agents |-> Wanted'[b]]
  BY DEF Wanted
<1>3. Published = [b \in Agents |-> Published[b]] /\ Published' = [b \in Agents |-> Published'[b]]
  BY DEF Published
<1> QED
  BY <1>1, <1>2, <1>3 DEF Promise!Touches

LEMMA OneDeployment ==
  ASSUME NEW a \in Agents, \A b \in Agents \ {a} : deployments'[b] = deployments[b]
  PROVE  Promise!Touches(RolledOut, RolledOut', a)
<1>1. \A b \in Agents \ {a} : RolledOut'[b] = RolledOut[b]
  BY DEF RolledOut
<1>2. RolledOut = [b \in Agents |-> RolledOut[b]] /\ RolledOut' = [b \in Agents |-> RolledOut'[b]]
  BY DEF RolledOut
<1> QED
  BY <1>1, <1>2 DEF Promise!Touches

LEMMA DemandedType ==
  ASSUME NEW a \in Agents, NEW x \in AgentType
  PROVE  Demanded(a, x) \in DemandType /\ Demanded(a, x) # None
<1>1. CardUrl(a, x.spec) \in Urls \cup {None}
  BY DEF CardUrl, Urls, AgentType, SpecType
<1> QED
  BY <1>1, NoneAssumption DEF Demanded, DemandType, AgentType

LEMMA PromiseInit == Init => Promise!Init
<1> SUFFICES ASSUME Init PROVE Promise!Init
  OBVIOUS
<1>1. \A a \in Agents : agents[a] # None =>
        agents[a].generation = 1 /\ agents[a].status = BlankStatus
  <2>1. PICK chosen : agents = [a \in Agents |->
                         IF chosen[a] = None THEN None ELSE NewAgent(chosen[a], 1)]
    BY DEF Init
  <2> QED
    BY <2>1 DEF NewAgent
<1>2. /\ Wanted = [a \in Agents |-> Wanted[a]]
      /\ \A a \in Agents : Wanted[a] # None => Wanted[a].generation = 1
  BY <1>1 DEF Wanted, Demanded
<1>3. RolledOut = [a \in Agents |-> None]
  BY DEF Init, RolledOut
<1>4. Published = [a \in Agents |-> Promise!Blank]
  BY <1>1 DEF Published, BlankStatus, Promise!Blank
<1> QED
  BY <1>2, <1>3, <1>4 DEF Promise!Init

\* A Deployment of a that changes under a claim is the one the claim is about.
LEMMA PromiseRollOut ==
  ASSUME TypeInv, RolloutInv', NEW a \in Agents, UNCHANGED agents,
         \A b \in Agents \ {a} : deployments'[b] = deployments[b]
  PROVE  Promise!RollOut(a)
<1>1. UNCHANGED <<Wanted, Published>>
  BY DEF Wanted, Published
<1>2. Promise!Touches(RolledOut, RolledOut', a)
  BY OneDeployment
<1>3. ASSUME Promise!Claims(a)
      PROVE  RolledOut'[a] = [owner |-> Wanted'[a].uid, spec |-> Wanted'[a].spec]
  <2>1. /\ agents[a] # None /\ agents[a].spec.port # None
        /\ agents[a].status.ready = "True"
        /\ agents[a].status.observed = agents[a].generation
    BY <1>3 DEF Promise!Claims, Wanted, Demanded, Published, CardUrl
  <2>2. /\ deployments'[a] # None
        /\ deployments'[a].spec = agents[a].spec /\ deployments'[a].owner = agents[a].uid
    BY <2>1 DEF RolloutInv, ReadyIsRolledOut
  <2> QED
    BY <1>1, <2>1, <2>2 DEF Wanted, Demanded, RolledOut
<1> QED
  BY <1>1, <1>2, <1>3 DEF Promise!RollOut, Promise!Fulfilled

LEMMA PromiseStep == TypeInv /\ RolloutInv /\ [Next]_vars => [Promise!Next]_(Promise!vars)
<1> SUFFICES ASSUME TypeInv, RolloutInv, [Next]_vars
             PROVE  Promise!Next \/ UNCHANGED <<Wanted, RolledOut, Published>>
  BY DEF Promise!vars
<1>t. agents \in [Agents -> AgentType \cup {None}]
  BY DEF TypeInv, TypeOK, ApiType
<1>i. TypeInv' /\ RolloutInv'
  BY TypeStep, RolloutStep
<1>1. CASE UNCHANGED <<agents, deployments>>
  BY <1>1 DEF Wanted, RolledOut, Published
<1>2. ASSUME NEW a \in Agents, NEW s \in SpecsOf[a], Apply(a, s) PROVE Promise!Next
  <2>1. UNCHANGED RolledOut
    BY <1>2 DEF Apply, RolledOut
  <2>2. \A b \in Agents \ {a} : agents'[b] = agents[b]
    BY <1>2, <1>t DEF Apply
  <2>3. Promise!Touches(Wanted, Wanted', a) /\ Promise!Touches(Published, Published', a)
    BY <2>2, OneAgent
  <2>4. CASE agents[a] = None
    <3>1. agents'[a] = NewAgent(s, births[a] + 1)
      BY <1>2, <1>t, <2>4 DEF Apply
    <3>2. Wanted[a] = None /\ (Wanted'[a] # None => Wanted'[a].generation = 1)
      BY <2>4, <3>1 DEF Wanted, Demanded, NewAgent
    <3>3. Published'[a] = Promise!Blank
      BY <3>1 DEF Published, NewAgent, BlankStatus, Promise!Blank
    <3> QED
      BY <2>1, <2>3, <3>2, <3>3 DEF Promise!Next, Promise!Appear, Promise!Touches
  <2>5. CASE agents[a] # None
    <3>1. agents'[a] = [agents[a] EXCEPT !.spec = s,
                          !.generation = agents[a].generation + 1]
      BY <1>2, <1>t, <2>5 DEF Apply
    <3>2. agents[a] \in AgentType
      BY <1>t, <2>5
    <3>3. /\ agents'[a].uid = agents[a].uid /\ agents'[a].status = agents[a].status
          /\ agents'[a].generation = agents[a].generation + 1
      BY <3>1, <3>2 DEF AgentType
    <3>4. agents'[a] # None
      <4>1. PICK n \in Nat : n = agents[a].generation + 1
        BY <3>2 DEF AgentType
      <4>2. s \in SpecType
        BY SpecAssumption
      <4>3. [agents[a] EXCEPT !.spec = s, !.generation = n] \in AgentType
        BY <3>2, <4>2 DEF AgentType
      <4> QED
        BY <3>1, <4>1, <4>3, NoneAssumption
    <3>5. /\ Wanted[a] # None /\ Wanted'[a] # None
          /\ Wanted'[a].uid = Wanted[a].uid
          /\ Wanted'[a].generation = Wanted[a].generation + 1
      <4>1. Wanted[a] = Demanded(a, agents[a]) /\ Wanted'[a] = Demanded(a, agents'[a])
        BY <2>5, <3>4 DEF Wanted
      <4>2. agents'[a] \in AgentType
        BY <1>i, <3>4 DEF TypeInv, TypeOK, ApiType
      <4> QED
        BY <3>2, <3>3, <4>1, <4>2, DemandedType DEF Demanded
    <3>6. Published'[a] = Published[a]
      BY <2>5, <3>3, <3>4 DEF Published
    <3>7. Published' = Published
      BY <2>3, <3>6 DEF Promise!Touches, Published
    <3> QED
      BY <2>1, <2>3, <3>5, <3>7 DEF Promise!Next, Promise!Amend
  <2> QED
    BY <2>4, <2>5
<1>3. ASSUME NEW a \in Agents, Delete(a) PROVE Promise!Next
  <2>1. /\ \A b \in Agents \ {a} : agents'[b] = agents[b]
        /\ agents'[a] = None
    BY <1>3, <1>t DEF Delete
  <2>2. Promise!Touches(Wanted, Wanted', a) /\ Promise!Touches(Published, Published', a)
    BY <2>1, OneAgent
  <2>3. Wanted'[a] = None /\ Published'[a] = Promise!Blank
    BY <2>1 DEF Wanted, Published, BlankStatus, Promise!Blank
  <2>4. UNCHANGED RolledOut
    BY <1>3 DEF Delete, RolledOut
  <2> QED
    BY <2>2, <2>3, <2>4 DEF Promise!Next, Promise!Appear, Promise!Touches
<1>4. ASSUME NEW a \in Agents, CollectDeployment(a) PROVE Promise!Next
  <2>1. UNCHANGED agents /\ \A b \in Agents \ {a} : deployments'[b] = deployments[b]
    BY <1>4 DEF CollectDeployment, TypeInv, TypeOK, ApiType
  <2> QED
    BY <1>i, <2>1, PromiseRollOut DEF Promise!Next
<1>5. CASE EnsureDeployment
  <2>1. /\ UNCHANGED agents /\ worker.agent \in Agents
        /\ \A b \in Agents \ {worker.agent} : deployments'[b] = deployments[b]
    BY <1>5, EnsureDeploymentWrites DEF EnsureDeployment
  <2> QED
    BY <1>i, <2>1, PromiseRollOut DEF Promise!Next
<1>6. CASE PublishReady \/ PublishNotReady
  <2>1. worker.pc # "idle" /\ UNCHANGED deployments
    BY <1>6 DEF PublishReady, PublishNotReady
  <2>2. PICK status \in StatusType :
          /\ WriteStatus(status)
          /\ (status = ReadyStatus /\ worker.pc = "ready") \/ status = NotReadyStatus
    BY <1>6, <2>1, StatusTypes DEF PublishReady, PublishNotReady, TypeInv
  <2>3. CASE agents' = agents
    BY <1>1, <2>1, <2>3
  <2>4. CASE /\ worker.agent \in Agents /\ worker.current
             /\ agents[worker.agent] = worker.held /\ worker.held \in AgentType
             /\ cAgents[worker.agent] = worker.held
             /\ agents'[worker.agent] = [worker.held EXCEPT !.status = status]
    <3> DEFINE a == worker.agent
    <3>1. \A b \in Agents \ {a} : agents'[b] = agents[b]
      BY <2>1, <2>2, WriteStatusWrites
    <3>2. /\ agents'[a].uid = worker.held.uid /\ agents'[a].spec = worker.held.spec
          /\ agents'[a].generation = worker.held.generation
          /\ agents'[a].status = status /\ agents'[a] \in AgentType
      BY <2>4 DEF AgentType
    <3>3. agents[a] # None /\ agents'[a] # None
      BY <2>4, <3>2, NoneAssumption
    <3>4. Wanted'[a] = Wanted[a] /\ Wanted[a] # None
      <4>1. Wanted[a] = Demanded(a, agents[a]) /\ Wanted'[a] = Demanded(a, agents'[a])
        BY <2>4, <3>3 DEF Wanted
      <4>2. Demanded(a, agents'[a]) = Demanded(a, agents[a])
        BY <2>4, <3>2 DEF Demanded
      <4> QED
        BY <2>4, <4>1, <4>2, DemandedType
    <3>5. Promise!Touches(Wanted, Wanted', a) /\ Promise!Touches(Published, Published', a)
      BY <2>4, <3>1, OneAgent
    <3>6. Wanted' = Wanted
      BY <3>4, <3>5 DEF Promise!Touches, Wanted
    <3>7. /\ Published'[a] = [ready |-> status.ready, url |-> status.url,
                              observed |-> status.observed]
          /\ Wanted[a].generation = worker.held.generation
          /\ Wanted[a].address = CardUrl(a, worker.held.spec)
          /\ Wanted[a].uid = worker.held.uid /\ Wanted[a].spec = worker.held.spec
      BY <2>4, <3>2, <3>3 DEF Published, Wanted, Demanded
    <3>8. UNCHANGED RolledOut
      BY <2>1 DEF RolledOut
    <3>9. CASE status = ReadyStatus /\ worker.pc = "ready"
      <4>1. worker.held.spec.port # None =>
              RolledOut[a] = [owner |-> worker.held.uid, spec |-> worker.held.spec]
        BY <2>4, <3>9 DEF RolledOut, RolloutInv, InPlace
      <4>2. Wanted[a].address # None => worker.held.spec.port # None
        BY <3>7 DEF CardUrl
      <4>3. Wanted[a].address # None => Promise!Fulfilled(a)
        BY <3>7, <4>1, <4>2 DEF Promise!Fulfilled
      <4>4. /\ Published'[a].ready = "True" /\ Published'[a].url = Wanted[a].address
            /\ Published'[a].observed = Wanted[a].generation
        BY <3>7, <3>9 DEF ReadyStatus
      <4> QED
        BY <2>4, <3>4, <3>5, <3>6, <3>8, <4>3, <4>4 DEF Promise!Next, Promise!Publish
    <3>10. CASE status = NotReadyStatus
      <4>1. /\ Published'[a].ready = "False" /\ Published'[a].url = None
            /\ Published'[a].observed = Wanted[a].generation
        BY <3>7, <3>10 DEF NotReadyStatus
      <4> QED
        BY <2>4, <3>4, <3>5, <3>6, <3>8, <4>1 DEF Promise!Next, Promise!Publish
    <3> QED
      BY <2>2, <3>9, <3>10
  <2> QED
    BY <2>1, <2>2, <2>3, <2>4, WriteStatusWrites
<1>7. CASE \/ \E a \in Agents : \/ CollectService(a) \/ BumpDeployment(a) \/ Fetch(a)
           \/ \E t \in Tools, u \in ToolUrls \cup {None} : ChangeTool(t, u)
           \/ \E c \in Configs : ChangeConfig(c)
           \/ \E g \in Gateways : ChangeGateway(g)
           \/ Informers
           \/ \E r \in Refs : Resolve(r)
           \/ ResolveFailed \/ ResolveGateway \/ DeploymentRejected \/ ServiceRejected
           \/ EnsureService \/ ApiFault \/ Restart \/ UNCHANGED vars
  BY <1>1, <1>7 DEF CollectService, BumpDeployment, ChangeTool, ChangeConfig, ChangeGateway,
     Informers, SyncAgent, SyncDeployment, SyncService, SyncTool, SyncConfig, SyncGateway,
     Fetch, Resolve, ResolveFailed, ResolveGateway, DeploymentRejected, ServiceRejected,
     EnsureService, ApiFault, Restart, vars, apiVars
<1> QED
  BY <1>2, <1>3, <1>4, <1>5, <1>6, <1>7 DEF Next, Environment, Proceed

\* The controller implements AgentPromise: every one of its steps, and of the
\* environment's, changes what a reader of the API sees as AgentPromise allows, or
\* not at all.
THEOREM ControllerKeepsPromise == Spec => KeepsPromise
<1>1. Spec => [](TypeInv /\ RolloutInv)
  BY TypeInit, TypeStep, RolloutInit, RolloutStep, PTL DEF Spec
<1> QED
  BY <1>1, PromiseInit, PromiseStep, PTL DEF Spec, KeepsPromise, Promise!Spec
-----------------------------------------------------------------------------
(***************************************************************************)
(* No wake-up of the Agent controller is lost: whenever nothing is pending *)
(* for an Agent, it is reconciled with everything that it depends on.      *)
(***************************************************************************)

\* A copy of a child that is not marked stale is the stored child.
CopiesAreFresh ==
  \A a \in Agents :
    /\ a \notin staleDeployments => cDeployments[a] = deployments[a]
    /\ a \notin staleServices => cServices[a] = services[a]

\* A worker whose copy is outdated has an event or a key outstanding for its Agent.
NotForgotten ==
  worker.pc # "idle" => \/ worker.agent \in queue \cup staleAgents
                        \/ worker.current

\* No key and no event of the Agent or its children is outstanding.
Calm(a) == a \notin queue \cup staleAgents \cup staleDeployments \cup staleServices

ConfigFits(config) == IF cConfigs = {} THEN config = None ELSE cConfigs = {config}

GatewayFits(ref, gateway) ==
  IF ref # None THEN gateway = ref /\ ref \in cGateways
  ELSE IF cGateways = {} THEN gateway = None ELSE gateway \in cGateways

\* What the worker of a calm Agent has established, step by step, as far as the caches of
\* what the Agent depends on tell now.
WorkerInv ==
  WatchesGateways /\ worker.pc # "idle" /\ Calm(worker.agent) =>
    LET s == worker.held.spec IN
    /\ worker.pc # "notReady" =>
         /\ ConfigFits(worker.config)
         /\ \A r \in s.subs \cup s.tools :
              r \notin worker.todo => worker.urls[r] = PublishedUrl(cAgents, cTools, r)
    /\ worker.pc \in {"deployment", "service", "ready"} =>
         /\ \A r \in s.subs \cup s.tools : r \notin worker.todo /\ worker.urls[r] # None
         /\ GatewayFits(s.gateway, worker.gateway)
    /\ worker.pc \in {"service", "ready"} => deployments[worker.agent] = WantedDeployment
    /\ worker.pc = "ready" => services[worker.agent] = WantedService

\* Reconciled, as far as the caches of what the Agent depends on tell
Done(a) ==
  LET s == agents[a].spec
      d == deployments[a] IN
  /\ d # None
  /\ d.owner = agents[a].uid /\ d.spec = s
  /\ \A r \in s.subs \cup s.tools :
       d.urls[r] = PublishedUrl(cAgents, cTools, r) /\ d.urls[r] # None
  /\ ConfigFits(d.config)
  /\ GatewayFits(s.gateway, d.gateway)
  /\ services[a] = IF s.port = None THEN None
                   ELSE [owner |-> agents[a].uid, port |-> s.port]
  /\ agents[a].status = [ready |-> "True", url |-> CardUrl(a, s),
                         observed |-> agents[a].generation, gateway |-> d.gateway]

RestInv ==
  WatchesGateways =>
    \A a \in Agents : agents[a] # None /\ Calm(a) /\ worker.agent # a => Done(a)

WakeUpInv == CopiesAreFresh /\ NotForgotten /\ WorkerInv /\ RestInv

-----------------------------------------------------------------------------
\* A step that leaves a calm Agent alone, and whatever that Agent depends on
Untouched(a) ==
  /\ Calm(a)
  /\ agents'[a] = agents[a] /\ deployments'[a] = deployments[a] /\ services'[a] = services[a]
  /\ cConfigs' = cConfigs
  /\ \A r \in agents[a].spec.subs \cup agents[a].spec.tools :
       PublishedUrl(cAgents, cTools, r)' = PublishedUrl(cAgents, cTools, r)
  /\ \A g : GatewayFits(agents[a].spec.gateway, g)' <=> GatewayFits(agents[a].spec.gateway, g)

\* The worker of a calm Agent holds that Agent.
LEMMA CalmIsHeld ==
  ASSUME TypeInv, NotForgotten, worker.pc # "idle", Calm(worker.agent)
  PROVE  /\ worker.agent \in Agents /\ worker.held = agents[worker.agent]
         /\ agents[worker.agent] # None /\ worker.held \in AgentType
BY NoneAssumption DEF TypeInv, TypeOK, WorkType, HeldIsCurrent, NotForgotten, Calm

LEMMA DoneStays ==
  ASSUME NEW a \in Agents, Done(a), Untouched(a)
  PROVE  Done(a)'
<1>1. /\ agents'[a] = agents[a] /\ deployments'[a] = deployments[a] /\ services'[a] = services[a]
      /\ ConfigFits(deployments[a].config)' <=> ConfigFits(deployments[a].config)
      /\ \A r \in agents[a].spec.subs \cup agents[a].spec.tools :
           PublishedUrl(cAgents, cTools, r)' = PublishedUrl(cAgents, cTools, r)
  BY DEF Untouched, ConfigFits
<1>2. PICK ref : ref = agents[a].spec.gateway
  OBVIOUS
<1>3. PICK g : g = deployments[a].gateway
  OBVIOUS
<1>4. GatewayFits(ref, g)' <=> GatewayFits(ref, g)
  BY <1>1, <1>2 DEF Untouched, GatewayFits
<1>5. GatewayFits(agents[a].spec.gateway, deployments[a].gateway)'
  BY <1>1, <1>2, <1>3, <1>4 DEF Done, GatewayFits
<1>6. ConfigFits(deployments[a].config)'
  BY <1>1 DEF Done, ConfigFits
<1> QED
  BY <1>1, <1>5, <1>6 DEF Done

\* Steps of others keep what the worker has established and what rests, if they leave
\* every Agent alone that is calm afterwards.
LEMMA OthersStep ==
  ASSUME TypeInv, TypeInv', WakeUpInv, NotForgotten', CopiesAreFresh',
         worker'.pc = worker.pc, worker'.agent = worker.agent, worker'.held = worker.held,
         worker'.todo = worker.todo, worker'.urls = worker.urls,
         worker'.config = worker.config, worker'.gateway = worker.gateway,
         \A a \in Agents : WatchesGateways /\ agents'[a] # None /\ Calm(a)' => Untouched(a)
  PROVE  WakeUpInv'
<1>1. RestInv'
  BY DoneStays DEF WakeUpInv, RestInv, Untouched
<1>2. WorkerInv'
  <2> SUFFICES ASSUME WatchesGateways, worker.pc # "idle", Calm(worker.agent)' PROVE WorkerInv'
    BY DEF WorkerInv, Calm
  <2>1. worker.agent \in Agents /\ agents'[worker.agent] # None
    BY NoneAssumption DEF TypeInv, TypeOK, WorkType, HeldIsCurrent, NotForgotten, Calm
  <2>2. Untouched(worker.agent) /\ Calm(worker.agent)
    BY <2>1 DEF Untouched
  <2>3. worker.held = agents[worker.agent]
    BY <2>2, CalmIsHeld DEF WakeUpInv
  <2>4. WorkerInv
    BY DEF WakeUpInv
  <2> DEFINE s == worker.held.spec
  <2>5. worker.pc # "notReady" =>
          /\ ConfigFits(worker.config)'
          /\ \A r \in s.subs \cup s.tools :
               r \notin worker.todo => worker.urls[r] = PublishedUrl(cAgents, cTools, r)'
    BY <2>2, <2>3, <2>4 DEF WorkerInv, ConfigFits, Untouched
  <2>6. ASSUME worker.pc \in {"deployment", "service", "ready"}
        PROVE  GatewayFits(s.gateway, worker.gateway)'
    <3>1. PICK ref : ref = s.gateway
      OBVIOUS
    <3>2. PICK g : g = worker.gateway
      OBVIOUS
    <3>3. GatewayFits(ref, g)
      BY <2>2, <2>4, <2>6, <3>1, <3>2 DEF WorkerInv
    <3>4. GatewayFits(ref, g)'
      BY <2>2, <2>3, <3>1, <3>3 DEF Untouched, GatewayFits
    <3> QED
      BY <3>1, <3>2, <3>4 DEF GatewayFits
  <2>7. /\ deployments'[worker.agent] = deployments[worker.agent]
        /\ services'[worker.agent] = services[worker.agent]
        /\ WantedDeployment' = WantedDeployment /\ WantedService' = WantedService
    BY <2>2 DEF Untouched, WantedDeployment, WantedService
  <2> QED
    BY <2>2, <2>4, <2>5, <2>6, <2>7 DEF WorkerInv
<1> QED
  BY <1>1, <1>2 DEF WakeUpInv

-----------------------------------------------------------------------------
LEMMA CopiesStep ==
  ASSUME TypeInv, CopiesAreFresh, [Next]_vars
  PROVE  CopiesAreFresh'
<1> USE DEF CopiesAreFresh
<1>1. CASE Environment
  BY <1>1 DEF Environment, Apply, Delete, CollectDeployment, CollectService, BumpDeployment,
     ChangeTool, ChangeConfig, ChangeGateway, apiVars, cacheVars, staleVars, TypeInv, TypeOK,
     ApiType
<1>2. CASE Informers
  BY <1>2 DEF Informers, SyncAgent, SyncDeployment, SyncService, SyncTool, SyncConfig,
     SyncGateway, apiVars, staleVars, TypeInv, TypeOK, CacheType
<1>3. CASE \E a \in Agents : Fetch(a)
  BY <1>3 DEF Fetch, apiVars, envVars, cacheVars, staleVars
<1>4. CASE EnsureDeployment
  BY <1>4 DEF EnsureDeployment, envVars, cacheVars, TypeInv, TypeOK, ApiType
<1>5. CASE EnsureService
  BY <1>5 DEF EnsureService, envVars, cacheVars, TypeInv, TypeOK, ApiType
<1>6. CASE PublishReady \/ PublishNotReady
  BY <1>6 DEF PublishReady, PublishNotReady, envVars, cacheVars
<1>7. CASE \/ \E r \in Refs : Resolve(r)
           \/ ResolveFailed \/ ResolveGateway \/ DeploymentRejected \/ ServiceRejected
  BY <1>7, WorkerMoves DEF apiVars, envVars, cacheVars, staleVars
<1>8. CASE ApiFault \/ Restart
  BY <1>8 DEF ApiFault, Restart, apiVars, cacheVars, staleVars
<1>9. CASE UNCHANGED vars
  BY <1>9 DEF vars, apiVars, cacheVars, staleVars
<1> QED
  BY <1>1, <1>2, <1>3, <1>4, <1>5, <1>6, <1>7, <1>8, <1>9 DEF Next, Proceed

\* What a worker begins with
LEMMA FetchHolds ==
  ASSUME TypeInv, NEW a \in Agents, Fetch(a)
  PROVE  /\ worker.pc = "idle" /\ worker.agent = None
         /\ queue' = queue \ {a} /\ UNCHANGED <<apiVars, envVars, staleVars>>
         /\ \/ cAgents[a] = None /\ worker' = worker
            \/ /\ cAgents[a] # None /\ worker'.pc # "idle"
               /\ worker'.agent = a /\ worker'.held = cAgents[a]
               /\ worker'.current = (a \notin staleAgents)
               /\ worker'.todo = cAgents[a].spec.subs \cup cAgents[a].spec.tools
               /\ \/ worker'.pc = "notReady"
                  \/ /\ worker'.pc = "resolve"
                     /\ worker'.config \in RuntimeConfigurations
                     /\ cConfigs \subseteq {worker'.config}
<1>1. worker.pc = "idle" /\ worker.agent = None
  BY DEF Fetch, TypeInv, TypeOK, WorkType, Idle
<1>2. queue' = queue \ {a} /\ UNCHANGED <<apiVars, envVars, staleVars>>
  BY DEF Fetch
<1>3. CASE cAgents[a] = None
  BY <1>1, <1>2, <1>3 DEF Fetch
<1>4. CASE cAgents[a] # None
  <2>1. PICK c \in RuntimeConfigurations :
          worker' = [pc |-> IF cConfigs \subseteq {c} THEN "resolve" ELSE "notReady",
                     agent |-> a, held |-> cAgents[a], current |-> a \notin staleAgents,
                     todo |-> cAgents[a].spec.subs \cup cAgents[a].spec.tools,
                     urls |-> NoUrls, config |-> c, gateway |-> None]
    BY <1>4 DEF Fetch
  <2>2. /\ worker'.agent = a /\ worker'.held = cAgents[a]
        /\ worker'.current = (a \notin staleAgents)
        /\ worker'.todo = cAgents[a].spec.subs \cup cAgents[a].spec.tools
        /\ worker'.config = c
        /\ worker'.pc = IF cConfigs \subseteq {c} THEN "resolve" ELSE "notReady"
    BY <2>1
  <2> QED
    BY <1>1, <1>2, <1>4, <2>2
<1> QED
  BY <1>3, <1>4

LEMMA NotForgottenStep ==
  ASSUME TypeInv, NotForgotten, [Next]_vars
  PROVE  NotForgotten'
<1> USE DEF NotForgotten
<1>1. ASSUME NEW a \in Agents, (\E s \in SpecsOf[a] : Apply(a, s)) \/ Delete(a)
      PROVE  NotForgotten'
  <2>1. worker' = Outdate(a) /\ staleAgents' = staleAgents \cup {a} /\ UNCHANGED queue
    BY <1>1 DEF Apply, Delete
  <2>2. /\ worker'.pc = worker.pc /\ worker'.agent = worker.agent
        /\ worker'.current = (worker.current /\ worker.agent # a)
    BY <2>1, OutdateKeeps
  <2> QED
    BY <2>1, <2>2
<1>2. ASSUME \/ \E a \in Agents : CollectDeployment(a) \/ CollectService(a) \/ BumpDeployment(a)
             \/ \E t \in Tools, u \in ToolUrls \cup {None} : ChangeTool(t, u)
             \/ \E c \in Configs : ChangeConfig(c)
             \/ \E g \in Gateways : ChangeGateway(g)
      PROVE  NotForgotten'
  BY <1>2 DEF CollectDeployment, CollectService, BumpDeployment, ChangeTool, ChangeConfig,
     ChangeGateway, staleVars
<1>3. CASE Informers
  BY <1>3 DEF Informers, SyncAgent, SyncDeployment, SyncService, SyncTool, SyncConfig,
     SyncGateway, staleVars
<1>4. ASSUME NEW a \in Agents, Fetch(a) PROVE NotForgotten'
  BY <1>4, FetchHolds DEF staleVars
<1>5. CASE \/ \E r \in Refs : Resolve(r)
           \/ ResolveFailed \/ ResolveGateway \/ DeploymentRejected \/ ServiceRejected
           \/ EnsureDeployment \/ EnsureService
  <2>1. worker.pc # "idle" /\ UNCHANGED <<queue, staleAgents>>
    BY <1>5 DEF Resolve, ResolveFailed, ResolveGateway, DeploymentRejected, ServiceRejected,
       EnsureDeployment, EnsureService, staleVars
  <2>2. worker \in WorkerType
    BY DEF TypeInv, TypeOK, WorkType
  <2>3. worker'.agent = worker.agent /\ worker'.current = worker.current
    <3>1. CASE \E r \in Refs : Resolve(r)
      BY <2>2, <3>1 DEF Resolve, WorkerType
    <3>2. CASE ResolveGateway
      BY <2>2, <3>2 DEF ResolveGateway, Fail, WorkerType
    <3>3. CASE ResolveFailed \/ DeploymentRejected \/ ServiceRejected
      BY <2>2, <3>3 DEF ResolveFailed, DeploymentRejected, ServiceRejected, Fail, WorkerType
    <3>4. CASE EnsureDeployment \/ EnsureService
      BY <2>2, <3>4 DEF EnsureDeployment, EnsureService, Goto, WorkerType
    <3> QED
      BY <1>5, <3>1, <3>2, <3>3, <3>4
  <2> QED
    BY <2>1, <2>3
<1>6. CASE PublishReady \/ PublishNotReady \/ Restart
  BY <1>6, IdleType DEF PublishReady, PublishNotReady, Restart
<1>7. CASE ApiFault
  BY <1>7, IdleType DEF ApiFault, Fail, staleVars, TypeInv, TypeOK, WorkType, WorkerType
<1>8. CASE UNCHANGED vars
  BY <1>8 DEF vars, staleVars
<1> QED
  BY <1>1, <1>2, <1>3, <1>4, <1>5, <1>6, <1>7, <1>8 DEF Next, Environment, Proceed

\* Users, other operators and the collector leave an event of whatever they change.
LEMMA UsersStep ==
  ASSUME TypeInv, TypeInv', WakeUpInv, NotForgotten', CopiesAreFresh', Environment
  PROVE  WakeUpInv'
<1>1. ASSUME NEW b \in Agents,
             \/ (\E s \in SpecsOf[b] : Apply(b, s)) \/ Delete(b)
             \/ CollectDeployment(b) \/ CollectService(b) \/ BumpDeployment(b)
      PROVE  WakeUpInv'
  <2>1. /\ worker'.pc = worker.pc /\ worker'.agent = worker.agent
        /\ worker'.held = worker.held /\ worker'.todo = worker.todo
        /\ worker'.urls = worker.urls /\ worker'.config = worker.config
        /\ worker'.gateway = worker.gateway
    <3>1. worker' = Outdate(b) \/ worker' = worker
      BY <1>1 DEF Apply, Delete, CollectDeployment, CollectService, BumpDeployment
    <3>2. worker \in WorkerType
      BY DEF TypeInv, TypeOK, WorkType
    <3> QED
      BY <3>1, <3>2 DEF Outdate, WorkerType
  <2>2. UNCHANGED <<cAgents, cTools, cConfigs, cGateways, queue>>
    BY <1>1 DEF Apply, Delete, CollectDeployment, CollectService, BumpDeployment, cacheVars
  <2>3. ASSUME NEW a \in Agents, Calm(a)' PROVE Untouched(a)
    <3>1. a # b
      BY <1>1, <2>3 DEF Apply, Delete, CollectDeployment, CollectService, BumpDeployment, Calm
    <3>2. Calm(a)
      BY <1>1, <2>3 DEF Apply, Delete, CollectDeployment, CollectService, BumpDeployment, Calm
    <3>3. agents'[a] = agents[a] /\ deployments'[a] = deployments[a] /\ services'[a] = services[a]
      BY <1>1, <3>1 DEF Apply, Delete, CollectDeployment, CollectService, BumpDeployment,
         apiVars, TypeInv, TypeOK, ApiType
    <3> QED
      BY <2>2, <3>2, <3>3 DEF Untouched, PublishedUrl, GatewayFits
  <2> QED
    BY <2>1, <2>3, OthersStep
<1>2. CASE \/ \E t \in Tools, u \in ToolUrls \cup {None} : ChangeTool(t, u)
           \/ \E c \in Configs : ChangeConfig(c)
           \/ \E g \in Gateways : ChangeGateway(g)
  <2>1. UNCHANGED <<apiVars, cacheVars, staleVars, queue, worker>>
    BY <1>2 DEF ChangeTool, ChangeConfig, ChangeGateway
  <2>2. ASSUME NEW a \in Agents, Calm(a)' PROVE Untouched(a)
    BY <2>1, <2>2 DEF Untouched, Calm, PublishedUrl, GatewayFits, apiVars, cacheVars, staleVars
  <2> QED
    BY <2>1, <2>2, OthersStep
<1> QED
  BY <1>1, <1>2 DEF Environment

\* A delivery enqueues every Agent that depends on what it brings.
LEMMA DeliveryStep ==
  ASSUME TypeInv, TypeInv', WakeUpInv, NotForgotten', CopiesAreFresh', Informers
  PROVE  WakeUpInv'
<1>1. UNCHANGED <<apiVars, worker>>
  BY DEF Informers, SyncAgent, SyncDeployment, SyncService, SyncTool, SyncConfig, SyncGateway
<1>2. ASSUME NEW a \in Agents, WatchesGateways, agents[a] # None, Calm(a)' PROVE Untouched(a)
  <2>1. agents[a] \in AgentType /\ cAgents'[a] = agents[a]
    BY <1>1, <1>2 DEF TypeInv, TypeOK, ApiType, CacheIsFresh, Calm, apiVars
  <2>2. agents[a].spec.subs \in SUBSET Agents /\ agents[a].spec.tools \in SUBSET Tools
    BY <2>1 DEF AgentType, SpecType
  <2>3. ASSUME NEW b \in Agents, SyncAgent(b) PROVE Untouched(a)
    <3>1. a # b /\ Calm(a) /\ b \notin agents[a].spec.subs
      BY <1>2, <2>1, <2>3 DEF SyncAgent, Calm, ReferencingSubAgent
    <3>2. \A r \in agents[a].spec.subs \cup agents[a].spec.tools :
            PublishedUrl(cAgents, cTools, r)' = PublishedUrl(cAgents, cTools, r)
      BY <2>2, <2>3, <3>1 DEF SyncAgent, PublishedUrl, TypeInv, TypeOK, CacheType
    <3>3. cConfigs' = cConfigs /\ cGateways' = cGateways
      BY <2>3 DEF SyncAgent
    <3> QED
      BY <1>1, <3>1, <3>2, <3>3 DEF Untouched, GatewayFits, apiVars
  <2>4. ASSUME NEW b \in Agents, SyncDeployment(b) \/ SyncService(b) PROVE Untouched(a)
    <3>1. Calm(a)
      BY <1>2, <2>4 DEF SyncDeployment, SyncService, Calm
    <3>2. UNCHANGED <<cAgents, cTools, cConfigs, cGateways>>
      BY <2>4 DEF SyncDeployment, SyncService
    <3> QED
      BY <1>1, <3>1, <3>2 DEF Untouched, GatewayFits, PublishedUrl, apiVars
  <2>5. ASSUME NEW t \in Tools, SyncTool(t) PROVE Untouched(a)
    <3>1. UNCHANGED <<cAgents, cConfigs, cGateways, staleVars>>
      BY <2>5 DEF SyncTool
    <3>2. Calm(a) /\ t \notin agents[a].spec.tools
      BY <1>2, <2>1, <2>5, <3>1 DEF SyncTool, Calm, ReferencingTool, staleVars
    <3>3. \A r \in agents[a].spec.subs \cup agents[a].spec.tools :
            PublishedUrl(cAgents, cTools, r)' = PublishedUrl(cAgents, cTools, r)
      BY <2>2, <2>5, <3>1, <3>2, NamesAssumption
         DEF SyncTool, PublishedUrl, TypeInv, TypeOK, CacheType
    <3> QED
      BY <1>1, <3>1, <3>2, <3>3 DEF Untouched, GatewayFits, apiVars
  <2>6. ASSUME NEW c \in Configs, SyncConfig(c) PROVE FALSE
    BY <1>2, <2>1, <2>6 DEF SyncConfig, Calm, AllCachedAgents
  <2>7. ASSUME NEW g \in Gateways, SyncGateway(g) PROVE Untouched(a)
    <3>1. UNCHANGED <<cAgents, cTools, cConfigs, staleVars>>
      BY <2>7 DEF SyncGateway
    <3>2. Calm(a) /\ agents[a].spec.gateway \notin {None, g}
      BY <1>2, <2>1, <2>7, <3>1 DEF SyncGateway, Calm, ReferencingGateway, AllCachedAgents, staleVars
    <3>3. agents[a].spec.gateway \in cGateways' <=> agents[a].spec.gateway \in cGateways
      BY <2>7, <3>2 DEF SyncGateway, Toggle
    <3> QED
      BY <1>1, <3>1, <3>2, <3>3 DEF Untouched, GatewayFits, PublishedUrl, apiVars
  <2> QED
    BY <2>3, <2>4, <2>5, <2>6, <2>7 DEF Informers
<1> QED
  BY <1>1, <1>2, OthersStep DEF apiVars

-----------------------------------------------------------------------------
\* Whatever the worker does, the other Agents rest as before.
LEMMA OthersRest ==
  ASSUME TypeInv, RestInv, UNCHANGED cacheVars,
         \A b \in Agents : Calm(b)' /\ worker'.agent # b =>
           /\ Calm(b) /\ worker.agent # b
           /\ agents'[b] = agents[b] /\ deployments'[b] = deployments[b]
           /\ services'[b] = services[b]
  PROVE  RestInv'
<1> SUFFICES ASSUME WatchesGateways, NEW b \in Agents, agents'[b] # None, Calm(b)',
                    worker'.agent # b
             PROVE  Done(b)'
  BY DEF RestInv
<1>1. /\ Calm(b) /\ worker.agent # b
      /\ agents'[b] = agents[b] /\ deployments'[b] = deployments[b] /\ services'[b] = services[b]
  OBVIOUS
<1>2. Done(b)
  BY <1>1 DEF RestInv
<1>3. Untouched(b)
  BY <1>1 DEF Untouched, PublishedUrl, GatewayFits, cacheVars
<1> QED
  BY <1>2, <1>3, DoneStays

LEMMA FetchStep ==
  ASSUME TypeInv, CopiesAreFresh, RestInv, NEW a \in Agents, Fetch(a)
  PROVE  WorkerInv' /\ RestInv'
<1>1. /\ UNCHANGED <<apiVars, cacheVars, staleVars>> /\ worker.agent = None /\ None \notin Agents
      /\ queue' = queue \ {a}
  BY FetchHolds, NoneAssumption DEF envVars
<1>2. CASE cAgents[a] = None
  <2>1. worker'.pc = "idle" /\ worker'.agent = None
    BY <1>2, FetchHolds
  <2>2. WorkerInv'
    BY <2>1 DEF WorkerInv
  <2>3. ASSUME WatchesGateways, NEW b \in Agents, agents'[b] # None, Calm(b)' PROVE Done(b)'
    <3>1. cAgents[b] = agents[b] /\ agents[b] # None
      BY <1>1, <2>3 DEF Calm, TypeInv, CacheIsFresh, apiVars, staleVars
    <3>2. b # a /\ Calm(b)
      BY <1>1, <1>2, <2>3, <3>1 DEF Calm, staleVars
    <3>3. Done(b)
      BY <1>1, <2>3, <3>1, <3>2 DEF RestInv
    <3>4. Untouched(b)
      BY <1>1, <3>2 DEF Untouched, PublishedUrl, GatewayFits, apiVars, cacheVars
    <3> QED
      BY <3>3, <3>4, DoneStays
  <2> QED
    BY <2>2, <2>3 DEF RestInv
<1>3. CASE cAgents[a] # None
  <2>1. /\ worker'.agent = a /\ worker'.held = cAgents[a]
        /\ worker'.todo = cAgents[a].spec.subs \cup cAgents[a].spec.tools
        /\ \/ worker'.pc = "notReady"
           \/ /\ worker'.pc = "resolve"
              /\ worker'.config \in RuntimeConfigurations
              /\ cConfigs \subseteq {worker'.config}
    BY <1>3, FetchHolds
  <2>2. WorkerInv'
    <3>1. worker'.pc = "resolve" => ConfigFits(worker.config)'
      BY <1>1, <2>1 DEF ConfigFits, RuntimeConfigurations, cacheVars
    <3> QED
      BY <2>1, <3>1 DEF WorkerInv
  <2>3. \A b \in Agents : Calm(b)' /\ worker'.agent # b =>
           /\ Calm(b) /\ worker.agent # b
           /\ agents'[b] = agents[b] /\ deployments'[b] = deployments[b]
           /\ services'[b] = services[b]
    BY <1>1, <2>1 DEF Calm, apiVars, staleVars
  <2> QED
    BY <1>1, <2>2, <2>3, OthersRest
<1> QED
  BY <1>2, <1>3

\* The steps between the read of the Agent and the first write
LEMMA ResolvingStep ==
  ASSUME TypeInv, WorkerInv, RestInv,
         \/ \E r \in Refs : Resolve(r)
         \/ ResolveFailed \/ ResolveGateway \/ DeploymentRejected \/ ServiceRejected
  PROVE  WorkerInv' /\ RestInv'
<1>1. /\ worker.pc # "idle" /\ worker'.agent = worker.agent /\ worker'.held = worker.held
      /\ UNCHANGED <<apiVars, cacheVars, staleVars, queue>>
  BY WorkerMoves DEF envVars
<1>2. RestInv'
  BY <1>1, OthersRest DEF Calm, apiVars, staleVars
<1>3. Calm(worker.agent)' <=> Calm(worker.agent)
  BY <1>1 DEF Calm, staleVars
<1> DEFINE s == worker.held.spec
<1>4. CASE worker'.pc = "notReady"
  BY <1>1, <1>2, <1>4 DEF WorkerInv
<1>5. ASSUME NEW r \in Refs, Resolve(r) PROVE WorkerInv'
  <2>1. /\ worker.pc = "resolve" /\ worker'.pc = "resolve"
        /\ worker'.config = worker.config
        /\ worker'.todo = worker.todo \ {r}
        /\ worker'.urls = [worker.urls EXCEPT ![r] = PublishedUrl(cAgents, cTools, r)]
        /\ worker.urls \in [Refs -> Urls \cup {None}]
    BY <1>5 DEF Resolve, TypeInv, TypeOK, WorkType, WorkerType
  <2> SUFFICES ASSUME WatchesGateways, Calm(worker.agent)
               PROVE  /\ ConfigFits(worker.config)'
                      /\ \A q \in s.subs \cup s.tools : q \notin worker'.todo =>
                           worker'.urls[q] = PublishedUrl(cAgents, cTools, q)'
    BY <1>1, <1>3, <2>1 DEF WorkerInv
  <2>2. /\ ConfigFits(worker.config)
        /\ \A q \in s.subs \cup s.tools : q \notin worker.todo =>
             worker.urls[q] = PublishedUrl(cAgents, cTools, q)
    BY <2>1 DEF WorkerInv
  <2>3. ConfigFits(worker.config)'
    BY <1>1, <2>1, <2>2 DEF ConfigFits, cacheVars
  <2>4. ASSUME NEW q \in s.subs \cup s.tools, q \notin worker'.todo
        PROVE  worker'.urls[q] = PublishedUrl(cAgents, cTools, q)'
    <3>1. q \in Refs
      BY <1>1, <2>4 DEF TypeInv, TypeOK, WorkType, AgentType, SpecType, Refs
    <3>2. worker'.urls[q] = PublishedUrl(cAgents, cTools, q)
      BY <2>1, <2>2, <2>4, <3>1
    <3> QED
      BY <1>1, <3>2 DEF PublishedUrl, cacheVars
  <2> QED
    BY <2>3, <2>4
<1>6. CASE ResolveGateway /\ worker'.pc = "deployment"
  <2>1. PICK g \in Gateways \cup {None} :
          /\ IF s.gateway # None THEN g = s.gateway /\ g \in cGateways
             ELSE IF cGateways = {} THEN g = None ELSE g \in cGateways
          /\ worker' = [worker EXCEPT !.pc = "deployment", !.gateway = g]
    BY <1>6 DEF ResolveGateway, Fail, TypeInv, TypeOK, WorkType, WorkerType
  <2>2. /\ worker.pc = "resolve" /\ worker.todo = {}
        /\ \A r \in s.subs \cup s.tools : worker.urls[r] # None
    BY <1>6 DEF ResolveGateway, Unresolved
  <2>3. /\ worker'.config = worker.config /\ worker'.todo = worker.todo
        /\ worker'.urls = worker.urls /\ worker'.gateway = g
    BY <2>1 DEF TypeInv, TypeOK, WorkType, WorkerType
  <2>4. GatewayFits(s.gateway, worker.gateway)'
    BY <1>1, <2>1, <2>3 DEF GatewayFits, cacheVars
  <2> SUFFICES ASSUME WatchesGateways, Calm(worker.agent) PROVE WorkerInv'
    BY <1>1, <1>2, <1>3 DEF WorkerInv
  <2>5. /\ ConfigFits(worker.config)
        /\ \A q \in s.subs \cup s.tools : worker.urls[q] = PublishedUrl(cAgents, cTools, q)
    BY <2>2 DEF WorkerInv
  <2>6. /\ ConfigFits(worker.config)'
        /\ \A q \in s.subs \cup s.tools :
             worker'.urls[q] = PublishedUrl(cAgents, cTools, q)'
    BY <1>1, <2>3, <2>5 DEF ConfigFits, PublishedUrl, cacheVars
  <2> QED
    BY <1>1, <1>6, <2>2, <2>3, <2>4, <2>6 DEF WorkerInv
<1>7. CASE ~(\E r \in Refs : Resolve(r))
  <2>1. worker'.pc = "notReady" \/ (ResolveGateway /\ worker'.pc = "deployment")
    BY <1>7 DEF ResolveFailed, ResolveGateway, DeploymentRejected, ServiceRejected, Fail,
       TypeInv, TypeOK, WorkType, WorkerType
  <2> QED
    BY <1>4, <1>6, <2>1
<1> QED
  BY <1>2, <1>5, <1>7

\* A write that is skipped because the copy is as wanted is right unless an event of the
\* object is outstanding.
LEMMA WritingStep ==
  ASSUME TypeInv, CopiesAreFresh, WorkerInv, RestInv, EnsureDeployment \/ EnsureService
  PROVE  WorkerInv' /\ RestInv'
<1> DEFINE a == worker.agent
           s == worker.held.spec
<1>1. /\ a \in Agents /\ worker \in WorkerType
      /\ deployments \in [Agents -> DeploymentType \cup {None}]
      /\ services \in [Agents -> ServiceType \cup {None}]
  BY DEF EnsureDeployment, EnsureService, TypeInv, TypeOK, ApiType, WorkType
<1>2. /\ worker'.agent = a /\ worker'.held = worker.held /\ worker'.todo = worker.todo
      /\ worker'.urls = worker.urls /\ worker'.config = worker.config
      /\ worker'.gateway = worker.gateway
      /\ UNCHANGED <<agents, cacheVars, staleAgents, queue>>
  BY <1>1 DEF EnsureDeployment, EnsureService, Goto, WorkerType, envVars
<1>3. /\ WantedDeployment' = WantedDeployment /\ WantedService' = WantedService
      /\ ConfigFits(worker.config)' <=> ConfigFits(worker.config)
      /\ \A r \in s.subs \cup s.tools :
           PublishedUrl(cAgents, cTools, r)' = PublishedUrl(cAgents, cTools, r)
      /\ GatewayFits(s.gateway, worker.gateway)' <=> GatewayFits(s.gateway, worker.gateway)
  BY <1>2 DEF WantedDeployment, WantedService, ConfigFits, PublishedUrl, GatewayFits, cacheVars
<1>4. \/ /\ worker.pc = "deployment" /\ worker'.pc = "service"
         /\ UNCHANGED <<services, staleServices>>
         /\ \A b \in Agents \ {a} : deployments'[b] = deployments[b]
         /\ staleDeployments \subseteq staleDeployments'
         /\ a \notin staleDeployments' => deployments'[a] = WantedDeployment
      \/ /\ worker.pc = "service" /\ worker'.pc = "ready"
         /\ UNCHANGED <<deployments, staleDeployments>>
         /\ \A b \in Agents \ {a} : services'[b] = services[b]
         /\ staleServices \subseteq staleServices'
         /\ a \notin staleServices' => services'[a] = WantedService
  <2>1. CASE EnsureDeployment
    BY <1>1, <2>1 DEF EnsureDeployment, SendsDeployment, Goto, WorkerType, CopiesAreFresh
  <2>2. CASE EnsureService
    BY <1>1, <2>2 DEF EnsureService, Goto, WorkerType, CopiesAreFresh
  <2> QED
    BY <2>1, <2>2
<1>5. \A b \in Agents : Calm(b)' => Calm(b)
  BY <1>2, <1>4 DEF Calm
<1>6. RestInv'
  BY <1>2, <1>4, <1>5, OthersRest
<1>7. WorkerInv'
  <2> SUFFICES ASSUME WatchesGateways, Calm(a)' PROVE WorkerInv'
    BY <1>2 DEF WorkerInv
  <2>1. Calm(a)
    BY <1>1, <1>2, <1>4 DEF Calm
  <2>2. /\ a \notin staleDeployments' /\ a \notin staleServices'
    BY <1>2 DEF Calm
  <2>3. /\ ConfigFits(worker.config)
        /\ \A r \in s.subs \cup s.tools :
             r \notin worker.todo => worker.urls[r] = PublishedUrl(cAgents, cTools, r)
        /\ \A r \in s.subs \cup s.tools : r \notin worker.todo /\ worker.urls[r] # None
        /\ GatewayFits(s.gateway, worker.gateway)
        /\ worker.pc = "service" => deployments[a] = WantedDeployment
    BY <1>4, <2>1 DEF WorkerInv
  <2>4. /\ deployments'[a] = WantedDeployment
        /\ worker'.pc = "ready" => services'[a] = WantedService
    BY <1>4, <2>2, <2>3
  <2> QED
    BY <1>2, <1>3, <1>4, <2>3, <2>4 DEF WorkerInv
<1> QED
  BY <1>6, <1>7

\* A status that was there already ends the reconcile without an event: the Agent is done.
LEMMA ReadyStep ==
  ASSUME TypeInv, TypeInv', NotForgotten, WorkerInv, RestInv, PublishReady
  PROVE  WorkerInv' /\ RestInv'
<1> DEFINE a == worker.agent
           s == worker.held.spec
<1>1. /\ a \in Agents /\ worker.held \in AgentType
      /\ agents \in [Agents -> AgentType \cup {None}]
  BY DEF PublishReady, TypeInv, TypeOK, ApiType, WorkType
<1>2. /\ worker.pc = "ready" /\ worker'.pc = "idle"
      /\ UNCHANGED <<deployments, services, cacheVars, staleDeployments, staleServices>>
      /\ queue' = IF worker.current THEN queue ELSE queue \cup {a}
  BY IdleType DEF PublishReady, envVars
<1>3. /\ \A b \in Agents \ {a} : agents'[b] = agents[b]
      /\ staleAgents \subseteq staleAgents'
      /\ a \notin staleAgents' /\ worker.current =>
           agents'[a] = agents[a] /\ agents[a].status = ReadyStatus
  BY <1>1 DEF PublishReady, WriteStatus
<1>4. \A b \in Agents : Calm(b)' => Calm(b)
  BY <1>2, <1>3 DEF Calm
<1>5. ASSUME WatchesGateways, NEW b \in Agents, agents'[b] # None, Calm(b)' PROVE Done(b)'
  <2>1. CASE b # a
    <3>1. Done(b)
      BY <1>3, <1>4, <1>5, <2>1 DEF RestInv
    <3>2. Untouched(b)
      BY <1>2, <1>3, <1>4, <1>5, <2>1 DEF Untouched, PublishedUrl, GatewayFits, cacheVars
    <3> QED
      BY <3>1, <3>2, DoneStays
  <2>2. CASE b = a
    <3>1. Calm(a) /\ a \notin staleAgents' /\ worker.current
      BY <1>2, <1>4, <1>5, <2>2 DEF Calm
    <3>2. /\ agents'[a] = agents[a] /\ agents[a].status = ReadyStatus
          /\ agents[a] = worker.held /\ agents[a] # None
      BY <1>2, <1>3, <3>1, CalmIsHeld
    <3>3. /\ ConfigFits(worker.config)
          /\ \A r \in s.subs \cup s.tools :
               worker.urls[r] = PublishedUrl(cAgents, cTools, r) /\ worker.urls[r] # None
          /\ GatewayFits(s.gateway, worker.gateway)
          /\ deployments[a] = WantedDeployment /\ services[a] = WantedService
      BY <1>2, <1>5, <3>1 DEF WorkerInv
    <3>4. deployments[a] # None
      <4>1. worker \in WorkerType
        BY DEF TypeInv, TypeOK, WorkType
      <4>2. WantedDeployment \in DeploymentType
        BY <1>1, <4>1 DEF WantedDeployment, DeploymentType, WorkerType, AgentType
      <4> QED
        BY <3>3, <4>2, NoneAssumption
    <3>5. Done(b)
      BY <2>2, <3>2, <3>3, <3>4 DEF Done, WantedDeployment, WantedService, ReadyStatus
    <3>6. Untouched(b)
      BY <1>2, <2>2, <3>1, <3>2 DEF Untouched, PublishedUrl, GatewayFits, cacheVars
    <3> QED
      BY <3>5, <3>6, DoneStays
  <2> QED
    BY <2>1, <2>2
<1> QED
  BY <1>2, <1>5 DEF WorkerInv, RestInv

\* A reconcile that fails leaves its key in the queue.
LEMMA FailingStep ==
  ASSUME TypeInv, WorkerInv, RestInv, PublishNotReady \/ ApiFault
  PROVE  WorkerInv' /\ RestInv'
<1> DEFINE a == worker.agent
<1>1. /\ a \in Agents /\ worker \in WorkerType
      /\ agents \in [Agents -> AgentType \cup {None}]
  BY DEF PublishNotReady, ApiFault, TypeInv, TypeOK, ApiType, WorkType
<1>2. /\ UNCHANGED <<deployments, services, cacheVars, staleDeployments, staleServices>>
      /\ \A b \in Agents \ {a} : agents'[b] = agents[b]
      /\ staleAgents \subseteq staleAgents' /\ queue \subseteq queue'
  BY <1>1 DEF PublishNotReady, WriteStatus, ApiFault, envVars, apiVars, staleVars
<1>3. \/ worker'.pc = "notReady" /\ worker'.agent = a
      \/ worker'.pc = "idle" /\ a \in queue'
  BY <1>1, IdleType DEF PublishNotReady, ApiFault, Fail, WorkerType
<1>4. WorkerInv'
  BY <1>3 DEF WorkerInv
<1>5. \A b \in Agents : Calm(b)' => Calm(b)
  BY <1>2 DEF Calm
<1>6. \A b \in Agents : Calm(b)' /\ worker'.agent # b => b # a
  BY <1>3 DEF Calm
<1> QED
  BY <1>2, <1>4, <1>5, <1>6, OthersRest

LEMMA WakeUpStep == TypeInv /\ TypeInv' /\ WakeUpInv /\ [Next]_vars => WakeUpInv'
<1> SUFFICES ASSUME TypeInv, TypeInv', WakeUpInv, [Next]_vars PROVE WakeUpInv'
  OBVIOUS
<1>1. CopiesAreFresh' /\ NotForgotten'
  BY CopiesStep, NotForgottenStep DEF WakeUpInv
<1>2. CASE Environment
  BY <1>1, <1>2, UsersStep
<1>3. CASE Informers
  BY <1>1, <1>3, DeliveryStep
<1>4. CASE \E a \in Agents : Fetch(a)
  BY <1>1, <1>4, FetchStep DEF WakeUpInv
<1>5. CASE Proceed
  BY <1>1, <1>5, ResolvingStep, WritingStep, ReadyStep, FailingStep DEF WakeUpInv, Proceed
<1>6. CASE ApiFault
  BY <1>1, <1>6, FailingStep DEF WakeUpInv
<1>7. CASE Restart
  <2>1. worker'.pc = "idle" /\ \A a \in Agents : agents'[a] # None => a \in queue'
    BY <1>7, IdleType DEF Restart, apiVars
  <2> QED
    BY <1>1, <2>1 DEF WakeUpInv, WorkerInv, RestInv, Calm
<1>8. CASE UNCHANGED vars
  <2>1. ASSUME NEW a \in Agents, Calm(a)' PROVE Untouched(a)
    BY <1>8, <2>1 DEF vars, Untouched, Calm, PublishedUrl, GatewayFits, apiVars, cacheVars, staleVars
  <2> QED
    BY <1>1, <1>8, <2>1, OthersStep DEF vars
<1> QED
  BY <1>2, <1>3, <1>4, <1>5, <1>6, <1>7, <1>8 DEF Next

LEMMA WakeUpInit == Init => WakeUpInv
  BY IdleType DEF Init, WakeUpInv, CopiesAreFresh, NotForgotten, WorkerInv, RestInv, Calm

\* For every set of Agents and every graph of references: once nothing is pending for an
\* Agent, everything it owns and reports is what its spec, and all that it depends on, call for.
THEOREM NoAgentIsForgotten == Spec => []QuiescentIsReconciled
<1>1. TypeInv /\ WakeUpInv => QuiescentIsReconciled
  <2> SUFFICES ASSUME TypeInv, WakeUpInv, WatchesGateways,
                      NEW a \in Agents, agents[a] # None, ~Pending(a)
               PROVE  Reconciled(a)
    BY DEF QuiescentIsReconciled
  <2>1. Done(a)
    BY DEF Pending, WakeUpInv, RestInv, Calm
  <2>2. cConfigs = configs /\ cGateways = gateways
    BY DEF Pending
  <2>3. ASSUME NEW r \in agents[a].spec.subs \cup agents[a].spec.tools
        PROVE  PublishedUrl(agents, tools, r) = PublishedUrl(cAgents, cTools, r)
    <3>1. agents[a].spec.subs \in SUBSET Agents /\ agents[a].spec.tools \in SUBSET Tools
      BY DEF TypeInv, TypeOK, ApiType, AgentType, SpecType
    <3>2. CASE r \in agents[a].spec.subs
      <4>1. r \in Agents /\ r \notin Tools /\ cAgents[r] = agents[r]
        BY <3>1, <3>2, NamesAssumption DEF Pending, TypeInv, CacheIsFresh
      <4> QED
        BY <4>1 DEF PublishedUrl
    <3>3. CASE r \in agents[a].spec.tools
      BY <3>1, <3>3 DEF Pending, PublishedUrl
    <3> QED
      BY <3>2, <3>3
  <2>4. /\ ConfigFits(deployments[a].config)
        /\ GatewayFits(agents[a].spec.gateway, deployments[a].gateway)
    BY <2>1 DEF Done
  <2>5. /\ IF configs = {} THEN deployments[a].config = None
           ELSE configs = {deployments[a].config}
        /\ IF agents[a].spec.gateway # None
           THEN /\ deployments[a].gateway = agents[a].spec.gateway
                /\ agents[a].spec.gateway \in gateways
           ELSE IF gateways = {} THEN deployments[a].gateway = None
                ELSE deployments[a].gateway \in gateways
    BY <2>2, <2>4 DEF ConfigFits, GatewayFits
  <2> QED
    BY <2>1, <2>3, <2>5 DEF Done, Reconciled
<1> QED
  BY <1>1, TypeInit, TypeStep, WakeUpInit, WakeUpStep, PTL DEF Spec

-----------------------------------------------------------------------------
(* The graph of references                                                   *)

\* Agents that exist, for which nothing is pending, and that refer to nobody but each other
Resting(R) ==
  \A a \in R : agents[a] # None /\ ~Pending(a) /\ agents[a].spec.subs \subseteq R

\* No group of Agents comes to rest whose references cannot be satisfied: the operator goes on
\* trying, and a URL that was withdrawn again does not stay in anybody's Deployment.
OnlySatisfiedRest ==
  WatchesGateways => \A R \in SUBSET Agents : Resting(R) => R \subseteq MayWork

LEMMA ReconciledFacts ==
  ASSUME NEW a, Reconciled(a)
  PROVE  /\ agents[a].status.url = CardUrl(a, agents[a].spec)
         /\ configs = {} \/ configs = {deployments[a].config}
         /\ agents[a].spec.gateway \in gateways \cup {None}
         /\ \A r \in agents[a].spec.subs \cup agents[a].spec.tools :
              PublishedUrl(agents, tools, r) # None
<1>1. agents[a].status = [ready |-> "True", url |-> CardUrl(a, agents[a].spec),
                          observed |-> agents[a].generation, gateway |-> deployments[a].gateway]
  BY Zenon DEF Reconciled
<1>2. IF configs = {} THEN deployments[a].config = None ELSE configs = {deployments[a].config}
  BY Zenon DEF Reconciled
<1>3. agents[a].spec.gateway # None => agents[a].spec.gateway \in gateways
  BY Zenon DEF Reconciled
<1>4. \A r \in agents[a].spec.subs \cup agents[a].spec.tools :
        PublishedUrl(agents, tools, r) # None
  BY Zenon DEF Reconciled
<1> QED
  BY <1>1, <1>2, <1>3, <1>4

\* What NoAgentIsForgotten says of single Agents, put together along the references: a group
\* that rests sustains itself, whatever it went through.
THEOREM NobodyRestsUnsatisfied == Spec => []OnlySatisfiedRest
<1>1. QuiescentIsReconciled /\ TypeOK => OnlySatisfiedRest
  <2> SUFFICES ASSUME QuiescentIsReconciled, TypeOK, WatchesGateways,
                      NEW R \in SUBSET Agents, Resting(R)
               PROVE  R \subseteq MayWork
    BY DEF OnlySatisfiedRest
  <2>1. ASSUME NEW a \in R
        PROVE  agents[a] # None /\ Reconciled(a) /\ agents[a].spec.subs \subseteq R
    BY <2>1 DEF QuiescentIsReconciled, Resting
  <2>2. ASSUME NEW a \in R PROVE NeedsMet(a, R)
    <3>1. agents[a].spec.subs \in SUBSET Agents /\ agents[a].spec.tools \in SUBSET Tools
      BY <2>1 DEF TypeOK, ApiType, AgentType, SpecType
    <3>2. ASSUME NEW r \in agents[a].spec.subs \cup agents[a].spec.tools
          PROVE  PublishedUrl(agents, tools, r) # None
      BY <2>1, ReconciledFacts
    <3>3. ASSUME NEW b \in agents[a].spec.subs
          PROVE  b \in R /\ agents[b] # None /\ agents[b].spec.port # None
      <4>1. b \in R /\ b \notin Tools
        BY <2>1, <3>1, NamesAssumption
      <4>2. agents[b] # None /\ agents[b].status.url # None
        BY <2>1, <3>2, <4>1 DEF PublishedUrl
      <4>3. agents[b].status.url = CardUrl(b, agents[b].spec)
        BY <2>1, <4>1, ReconciledFacts
      <4> QED
        BY <4>1, <4>2, <4>3 DEF CardUrl
    <3>4. \A t \in agents[a].spec.tools : tools[t] # None
      BY <3>1, <3>2 DEF PublishedUrl
    <3>5. \A c, d \in configs : c = d
      BY <2>1, ReconciledFacts
    <3>6. agents[a].spec.gateway \in gateways \cup {None}
      BY <2>1, ReconciledFacts
    <3> QED
      BY <2>1, <3>3, <3>4, <3>5, <3>6 DEF NeedsMet
  <2> QED
    BY <2>2 DEF MayWork
<1> QED
  BY <1>1, TypeCorrect, NoAgentIsForgotten, PTL
=============================================================================
