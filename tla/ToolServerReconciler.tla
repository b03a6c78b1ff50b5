------------------------ MODULE ToolServerReconciler ------------------------
(***************************************************************************)
(* The ToolServer controller (toolserver_reconciler.go) for one ToolServer;*)
(* ToolServers do not affect each other.  Cache, resourceVersions and      *)
(* worker are represented as in AgentReconciler.  What differs from the    *)
(* Agent controller: nothing is resolved, an unchanged Deployment is not   *)
(* written again, conflicts on it are not retried, and a ToolServer that   *)
(* is not Ready keeps its URL.                                             *)
(***************************************************************************)
EXTENDS Naturals

CONSTANTS
  Ports, Paths,   \* ports and paths of ToolServer specs
  Specs,          \* the specs users apply
  None,           \* no object, no URL
  MaxEdits, MaxDeletes,   \* bounds of the users
  MaxIncidents    \* bound of availability reports, API faults and restarts together

SpecType == [port : Ports, path : Paths]
Urls == Ports \X Paths
StatusType == [ready : {"Unknown", "True", "False"}, url : Urls \cup {None}, observed : Nat]
ServerType == [uid : Nat, generation : Nat, spec : SpecType, status : StatusType]
DeploymentType == [owner : Nat, spec : SpecType, available : BOOLEAN]
ServiceType == [owner : Nat, port : Ports]
Kinds == {"server", "deployment", "service"}

\* What ToolServerPromise knows of a ToolServer's spec
DemandType == [uid : Nat, generation : Nat, address : Urls]

ASSUME ToolServerAssumption ==
  /\ Specs \in SUBSET SpecType
  /\ None \notin Urls \cup ServerType \cup DeploymentType \cup ServiceType \cup DemandType
  /\ {MaxEdits, MaxDeletes, MaxIncidents} \subseteq Nat

VARIABLES
  server, deployment, service,       \* API server: the ToolServer and its children
  cServer, cDeployment, cService,    \* the informer cache
  stale,     \* the kinds whose cached copy is not the current version
  queued,    \* the key waits in the workqueue
  worker,    \* the reconcile in progress
  births,    \* how often the ToolServer was created (its uid)
  spent      \* how much of the environment's bounds is used

stored == <<server, deployment, service>>
cached == <<cServer, cDeployment, cService>>
vars == <<stored, cached, stale, queued, worker, births, spent>>

-----------------------------------------------------------------------------
BlankStatus == [ready |-> "Unknown", url |-> None, observed |-> 0]
NewServer(s, n) == [uid |-> n, generation |-> 1, spec |-> s, status |-> BlankStatus]
Idle == [pc |-> "idle", held |-> None, current |-> FALSE]

\* Both transports publish http://name.namespace.svc.cluster.local:port/path.
Url(s) == <<s.port, s.path>>

Init ==
  /\ server \in {NewServer(s, 1) : s \in Specs} \cup {None}
  /\ deployment = None /\ service = None
  /\ cServer = server /\ cDeployment = None /\ cService = None
  /\ stale = {}
  /\ queued = (server # None)
  /\ worker = Idle
  /\ births = (IF server = None THEN 0 ELSE 1)
  /\ spent = [edits |-> 0, deletes |-> 0, incidents |-> 0]

-----------------------------------------------------------------------------
(* The environment: users, the Deployment controller, the garbage collector  *)

Outdated == [worker EXCEPT !.current = FALSE]

Incident ==
  spent.incidents < MaxIncidents /\ spent' = [spent EXCEPT !.incidents = @ + 1]

Apply(s) ==
  /\ spent.edits < MaxEdits
  /\ spent' = [spent EXCEPT !.edits = @ + 1]
  /\ IF server = None
       THEN server' = NewServer(s, births + 1) /\ births' = births + 1
       ELSE /\ server.spec # s
            /\ server' = [server EXCEPT !.spec = s, !.generation = @ + 1]
            /\ UNCHANGED births
  /\ stale' = stale \cup {"server"}
  /\ worker' = Outdated
  /\ UNCHANGED <<deployment, service, cached, queued>>

Delete ==
  /\ spent.deletes < MaxDeletes
  /\ spent' = [spent EXCEPT !.deletes = @ + 1]
  /\ server # None
  /\ server' = None
  /\ stale' = stale \cup {"server"}
  /\ worker' = Outdated
  /\ UNCHANGED <<deployment, service, cached, queued, births>>

\* The owner a child names in its ownerReference no longer exists.
Orphaned(child) == child # None /\ (server # None => server.uid # child.owner)

CollectDeployment ==
  /\ Orphaned(deployment)
  /\ deployment' = None
  /\ stale' = stale \cup {"deployment"}
  /\ UNCHANGED <<server, service, cached, queued, worker, births, spent>>

CollectService ==
  /\ Orphaned(service)
  /\ service' = None
  /\ stale' = stale \cup {"service"}
  /\ UNCHANGED <<server, deployment, cached, queued, worker, births, spent>>

\* The Deployment controller reports that all replicas are available, or not.
ReportAvailability ==
  /\ Incident
  /\ deployment # None
  /\ deployment' = [deployment EXCEPT !.available = ~@]
  /\ stale' = stale \cup {"deployment"}
  /\ UNCHANGED <<server, service, cached, queued, worker, births>>

-----------------------------------------------------------------------------
(* The informers: ToolServers are watched, and what they own.                *)

\* Mistake: the Deployment and the Service are not watched.
SyncUnowned(kind) ==
  /\ kind \in stale
  /\ stale' = stale \ {kind}
  /\ cServer' = IF kind = "server" THEN server ELSE cServer
  /\ cDeployment' = IF kind = "deployment" THEN deployment ELSE cDeployment
  /\ cService' = IF kind = "service" THEN service ELSE cService
  /\ queued' = (queued \/ kind = "server")
  /\ UNCHANGED <<stored, worker, births, spent>>

Sync(kind) ==
  /\ kind \in stale
  /\ stale' = stale \ {kind}
  /\ cServer' = IF kind = "server" THEN server ELSE cServer
  /\ cDeployment' = IF kind = "deployment" THEN deployment ELSE cDeployment
  /\ cService' = IF kind = "service" THEN service ELSE cService
  /\ queued' = TRUE
  /\ UNCHANGED <<stored, worker, births, spent>>

-----------------------------------------------------------------------------
(* The reconcile loop                                                        *)

rest == <<cached, births, spent>>

Goto(label) == worker' = [worker EXCEPT !.pc = label]
Fail == Goto("notReady")

\* Mistake: a reconcile of a ToolServer that is gone goes on.
FetchMissing ==
  /\ worker.pc = "idle"
  /\ queued
  /\ queued' = FALSE
  /\ worker' = [pc |-> "deployment", held |-> cServer, current |-> "server" \notin stale]
  /\ UNCHANGED <<stored, rest, stale>>

\* Reconcile takes the key off the queue; a ToolServer not in the cache ends it.
Fetch ==
  /\ worker.pc = "idle"
  /\ queued
  /\ queued' = FALSE
  /\ worker' = IF cServer = None THEN worker ELSE
                 [pc |-> "deployment", held |-> cServer, current |-> "server" \notin stale]
  /\ UNCHANGED <<stored, rest, stale>>

\* CreateOrUpdate leaves out the write when the cached copy is what it wants, and
\* the API server refuses it when the cached copy is not the current version.
Accepts(copy, object, kind) == IF copy = None THEN object = None
                               ELSE kind \notin stale /\ object # None

UpToDate(copy) ==
  copy # None /\ copy.owner = worker.held.uid /\ copy.spec = worker.held.spec

WriteDeployment ==
  /\ deployment' = [owner |-> worker.held.uid, spec |-> worker.held.spec,
                    available |-> deployment # None /\ deployment.available]
  /\ stale' = stale \cup {"deployment"}

EnsureDeployment ==
  /\ worker.pc = "deployment"
  /\ IF UpToDate(cDeployment) THEN UNCHANGED <<deployment, stale>>
     ELSE Accepts(cDeployment, deployment, "deployment") /\ WriteDeployment
  /\ Goto("service")
  /\ UNCHANGED <<server, service, rest, queued>>

DeploymentRejected ==
  /\ worker.pc = "deployment"
  /\ ~UpToDate(cDeployment) /\ ~Accepts(cDeployment, deployment, "deployment")
  /\ Fail
  /\ UNCHANGED <<stored, rest, stale, queued>>

WantedService == [owner |-> worker.held.uid, port |-> worker.held.spec.port]

\* Mistake: an existing Service is taken as it is.
EnsureServiceOnce ==
  /\ worker.pc = "service"
  /\ IF cService # None THEN UNCHANGED <<service, stale>>
     ELSE /\ Accepts(cService, service, "service")
          /\ service' = WantedService
          /\ stale' = stale \cup {"service"}
  /\ Goto("ready")
  /\ UNCHANGED <<server, deployment, rest, queued>>

EnsureService ==
  /\ worker.pc = "service"
  /\ IF cService = WantedService THEN UNCHANGED <<service, stale>>
     ELSE /\ Accepts(cService, service, "service")
          /\ service' = WantedService
          /\ stale' = stale \cup {"service"}
  /\ Goto("ready")
  /\ UNCHANGED <<server, deployment, rest, queued>>

ServiceRejected ==
  /\ worker.pc = "service"
  /\ cService # WantedService /\ ~Accepts(cService, service, "service")
  /\ Fail
  /\ UNCHANGED <<stored, rest, stale, queued>>

WriteStatus(status) ==
  IF worker.current /\ server.status # status
  THEN server' = [server EXCEPT !.status = status] /\ stale' = stale \cup {"server"}
  ELSE UNCHANGED <<server, stale>>

PublishReady ==
  /\ worker.pc = "ready"
  /\ WriteStatus([ready |-> "True", url |-> Url(worker.held.spec),
                  observed |-> worker.held.generation])
  /\ queued' = (queued \/ ~worker.current)
  /\ worker' = Idle
  /\ UNCHANGED <<deployment, service, rest>>

\* Mistake: a failing ToolServer withdraws its URL, as a failing Agent does.
WithdrawUrl ==
  /\ worker.pc = "notReady"
  /\ WriteStatus([ready |-> "False", url |-> None, observed |-> worker.held.generation])
  /\ queued' = TRUE
  /\ worker' = Idle
  /\ UNCHANGED <<deployment, service, rest>>

\* The URL is left as it is.
PublishNotReady ==
  /\ worker.pc = "notReady"
  /\ WriteStatus([worker.held.status EXCEPT !.ready = "False",
                                            !.observed = worker.held.generation])
  /\ queued' = TRUE
  /\ worker' = Idle
  /\ UNCHANGED <<deployment, service, rest>>

\* An API call fails for a reason outside the model and changes nothing.
ApiFault ==
  /\ Incident
  /\ \/ /\ worker.pc \in {"deployment", "service"}
        /\ Fail
        /\ UNCHANGED queued
     \/ /\ worker.pc \in {"ready", "notReady"}
        /\ worker' = Idle
        /\ queued' = TRUE
  /\ UNCHANGED <<stored, cached, stale, births>>

\* The operator restarts: caches are listed anew, every object found is an Add event.
Restart ==
  /\ Incident
  /\ cServer' = server /\ cDeployment' = deployment /\ cService' = service
  /\ stale' = {}
  /\ queued' = (server # None \/ deployment # None \/ service # None)
  /\ worker' = Idle
  /\ UNCHANGED <<stored, births>>

-----------------------------------------------------------------------------
Environment ==
  \/ \E s \in Specs : Apply(s)
  \/ Delete \/ CollectDeployment \/ CollectService \/ ReportAvailability

Reconcile ==
  \/ Fetch \/ EnsureDeployment \/ DeploymentRejected \/ EnsureService \/ ServiceRejected
  \/ PublishReady \/ PublishNotReady

Next == Environment \/ (\E kind \in Kinds : Sync(kind)) \/ Reconcile \/ ApiFault \/ Restart

Spec == Init /\ [][Next]_vars

\* Watches deliver, the worker is scheduled, orphans are collected.
Fairness ==
  /\ WF_vars(Reconcile)
  /\ \A kind \in Kinds : WF_vars(Sync(kind))
  /\ WF_vars(CollectDeployment) /\ WF_vars(CollectService)

FairSpec == Spec /\ Fairness

-----------------------------------------------------------------------------
(* Properties                                                                *)

\* Every variable has its type, and a reconcile in progress holds a ToolServer.
TypeOK ==
  /\ server \in ServerType \cup {None} /\ cServer \in ServerType \cup {None}
  /\ deployment \in DeploymentType \cup {None} /\ cDeployment \in DeploymentType \cup {None}
  /\ service \in ServiceType \cup {None} /\ cService \in ServiceType \cup {None}
  /\ stale \in SUBSET Kinds /\ queued \in BOOLEAN
  /\ worker \in [pc : {"idle", "deployment", "service", "ready", "notReady"},
                  held : ServerType \cup {None}, current : BOOLEAN]
  /\ worker.pc # "idle" => worker.held # None
  /\ births \in Nat
  /\ spent \in [edits : Nat, deletes : Nat, incidents : Nat]

\* Deployment, Service and status are what the spec of the ToolServer calls for.
Reconciled ==
  /\ deployment # None
  /\ deployment.owner = server.uid /\ deployment.spec = server.spec
  /\ service = [owner |-> server.uid, port |-> server.spec.port]
  /\ server.status = [ready |-> "True", url |-> Url(server.spec),
                      observed |-> server.generation]

\* No wake-up is lost: when the key is not queued, no reconcile runs and the cache is
\* current, the cluster is as the spec calls for.  A reconcile that wrote nothing,
\* because an outdated copy happened to look right, is followed by another one.
QuiescentIsReconciled ==
  server # None /\ ~queued /\ worker.pc = "idle" /\ stale = {} => Reconciled

Wanted == IF server = None THEN None
          ELSE [uid |-> server.uid, generation |-> server.generation,
                address |-> Url(server.spec)]
Published == IF server = None THEN BlankStatus ELSE server.status

Promise == INSTANCE ToolServerPromise WITH wanted <- Wanted, published <- Published

\* Agents may rely on the status as ToolServerPromise says, although it is written from a
\* copy that may be of an earlier generation or of a ToolServer that is gone, and although
\* reconciles of a conflict fail now and then.
KeepsPromise == Promise!Spec

\* Once users rest, the ToolServer is reconciled and stays so; the children of a
\* deleted one are gone.
Settles ==
  <>[](IF server = None THEN deployment = None /\ service = None ELSE Reconciled)
=============================================================================
