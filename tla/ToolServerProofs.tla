--------------------------- MODULE ToolServerProofs ---------------------------
(***************************************************************************)
(* Proofs about the ToolServer controller.                                 *)
(***************************************************************************)
EXTENDS ToolServerReconciler, TLAPS

\* A copy that is not marked stale is what the API server stores.
CacheIsFresh ==
  /\ "server" \notin stale => cServer = server
  /\ "deployment" \notin stale => cDeployment = deployment
  /\ "service" \notin stale => cService = service

\* The copy a worker believes current is the stored ToolServer.
HeldIsCurrent == worker.pc # "idle" /\ worker.current => server = worker.held

TypeInv == TypeOK /\ CacheIsFresh /\ HeldIsCurrent

WorkerType == [pc : {"idle", "deployment", "service", "ready", "notReady"},
               held : ServerType \cup {None}, current : BOOLEAN]

-----------------------------------------------------------------------------
LEMMA IdleType == Idle \in WorkerType /\ Idle.pc = "idle"
  BY DEF Idle, WorkerType

LEMMA NewServerType ==
  ASSUME NEW s \in SpecType, NEW n \in Nat
  PROVE  /\ NewServer(s, n) \in ServerType
         /\ NewServer(s, n).status = BlankStatus /\ NewServer(s, n).generation = 1
  BY DEF NewServer, ServerType, BlankStatus, StatusType

LEMMA StatusTypes ==
  ASSUME NEW held \in ServerType
  PROVE  /\ [ready |-> "True", url |-> Url(held.spec), observed |-> held.generation]
              \in StatusType
         /\ [held.status EXCEPT !.ready = "False", !.observed = held.generation]
              \in StatusType
  BY DEF Url, Urls, StatusType, ServerType, SpecType

\* The only write of a status keeps the types, and marks what it outdates.
LEMMA WriteStatusType ==
  ASSUME TypeInv, worker.pc # "idle", NEW status \in StatusType, WriteStatus(status)
  PROVE  /\ server' \in ServerType \cup {None}
         /\ stale' \in SUBSET Kinds /\ stale \subseteq stale'
         /\ "server" \notin stale' => server' = server
<1>1. CASE worker.current /\ server.status # status
  <2>1. server \in ServerType
    BY <1>1 DEF TypeInv, TypeOK, HeldIsCurrent
  <2>2. [server EXCEPT !.status = status] \in ServerType
    BY <2>1 DEF ServerType
  <2> QED
    BY <1>1, <2>2 DEF WriteStatus, TypeInv, TypeOK, Kinds
<1>2. CASE ~(worker.current /\ server.status # status)
  BY <1>2 DEF WriteStatus, TypeInv, TypeOK
<1> QED
  BY <1>1, <1>2

LEMMA TypeInit == Init => TypeInv
<1> SUFFICES ASSUME Init PROVE TypeInv
  OBVIOUS
<1>1. server \in ServerType \cup {None}
  BY NewServerType, ToolServerAssumption DEF Init
<1> QED
  BY <1>1 DEF Init, Idle, TypeInv, TypeOK, CacheIsFresh, HeldIsCurrent

LEMMA TypeStep == TypeInv /\ [Next]_vars => TypeInv'
<1> SUFFICES ASSUME TypeInv, [Next]_vars PROVE TypeInv'
  OBVIOUS
<1> USE DEF TypeInv
<1>w. worker \in WorkerType /\ (worker.pc # "idle" => worker.held \in ServerType)
  BY DEF TypeOK, WorkerType
<1>1. ASSUME NEW s \in Specs, Apply(s) PROVE TypeInv'
  <2>1. server' \in ServerType \cup {None} /\ births' \in Nat
    <3>1. s \in SpecType
      BY ToolServerAssumption
    <3>2. CASE server = None
      BY <1>1, <3>1, <3>2, NewServerType DEF Apply, TypeOK
    <3>3. CASE server # None
      <4>1. server \in ServerType
        BY <3>3 DEF TypeOK
      <4>2. PICK n \in Nat : n = server.generation + 1
        BY <4>1 DEF ServerType
      <4>3. [server EXCEPT !.spec = s, !.generation = n] \in ServerType
        BY <3>1, <4>1 DEF ServerType
      <4> QED
        BY <1>1, <3>3, <4>2, <4>3 DEF Apply, TypeOK
    <3> QED
      BY <3>2, <3>3
  <2>2. worker' \in WorkerType /\ ~worker'.current
        /\ worker'.pc = worker.pc /\ worker'.held = worker.held
    BY <1>1, <1>w DEF Apply, Outdated, WorkerType
  <2> QED
    BY <1>1, <2>1, <2>2 DEF Apply, TypeOK, WorkerType, Kinds, CacheIsFresh, HeldIsCurrent, cached
<1>2. CASE Delete
  <2>1. worker' \in WorkerType /\ ~worker'.current
        /\ worker'.pc = worker.pc /\ worker'.held = worker.held
    BY <1>2, <1>w DEF Delete, Outdated, WorkerType
  <2> QED
    BY <1>2, <2>1 DEF Delete, TypeOK, WorkerType, Kinds, CacheIsFresh, HeldIsCurrent, cached
<1>3. CASE CollectDeployment \/ CollectService \/ ReportAvailability
  <2>1. CASE ReportAvailability
    <3>1. deployment \in DeploymentType
      BY <2>1 DEF ReportAvailability, TypeOK
    <3>2. [deployment EXCEPT !.available = ~deployment.available] \in DeploymentType
      BY <3>1 DEF DeploymentType
    <3> QED
      BY <2>1, <3>2 DEF ReportAvailability, Incident, TypeOK, Kinds, CacheIsFresh,
         HeldIsCurrent, cached
  <2>2. CASE CollectDeployment \/ CollectService
    BY <2>2 DEF CollectDeployment, CollectService, TypeOK, Kinds, CacheIsFresh,
       HeldIsCurrent, cached
  <2> QED
    BY <1>3, <2>1, <2>2
<1>4. ASSUME NEW kind \in Kinds, Sync(kind) PROVE TypeInv'
  BY <1>4 DEF Sync, TypeOK, Kinds, CacheIsFresh, HeldIsCurrent, stored
<1>5. CASE Fetch
  <2>1. CASE cServer = None
    BY <1>5, <2>1 DEF Fetch, TypeOK, CacheIsFresh, HeldIsCurrent, stored, rest, cached
  <2>2. CASE cServer # None
    <3>1. worker' = [pc |-> "deployment", held |-> cServer, current |-> "server" \notin stale]
      BY <1>5, <2>2 DEF Fetch
    <3>2. worker' \in WorkerType /\ worker'.held # None
      BY <2>2, <3>1 DEF TypeOK, WorkerType
    <3> QED
      <4>1. UNCHANGED <<stored, rest, stale>> /\ queued' = FALSE
        BY <1>5 DEF Fetch
      <4>2. HeldIsCurrent'
        BY <3>1, <4>1 DEF HeldIsCurrent, CacheIsFresh, stored
      <4>3. TypeOK'
        BY <3>2, <4>1 DEF TypeOK, WorkerType, stored, rest, cached
      <4> QED
        BY <4>1, <4>2, <4>3 DEF CacheIsFresh, stored, rest, cached
  <2> QED
    BY <2>1, <2>2
<1>6. CASE EnsureDeployment \/ EnsureService
  <2>1. worker.pc # "idle" /\ worker.held \in ServerType
    BY <1>6, <1>w DEF EnsureDeployment, EnsureService
  <2>2. /\ worker' \in WorkerType /\ worker'.pc # "idle"
        /\ worker'.held = worker.held /\ worker'.current = worker.current
    BY <1>6, <1>w DEF EnsureDeployment, EnsureService, Goto, WorkerType
  <2>3. [owner |-> worker.held.uid, spec |-> worker.held.spec,
         available |-> deployment # None /\ deployment.available] \in DeploymentType
    BY <2>1 DEF TypeOK, DeploymentType, ServerType
  <2>4. WantedService \in ServiceType
    BY <2>1 DEF WantedService, ServiceType, ServerType, SpecType
  <2>5. CASE EnsureDeployment
    BY <2>1, <2>2, <2>3, <2>5 DEF EnsureDeployment, WriteDeployment, TypeOK, WorkerType, Kinds,
       CacheIsFresh, HeldIsCurrent, rest, cached
  <2>6. CASE EnsureService
    BY <2>1, <2>2, <2>4, <2>6 DEF EnsureService, TypeOK, WorkerType, Kinds,
       CacheIsFresh, HeldIsCurrent, rest, cached
  <2> QED
    BY <1>6, <2>5, <2>6
<1>7. CASE DeploymentRejected \/ ServiceRejected
  <2>1. /\ worker' \in WorkerType /\ worker.pc # "idle"
        /\ worker'.held = worker.held /\ worker'.current = worker.current
    BY <1>7, <1>w DEF DeploymentRejected, ServiceRejected, Fail, Goto, WorkerType
  <2> QED
    BY <1>7, <2>1 DEF DeploymentRejected, ServiceRejected, TypeOK, WorkerType, CacheIsFresh,
       HeldIsCurrent, stored, rest, cached
<1>8. CASE PublishReady \/ PublishNotReady
  <2>1. worker.pc # "idle" /\ worker.held \in ServerType
    BY <1>8, <1>w DEF PublishReady, PublishNotReady
  <2>2. PICK status \in StatusType : WriteStatus(status)
    BY <1>8, <2>1, StatusTypes DEF PublishReady, PublishNotReady
  <2>3. /\ server' \in ServerType \cup {None}
        /\ stale' \in SUBSET Kinds /\ stale \subseteq stale'
        /\ "server" \notin stale' => server' = server
    BY <2>1, <2>2, WriteStatusType
  <2>4. worker' \in WorkerType /\ worker'.pc = "idle"
    BY <1>8, IdleType DEF PublishReady, PublishNotReady
  <2>5. queued' \in BOOLEAN /\ UNCHANGED <<deployment, service, rest>>
    BY <1>8 DEF PublishReady, PublishNotReady, TypeOK
  <2> QED
    BY <2>3, <2>4, <2>5 DEF TypeOK, WorkerType, CacheIsFresh, HeldIsCurrent, rest, cached
<1>9. CASE ApiFault
  <2>1. /\ worker' \in WorkerType
        /\ \/ worker'.pc = "idle"
           \/ /\ worker.pc # "idle" /\ worker'.pc = "notReady"
              /\ worker'.held = worker.held /\ worker'.current = worker.current
    BY <1>9, <1>w, IdleType DEF ApiFault, Fail, Goto, WorkerType
  <2> QED
    <3>1. UNCHANGED <<stored, cached, stale, births>>
      BY <1>9 DEF ApiFault
    <3>2. queued' \in BOOLEAN
      BY <1>9 DEF ApiFault, TypeOK
    <3>3. spent' \in [edits : Nat, deletes : Nat, incidents : Nat]
      BY <1>9 DEF ApiFault, Incident, TypeOK
    <3>4. worker'.pc # "idle" => worker'.held # None
      BY <2>1 DEF TypeOK
    <3>5. TypeOK'
      BY <2>1, <3>1, <3>2, <3>3, <3>4 DEF TypeOK, WorkerType, stored, cached
    <3> QED
      BY <2>1, <3>1, <3>5 DEF CacheIsFresh, HeldIsCurrent, stored, cached
<1>10. CASE Restart
  <2>1. worker' \in WorkerType /\ worker'.pc = "idle"
    BY <1>10, IdleType DEF Restart
  <2> QED
    BY <1>10, <2>1 DEF Restart, Incident, TypeOK, WorkerType, CacheIsFresh, HeldIsCurrent, stored
<1>11. CASE UNCHANGED vars
  BY <1>11 DEF vars, stored, cached, TypeOK, CacheIsFresh, HeldIsCurrent
<1> QED
  BY <1>1, <1>2, <1>3, <1>4, <1>5, <1>6, <1>7, <1>8, <1>9, <1>10, <1>11
     DEF Next, Environment, Reconcile

\* Every variable of the ToolServer controller has its type, for all specs and bounds.
THEOREM ToolServerTypeCorrect == Spec => []TypeOK
<1>1. TypeInv => TypeOK
  BY DEF TypeInv
<1> QED
  BY <1>1, TypeInit, TypeStep, PTL DEF Spec

-----------------------------------------------------------------------------
(* No wake-up is lost                                                        *)

DeploymentIsWanted ==
  deployment # None /\ deployment.owner = worker.held.uid /\ deployment.spec = worker.held.spec

\* What the worker has ensured so far, unless something is on its way that brings it back
NothingIsForgotten ==
  server # None /\ ~queued /\ stale = {} =>
    /\ worker.pc = "idle" => Reconciled
    /\ worker.pc # "idle" => worker.current
    /\ worker.pc \in {"service", "ready"} => DeploymentIsWanted
    /\ worker.pc = "ready" => service = WantedService

QuietInv == TypeInv /\ NothingIsForgotten

LEMMA QuietStep == QuietInv /\ [Next]_vars => NothingIsForgotten'
<1> SUFFICES ASSUME QuietInv, [Next]_vars, server' # None, ~queued', stale' = {}
             PROVE  /\ worker'.pc = "idle" => Reconciled'
                    /\ worker'.pc # "idle" => worker'.current
                    /\ worker'.pc \in {"service", "ready"} => DeploymentIsWanted'
                    /\ worker'.pc = "ready" => service' = WantedService'
  BY DEF NothingIsForgotten
<1> USE DEF QuietInv, TypeInv
<1>w. worker \in WorkerType /\ (worker.pc # "idle" => worker.held \in ServerType)
  BY DEF TypeOK, WorkerType
<1>1. ~ \/ \E s \in Specs : Apply(s)
        \/ Delete \/ CollectDeployment \/ CollectService \/ ReportAvailability
  BY DEF Apply, Delete, CollectDeployment, CollectService, ReportAvailability
<1>2. ~ \E kind \in Kinds : Sync(kind)
  BY DEF Sync
<1>3. CASE Fetch
  <2>1. UNCHANGED <<server, stale>> /\ cServer = server
    BY <1>3 DEF Fetch, stored, CacheIsFresh
  <2>2. worker' = [pc |-> "deployment", held |-> cServer, current |-> TRUE]
    BY <1>3, <2>1 DEF Fetch
  <2> QED
    BY <2>2
<1>4. CASE EnsureDeployment
  <2>1. /\ worker.pc = "deployment" /\ ~queued /\ server # None
        /\ worker'.pc = "service" /\ worker'.held = worker.held
        /\ worker'.current = worker.current
    BY <1>4, <1>w DEF EnsureDeployment, Goto, WorkerType
  <2>2. UpToDate(cDeployment) /\ UNCHANGED <<deployment, stale>>
    BY <1>4 DEF EnsureDeployment, WriteDeployment
  <2>3. cDeployment = deployment
    BY <2>2 DEF CacheIsFresh
  <2>4. worker.current
    BY <2>1, <2>2 DEF NothingIsForgotten
  <2> QED
    BY <2>1, <2>2, <2>3, <2>4 DEF UpToDate, DeploymentIsWanted
<1>5. CASE EnsureService
  <2>1. /\ worker.pc = "service" /\ ~queued /\ server # None
        /\ worker'.pc = "ready" /\ worker'.held = worker.held
        /\ worker'.current = worker.current /\ UNCHANGED deployment
    BY <1>5, <1>w DEF EnsureService, Goto, WorkerType
  <2>2. cService = WantedService /\ UNCHANGED <<service, stale>>
    BY <1>5 DEF EnsureService
  <2>3. service' = WantedService'
    BY <2>1, <2>2 DEF CacheIsFresh, WantedService
  <2>4. worker.current /\ DeploymentIsWanted
    BY <2>1, <2>2 DEF NothingIsForgotten
  <2> QED
    BY <2>1, <2>3, <2>4 DEF DeploymentIsWanted
<1>6. CASE DeploymentRejected \/ ServiceRejected
  <2>1. /\ worker.pc \in {"deployment", "service"} /\ ~queued /\ stale = {} /\ server # None
        /\ worker'.pc = "notReady" /\ worker'.current = worker.current
    BY <1>6, <1>w DEF DeploymentRejected, ServiceRejected, Fail, Goto, WorkerType, stored
  <2> QED
    BY <2>1 DEF NothingIsForgotten
<1>7. CASE PublishReady
  <2> DEFINE status == [ready |-> "True", url |-> Url(worker.held.spec),
                        observed |-> worker.held.generation]
  <2>1. /\ worker.pc = "ready" /\ ~queued /\ worker.current
        /\ WriteStatus(status) /\ worker' = Idle
        /\ UNCHANGED <<deployment, service>>
    BY <1>7 DEF PublishReady
  <2>2. server = worker.held
    BY <2>1 DEF HeldIsCurrent
  <2>3. server.status = status /\ UNCHANGED <<server, stale>>
    BY <2>1 DEF WriteStatus
  <2>4. DeploymentIsWanted /\ service = WantedService
    BY <2>1, <2>3 DEF NothingIsForgotten
  <2>5. Reconciled'
    BY <2>1, <2>2, <2>3, <2>4 DEF Reconciled, DeploymentIsWanted, WantedService
  <2> QED
    BY <2>1, <2>5, IdleType
<1>8. ~PublishNotReady /\ ~Restart
  <2>1. ~PublishNotReady
    BY DEF PublishNotReady
  <2>2. ~Restart
    BY DEF Restart, stored
  <2> QED
    BY <2>1, <2>2
<1>9. CASE ApiFault
  <2>1. /\ worker.pc \in {"deployment", "service"} /\ ~queued /\ stale = {} /\ server # None
        /\ worker'.pc = "notReady" /\ worker'.current = worker.current
    BY <1>9, <1>w DEF ApiFault, Fail, Goto, WorkerType, stored
  <2> QED
    BY <2>1 DEF NothingIsForgotten
<1>10. CASE UNCHANGED vars
  BY <1>10 DEF vars, stored, NothingIsForgotten, Reconciled, DeploymentIsWanted, WantedService
<1> QED
  BY <1>1, <1>2, <1>3, <1>4, <1>5, <1>6, <1>7, <1>8, <1>9, <1>10
     DEF Next, Environment, Reconcile

\* When the key is not queued, no reconcile runs and every event has been delivered, the
\* ToolServer is reconciled: no wake-up is lost to conflicts, faults, restarts or the
\* outdated copies by which the controller decides to write nothing.
THEOREM NoWakeUpIsLost == Spec => []QuiescentIsReconciled
<1>1. Init => NothingIsForgotten
  BY DEF Init, NothingIsForgotten
<1>2. QuietInv => QuiescentIsReconciled
  BY DEF QuietInv, NothingIsForgotten, QuiescentIsReconciled
<1>3. Spec => []QuietInv
  BY <1>1, TypeInit, TypeStep, QuietStep, PTL DEF Spec, QuietInv
<1> QED
  BY <1>2, <1>3, PTL

-----------------------------------------------------------------------------
(* The refinement of ToolServerPromise                                       *)

LEMMA PromiseInit == Init => Promise!Init
<1> SUFFICES ASSUME Init PROVE Promise!Init
  OBVIOUS
<1>1. CASE server = None
  BY <1>1 DEF Wanted, Published, BlankStatus, Promise!Init, Promise!Blank
<1>2. CASE server # None
  <2>1. PICK s \in Specs : server = NewServer(s, 1)
    BY <1>2 DEF Init
  <2> QED
    BY <1>2, <2>1 DEF NewServer, Wanted, Published, BlankStatus, Promise!Init, Promise!Blank
<1> QED
  BY <1>1, <1>2

\* An existing ToolServer demands something.
LEMMA DemandedType ==
  ASSUME NEW object \in ServerType
  PROVE  [uid |-> object.uid, generation |-> object.generation, address |-> Url(object.spec)]
           \in DemandType
  BY DEF DemandType, ServerType, SpecType, Url, Urls

LEMMA PromiseStep == TypeInv /\ TypeInv' /\ [Next]_vars => [Promise!Next]_Promise!vars
<1> SUFFICES ASSUME TypeInv, TypeInv', [Next]_vars
             PROVE  Promise!Next \/ UNCHANGED <<Wanted, Published>>
  BY DEF Promise!vars
<1> USE DEF TypeInv
<1>t. server \in ServerType \cup {None} /\ server' \in ServerType \cup {None}
  BY DEF TypeOK
<1>1. ASSUME UNCHANGED server PROVE UNCHANGED <<Wanted, Published>>
  BY <1>1 DEF Wanted, Published
<1>2. server # None => Wanted \in DemandType /\ Wanted # None
  BY <1>t, DemandedType, ToolServerAssumption DEF Wanted
<1>3. server' # None => Wanted' \in DemandType /\ Wanted' # None
  BY <1>t, DemandedType, ToolServerAssumption DEF Wanted
<1>4. ASSUME NEW s \in Specs, Apply(s) PROVE Promise!Next
  <2>1. CASE server = None
    <3>1. server' = NewServer(s, births + 1)
      BY <1>4, <2>1 DEF Apply
    <3>2. Wanted = None /\ Published' = Promise!Blank
      BY <2>1, <3>1 DEF Wanted, Published, NewServer, BlankStatus, Promise!Blank
    <3>3. Wanted' # None => Wanted'.generation = 1
      BY <3>1 DEF Wanted, NewServer
    <3> QED
      BY <3>2, <3>3 DEF Promise!Next, Promise!Appear
  <2>2. CASE server # None
    <3>1. server \in ServerType
      BY <1>t, <2>2
    <3>2. PICK n \in Nat : n = server.generation + 1
      BY <3>1 DEF ServerType
    <3>3. server' = [server EXCEPT !.spec = s, !.generation = n]
      BY <1>4, <2>2, <3>2 DEF Apply
    <3>4. s \in SpecType
      BY ToolServerAssumption
    <3>5. /\ server' \in ServerType /\ server'.uid = server.uid
          /\ server'.generation = n /\ server'.status = server.status
      BY <3>1, <3>3, <3>4 DEF ServerType
    <3>6. server' # None
      BY <3>5, ToolServerAssumption
    <3>7. Published' = Published /\ Wanted'.uid = Wanted.uid
            /\ Wanted'.generation = Wanted.generation + 1
      BY <2>2, <3>2, <3>5, <3>6 DEF Published, Wanted
    <3> QED
      BY <1>2, <1>3, <2>2, <3>6, <3>7 DEF Promise!Next, Promise!Amend
  <2> QED
    BY <2>1, <2>2
<1>5. CASE Delete
  <2>1. server' = None
    BY <1>5 DEF Delete
  <2> QED
    BY <2>1 DEF Wanted, Published, BlankStatus, Promise!Next, Promise!Appear, Promise!Blank
<1>6. CASE PublishReady \/ PublishNotReady
  <2>1. worker.pc # "idle" /\ worker.held \in ServerType
    BY <1>6 DEF PublishReady, PublishNotReady, TypeOK
  <2>2. PICK status \in StatusType :
          /\ WriteStatus(status)
          /\ status.observed = worker.held.generation
          /\ \/ status.ready = "True" /\ status.url = Url(worker.held.spec)
             \/ status.ready = "False" /\ status.url = worker.held.status.url
    <3>1. CASE PublishReady
      BY <2>1, <3>1, StatusTypes DEF PublishReady
    <3>2. CASE PublishNotReady
      <4> DEFINE status == [worker.held.status EXCEPT !.ready = "False",
                              !.observed = worker.held.generation]
      <4>1. worker.held.status \in StatusType
        BY <2>1 DEF ServerType
      <4>2. /\ status.observed = worker.held.generation /\ status.ready = "False"
            /\ status.url = worker.held.status.url
        BY <4>1 DEF StatusType
      <4>3. status \in StatusType /\ WriteStatus(status)
        BY <2>1, <3>2, StatusTypes DEF PublishNotReady
      <4> QED
        BY <4>2, <4>3
    <3> QED
      BY <1>6, <3>1, <3>2
  <2>3. CASE ~(worker.current /\ server.status # status)
    BY <1>1, <2>2, <2>3 DEF WriteStatus
  <2>4. CASE worker.current /\ server.status # status
    <3>1. server = worker.held /\ server' = [server EXCEPT !.status = status]
      BY <2>1, <2>2, <2>4 DEF WriteStatus, HeldIsCurrent
    <3>2. /\ server' \in ServerType /\ server'.uid = server.uid /\ server'.spec = server.spec
          /\ server'.generation = server.generation /\ server'.status = status
      BY <2>1, <3>1 DEF ServerType
    <3>3. server # None /\ server' # None
      BY <2>1, <3>1, <3>2, ToolServerAssumption
    <3>4. UNCHANGED Wanted /\ Wanted # None
      BY <1>2, <3>2, <3>3 DEF Wanted
    <3>5. /\ Published = worker.held.status /\ Published' = status
          /\ Wanted.generation = worker.held.generation
          /\ Wanted.address = Url(worker.held.spec)
      BY <3>1, <3>2, <3>3 DEF Published, Wanted
    <3> QED
      BY <2>2, <3>4, <3>5 DEF Promise!Next, Promise!Publish
  <2> QED
    BY <2>3, <2>4
<1>7. CASE \/ CollectDeployment \/ CollectService \/ ReportAvailability
           \/ \E kind \in Kinds : Sync(kind)
           \/ Fetch \/ EnsureDeployment \/ DeploymentRejected
           \/ EnsureService \/ ServiceRejected
           \/ ApiFault \/ Restart \/ UNCHANGED vars
  BY <1>1, <1>7 DEF CollectDeployment, CollectService, ReportAvailability, Sync, Fetch,
     EnsureDeployment, DeploymentRejected, EnsureService, ServiceRejected, ApiFault, Restart,
     vars, stored
<1> QED
  BY <1>4, <1>5, <1>6, <1>7 DEF Next, Environment, Reconcile

\* The ToolServer controller implements ToolServerPromise: Ready comes with the URL of
\* the stored generation, and a published URL is never withdrawn.
THEOREM ToolServerKeepsPromise == Spec => KeepsPromise
<1>1. Spec => []TypeInv
  BY TypeInit, TypeStep, PTL DEF Spec
<1> QED
  BY <1>1, PromiseInit, PromiseStep, PTL DEF Spec, KeepsPromise, Promise!Spec
=============================================================================
