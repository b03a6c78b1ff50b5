------------------------------ MODULE SharedNames ------------------------------
(***************************************************************************)
(* An Agent and a ToolServer of one name.  Both controllers give their     *)
(* Deployment and their Service the name of the resource, so that they     *)
(* compete for the same two objects, and with objects of that name that    *)
(* somebody else created.  What decides is SetControllerReference at the   *)
(* end of every mutate function.                                           *)
(*                                                                         *)
(* Both controllers run in one process: each has a workqueue and a worker  *)
(* of its own, and they share the informer caches.  What the specs say,    *)
(* except for the Agent's protocols, is left out: it makes no difference   *)
(* to who owns what.                                                       *)
(***************************************************************************)
EXTENDS Naturals

CONSTANTS
  None,
  MaxBirths,   \* MaxBirths[o]: how often users create o's resource
  MaxEvents    \* edits, deletions, foreign objects and removals by hand, together

Controllers == {"Agent", "ToolServer"}
Objects == {"Deployment", "Service"}

\* An object: who its controller reference names, None without one.  Whoever writes an
\* object puts itself there, so this also tells whose spec the object is of.
ObjectType == [controller : Controllers \cup {"other", None}, uid : Nat]

\* An Agent or a ToolServer of the name.  Only an Agent may be without protocols.
ResourceType == [uid : Nat, generation : Nat, protocols : BOOLEAN,
                 ready : {"Unknown", "True", "False"}, observed : Nat]

ASSUME BoundsAssumption == MaxBirths \in [Controllers -> Nat] /\ MaxEvents \in Nat

ASSUME NoneAssumption == None \notin ResourceType \cup ObjectType \cup Controllers

VARIABLES
  resources, objects,     \* API server
  cObjects, staleObjects, \* the caches both read, and the copies that lag
  concerned,              \* the controllers undelivered events of each object enqueue
  queue,                  \* the controllers whose workqueue holds the name
  worker,                 \* the reconcile in progress of each controller
  births, removals, events

vars == <<resources, objects, cObjects, staleObjects, concerned, queue, worker,
          births, removals, events>>
objectVars == <<objects, staleObjects, concerned>>
boundVars == <<births, removals, events>>

Happens == events < MaxEvents /\ events' = events + 1

Idle == [pc |-> "idle", held |-> None, current |-> FALSE]

Init ==
  /\ resources = [o \in Controllers |-> None]
  /\ objects = [k \in Objects |-> None]
  /\ cObjects = objects /\ staleObjects = {}
  /\ concerned = [k \in Objects |-> {}]
  /\ queue = {}
  /\ worker = [o \in Controllers |-> Idle]
  /\ births = [o \in Controllers |-> 0]
  /\ removals = 0 /\ events = 0

-----------------------------------------------------------------------------
\* Mistake: the Agent controller does not watch what it owns.
OnlyToolServersWatch(object) ==
  IF object = None THEN {} ELSE {object.controller} \cap {"ToolServer"}

\* Owns: an event of an object enqueues the one it names as its controller, before
\* and after the change.
ControllersOf(object) == IF object = None THEN {} ELSE {object.controller} \cap Controllers

\* A write to an object; one that changes nothing creates no version.
Store(k, object) ==
  IF objects[k] = object THEN UNCHANGED objectVars
  ELSE /\ objects' = [objects EXCEPT ![k] = object]
       /\ staleObjects' = staleObjects \cup {k}
       /\ concerned' = [concerned EXCEPT
            ![k] = @ \cup ControllersOf(objects[k]) \cup ControllersOf(object)]

-----------------------------------------------------------------------------
(* Users and the garbage collector                                           *)

\* A write to o's resource by anyone but its worker outdates the copy it holds.
Outdate(o) == [worker EXCEPT ![o].current = FALSE]

Create(o, protocols) ==
  /\ births[o] < MaxBirths[o] /\ births' = [births EXCEPT ![o] = @ + 1]
  /\ resources[o] = None
  /\ o = "ToolServer" => protocols
  /\ resources' = [resources EXCEPT ![o] =
       [uid |-> births'[o], generation |-> 1, protocols |-> protocols,
        ready |-> "Unknown", observed |-> 0]]
  /\ queue' = queue \cup {o}
  /\ worker' = Outdate(o)
  /\ UNCHANGED <<objectVars, cObjects, removals, events>>

\* The protocols of the Agent are removed or come back.
Edit ==
  /\ Happens
  /\ resources["Agent"] # None
  /\ resources' = [resources EXCEPT !["Agent"].protocols = ~@, !["Agent"].generation = @ + 1]
  /\ queue' = queue \cup {"Agent"}
  /\ worker' = Outdate("Agent")
  /\ UNCHANGED <<objectVars, cObjects, births, removals>>

Delete(o) ==
  /\ Happens
  /\ resources[o] # None
  /\ resources' = [resources EXCEPT ![o] = None]
  /\ queue' = queue \cup {o}
  /\ worker' = Outdate(o)
  /\ UNCHANGED <<objectVars, cObjects, births, removals>>

\* Somebody creates an object of the name, without a controller reference or
\* under a controller of another kind.
Put(k, c) ==
  /\ Happens
  /\ objects[k] = None
  /\ Store(k, [controller |-> c, uid |-> 0])
  /\ UNCHANGED <<resources, cObjects, queue, worker, births, removals>>

\* Somebody removes an object by hand.
Remove(k) ==
  /\ Happens /\ removals' = removals + 1
  /\ objects[k] # None
  /\ Store(k, None)
  /\ UNCHANGED <<resources, cObjects, queue, worker, births>>

Orphaned(k) ==
  /\ objects[k] # None /\ objects[k].controller \in Controllers
  /\ LET r == resources[objects[k].controller] IN r # None => r.uid # objects[k].uid

Collect(k) ==
  /\ Orphaned(k)
  /\ Store(k, None)
  /\ UNCHANGED <<resources, cObjects, queue, worker, boundVars>>

-----------------------------------------------------------------------------
(* The informers                                                             *)

SyncObject(k) ==
  /\ k \in staleObjects
  /\ cObjects' = [cObjects EXCEPT ![k] = objects[k]]
  /\ staleObjects' = staleObjects \ {k}
  /\ concerned' = [concerned EXCEPT ![k] = {}]
  /\ queue' = queue \cup concerned[k]
  /\ UNCHANGED <<resources, objects, worker, boundVars>>

-----------------------------------------------------------------------------
(* The two reconcile loops                                                   *)

\* Mistake: a resource that is gone is reconciled all the same.
FetchMissing(o) ==
  /\ worker[o].pc = "idle" /\ o \in queue
  /\ queue' = queue \ {o}
  /\ worker' = [worker EXCEPT ![o] = [pc |-> IF resources[o] = None THEN "idle" ELSE "Deployment",
                                      held |-> resources[o], current |-> TRUE]]
  /\ UNCHANGED <<resources, objectVars, cObjects, boundVars>>

\* The resource itself is read as it is stored: a copy that lags has the effect of
\* one read early and outdated before it is used.
Fetch(o) ==
  /\ worker[o].pc = "idle" /\ o \in queue
  /\ queue' = queue \ {o}
  /\ worker' = IF resources[o] = None THEN worker
               ELSE [worker EXCEPT ![o] = [pc |-> "Deployment", held |-> resources[o],
                                           current |-> TRUE]]
  /\ UNCHANGED <<resources, objectVars, cObjects, boundVars>>

Goto(o, label) == worker' = [worker EXCEPT ![o].pc = label]
After(k) == IF k = "Deployment" THEN "Service" ELSE "ready"

\* Mistake: an owner reference without a check for another controller.
AlwaysOurs(o, object) == TRUE

\* SetControllerReference: a reference of the same kind and name is replaced,
\* whatever its UID; another controller is an AlreadyOwnedError.
MayOwn(o, object) == object # None => object.controller \in {o, None}

Wanted(o) == [controller |-> o, uid |-> worker[o].held.uid]

\* ensureService without protocols
Withdraws(o, k) == k = "Service" /\ ~worker[o].held.protocols

\* CreateOrUpdate leaves an object alone that is as it is wanted in the cache.  (The
\* Deployment of an Agent with a protocol never is, see AgentReconciler.)
LeavesAlone(o, k) ==
  /\ cObjects[k] = Wanted(o)
  /\ ~(o = "Agent" /\ k = "Deployment" /\ worker[o].held.protocols)

\* Mistake: the update is sent without a resourceVersion.
AcceptsAny(k) == (cObjects[k] = None) = (objects[k] = None)

\* A Create needs a free name, an Update the version it was computed from.
Accepts(k) == IF cObjects[k] = None THEN objects[k] = None
              ELSE k \notin staleObjects /\ objects[k] # None

Ensure(o, k) ==
  /\ worker[o].pc = k /\ ~Withdraws(o, k)
  /\ MayOwn(o, cObjects[k])
  /\ \/ LeavesAlone(o, k) /\ UNCHANGED objectVars
     \/ ~LeavesAlone(o, k) /\ Accepts(k) /\ Store(k, Wanted(o))
  /\ Goto(o, After(k))
  /\ UNCHANGED <<resources, cObjects, queue, boundVars>>

\* Mistake: the error is logged, and the reconcile goes on.
RefusalIgnored(o, k) ==
  /\ worker[o].pc = k /\ ~Withdraws(o, k)
  /\ ~MayOwn(o, cObjects[k]) \/ (~LeavesAlone(o, k) /\ ~Accepts(k))
  /\ Goto(o, After(k))
  /\ UNCHANGED <<resources, objectVars, cObjects, queue, boundVars>>

\* AlreadyOwnedError, AlreadyExists, NotFound or Conflict.  A retry on conflict that
\* succeeds is an Ensure after a SyncObject.
Refused(o, k) ==
  /\ worker[o].pc = k /\ ~Withdraws(o, k)
  /\ ~MayOwn(o, cObjects[k]) \/ (~LeavesAlone(o, k) /\ ~Accepts(k))
  /\ Goto(o, "notReady")
  /\ UNCHANGED <<resources, objectVars, cObjects, queue, boundVars>>

\* The Service of that name in the cache is deleted, whoever controls it and whatever
\* has become of it; NotFound is an error.
Withdraw(o) ==
  /\ worker[o].pc = "Service" /\ Withdraws(o, "Service")
  /\ IF cObjects["Service"] = None
       THEN Goto(o, "ready") /\ UNCHANGED objectVars
       ELSE IF objects["Service"] = None
         THEN Goto(o, "notReady") /\ UNCHANGED objectVars
         ELSE Goto(o, "ready") /\ Store("Service", None)
  /\ UNCHANGED <<resources, cObjects, queue, boundVars>>

\* The status write, which is refused unless the held copy is the current version.
WriteStatus(o) ==
  LET resource == [worker[o].held EXCEPT !.observed = worker[o].held.generation,
                     !.ready = IF worker[o].pc = "ready" THEN "True" ELSE "False"]
  IN resources' = IF worker[o].current THEN [resources EXCEPT ![o] = resource]
                  ELSE resources

\* Mistake: after an error the name is forgotten; an event will come.
PublishWithoutRetry(o) ==
  /\ worker[o].pc \in {"ready", "notReady"}
  /\ WriteStatus(o)
  /\ queue' = IF worker[o].current /\ resources'[o] = resources[o] THEN queue
              ELSE queue \cup {o}
  /\ worker' = [worker EXCEPT ![o] = Idle]
  /\ UNCHANGED <<objectVars, cObjects, boundVars>>

\* A status that differs is an event, and an error of the reconcile or of the status
\* write a retry: each puts the name back into the queue.
Publish(o) ==
  /\ worker[o].pc \in {"ready", "notReady"}
  /\ WriteStatus(o)
  /\ queue' = IF worker[o].pc = "ready" /\ worker[o].current /\ resources'[o] = resources[o]
                THEN queue ELSE queue \cup {o}
  /\ worker' = [worker EXCEPT ![o] = Idle]
  /\ UNCHANGED <<objectVars, cObjects, boundVars>>

-----------------------------------------------------------------------------
Environment ==
  \/ \E o \in Controllers : Delete(o) \/ \E p \in BOOLEAN : Create(o, p)
  \/ Edit
  \/ \E k \in Objects : \/ \E c \in {"other", None} : Put(k, c)
                        \/ Remove(k) \/ Collect(k)

Informers == \E k \in Objects : SyncObject(k)

Step(o) ==
  \/ Fetch(o)
  \/ \E k \in Objects : Ensure(o, k) \/ Refused(o, k)
  \/ Withdraw(o)
  \/ Publish(o)

Next == Environment \/ Informers \/ \E o \in Controllers : Step(o)

Spec == Init /\ [][Next]_vars

\* Each controller has a worker of its own; watches deliver; orphans are collected.
Fairness ==
  /\ \A o \in Controllers : WF_vars(Step(o))
  /\ \A k \in Objects : WF_vars(SyncObject(k)) /\ WF_vars(Collect(k))

FairSpec == Spec /\ Fairness

-----------------------------------------------------------------------------
(* Properties                                                                *)

\* Every variable has its type; an idle worker holds nothing, a busy one a resource
\* that exists or existed, and what it believes to be current is.
TypeOK ==
  /\ resources \in [Controllers -> ResourceType \cup {None}]
  /\ objects \in [Objects -> ObjectType \cup {None}]
  /\ queue \in SUBSET Controllers /\ concerned \in [Objects -> SUBSET Controllers]
  /\ \A o \in Controllers :
       /\ worker[o].pc \in {"idle", "Deployment", "Service", "ready", "notReady"}
       /\ worker[o].pc = "idle" => worker[o] = Idle
       /\ worker[o].pc # "idle" => worker[o].held.uid \in 1 .. births[o]
       /\ worker[o].current => worker[o].held = resources[o]
  /\ \A k \in Objects \ staleObjects : cObjects[k] = objects[k]

OwnObject(o) == [controller |-> o, uid |-> resources[o].uid]

\* o has what its spec calls for.  An Agent without protocols has no Service of its own;
\* a foreign one is left alone when it appears, since no event of it reaches the Agent.
Owns(o) ==
  /\ resources[o] # None
  /\ objects["Deployment"] = OwnObject(o)
  /\ IF resources[o].protocols THEN objects["Service"] = OwnObject(o)
     ELSE objects["Service"] # None => objects["Service"].controller # o

\* A controller never changes, takes over or removes an object that is controlled by
\* somebody else, however outdated the copy is by which it judged that: but for the
\* Delete of ensureService, which asks nobody.
NothingIsStolen ==
  [][\A o \in Controllers : \A k \in Objects :
       worker'[o].pc # worker[o].pc /\ objects'[k] # objects[k]
         => \/ objects[k] = None
            \/ objects[k].controller \in {o, None}
            \/ Withdraws(o, k) /\ objects'[k] = None]_vars

\* While nobody removes objects by hand, a resource that claims Ready of its current
\* generation, or that has the Service, controls the Deployment of the name.  So the Agent and
\* the ToolServer are never both Ready, and never have one object each and wait for the other.
\* (Being Ready says less of the Service: a reconcile of an Agent without protocols that is
\* already deleted may still delete that of the ToolServer, until its event brings it back.)
DeploymentFirst ==
  removals = 0 =>
    \A o \in Controllers :
      /\ resources[o] # None
      /\ \/ resources[o].ready = "True" /\ resources[o].observed = resources[o].generation
         \/ objects["Service"] = OwnObject(o)
      => objects["Deployment"] = OwnObject(o)

\* Something will still be done about o: its name is queued, it is being reconciled, or
\* an event that will queue it has not been delivered.
Pending(o) == o \in queue \/ worker[o].pc # "idle" \/ \E k \in Objects : o \in concerned[k]

\* A resource for which nothing is pending has what its spec calls for and says so: neither
\* the other controller nor a foreign object, a removal by hand, an outdated copy or an owner
\* of an earlier life leaves it at rest without, or at rest with the wrong status.  So an
\* Agent and a ToolServer of one name are never both at rest.
QuiescentIsOwner ==
  \A o \in Controllers :
    resources[o] # None /\ ~Pending(o)
      => /\ Owns(o)
         /\ resources[o].ready = "True" /\ resources[o].observed = resources[o].generation

\* Once users rest, each of the two is told where it stands, Ready if it has what its
\* spec calls for and not Ready otherwise; and one of those that exist has the name for
\* itself, also after the one that had it was deleted: unless an object is somebody
\* else's or was removed by hand.  (A Deployment removed at the wrong moment leaves it to
\* the ToolServer and the Service to the Agent, and neither of them gives way.)
NameIsSettled ==
  <>[](/\ \A o \in Controllers : resources[o] # None =>
            /\ resources[o].observed = resources[o].generation
            /\ resources[o].ready = IF Owns(o) THEN "True" ELSE "False"
       /\ /\ removals = 0
          /\ \A k \in Objects : objects[k] # None => objects[k].controller # "other"
          /\ \E o \in Controllers : resources[o] # None
          => \E o \in Controllers : Owns(o))
=============================================================================
