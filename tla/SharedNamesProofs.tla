--------------------------- MODULE SharedNamesProofs ---------------------------
(***************************************************************************)
(* Proofs about an Agent and a ToolServer of one name.                     *)
(***************************************************************************)
EXTENDS SharedNames, TLAPS

WorkerType == [pc : {"idle", "Deployment", "Service", "ready", "notReady"},
               held : ResourceType \cup {None}, current : BOOLEAN]

StoreType ==
  /\ resources \in [Controllers -> ResourceType \cup {None}]
  /\ objects \in [Objects -> ObjectType \cup {None}]
  /\ cObjects \in [Objects -> ObjectType \cup {None}]
  /\ births \in [Controllers -> Nat] /\ removals \in Nat /\ events \in Nat

QueueType ==
  /\ queue \in SUBSET Controllers
  /\ concerned \in [Objects -> SUBSET Controllers] /\ staleObjects \in SUBSET Objects

Busy(o) == worker[o].pc # "idle"

WorkType ==
  /\ worker \in [Controllers -> WorkerType]
  /\ \A o \in Controllers : IF Busy(o) THEN worker[o].held \in ResourceType
                            ELSE worker[o] = Idle

\* A copy that is not marked stale is what the API server stores.
CacheIsFresh == \A k \in Objects \ staleObjects : cObjects[k] = objects[k]

\* What a worker believes current is the stored resource.
HeldIsCurrent == \A o \in Controllers : worker[o].current => worker[o].held = resources[o]

\* A resource that exists is the last one of its name that was created, and a worker
\* holds one that was.
UidsKnown ==
  \A o \in Controllers :
    /\ resources[o] # None => resources[o].uid = births[o] /\ births[o] \in Nat \ {0}
    /\ Busy(o) => worker[o].held.uid \in 1 .. births[o]

TypeInv == StoreType /\ QueueType /\ WorkType /\ CacheIsFresh /\ HeldIsCurrent /\ UidsKnown

\* An object names a resource that was created, at the latest the one being reconciled.
ObjectIsKnown(object) ==
  object # None =>
    \A o \in Controllers : object.controller = o =>
      object.uid <= births[o] /\ (Busy(o) => object.uid <= worker[o].held.uid)

ObjectsKnown == \A k \in Objects : ObjectIsKnown(objects[k]) /\ ObjectIsKnown(cObjects[k])

\* A copy that says a resource owns the Deployment is right about it, however old.
CopyIsKept ==
  removals = 0 =>
    \A o \in Controllers :
      resources[o] # None /\ cObjects["Deployment"] = OwnObject(o)
        => objects["Deployment"] = OwnObject(o)

\* Past the Deployment a worker that holds the resource that exists has it, in this or in an
\* earlier version.
InPlace ==
  removals = 0 =>
    \A o \in Controllers :
      /\ worker[o].pc \in {"Service", "ready"}
      /\ resources[o] # None /\ worker[o].held.uid = resources[o].uid
      => objects["Deployment"] = OwnObject(o)

NothingObservedAhead ==
  \A o \in Controllers : resources[o] # None => resources[o].observed <= resources[o].generation

OwnInv == ObjectsKnown /\ CopyIsKept /\ InPlace /\ NothingObservedAhead /\ DeploymentFirst

-----------------------------------------------------------------------------
LEMMA IdleType == Idle \in WorkerType /\ Idle.pc = "idle" /\ ~Idle.current
  BY DEF Idle, WorkerType

\* A write to an object keeps types, and marks the copy it outdates.
LEMMA StoreStep ==
  ASSUME StoreType, QueueType, CacheIsFresh, NEW k \in Objects,
         NEW object \in ObjectType \cup {None}, Store(k, object), UNCHANGED cObjects
  PROVE  /\ objects' \in [Objects -> ObjectType \cup {None}]
         /\ staleObjects' \in SUBSET Objects /\ concerned' \in [Objects -> SUBSET Controllers]
         /\ CacheIsFresh'
         /\ objects' = [objects EXCEPT ![k] = object]
<1>1. CASE objects[k] = object
  BY <1>1 DEF Store, StoreType, QueueType, CacheIsFresh, objectVars
<1>2. CASE objects[k] # object
  <2>1. ControllersOf(objects[k]) \subseteq Controllers /\ ControllersOf(object) \subseteq Controllers
    BY DEF ControllersOf
  <2>2. /\ objects' = [objects EXCEPT ![k] = object]
        /\ staleObjects' = staleObjects \cup {k}
        /\ concerned' = [concerned EXCEPT
             ![k] = concerned[k] \cup ControllersOf(objects[k]) \cup ControllersOf(object)]
    BY <1>2 DEF Store
  <2> QED
    BY <2>1, <2>2 DEF StoreType, QueueType, CacheIsFresh
<1> QED
  BY <1>1, <1>2

\* Whoever writes a resource leaves its worker with a copy that is not current.
LEMMA OutdateStep ==
  ASSUME WorkType, NEW o \in Controllers, worker' = Outdate(o)
  PROVE  /\ WorkType'
         /\ ~worker'[o].current
         /\ \A q \in Controllers : /\ worker'[q].pc = worker[q].pc
                                   /\ worker'[q].held = worker[q].held
                                   /\ q # o => worker'[q] = worker[q]
<1>1. worker' = [worker EXCEPT ![o].current = FALSE]
  BY DEF Outdate
<1>2. /\ worker' \in [Controllers -> WorkerType] /\ ~worker'[o].current
      /\ \A q \in Controllers : /\ worker'[q].pc = worker[q].pc
                                /\ worker'[q].held = worker[q].held
                                /\ q # o => worker'[q] = worker[q]
  <2>1. PICK w \in WorkerType : w = [worker[o] EXCEPT !.current = FALSE]
    BY DEF WorkType, WorkerType
  <2>2. w.pc = worker[o].pc /\ w.held = worker[o].held /\ ~w.current
    BY <2>1 DEF WorkType, WorkerType
  <2>3. worker' = [worker EXCEPT ![o] = w]
    BY <1>1, <2>1 DEF WorkType
  <2> QED
    BY <2>2, <2>3 DEF WorkType
<1>3. ~Busy(o) => worker'[o] = Idle
  <2>1. ASSUME ~Busy(o) PROVE worker'[o] = [Idle EXCEPT !.current = FALSE]
    BY <1>1, <2>1 DEF WorkType
  <2>2. [Idle EXCEPT !.current = FALSE] = Idle
    <3>1. ASSUME NEW a \in WorkerType, ~a.current PROVE [a EXCEPT !.current = FALSE] = a
      BY <3>1 DEF WorkerType
    <3> QED
      BY <3>1, IdleType
  <2> QED
    BY <2>1, <2>2
<1> QED
  BY <1>2, <1>3 DEF WorkType, Busy

\* A step of a busy worker from one label to the next.
LEMMA GotoStep ==
  ASSUME WorkType, NEW o \in Controllers, Busy(o),
         NEW label \in {"Deployment", "Service", "ready", "notReady"}, Goto(o, label)
  PROVE  /\ WorkType'
         /\ worker'[o].pc = label
         /\ \A q \in Controllers : /\ Busy(q)' = Busy(q)
                                   /\ worker'[q].held = worker[q].held
                                   /\ worker'[q].current = worker[q].current
                                   /\ q # o => worker'[q] = worker[q]
<1>1. worker' = [worker EXCEPT ![o].pc = label]
  BY DEF Goto
<1>2. /\ worker' \in [Controllers -> WorkerType] /\ worker'[o].pc = label
      /\ \A q \in Controllers : /\ worker'[q].held = worker[q].held
                                /\ worker'[q].current = worker[q].current
                                /\ q # o => worker'[q] = worker[q]
  BY <1>1 DEF WorkType, WorkerType
<1> QED
  BY <1>2 DEF WorkType, Busy

LEMMA TypeInit == Init => TypeInv
<1> SUFFICES ASSUME Init PROVE TypeInv
  OBVIOUS
<1>1. WorkType /\ HeldIsCurrent /\ UidsKnown
  BY IdleType DEF Init, WorkType, HeldIsCurrent, UidsKnown, Busy
<1> QED
  BY <1>1 DEF Init, TypeInv, StoreType, QueueType, CacheIsFresh

LEMMA TypeStep == TypeInv /\ [Next]_vars => TypeInv'
<1> SUFFICES ASSUME TypeInv, [Next]_vars PROVE TypeInv'
  OBVIOUS
<1> USE DEF TypeInv
<1>1. ASSUME NEW o \in Controllers, Delete(o) PROVE TypeInv'
  <2>1. worker' = Outdate(o) /\ resources' = [resources EXCEPT ![o] = None] /\ events' \in Nat
        /\ queue' \in SUBSET Controllers
        /\ UNCHANGED <<objects, staleObjects, concerned, cObjects, births, removals>>
    BY <1>1 DEF Delete, Happens, objectVars, StoreType, QueueType
  <2>2. StoreType' /\ QueueType' /\ CacheIsFresh'
    BY <2>1 DEF StoreType, QueueType, CacheIsFresh
  <2>3. WorkType' /\ HeldIsCurrent' /\ UidsKnown'
    BY <2>1, OutdateStep DEF HeldIsCurrent, UidsKnown, Busy, StoreType
  <2> QED
    BY <2>2, <2>3
<1>2. ASSUME NEW o \in Controllers, NEW p \in BOOLEAN, Create(o, p) PROVE TypeInv'
  <2>1. /\ worker' = Outdate(o) /\ births' = [births EXCEPT ![o] = births[o] + 1]
        /\ resources' = [resources EXCEPT ![o] =
             [uid |-> births'[o], generation |-> 1, protocols |-> p,
              ready |-> "Unknown", observed |-> 0]]
        /\ queue' \in SUBSET Controllers
        /\ UNCHANGED <<objects, staleObjects, concerned, cObjects, events, removals>>
    BY <1>2 DEF Create, objectVars, QueueType
  <2>2. /\ births' \in [Controllers -> Nat] /\ births'[o] = births[o] + 1
        /\ births[o] \in Nat
        /\ \A q \in Controllers : q # o => births'[q] = births[q]
    BY <2>1 DEF StoreType
  <2>3. [uid |-> births'[o], generation |-> 1, protocols |-> p,
         ready |-> "Unknown", observed |-> 0] \in ResourceType
    BY <2>2 DEF ResourceType
  <2>4. StoreType' /\ QueueType' /\ CacheIsFresh'
    BY <2>1, <2>2, <2>3 DEF StoreType, QueueType, CacheIsFresh
  <2>5. WorkType' /\ HeldIsCurrent'
    BY <2>1, OutdateStep DEF HeldIsCurrent, StoreType
  <2>6. UidsKnown'
    <3> SUFFICES ASSUME NEW q \in Controllers
                 PROVE  /\ resources'[q] # None =>
                             resources'[q].uid = births'[q] /\ births'[q] \in Nat \ {0}
                        /\ Busy(q)' => worker'[q].held.uid \in 1 .. births'[q]
      BY DEF UidsKnown
    <3>1. CASE q = o
      <4>1. resources'[o].uid = births'[o] /\ births'[o] \in Nat \ {0}
        BY <2>1, <2>2 DEF StoreType
      <4>2. Busy(o)' => worker'[o].held.uid \in 1 .. births[o]
        BY <2>1, OutdateStep DEF UidsKnown, Busy
      <4> QED
        BY <2>2, <3>1, <4>1, <4>2
    <3>2. CASE q # o
      BY <2>1, <2>2, <3>2, OutdateStep DEF UidsKnown, Busy, StoreType
    <3> QED
      BY <3>1, <3>2
  <2> QED
    BY <2>4, <2>5, <2>6
<1>3. CASE Edit
  <2>1. resources["Agent"] \in ResourceType
    BY <1>3 DEF Edit, StoreType, Controllers
  <2>2. PICK n \in Nat : n = resources["Agent"].generation + 1
    BY <2>1 DEF ResourceType
  <2>3. PICK r \in ResourceType :
          r = [resources["Agent"] EXCEPT !.protocols = ~resources["Agent"].protocols,
                                         !.generation = n]
    BY <2>1, <2>2 DEF ResourceType
  <2>4. /\ worker' = Outdate("Agent") /\ resources' = [resources EXCEPT !["Agent"] = r]
        /\ r.uid = resources["Agent"].uid
        /\ events' \in Nat /\ queue' \in SUBSET Controllers
        /\ UNCHANGED <<objects, staleObjects, concerned, cObjects, births, removals>>
    BY <1>3, <2>1, <2>2, <2>3 DEF Edit, Happens, objectVars, StoreType, QueueType,
       Controllers, ResourceType
  <2>5. StoreType' /\ QueueType' /\ CacheIsFresh'
    BY <2>4 DEF StoreType, QueueType, CacheIsFresh
  <2>6. WorkType' /\ HeldIsCurrent' /\ UidsKnown'
    <3>1. /\ \A q \in Controllers : q # "Agent" => resources'[q] = resources[q]
          /\ resources'["Agent"] = r /\ resources["Agent"] # None
      BY <1>3, <2>4 DEF StoreType, Edit, Controllers
    <3> QED
      BY <2>4, <3>1, OutdateStep DEF HeldIsCurrent, UidsKnown, Busy, Controllers
  <2> QED
    BY <2>5, <2>6
<1>4. ASSUME NEW k \in Objects,
             \/ \E c \in {"other", None} : Put(k, c)
             \/ Remove(k) \/ Collect(k)
      PROVE  TypeInv'
  <2>1. PICK object \in ObjectType \cup {None} : Store(k, object)
    <3>1. ASSUME NEW c \in {"other", None} PROVE [controller |-> c, uid |-> 0] \in ObjectType
      BY DEF ObjectType
    <3> QED
      BY <1>4, <3>1 DEF Put, Remove, Collect
  <2>2. /\ UNCHANGED <<resources, cObjects, queue, worker, births>>
        /\ events' \in Nat /\ removals' \in Nat
    BY <1>4 DEF Put, Remove, Collect, Happens, boundVars, StoreType
  <2> QED
    BY <2>1, <2>2, StoreStep DEF StoreType, QueueType, WorkType, HeldIsCurrent, UidsKnown, Busy
<1>5. ASSUME NEW k \in Objects, SyncObject(k) PROVE TypeInv'
  BY <1>5 DEF SyncObject, StoreType, QueueType, WorkType, CacheIsFresh, HeldIsCurrent,
     UidsKnown, Busy, boundVars
<1>6. ASSUME NEW o \in Controllers, Fetch(o) PROVE TypeInv'
  <2>1. UNCHANGED <<resources, objects, staleObjects, concerned, cObjects, births, removals,
                    events>> /\ queue' \in SUBSET Controllers
    BY <1>6 DEF Fetch, objectVars, boundVars, QueueType
  <2>2. CASE resources[o] = None
    BY <1>6, <2>1, <2>2 DEF Fetch, StoreType, QueueType, WorkType, CacheIsFresh, HeldIsCurrent,
       UidsKnown, Busy
  <2>3. CASE resources[o] # None
    <3>1. /\ worker' = [worker EXCEPT ![o] = [pc |-> "Deployment", held |-> resources[o],
                                              current |-> TRUE]]
          /\ resources[o] \in ResourceType
      BY <1>6, <2>3 DEF Fetch, StoreType
    <3>2. /\ worker' \in [Controllers -> WorkerType]
          /\ worker'[o].held = resources[o] /\ worker'[o].pc = "Deployment"
          /\ \A q \in Controllers : q # o => worker'[q] = worker[q]
      BY <3>1 DEF WorkType, WorkerType
    <3>3. WorkType' /\ HeldIsCurrent'
      BY <2>1, <3>1, <3>2 DEF WorkType, HeldIsCurrent, Busy
    <3>4. UidsKnown'
      BY <2>1, <2>3, <3>2 DEF UidsKnown, Busy, StoreType
    <3> QED
      BY <2>1, <3>3, <3>4 DEF StoreType, QueueType, CacheIsFresh
  <2> QED
    BY <2>2, <2>3
<1>7. ASSUME NEW o \in Controllers, NEW k \in Objects, Ensure(o, k) \/ Refused(o, k) PROVE TypeInv'
  <2>1. /\ Busy(o) /\ UNCHANGED <<resources, cObjects, queue, births, removals, events>>
        /\ \E label \in {"Deployment", "Service", "ready", "notReady"} : Goto(o, label)
    BY <1>7 DEF Ensure, Refused, Busy, Objects, After, boundVars
  <2>2. UNCHANGED objectVars \/ Store(k, Wanted(o))
    BY <1>7 DEF Ensure, Refused
  <2>3. Wanted(o) \in ObjectType
    BY <2>1 DEF Wanted, WorkType, ObjectType, ResourceType
  <2>4. WorkType' /\ HeldIsCurrent' /\ UidsKnown'
    BY <2>1, GotoStep DEF HeldIsCurrent, UidsKnown
  <2>5. CASE UNCHANGED objectVars
    BY <2>1, <2>4, <2>5 DEF StoreType, QueueType, CacheIsFresh, objectVars
  <2>6. CASE Store(k, Wanted(o))
    BY <2>1, <2>3, <2>4, <2>6, StoreStep DEF StoreType, QueueType
  <2> QED
    BY <2>2, <2>5, <2>6
<1>8. ASSUME NEW o \in Controllers, Withdraw(o) PROVE TypeInv'
  <2>1. /\ Busy(o) /\ UNCHANGED <<resources, cObjects, queue, births, removals, events>>
        /\ \E label \in {"Deployment", "Service", "ready", "notReady"} : Goto(o, label)
    BY <1>8 DEF Withdraw, Busy, boundVars
  <2>2. UNCHANGED objectVars \/ Store("Service", None)
    BY <1>8 DEF Withdraw
  <2>4. WorkType' /\ HeldIsCurrent' /\ UidsKnown'
    BY <2>1, GotoStep DEF HeldIsCurrent, UidsKnown
  <2>5. CASE UNCHANGED objectVars
    BY <2>1, <2>4, <2>5 DEF StoreType, QueueType, CacheIsFresh, objectVars
  <2>6. CASE Store("Service", None)
    BY <2>1, <2>4, <2>6, StoreStep DEF StoreType, QueueType, Objects
  <2> QED
    BY <2>2, <2>5, <2>6
<1>9. ASSUME NEW o \in Controllers, Publish(o) PROVE TypeInv'
  <2>1. /\ worker' = [worker EXCEPT ![o] = Idle] /\ WriteStatus(o) /\ Busy(o)
        /\ queue' \in SUBSET Controllers
        /\ UNCHANGED <<objects, staleObjects, concerned, cObjects, births, removals, events>>
    BY <1>9 DEF Publish, Busy, QueueType, objectVars, boundVars
  <2>2. /\ worker' \in [Controllers -> WorkerType] /\ worker'[o] = Idle
        /\ \A q \in Controllers : q # o => worker'[q] = worker[q]
    BY <2>1, IdleType DEF WorkType
  <2>3. /\ resources' \in [Controllers -> ResourceType \cup {None}]
        /\ \A q \in Controllers : q # o => resources'[q] = resources[q]
        /\ resources'[o] # None => resources[o] # None /\ resources'[o].uid = resources[o].uid
    <3>1. CASE worker[o].current
      <4>1. worker[o].held \in ResourceType /\ resources[o] = worker[o].held
        BY <2>1, <3>1 DEF WorkType, HeldIsCurrent
      <4>2. PICK b \in {"True", "False"} : b = IF worker[o].pc = "ready" THEN "True" ELSE "False"
        OBVIOUS
      <4>3. /\ [worker[o].held EXCEPT !.observed = worker[o].held.generation, !.ready = b]
                 \in ResourceType
            /\ [worker[o].held EXCEPT !.observed = worker[o].held.generation, !.ready = b].uid
                 = worker[o].held.uid
        BY <4>1 DEF ResourceType
      <4>4. resources' = [resources EXCEPT ![o] =
              [worker[o].held EXCEPT !.observed = worker[o].held.generation, !.ready = b]]
        BY <2>1, <3>1, <4>2 DEF WriteStatus
      <4>5. PICK r \in ResourceType : /\ resources' = [resources EXCEPT ![o] = r]
                                      /\ r.uid = resources[o].uid
        BY <4>1, <4>3, <4>4
      <4>6. resources[o] # None
        BY <4>1, NoneAssumption
      <4> QED
        BY <4>5, <4>6 DEF StoreType
    <3>2. CASE ~worker[o].current
      BY <2>1, <3>2 DEF WriteStatus, StoreType
    <3> QED
      BY <3>1, <3>2
  <2>4. WorkType' /\ HeldIsCurrent' /\ UidsKnown'
    BY <2>1, <2>2, <2>3, IdleType DEF WorkType, HeldIsCurrent, UidsKnown, Busy
  <2> QED
    BY <2>1, <2>3, <2>4 DEF StoreType, QueueType, CacheIsFresh
<1>10. CASE UNCHANGED vars
  BY <1>10 DEF vars, objectVars, boundVars, StoreType, QueueType, WorkType, CacheIsFresh,
     HeldIsCurrent, UidsKnown, Busy
<1> QED
  BY <1>1, <1>2, <1>3, <1>4, <1>5, <1>6, <1>7, <1>8, <1>9, <1>10
     DEF Next, Environment, Informers, Step

\* Both controllers keep to their types, and never reconcile a resource that is not there.
THEOREM SharedTypeCorrect == Spec => []TypeOK
<1>1. TypeInv => TypeOK
  BY IdleType DEF TypeInv, TypeOK, StoreType, QueueType, WorkType, WorkerType, CacheIsFresh,
     HeldIsCurrent, UidsKnown, Busy
<1> QED
  BY <1>1, TypeInit, TypeStep, PTL DEF Spec

-----------------------------------------------------------------------------
\* The only step that changes an object and moves a worker is one of that worker, and
\* what it changes is free, its own, nobody's, or the Service it withdraws.
LEMMA NobodyStealsStep ==
  ASSUME TypeInv, [Next]_vars, NEW o \in Controllers, NEW k \in Objects,
         worker'[o].pc # worker[o].pc, objects'[k] # objects[k]
  PROVE  \/ objects[k] = None
         \/ objects[k].controller \in {o, None}
         \/ Withdraws(o, k) /\ objects'[k] = None
<1> USE DEF TypeInv
<1>1. ASSUME NEW q \in Controllers, NEW p \in BOOLEAN, Delete(q) \/ Create(q, p) PROVE FALSE
  BY <1>1 DEF Delete, Create, objectVars
<1>2. ~Edit
  BY DEF Edit, objectVars
<1>3. ASSUME NEW j \in Objects, NEW c \in {"other", None},
             Put(j, c) \/ Remove(j) \/ Collect(j) \/ SyncObject(j)
      PROVE  FALSE
  BY <1>3 DEF Put, Remove, Collect, SyncObject
<1>4. ASSUME NEW q \in Controllers, NEW j \in Objects,
             Fetch(q) \/ Refused(q, j) \/ Publish(q)
      PROVE  FALSE
  BY <1>4 DEF Fetch, Refused, Publish, objectVars
<1>5. ASSUME NEW q \in Controllers, NEW j \in Objects, Ensure(q, j)
      PROVE  objects[k] = None \/ objects[k].controller \in {o, None}
  <2>1. MayOwn(q, cObjects[j]) /\ Accepts(j) /\ Store(j, Wanted(q)) /\ Goto(q, After(j))
    BY <1>5 DEF Ensure, objectVars
  <2>2. q = o
    BY <2>1 DEF Goto, WorkType
  <2>3. j = k
    BY <2>1 DEF Store, StoreType, objectVars
  <2>4. cObjects[k] = None => objects[k] = None
    BY <2>1, <2>3 DEF Accepts
  <2>5. cObjects[k] # None => objects[k].controller \in {o, None}
    BY <2>1, <2>2, <2>3 DEF Accepts, CacheIsFresh, MayOwn
  <2> QED
    BY <2>4, <2>5
<1>6. ASSUME NEW q \in Controllers, Withdraw(q)
      PROVE  Withdraws(o, k) /\ objects'[k] = None
  <2>1. /\ Withdraws(q, "Service") /\ Store("Service", None)
        /\ \E label \in {"ready", "notReady"} : Goto(q, label)
    BY <1>6 DEF Withdraw, objectVars
  <2>2. q = o
    BY <2>1 DEF Goto, WorkType
  <2>3. k = "Service" /\ objects'[k] = None
    BY <2>1 DEF Store, StoreType, objectVars, Objects
  <2> QED
    BY <2>1, <2>2, <2>3
<1>7. ~UNCHANGED vars
  BY DEF vars
<1> QED
  BY <1>1, <1>2, <1>3, <1>4, <1>5, <1>6, <1>7 DEF Next, Environment, Informers, Step

\* However old its copies are, a controller takes nothing from another: the check for
\* another controller is made on a copy, but an update based on an old one is refused.
THEOREM NoTheft == Spec => NothingIsStolen
<1>1. TypeInv /\ [Next]_vars
        => [\A o \in Controllers : \A k \in Objects :
              worker'[o].pc # worker[o].pc /\ objects'[k] # objects[k]
                => \/ objects[k] = None
                   \/ objects[k].controller \in {o, None}
                   \/ Withdraws(o, k) /\ objects'[k] = None]_vars
  BY NobodyStealsStep
<1> QED
  BY <1>1, TypeInit, TypeStep, PTL DEF Spec, NothingIsStolen

-----------------------------------------------------------------------------
(* What a step does to one resource, to one worker and to the objects        *)

Created(o) ==
  /\ resources[o] = None /\ births'[o] = births[o] + 1 /\ resources'[o] # None
  /\ resources'[o].uid = births'[o] /\ resources'[o].ready = "Unknown"
  /\ resources'[o].observed = 0 /\ resources'[o].generation = 1

Edited(o) ==
  /\ births'[o] = births[o] /\ resources[o] # None /\ resources'[o] # None
  /\ resources'[o].uid = resources[o].uid /\ resources'[o].observed = resources[o].observed
  /\ resources'[o].generation = resources[o].generation + 1

Published(o) ==
  /\ births'[o] = births[o] /\ resources[o] # None /\ resources'[o] # None
  /\ resources'[o].uid = resources[o].uid
  /\ resources'[o].generation = resources[o].generation
  /\ resources'[o].observed = resources[o].generation
  /\ worker[o].current /\ worker[o].pc \in {"ready", "notReady"}
  /\ resources'[o].ready = IF worker[o].pc = "ready" THEN "True" ELSE "False"
  /\ UNCHANGED objects

LEMMA ResourceStep ==
  ASSUME TypeInv, [Next]_vars, NEW o \in Controllers
  PROVE  \/ Created(o) \/ Edited(o) \/ Published(o)
         \/ births'[o] = births[o] /\ resources'[o] \in {None, resources[o]}
<1> USE DEF TypeInv
<1>1. ASSUME NEW q \in Controllers, Delete(q)
      PROVE  births'[o] = births[o] /\ resources'[o] \in {None, resources[o]}
  BY <1>1 DEF Delete, StoreType
<1>2. ASSUME NEW q \in Controllers, NEW p \in BOOLEAN, Create(q, p)
      PROVE  Created(o) \/ (births'[o] = births[o] /\ resources'[o] = resources[o])
  <2>1. births' = [births EXCEPT ![q] = births[q] + 1] /\ resources[q] = None
    BY <1>2 DEF Create
  <2>2. PICK n \in Nat : n = births'[q] /\ n = births[q] + 1
    BY <2>1 DEF StoreType
  <2>3. PICK r \in ResourceType : r = [uid |-> n, generation |-> 1, protocols |-> p,
                                       ready |-> "Unknown", observed |-> 0]
    BY DEF ResourceType
  <2>4. resources' = [resources EXCEPT ![q] = r]
    BY <1>2, <2>2, <2>3 DEF Create
  <2>5. r # None
    BY NoneAssumption
  <2>6. CASE q = o
    BY <2>1, <2>2, <2>3, <2>4, <2>5, <2>6 DEF Created, StoreType
  <2>7. CASE q # o
    BY <2>1, <2>4, <2>7 DEF StoreType
  <2> QED
    BY <2>6, <2>7
<1>3. ASSUME Edit
      PROVE  Edited(o) \/ (births'[o] = births[o] /\ resources'[o] = resources[o])
  <2>1. resources["Agent"] \in ResourceType
    BY <1>3 DEF Edit, StoreType, Controllers
  <2>2. PICK n \in Nat : n = resources["Agent"].generation + 1
    BY <2>1 DEF ResourceType
  <2>3. PICK r \in ResourceType :
          r = [resources["Agent"] EXCEPT !.protocols = ~resources["Agent"].protocols,
                                         !.generation = n]
    BY <2>1, <2>2 DEF ResourceType
  <2>4. /\ r.uid = resources["Agent"].uid /\ r.observed = resources["Agent"].observed
        /\ r.generation = n
    BY <2>1, <2>3 DEF ResourceType
  <2>5. resources' = [resources EXCEPT !["Agent"] = r] /\ births' = births
    BY <1>3, <2>2, <2>3 DEF Edit
  <2>6. r # None /\ resources["Agent"] # None
    BY <2>1, NoneAssumption
  <2>7. CASE o = "Agent"
    BY <2>2, <2>4, <2>5, <2>6, <2>7 DEF Edited, StoreType
  <2>8. CASE o # "Agent"
    BY <2>5, <2>8 DEF StoreType
  <2> QED
    BY <2>7, <2>8
<1>4. ASSUME NEW k \in Objects,
             \/ \E c \in {"other", None} : Put(k, c)
             \/ Remove(k) \/ Collect(k) \/ SyncObject(k)
      PROVE  births'[o] = births[o] /\ resources'[o] = resources[o]
  BY <1>4 DEF Put, Remove, Collect, SyncObject, boundVars
<1>5. ASSUME NEW q \in Controllers,
             \/ Fetch(q) \/ Withdraw(q)
             \/ \E k \in Objects : Ensure(q, k) \/ Refused(q, k)
      PROVE  births'[o] = births[o] /\ resources'[o] = resources[o]
  BY <1>5 DEF Fetch, Ensure, Refused, Withdraw, boundVars
<1>6. ASSUME NEW q \in Controllers, Publish(q)
      PROVE  Published(o) \/ (births'[o] = births[o] /\ resources'[o] = resources[o])
  <2>1. /\ WriteStatus(q) /\ worker[q].pc \in {"ready", "notReady"}
        /\ UNCHANGED <<objects, births>>
    BY <1>6 DEF Publish, objectVars, boundVars
  <2>2. CASE ~worker[q].current
    BY <2>1, <2>2 DEF WriteStatus
  <2>3. CASE worker[q].current
    <3>1. resources[q] \in ResourceType /\ worker[q].held = resources[q]
      BY <2>1, <2>3 DEF WorkType, HeldIsCurrent, Busy
    <3>2. PICK b \in {"True", "False"} : b = IF worker[q].pc = "ready" THEN "True" ELSE "False"
      OBVIOUS
    <3>3. PICK g \in Nat : g = resources[q].generation
      BY <3>1 DEF ResourceType
    <3>4. PICK r \in ResourceType : r = [resources[q] EXCEPT !.observed = g, !.ready = b]
      BY <3>1 DEF ResourceType
    <3>5. r.uid = resources[q].uid /\ r.generation = g /\ r.observed = g /\ r.ready = b
      BY <3>1, <3>3, <3>4 DEF ResourceType
    <3>6. resources' = [resources EXCEPT ![q] = r]
      BY <2>1, <2>3, <3>1, <3>2, <3>3, <3>4 DEF WriteStatus
    <3>7. r # None /\ resources[q] # None
      BY <3>1, NoneAssumption
    <3>8. CASE q = o
      BY <2>1, <2>3, <3>2, <3>3, <3>5, <3>6, <3>7, <3>8 DEF Published, StoreType
    <3>9. CASE q # o
      BY <2>1, <3>6, <3>9 DEF StoreType
    <3> QED
      BY <3>8, <3>9
  <2> QED
    BY <2>2, <2>3
<1>7. CASE UNCHANGED vars
  BY <1>7 DEF vars, boundVars
<1>8. CASE Environment
  BY <1>1, <1>2, <1>3, <1>4, <1>8 DEF Environment
<1>9. CASE Informers
  BY <1>4, <1>9 DEF Informers
<1>10. ASSUME NEW q \in Controllers, Step(q)
       PROVE  \/ Published(o)
              \/ births'[o] = births[o] /\ resources'[o] = resources[o]
  BY <1>5, <1>6, <1>10 DEF Step
<1> QED
  BY <1>7, <1>8, <1>9, <1>10 DEF Next

Waits(o) ==
  /\ worker'[o].pc = worker[o].pc /\ worker'[o].held = worker[o].held
  /\ worker'[o].current => worker[o].current

Fetched(o) ==
  /\ resources[o] # None /\ births'[o] = births[o]
  /\ worker'[o].pc = "Deployment" /\ worker'[o].held = resources[o]

Moved(o) ==
  /\ worker'[o].held = worker[o].held /\ worker'[o].current = worker[o].current
  /\ \/ worker'[o].pc = "notReady"
     \/ /\ worker'[o].pc \in {"Service", "ready"}
        /\ worker[o].pc = "Service" \/ Ensure(o, "Deployment")
  /\ Busy(o) /\ UNCHANGED <<resources, cObjects, births>>

LEMMA WorkerStep ==
  ASSUME TypeInv, [Next]_vars, NEW o \in Controllers
  PROVE  Waits(o) \/ Fetched(o) \/ Moved(o) \/ worker'[o] = Idle
<1> USE DEF TypeInv
<1>1. ASSUME NEW q \in Controllers, worker' = Outdate(q) PROVE Waits(o)
  BY <1>1, OutdateStep DEF Waits
<1>2. CASE UNCHANGED worker
  BY <1>2 DEF Waits
<1>3. ASSUME NEW q \in Controllers, Fetch(q) PROVE Fetched(o) \/ Waits(o)
  <2>1. CASE resources[q] # None /\ q = o
    BY <1>3, <2>1 DEF Fetch, Fetched, WorkType, boundVars
  <2>2. CASE resources[q] = None \/ q # o
    BY <1>3, <2>2 DEF Fetch, Waits, WorkType
  <2> QED
    BY <2>1, <2>2
<1>4. ASSUME NEW q \in Controllers, NEW k \in Objects, Ensure(q, k) \/ Refused(q, k)
      PROVE  Moved(o) \/ Waits(o)
  <2>1. /\ worker[q].pc = k /\ Busy(q) /\ UNCHANGED <<resources, cObjects, births>>
        /\ \/ Goto(q, "notReady")
           \/ Ensure(q, k) /\ Goto(q, After(k))
    BY <1>4 DEF Ensure, Refused, Busy, Objects, boundVars
  <2>2. CASE q # o
    BY <2>1, <2>2 DEF Goto, Waits, WorkType
  <2>3. CASE q = o
    <3>1. CASE Goto(o, "notReady")
      BY <2>1, <2>3, <3>1, GotoStep DEF Moved
    <3>2. CASE Ensure(o, k) /\ Goto(o, After(k))
      <4>1. After(k) \in {"Service", "ready"} /\ k \in {"Deployment", "Service"}
        BY DEF After, Objects
      <4>2. worker'[o].pc = After(k) /\ worker'[o].held = worker[o].held
            /\ worker'[o].current = worker[o].current
        BY <2>1, <2>3, <3>2, <4>1, GotoStep
      <4> QED
        BY <2>1, <2>3, <3>2, <4>1, <4>2 DEF Moved
    <3> QED
      BY <2>1, <2>3, <3>1, <3>2
  <2> QED
    BY <2>2, <2>3
<1>5. ASSUME NEW q \in Controllers, Withdraw(q) PROVE Moved(o) \/ Waits(o)
  <2>1. /\ worker[q].pc = "Service" /\ Busy(q) /\ UNCHANGED <<resources, cObjects, births>>
        /\ Goto(q, "notReady") \/ Goto(q, "ready")
    BY <1>5 DEF Withdraw, Busy, boundVars
  <2>2. CASE q # o
    BY <2>1, <2>2 DEF Goto, Waits, WorkType
  <2>3. CASE q = o
    BY <2>1, <2>3, GotoStep DEF Moved
  <2> QED
    BY <2>2, <2>3
<1>6. ASSUME NEW q \in Controllers, Publish(q) PROVE worker'[o] = Idle \/ Waits(o)
  BY <1>6 DEF Publish, WorkType, Waits
<1>7. CASE Environment
  <2>1. (\E q \in Controllers : worker' = Outdate(q)) \/ UNCHANGED worker
    BY <1>7 DEF Environment, Delete, Create, Edit, Put, Remove, Collect, Controllers
  <2> QED
    BY <1>1, <1>2, <2>1
<1>8. CASE Informers
  BY <1>2, <1>8 DEF Informers, SyncObject
<1>9. ASSUME NEW q \in Controllers, Step(q)
      PROVE  Waits(o) \/ Fetched(o) \/ Moved(o) \/ worker'[o] = Idle
  BY <1>3, <1>4, <1>5, <1>6, <1>9 DEF Step
<1>10. CASE UNCHANGED vars
  BY <1>2, <1>10 DEF vars
<1> QED
  BY <1>7, <1>8, <1>9, <1>10 DEF Next

\* How an object comes to differ: by hand, by the collector, or by a worker that found
\* it free, its own or nobody's.
Claimed(k, o) ==
  /\ Busy(o) /\ worker[o].pc = k
  /\ objects'[k] = Wanted(o) /\ worker'[o].held = worker[o].held
  /\ objects[k] # None => objects[k].controller \in {o, None}

LEMMA ObjectStep ==
  ASSUME TypeInv, [Next]_vars, NEW k \in Objects
  PROVE  \/ objects'[k] = objects[k]
         \/ objects[k] = None /\ objects'[k].uid = 0
         \/ objects'[k] = None /\ (removals' = removals + 1 \/ Orphaned(k) \/ k = "Service")
         \/ \E o \in Controllers : Claimed(k, o)
<1> USE DEF TypeInv
<1> DEFINE Goal == \/ objects'[k] = objects[k]
                   \/ objects[k] = None /\ objects'[k].uid = 0
                   \/ /\ objects'[k] = None
                      /\ removals' = removals + 1 \/ Orphaned(k) \/ k = "Service"
                   \/ \E o \in Controllers : Claimed(k, o)
<1> SUFFICES Goal
  BY DEF Goal
<1> HIDE DEF Goal
<1>1. ASSUME NEW j \in Objects, NEW object, Store(j, object)
      PROVE  objects'[k] = objects[k] \/ (j = k /\ objects'[k] = object)
  BY <1>1 DEF Store, StoreType, objectVars
<1>2. CASE UNCHANGED objects
  BY <1>2 DEF Goal
<1>3. ASSUME NEW j \in Objects, NEW c \in {"other", None}, Put(j, c) PROVE Goal
  <2>1. objects[j] = None /\ Store(j, [controller |-> c, uid |-> 0])
    BY <1>3 DEF Put
  <2> QED
    BY <1>1, <2>1 DEF Goal
<1>4. ASSUME NEW j \in Objects, Remove(j) \/ Collect(j) PROVE Goal
  BY <1>1, <1>4 DEF Remove, Collect, Goal
<1>5. ASSUME NEW o \in Controllers, NEW j \in Objects, Ensure(o, j) PROVE Goal
  <2>1. /\ UNCHANGED objects \/ (Accepts(j) /\ Store(j, Wanted(o)))
        /\ MayOwn(o, cObjects[j]) /\ Goto(o, After(j)) /\ Busy(o) /\ worker[o].pc = j
    BY <1>5 DEF Ensure, objectVars, Busy, Objects
  <2>2. CASE Accepts(j) /\ Store(j, Wanted(o)) /\ objects'[k] # objects[k]
    <3>1. j = k /\ objects'[k] = Wanted(o)
      BY <1>1, <2>2
    <3>2. objects[k] # None => objects[k].controller \in {o, None}
      BY <2>1, <2>2, <3>1 DEF Accepts, CacheIsFresh, MayOwn
    <3>3. worker'[o].held = worker[o].held
      BY <2>1, GotoStep DEF After
    <3> QED
      BY <2>1, <3>1, <3>2, <3>3 DEF Claimed, Goal
  <2> QED
    BY <1>2, <2>1, <2>2 DEF Goal
<1>6. ASSUME NEW o \in Controllers, Withdraw(o) PROVE Goal
  <2>1. UNCHANGED objects \/ Store("Service", None)
    BY <1>6 DEF Withdraw, objectVars
  <2> QED
    BY <1>1, <1>2, <2>1 DEF Objects, Goal
<1>7. CASE Environment
  <2>1. ASSUME NEW q \in Controllers, Delete(q) \/ \E p \in BOOLEAN : Create(q, p) PROVE Goal
    BY <1>2, <2>1 DEF Delete, Create, objectVars
  <2>2. CASE Edit
    BY <1>2, <2>2 DEF Edit, objectVars
  <2>3. ASSUME NEW j \in Objects,
               \/ \E c \in {"other", None} : Put(j, c)
               \/ Remove(j) \/ Collect(j)
        PROVE  Goal
    BY <1>3, <1>4, <2>3
  <2>4. CASE \E q \in Controllers : Delete(q) \/ \E p \in BOOLEAN : Create(q, p)
    BY <2>1, <2>4
  <2>5. CASE \E j \in Objects : \/ \E c \in {"other", None} : Put(j, c)
                               \/ Remove(j) \/ Collect(j)
    BY <2>3, <2>5
  <2> QED
    BY <1>7, <2>2, <2>4, <2>5 DEF Environment
<1>8. CASE Informers
  BY <1>2, <1>8 DEF Informers, SyncObject
<1>9. ASSUME NEW q \in Controllers, Step(q) PROVE Goal
  <2>1. CASE Fetch(q) \/ Publish(q) \/ \E j \in Objects : Refused(q, j)
    BY <1>2, <2>1 DEF Fetch, Refused, Publish, objectVars
  <2>2. CASE \E j \in Objects : Ensure(q, j)
    BY <1>5, <2>2
  <2> QED
    BY <1>6, <1>9, <2>1, <2>2 DEF Step
<1>10. CASE UNCHANGED vars
  BY <1>2, <1>10 DEF vars, objectVars
<1> QED
  BY <1>7, <1>8, <1>9, <1>10 DEF Next

LEMMA CopyStep ==
  ASSUME [Next]_vars, NEW k \in Objects, TypeInv
  PROVE  cObjects'[k] = cObjects[k] \/ (cObjects'[k] = objects[k] /\ UNCHANGED objects)
<1>1. ASSUME NEW j \in Objects, SyncObject(j)
      PROVE  cObjects'[k] = cObjects[k] \/ (cObjects'[k] = objects[k] /\ UNCHANGED objects)
  BY <1>1 DEF SyncObject, TypeInv, StoreType
<1>2. CASE Environment
  BY <1>2 DEF Environment, Delete, Create, Edit, Put, Remove, Collect
<1>3. ASSUME NEW o \in Controllers, Step(o) PROVE cObjects' = cObjects
  BY <1>3 DEF Step, Fetch, Ensure, Refused, Withdraw, Publish
<1>4. CASE UNCHANGED vars
  BY <1>4 DEF vars
<1> QED
  BY <1>1, <1>2, <1>3, <1>4 DEF Next, Informers

-----------------------------------------------------------------------------
(* UIDs                                                                      *)

\* Births are counted up, and a worker that takes up a resource takes up the last one.
LEMMA UidsGrow ==
  ASSUME TypeInv, TypeInv', [Next]_vars, NEW o \in Controllers
  PROVE  /\ births[o] \in Nat /\ births'[o] \in Nat /\ births[o] <= births'[o]
         /\ Busy(o)' => \/ Busy(o) /\ worker'[o].held = worker[o].held
                        \/ worker'[o].held.uid = births[o]
         /\ Busy(o)' => worker'[o].held.uid \in Nat
<1>1. births[o] \in Nat /\ births'[o] \in Nat
  BY DEF TypeInv, StoreType
<1>2. births'[o] = births[o] \/ births'[o] = births[o] + 1
  BY ResourceStep DEF Created, Edited, Published
<1>3. Busy(o)' => \/ Busy(o) /\ worker'[o].held = worker[o].held
                  \/ worker'[o].held.uid = births[o]
  BY WorkerStep, IdleType DEF Waits, Fetched, Moved, Busy, TypeInv, UidsKnown
<1>4. Busy(o)' => worker'[o].held.uid \in Nat
  BY DEF TypeInv, WorkType, Busy, ResourceType
<1> QED
  BY <1>1, <1>2, <1>3, <1>4

\* A resource keeps its UID, and the next one of the name has a larger one.
LEMMA UidStays ==
  ASSUME TypeInv, [Next]_vars, NEW o \in Controllers, resources'[o] # None
  PROVE  \/ Created(o)
         \/ resources[o] # None /\ OwnObject(o)' = OwnObject(o)
<1>1. \/ Created(o)
      \/ resources[o] # None /\ resources'[o].uid = resources[o].uid
  BY ResourceStep DEF Edited, Published
<1> QED
  BY <1>1 DEF OwnObject

LEMMA KnownStays ==
  ASSUME TypeInv, TypeInv', [Next]_vars, NEW object \in ObjectType \cup {None},
         ObjectIsKnown(object)
  PROVE  ObjectIsKnown(object)'
<1> SUFFICES ASSUME object # None, NEW o \in Controllers, object.controller = o
             PROVE  /\ object.uid <= births'[o]
                    /\ Busy(o)' => object.uid <= worker'[o].held.uid
  BY DEF ObjectIsKnown
<1>1. /\ object.uid \in Nat /\ object.uid <= births[o]
      /\ Busy(o) => object.uid <= worker[o].held.uid
  BY DEF ObjectIsKnown, ObjectType
<1> QED
  BY <1>1, UidsGrow

LEMMA KnownStep ==
  ASSUME TypeInv, TypeInv', ObjectsKnown, [Next]_vars
  PROVE  ObjectsKnown'
<1> SUFFICES ASSUME NEW k \in Objects
             PROVE  ObjectIsKnown(objects[k])' /\ ObjectIsKnown(cObjects[k])'
  BY DEF ObjectsKnown
<1>1. PICK object \in ObjectType \cup {None} : object = objects[k]
  BY DEF TypeInv, StoreType
<1>2. PICK copy \in ObjectType \cup {None} : copy = cObjects[k]
  BY DEF TypeInv, StoreType
<1>3. ObjectIsKnown(object)' /\ ObjectIsKnown(copy)'
  <2>1. ObjectIsKnown(object) /\ ObjectIsKnown(copy)
    BY <1>1, <1>2 DEF ObjectsKnown
  <2> QED
    BY <2>1, KnownStays
<1>4. ObjectIsKnown(objects[k])'
  <2>1. CASE objects'[k] = objects[k]
    BY <1>1, <1>3, <2>1 DEF ObjectIsKnown
  <2>2. CASE objects'[k] = None
    BY <2>2 DEF ObjectIsKnown
  <2>3. CASE objects'[k].uid = 0
    BY <2>3, UidsGrow DEF ObjectIsKnown
  <2>4. ASSUME NEW o \in Controllers, Claimed(k, o) PROVE ObjectIsKnown(objects[k])'
    <3>1. /\ objects'[k].controller = o /\ objects'[k].uid = worker[o].held.uid
          /\ worker'[o].held = worker[o].held
          /\ worker[o].held.uid \in 1 .. births[o]
      BY <2>4 DEF Claimed, Wanted, TypeInv, UidsKnown
    <3> QED
      BY <3>1, UidsGrow DEF ObjectIsKnown
  <2> QED
    BY <2>1, <2>2, <2>3, <2>4, ObjectStep
<1>5. ObjectIsKnown(cObjects[k])'
  <2>1. CASE cObjects'[k] = cObjects[k]
    BY <1>2, <1>3, <2>1 DEF ObjectIsKnown
  <2>2. CASE cObjects'[k] = objects[k]
    BY <1>1, <1>3, <2>2 DEF ObjectIsKnown
  <2> QED
    BY <2>1, <2>2, CopyStep
<1> QED
  BY <1>4, <1>5

\* A resource that has the Deployment keeps it until somebody removes it by hand: the
\* collector leaves it, the other controller is refused, and what its own writes is the same.
LEMMA DeploymentStays ==
  ASSUME TypeInv, ObjectsKnown, [Next]_vars, NEW o \in Controllers,
         resources[o] # None, objects["Deployment"] = OwnObject(o), removals' = 0
  PROVE  objects'["Deployment"] = OwnObject(o)
<1>1. /\ "Deployment" \in Objects /\ objects["Deployment"] # None /\ o # None
      /\ objects["Deployment"].controller = o /\ objects["Deployment"].uid = resources[o].uid
  <2>1. resources[o] \in ResourceType
    BY DEF TypeInv, StoreType
  <2>2. OwnObject(o) \in ObjectType
    BY <2>1 DEF OwnObject, ObjectType, ResourceType
  <2> QED
    BY <2>2, NoneAssumption DEF Objects, OwnObject
<1>2. removals' # removals + 1
  BY DEF TypeInv, StoreType
<1>3. ~Orphaned("Deployment")
  BY <1>1 DEF Orphaned
<1>4. ASSUME NEW q \in Controllers, Claimed("Deployment", q)
      PROVE  objects'["Deployment"] = OwnObject(o)
  <2>1. q = o
    BY <1>1, <1>4 DEF Claimed
  <2>2. worker[o].held.uid \in 1 .. births[o] /\ resources[o].uid = births[o]
        /\ births[o] \in Nat
    BY <1>4, <2>1 DEF Claimed, TypeInv, UidsKnown
  <2>3. resources[o].uid <= worker[o].held.uid
    BY <1>1, <1>4, <2>1 DEF ObjectsKnown, ObjectIsKnown, Claimed
  <2>4. worker[o].held.uid = resources[o].uid
    BY <2>2, <2>3
  <2> QED
    BY <1>4, <2>1, <2>4 DEF Claimed, Wanted, OwnObject
<1> QED
  BY <1>1, <1>2, <1>3, <1>4, ObjectStep

-----------------------------------------------------------------------------
(* Whoever claims to be Ready, or has the Service, has the Deployment        *)

LEMMA RemovalsGrow ==
  ASSUME TypeInv, [Next]_vars, removals' = 0
  PROVE  removals = 0
<1>1. CASE Environment
  <2>1. removals' = removals \/ removals' = removals + 1
    BY <1>1 DEF Environment, Delete, Create, Edit, Put, Remove, Collect, boundVars
  <2> QED
    BY <2>1 DEF TypeInv, StoreType
<1>2. CASE Informers
  BY <1>2 DEF Informers, SyncObject, boundVars
<1>3. ASSUME NEW o \in Controllers, Step(o) PROVE removals = 0
  BY <1>3 DEF Step, Fetch, Ensure, Refused, Withdraw, Publish, boundVars
<1>4. CASE UNCHANGED vars
  BY <1>4 DEF vars, boundVars
<1> QED
  BY <1>1, <1>2, <1>3, <1>4 DEF Next

LEMMA CopyIsKeptStep ==
  ASSUME TypeInv, ObjectsKnown, CopyIsKept, [Next]_vars
  PROVE  CopyIsKept'
<1> SUFFICES ASSUME removals' = 0, NEW o \in Controllers, resources'[o] # None,
                    cObjects'["Deployment"] = OwnObject(o)'
             PROVE  objects'["Deployment"] = OwnObject(o)'
  BY DEF CopyIsKept
<1>1. removals = 0 /\ "Deployment" \in Objects
  BY RemovalsGrow DEF Objects
<1>2. CASE cObjects'["Deployment"] = objects["Deployment"] /\ UNCHANGED objects
  BY <1>2
<1>3. CASE cObjects'["Deployment"] = cObjects["Deployment"]
  <2>1. ~Created(o)
    <3> SUFFICES ASSUME Created(o) PROVE FALSE
      OBVIOUS
    <3>1. /\ cObjects["Deployment"].controller = o
          /\ cObjects["Deployment"].uid = births[o] + 1
      BY <1>3 DEF OwnObject, Created
    <3>2. OwnObject(o)' \in ObjectType
      BY DEF OwnObject, Created, ObjectType, TypeInv, StoreType
    <3>3. cObjects["Deployment"].uid <= births[o]
      BY <1>1, <1>3, <3>1, <3>2, NoneAssumption DEF ObjectsKnown, ObjectIsKnown
    <3> QED
      BY <3>1, <3>3 DEF TypeInv, StoreType
  <2>2. resources[o] # None /\ OwnObject(o)' = OwnObject(o)
    BY <2>1, UidStays
  <2>3. objects["Deployment"] = OwnObject(o)
    BY <1>1, <1>3, <2>2 DEF CopyIsKept
  <2> QED
    BY <2>2, <2>3, DeploymentStays
<1> QED
  BY <1>1, <1>2, <1>3, CopyStep

LEMMA InPlaceStep ==
  ASSUME TypeInv, TypeInv', ObjectsKnown, CopyIsKept, InPlace, [Next]_vars
  PROVE  InPlace'
<1> SUFFICES ASSUME removals' = 0, NEW o \in Controllers,
                    worker'[o].pc \in {"Service", "ready"}, resources'[o] # None,
                    worker'[o].held.uid = resources'[o].uid
             PROVE  objects'["Deployment"] = OwnObject(o)'
  BY DEF InPlace
<1>1. removals = 0
  BY RemovalsGrow
<1>2. Busy(o) /\ (Waits(o) \/ Moved(o)) /\ worker'[o].held = worker[o].held
  BY WorkerStep, IdleType DEF Waits, Fetched, Moved, Busy
<1>3. ~Created(o)
  <2>1. worker[o].held.uid \in 1 .. births[o] /\ births[o] \in Nat
    BY <1>2 DEF TypeInv, UidsKnown, StoreType
  <2> QED
    BY <1>2, <2>1 DEF Created
<1>4. resources[o] # None /\ OwnObject(o)' = OwnObject(o)
  BY <1>3, UidStays
<1>5. worker[o].held.uid = resources[o].uid
  BY <1>2, <1>4 DEF OwnObject
<1>6. CASE worker[o].pc \in {"Service", "ready"}
  <2>1. objects["Deployment"] = OwnObject(o)
    BY <1>1, <1>4, <1>5, <1>6 DEF InPlace
  <2> QED
    BY <1>4, <2>1, DeploymentStays
<1>7. CASE worker[o].pc \notin {"Service", "ready"}
  <2>1. Ensure(o, "Deployment") /\ Wanted(o) = OwnObject(o)
    BY <1>2, <1>5, <1>7 DEF Waits, Moved, Wanted, OwnObject
  <2>2. CASE LeavesAlone(o, "Deployment") /\ UNCHANGED objectVars
    <3>1. objects["Deployment"] = OwnObject(o)
      BY <1>1, <1>4, <2>1, <2>2 DEF CopyIsKept, LeavesAlone
    <3> QED
      BY <1>4, <2>2, <3>1 DEF objectVars
  <2>3. CASE Store("Deployment", Wanted(o))
    BY <1>4, <2>1, <2>3 DEF Store, TypeInv, StoreType, objectVars, Objects
  <2> QED
    BY <2>1, <2>2, <2>3 DEF Ensure
<1> QED
  BY <1>6, <1>7

\* Who comes to have the Service has the Deployment already.
LEMMA ServiceSecond ==
  ASSUME TypeInv, TypeInv', InPlace, DeploymentFirst, [Next]_vars, removals = 0,
         NEW o \in Controllers, resources[o] # None,
         objects'["Service"] = OwnObject(o)
  PROVE  objects["Deployment"] = OwnObject(o)
<1>1. "Service" \in Objects /\ o # None
  BY NoneAssumption DEF Objects
<1>2. resources[o] \in ResourceType /\ OwnObject(o) \in ObjectType
  BY DEF TypeInv, StoreType, OwnObject, ObjectType, ResourceType
<1>3. OwnObject(o) # None /\ OwnObject(o).controller = o /\ OwnObject(o).uid = resources[o].uid
  BY <1>2, NoneAssumption DEF OwnObject
<1>4. CASE objects'["Service"] = objects["Service"]
  BY <1>4 DEF DeploymentFirst
<1>5. objects'["Service"] # None
  BY <1>3
<1>6. objects'["Service"].uid # 0
  BY <1>3 DEF TypeInv, UidsKnown
<1>7. ASSUME NEW q \in Controllers, Claimed("Service", q)
      PROVE  objects'["Service"] = objects["Service"] \/ objects["Deployment"] = OwnObject(o)
  <2>1. q = o /\ worker[o].held.uid = resources[o].uid
    BY <1>3, <1>7 DEF Claimed, Wanted
  <2> QED
    BY <1>7, <2>1 DEF Claimed, InPlace
<1> QED
  BY <1>1, <1>4, <1>5, <1>6, <1>7, ObjectStep

LEMMA DeploymentFirstStep ==
  ASSUME TypeInv, TypeInv', ObjectsKnown, InPlace, NothingObservedAhead, DeploymentFirst, [Next]_vars
  PROVE  NothingObservedAhead' /\ DeploymentFirst'
<1>1. ASSUME NEW o \in Controllers, resources'[o] # None
      PROVE  resources'[o].observed <= resources'[o].generation
  <2>1. resources[o] # None => /\ resources[o].observed \in Nat /\ resources[o].generation \in Nat
                               /\ resources[o].observed <= resources[o].generation
    BY DEF NothingObservedAhead, TypeInv, StoreType, ResourceType
  <2> QED
    BY <1>1, <2>1, ResourceStep DEF Created, Edited, Published
<1>2. ASSUME removals' = 0, NEW o \in Controllers, resources'[o] # None,
             resources'[o].ready = "True", resources'[o].observed = resources'[o].generation
      PROVE  resources[o] # None /\ OwnObject(o)' = OwnObject(o)
             /\ objects["Deployment"] = OwnObject(o)
  <2>1. removals = 0
    BY <1>2, RemovalsGrow
  <2>2. resources[o] # None /\ OwnObject(o)' = OwnObject(o) /\ ~Created(o)
    BY <1>2, UidStays DEF Created
  <2>3. ~Edited(o)
    <3>1. resources[o].observed \in Nat /\ resources[o].generation \in Nat
          /\ resources[o].observed <= resources[o].generation
      BY <2>2 DEF NothingObservedAhead, TypeInv, StoreType, ResourceType
    <3> QED
      BY <1>2, <3>1 DEF Edited
  <2>4. CASE Published(o)
    <3>1. worker[o].pc = "ready" /\ worker[o].held.uid = resources[o].uid
      BY <1>2, <2>4 DEF Published, TypeInv, HeldIsCurrent
    <3> QED
      BY <2>1, <2>2, <3>1 DEF InPlace
  <2>5. CASE resources'[o] = resources[o]
    BY <1>2, <2>1, <2>2, <2>5 DEF DeploymentFirst
  <2> QED
    BY <1>2, <2>2, <2>3, <2>4, <2>5, ResourceStep
<1>3. ASSUME removals' = 0, NEW o \in Controllers, resources'[o] # None,
             objects'["Service"] = OwnObject(o)'
      PROVE  resources[o] # None /\ OwnObject(o)' = OwnObject(o)
             /\ objects["Deployment"] = OwnObject(o)
  <2>1. removals = 0
    BY <1>3, RemovalsGrow
  <2>2. ~Created(o)
    <3> SUFFICES ASSUME Created(o) PROVE FALSE
      OBVIOUS
    <3>1. objects'["Service"].controller = o /\ objects'["Service"].uid = births'[o]
          /\ births'[o] = births[o] + 1
      BY <1>3 DEF OwnObject, Created
    <3>2. resources'[o] \in ResourceType
      BY <1>3 DEF TypeInv, StoreType
    <3>3. OwnObject(o)' \in ObjectType
      BY <3>2 DEF OwnObject, ObjectType, ResourceType
    <3>4. "Service" \in Objects /\ objects'["Service"] # None
      BY <1>3, <3>3, NoneAssumption DEF Objects
    <3>5. births[o] \in Nat /\ births'[o] \in Nat \ {0}
      BY <1>3 DEF TypeInv, StoreType, UidsKnown
    <3>6. objects'["Service"] # objects["Service"]
      BY <3>1, <3>4, <3>5 DEF ObjectsKnown, ObjectIsKnown
    <3>7. ASSUME NEW q \in Controllers, Claimed("Service", q) PROVE FALSE
      <4>1. q = o /\ worker[o].held.uid = births[o] + 1
        BY <3>1, <3>7 DEF Claimed, Wanted
      <4> QED
        BY <3>5, <3>7, <4>1 DEF Claimed, TypeInv, UidsKnown
    <3> QED
      BY <3>1, <3>4, <3>5, <3>6, <3>7, ObjectStep
  <2>3. resources[o] # None /\ OwnObject(o)' = OwnObject(o)
    BY <1>3, <2>2, UidStays
  <2> QED
    BY <1>3, <2>1, <2>3, ServiceSecond
<1>4. ASSUME removals' = 0, NEW o \in Controllers, resources[o] # None,
             OwnObject(o)' = OwnObject(o), objects["Deployment"] = OwnObject(o)
      PROVE  objects'["Deployment"] = OwnObject(o)'
  BY <1>4, DeploymentStays
<1> QED
  BY <1>1, <1>2, <1>3, <1>4 DEF NothingObservedAhead, DeploymentFirst

\* While nobody removes objects by hand, a resource that claims Ready or has the Service
\* controls the Deployment of the name, whatever the other controller does, and whatever
\* foreign objects, deletions and births there are.
THEOREM DeploymentComesFirst == Spec => []DeploymentFirst
<1>1. Init => OwnInv
  BY IdleType DEF Init, OwnInv, ObjectsKnown, ObjectIsKnown, CopyIsKept, InPlace,
     NothingObservedAhead, DeploymentFirst
<1>2. TypeInv /\ OwnInv /\ [Next]_vars => OwnInv'
  <2> SUFFICES ASSUME TypeInv, OwnInv, [Next]_vars PROVE OwnInv'
    OBVIOUS
  <2>1. TypeInv'
    BY TypeStep
  <2> QED
    BY <2>1, KnownStep, CopyIsKeptStep, InPlaceStep, DeploymentFirstStep DEF OwnInv
<1>3. OwnInv => DeploymentFirst
  BY DEF OwnInv
<1> QED
  BY <1>1, <1>2, <1>3, TypeInit, TypeStep, PTL DEF Spec

-----------------------------------------------------------------------------
(* Whoever is at rest has what it asks for                                   *)

Names(object, o) == object # None /\ object.controller = o

\* A copy that differs from the stored object, where either names o, has an event for o.
CopyConcerns ==
  \A k \in Objects : \A o \in Controllers :
    cObjects[k] # objects[k] /\ (Names(cObjects[k], o) \/ Names(objects[k], o))
      => o \in concerned[k]

\* The object of kind k is as o's spec calls for.
Has(o, k) ==
  IF k = "Service" /\ ~resources[o].protocols THEN ~Names(objects[k], o)
  ELSE objects[k] = OwnObject(o)

\* The steps of a reconcile after which the object of kind k has been dealt with
Past(k) == IF k = "Deployment" THEN {"Service", "ready", "idle"} ELSE {"ready", "idle"}

\* Of a resource whose name is not queued: its reconcile is about the stored version, what
\* the reconcile has dealt with is in place unless an event says otherwise, and at the end
\* the status says so.
NotForgotten(o) ==
  resources[o] # None /\ o \notin queue =>
    /\ Busy(o) => worker[o].current
    /\ \A k \in Objects : worker[o].pc \in Past(k) /\ o \notin concerned[k] => Has(o, k)
    /\ ~Busy(o) => /\ resources[o].ready = "True"
                   /\ resources[o].observed = resources[o].generation

RestInv == CopyConcerns /\ \A o \in Controllers : NotForgotten(o)

\* What becomes of an object, its copy and the events about it
LEMMA EventStep ==
  ASSUME TypeInv, [Next]_vars, NEW k \in Objects
  PROVE  \/ /\ cObjects'[k] = cObjects[k]
            /\ concerned'[k] = concerned[k] /\ objects'[k] = objects[k]
         \/ /\ cObjects'[k] = cObjects[k]
            /\ concerned'[k] = concerned[k] \cup ControllersOf(objects[k])
                                            \cup ControllersOf(objects'[k])
         \/ /\ cObjects'[k] = objects'[k] /\ objects'[k] = objects[k]
            /\ concerned[k] \subseteq queue'
<1> USE DEF TypeInv
<1> DEFINE Same == /\ cObjects'[k] = cObjects[k]
                   /\ concerned'[k] = concerned[k] /\ objects'[k] = objects[k]
           Changed == /\ cObjects'[k] = cObjects[k]
                      /\ concerned'[k] = concerned[k] \cup ControllersOf(objects[k])
                                                      \cup ControllersOf(objects'[k])
           Delivered == /\ cObjects'[k] = objects'[k] /\ objects'[k] = objects[k]
                        /\ concerned[k] \subseteq queue'
<1>1. ASSUME NEW j \in Objects, NEW object, Store(j, object), UNCHANGED cObjects
      PROVE  Same \/ Changed
  <2>1. CASE objects[j] = object \/ j # k
    BY <1>1, <2>1 DEF Store, StoreType, QueueType, objectVars
  <2>2. CASE objects[j] # object /\ j = k
    <3>1. /\ objects' = [objects EXCEPT ![k] = object]
          /\ concerned' = [concerned EXCEPT
               ![k] = concerned[k] \cup ControllersOf(objects[k]) \cup ControllersOf(object)]
      BY <1>1, <2>2 DEF Store
    <3>2. /\ objects'[k] = object
          /\ concerned'[k] = concerned[k] \cup ControllersOf(objects[k]) \cup ControllersOf(object)
      BY <3>1 DEF StoreType, QueueType
    <3> QED
      BY <1>1, <3>2
  <2> QED
    BY <2>1, <2>2
<1>2. ASSUME UNCHANGED <<objects, concerned, cObjects>> PROVE Same
  BY <1>2
<1> HIDE DEF Same, Changed
<1>3. ASSUME Environment PROVE Same \/ Changed
  <2>1. UNCHANGED cObjects
    BY <1>3 DEF Environment, Delete, Create, Edit, Put, Remove, Collect
  <2>2. \/ UNCHANGED <<objects, concerned>>
        \/ \E j \in Objects : \/ \E c \in {"other", None} : Put(j, c)
                              \/ Remove(j) \/ Collect(j)
    BY <1>3 DEF Environment, Delete, Create, Edit, objectVars
  <2>3. ASSUME NEW j \in Objects, NEW c \in {"other", None}, Put(j, c) PROVE Same \/ Changed
    BY <1>1, <2>1, <2>3 DEF Put
  <2>4. ASSUME NEW j \in Objects, Remove(j) \/ Collect(j) PROVE Same \/ Changed
    BY <1>1, <2>1, <2>4 DEF Remove, Collect
  <2> QED
    BY <1>2, <2>1, <2>2, <2>3, <2>4
<1>4. ASSUME NEW j \in Objects, SyncObject(j) PROVE Same \/ Delivered
  <2>1. CASE j = k
    BY <1>4, <2>1 DEF SyncObject, StoreType
  <2>2. CASE j # k
    BY <1>4, <2>2 DEF SyncObject, StoreType, QueueType, Same
  <2> QED
    BY <2>1, <2>2
<1>5. ASSUME NEW q \in Controllers, Step(q) PROVE Same \/ Changed
  <2>1. UNCHANGED cObjects
    BY <1>5 DEF Step, Fetch, Ensure, Refused, Withdraw, Publish
  <2>2. \/ UNCHANGED <<objects, concerned>>
        \/ \E j \in Objects : Store(j, Wanted(q)) \/ Store(j, None)
    BY <1>5 DEF Step, Fetch, Ensure, Refused, Withdraw, Publish, objectVars, Objects
  <2> QED
    BY <1>1, <1>2, <2>1, <2>2
<1>6. ASSUME UNCHANGED vars PROVE Same
  BY <1>2, <1>6 DEF vars
<1> HIDE DEF Delivered
<1>7. Same \/ Changed \/ Delivered
  BY <1>3, <1>4, <1>5, <1>6 DEF Next, Informers
<1> QED
  BY <1>7 DEF Same, Changed, Delivered

LEMMA ControllersNamed ==
  ASSUME NEW object, NEW o \in Controllers
  PROVE  o \in ControllersOf(object) <=> Names(object, o)
  BY DEF ControllersOf, Names

LEMMA CopyConcernsStep ==
  ASSUME TypeInv, CopyConcerns, [Next]_vars
  PROVE  CopyConcerns'
<1> SUFFICES ASSUME NEW k \in Objects, NEW o \in Controllers, cObjects'[k] # objects'[k],
                    Names(cObjects'[k], o) \/ Names(objects'[k], o)
             PROVE  o \in concerned'[k]
  BY DEF CopyConcerns, Names
<1>1. CASE /\ cObjects'[k] = cObjects[k]
           /\ concerned'[k] = concerned[k] /\ objects'[k] = objects[k]
  BY <1>1 DEF CopyConcerns
<1>2. CASE /\ cObjects'[k] = cObjects[k]
           /\ concerned'[k] = concerned[k] \cup ControllersOf(objects[k])
                                           \cup ControllersOf(objects'[k])
  <2>1. CASE Names(objects'[k], o)
    BY <1>2, <2>1, ControllersNamed
  <2>2. CASE Names(cObjects[k], o) /\ cObjects[k] # objects[k]
    BY <1>2, <2>2 DEF CopyConcerns
  <2>3. CASE Names(cObjects[k], o) /\ cObjects[k] = objects[k]
    BY <1>2, <2>3, ControllersNamed
  <2> QED
    BY <1>2, <2>1, <2>2, <2>3
<1> QED
  BY <1>1, <1>2, EventStep

\* Unless an event for o is outstanding, what o has it keeps, and what does not name o
\* does not come to do so.
LEMMA HasStays ==
  ASSUME TypeInv, [Next]_vars, NEW o \in Controllers, NEW k \in Objects,
         resources[o] # None, Has(o, k), o \notin queue', o \notin concerned'[k],
         OwnObject(o)' = OwnObject(o), resources'[o].protocols = resources[o].protocols
  PROVE  Has(o, k)'
<1>1. Names(OwnObject(o), o)
  <2>1. OwnObject(o) \in ObjectType
    BY DEF OwnObject, ObjectType, TypeInv, StoreType, ResourceType
  <2> QED
    BY <2>1, NoneAssumption DEF OwnObject, Names
<1>2. \/ objects'[k] = objects[k]
      \/ ~Names(objects[k], o) /\ ~Names(objects'[k], o)
  <2>1. CASE concerned'[k] = concerned[k] \cup ControllersOf(objects[k])
                                          \cup ControllersOf(objects'[k])
    BY <2>1, ControllersNamed
  <2> QED
    BY <2>1, EventStep
<1> QED
  BY <1>1, <1>2 DEF Has, Names

\* Whatever anyone but its own worker does to a resource, its copy or its key queues o.
LEMMA OthersStep ==
  ASSUME TypeInv, [Next]_vars, NEW o \in Controllers, ~Step(o),
         resources'[o] # None, o \notin queue'
  PROVE  o \notin queue /\ resources'[o] = resources[o] /\ worker'[o] = worker[o]
<1> USE DEF TypeInv
<1>1. CASE Environment
  <2>1. ASSUME NEW q \in Controllers, NEW p \in BOOLEAN, Delete(q) \/ Create(q, p)
        PROVE  o \notin queue /\ resources'[o] = resources[o] /\ worker'[o] = worker[o]
    <3>1. q # o
      BY <2>1 DEF Delete, Create
    <3> QED
      BY <2>1, <3>1 DEF Delete, Create, Outdate, StoreType, WorkType
  <2>2. ASSUME Edit
        PROVE  o \notin queue /\ resources'[o] = resources[o] /\ worker'[o] = worker[o]
    <3>1. o # "Agent"
      BY <2>2 DEF Edit
    <3> QED
      BY <2>2, <3>1 DEF Edit, Outdate, StoreType, WorkType
  <2>3. ASSUME NEW k \in Objects, NEW c \in {"other", None}, Put(k, c) \/ Remove(k) \/ Collect(k)
        PROVE  o \notin queue /\ resources'[o] = resources[o] /\ worker'[o] = worker[o]
    BY <2>3 DEF Put, Remove, Collect
  <2> QED
    BY <1>1, <2>1, <2>2, <2>3 DEF Environment
<1>2. ASSUME NEW k \in Objects, SyncObject(k)
      PROVE  o \notin queue /\ resources'[o] = resources[o] /\ worker'[o] = worker[o]
  BY <1>2 DEF SyncObject
<1>3. ASSUME NEW q \in Controllers, Step(q)
      PROVE  o \notin queue /\ resources'[o] = resources[o] /\ worker'[o] = worker[o]
  <2>1. q # o
    BY <1>3
  <2>2. CASE Fetch(q)
    BY <2>1, <2>2 DEF Fetch, WorkType
  <2>3. CASE Withdraw(q) \/ \E k \in Objects : Ensure(q, k) \/ Refused(q, k)
    BY <2>1, <2>3 DEF Ensure, Refused, Withdraw, Goto, WorkType
  <2>4. CASE Publish(q)
    BY <2>1, <2>4 DEF Publish, WriteStatus, WorkType, StoreType
  <2> QED
    BY <1>3, <2>2, <2>3, <2>4 DEF Step
<1>4. CASE UNCHANGED vars
  BY <1>4 DEF vars
<1> QED
  BY <1>1, <1>2, <1>3, <1>4 DEF Next, Informers

\* The reconcile of o goes on, and its resource stays as it is.
LEMMA GoesOn ==
  ASSUME TypeInv, TypeInv', [Next]_vars, NEW o \in Controllers, NotForgotten(o),
         resources[o] # None, resources'[o] = resources[o],
         o \notin queue, o \notin queue', Busy(o)', worker'[o].current,
         \A k \in Objects : worker'[o].pc \in Past(k) /\ o \notin concerned'[k]
           => worker[o].pc \in Past(k) \/ Has(o, k)'
  PROVE  NotForgotten(o)'
<1> SUFFICES ASSUME NEW k \in Objects, worker'[o].pc \in Past(k), o \notin concerned'[k]
             PROVE  Has(o, k)'
  BY DEF NotForgotten, Past, Busy
<1>1. CASE worker[o].pc \in Past(k)
  <2>1. o \notin concerned[k]
    BY EventStep
  <2>2. Has(o, k)
    BY <1>1, <2>1 DEF NotForgotten
  <2> QED
    BY <2>2, HasStays DEF OwnObject
<1> QED
  BY <1>1

LEMMA EnsureGoesOn ==
  ASSUME TypeInv, TypeInv', [Next]_vars, NEW o \in Controllers, NotForgotten(o), CopyConcerns,
         resources'[o] # None, o \notin queue', NEW k \in Objects, Ensure(o, k)
  PROVE  NotForgotten(o)'
<1> USE DEF TypeInv
<1>1. /\ Busy(o) /\ resources' = resources /\ queue' = queue
      /\ worker[o].pc = k /\ Goto(o, After(k)) /\ ~Withdraws(o, k)
  BY DEF Ensure, Busy, Objects
<1>2. After(k) \in {"Service", "ready"} /\ k \in {"Deployment", "Service"}
  BY DEF After, Objects
<1>3. /\ worker'[o].pc = After(k) /\ worker'[o].held = worker[o].held
      /\ worker'[o].current = worker[o].current /\ Busy(o)'
  BY <1>1, <1>2, GotoStep
<1>4. worker[o].current /\ worker[o].held = resources[o]
  BY <1>1 DEF NotForgotten, HeldIsCurrent
<1>5. Wanted(o) = OwnObject(o) /\ OwnObject(o)' = OwnObject(o)
  BY <1>1, <1>4 DEF Wanted, OwnObject
<1>6. ~(k = "Service" /\ ~resources[o].protocols)
  BY <1>1, <1>4 DEF Withdraws
<1>7. ASSUME o \notin concerned'[k] PROVE objects'[k] = OwnObject(o)
  <2>1. CASE LeavesAlone(o, k) /\ UNCHANGED objectVars
    <3>1. cObjects[k] = OwnObject(o) /\ objects'[k] = objects[k] /\ o \notin concerned[k]
      BY <1>5, <1>7, <2>1 DEF LeavesAlone, objectVars
    <3>2. Names(OwnObject(o), o)
      <4>1. OwnObject(o) \in ObjectType
        BY <1>1, <1>4 DEF OwnObject, ObjectType, WorkType, ResourceType
      <4> QED
        BY <4>1, NoneAssumption DEF OwnObject, Names
    <3> QED
      BY <3>1, <3>2 DEF CopyConcerns
  <2>2. CASE Store(k, Wanted(o))
    BY <1>5, <2>2 DEF Store, StoreType, objectVars
  <2> QED
    BY <2>1, <2>2 DEF Ensure
<1>8. ASSUME o \notin concerned'[k] PROVE Has(o, k)'
  BY <1>1, <1>5, <1>6, <1>7, <1>8 DEF Has
<1>9. ASSUME NEW j \in Objects, After(k) \in Past(j) PROVE j = k \/ k \in Past(j)
  BY <1>2, <1>9 DEF After, Past, Objects
<1> QED
  BY <1>1, <1>3, <1>4, <1>8, <1>9, GoesOn

LEMMA WithdrawGoesOn ==
  ASSUME TypeInv, TypeInv', [Next]_vars, NEW o \in Controllers, NotForgotten(o), CopyConcerns,
         resources'[o] # None, o \notin queue', Withdraw(o)
  PROVE  NotForgotten(o)'
<1> USE DEF TypeInv
<1>1. /\ Busy(o) /\ resources' = resources /\ queue' = queue
      /\ worker[o].pc = "Service" /\ Withdraws(o, "Service")
      /\ Goto(o, "ready") \/ Goto(o, "notReady")
  BY DEF Withdraw, Busy
<1>2. /\ worker'[o].pc \in {"ready", "notReady"}
      /\ worker'[o].current = worker[o].current /\ Busy(o)'
  BY <1>1, GotoStep
<1>3. worker[o].current /\ worker[o].held = resources[o] /\ "Service" \in Objects
  BY <1>1 DEF NotForgotten, HeldIsCurrent, Objects
<1>4. ~resources'[o].protocols
  BY <1>1, <1>3 DEF Withdraws
<1>5. ASSUME worker'[o].pc = "ready", o \notin concerned'["Service"] PROVE Has(o, "Service")'
  <2>1. ~Goto(o, "notReady")
    BY <1>1, <1>5, GotoStep
  <2>2. CASE cObjects["Service"] = None /\ UNCHANGED objectVars
    <3>1. objects' = objects /\ o \notin concerned["Service"]
      BY <1>5, <2>2 DEF objectVars
    <3>2. ~Names(objects["Service"], o)
      BY <1>3, <2>2, <3>1 DEF CopyConcerns, Names
    <3> QED
      BY <1>4, <3>1, <3>2 DEF Has, Names
  <2>3. CASE Store("Service", None)
    <3>1. objects'["Service"] = None
      BY <1>3, <2>3 DEF Store, StoreType, objectVars
    <3> QED
      BY <1>4, <3>1 DEF Has, Names
  <2> QED
    BY <2>1, <2>2, <2>3 DEF Withdraw
<1>6. ASSUME NEW j \in Objects, worker'[o].pc \in Past(j)
      PROVE  worker'[o].pc = "ready" /\ (j = "Service" \/ worker[o].pc \in Past(j))
  BY <1>1, <1>2, <1>6 DEF Past, Objects
<1> QED
  BY <1>1, <1>2, <1>3, <1>5, <1>6, GoesOn

LEMMA PublishRests ==
  ASSUME TypeInv, [Next]_vars, NEW o \in Controllers, NotForgotten(o),
         resources'[o] # None, o \notin queue', Publish(o)
  PROVE  NotForgotten(o)'
<1> USE DEF TypeInv
<1>1. /\ worker[o].pc = "ready" /\ worker[o].current /\ resources'[o] = resources[o]
      /\ o \notin queue /\ WriteStatus(o) /\ worker' = [worker EXCEPT ![o] = Idle]
      /\ UNCHANGED objectVars
  BY DEF Publish
<1>2. worker'[o].pc = "idle"
  BY <1>1, IdleType DEF WorkType
<1>3. resources[o] = worker[o].held /\ resources[o] \in ResourceType
  BY <1>1 DEF HeldIsCurrent, WorkType, Busy
<1>4. resources[o].ready = "True" /\ resources[o].observed = resources[o].generation
  <2>1. resources' = [resources EXCEPT ![o] =
          [resources[o] EXCEPT !.observed = resources[o].generation, !.ready = "True"]]
    BY <1>1, <1>3 DEF WriteStatus
  <2>2. resources'[o] = [resources[o] EXCEPT !.observed = resources[o].generation, !.ready = "True"]
    BY <2>1 DEF StoreType
  <2>3. /\ resources'[o].ready = "True"
        /\ resources'[o].observed = resources[o].generation
    BY <1>3, <2>2 DEF ResourceType
  <2> QED
    BY <1>1, <2>3
<1>5. ASSUME NEW k \in Objects, o \notin concerned'[k] PROVE Has(o, k)'
  <2>1. Has(o, k)
    BY <1>1, <1>5 DEF NotForgotten, Past, objectVars
  <2> QED
    BY <1>1, <2>1 DEF Has, OwnObject, Names, objectVars
<1> QED
  BY <1>1, <1>2, <1>4, <1>5 DEF NotForgotten, Busy

LEMMA NotForgottenStep ==
  ASSUME TypeInv, TypeInv', CopyConcerns, [Next]_vars, NEW o \in Controllers, NotForgotten(o)
  PROVE  NotForgotten(o)'
<1> SUFFICES ASSUME resources'[o] # None, o \notin queue' PROVE NotForgotten(o)'
  BY DEF NotForgotten
<1>1. CASE ~Step(o)
  <2>1. o \notin queue /\ resources'[o] = resources[o] /\ worker'[o] = worker[o]
    BY <1>1, OthersStep
  <2>2. ASSUME NEW k \in Objects, worker[o].pc \in Past(k), o \notin concerned'[k]
        PROVE  Has(o, k)'
    <3>1. o \notin concerned[k]
      BY <2>2, EventStep
    <3>2. Has(o, k)
      BY <2>1, <2>2, <3>1 DEF NotForgotten
    <3> QED
      BY <2>1, <2>2, <3>2, HasStays DEF OwnObject
  <2> QED
    BY <2>1, <2>2 DEF NotForgotten, Busy
<1>2. CASE Fetch(o)
  <2>1. worker'[o].pc = "Deployment" /\ worker'[o].current
    BY <1>2 DEF Fetch, TypeInv, WorkType
  <2> QED
    BY <2>1 DEF NotForgotten, Past, Busy, Objects
<1>3. ASSUME NEW k \in Objects, Refused(o, k) PROVE NotForgotten(o)'
  <2>1. Busy(o) /\ resources' = resources /\ queue' = queue /\ Goto(o, "notReady")
    BY <1>3 DEF Refused, Busy, Objects
  <2>2. worker'[o].pc = "notReady" /\ worker'[o].current = worker[o].current
    BY <2>1, GotoStep DEF TypeInv
  <2> QED
    BY <2>1, <2>2 DEF NotForgotten, Past, Busy, Objects
<1> QED
  BY <1>1, <1>2, <1>3, EnsureGoesOn, WithdrawGoesOn, PublishRests DEF Step

\* Whoever is at rest has what it asks for, and says so.
THEOREM NobodyRestsWithout == Spec => []QuiescentIsOwner
<1>1. Init => RestInv
  BY DEF Init, RestInv, CopyConcerns, NotForgotten
<1>2. TypeInv /\ RestInv /\ [Next]_vars => RestInv'
  BY TypeStep, CopyConcernsStep, NotForgottenStep DEF RestInv
<1>3. RestInv => QuiescentIsOwner
  <2> SUFFICES ASSUME RestInv, NEW o \in Controllers, resources[o] # None, ~Pending(o)
               PROVE  /\ Owns(o)
                      /\ resources[o].ready = "True"
                      /\ resources[o].observed = resources[o].generation
    BY DEF QuiescentIsOwner
  <2>1. o \notin queue /\ worker[o].pc = "idle" /\ \A k \in Objects : o \notin concerned[k]
    BY DEF Pending
  <2>2. NotForgotten(o)
    BY DEF RestInv
  <2>3. Has(o, "Deployment") /\ Has(o, "Service")
    BY <2>1, <2>2 DEF NotForgotten, Past, Objects
  <2> QED
    BY <2>1, <2>2, <2>3 DEF NotForgotten, Busy, Has, Owns, Names
<1> QED
  BY <1>1, <1>2, <1>3, TypeInit, TypeStep, PTL DEF Spec
=============================================================================
