---------------------------- MODULE HandoverProofs ----------------------------
(***************************************************************************)
(* Proofs about several processes of the operator, for any number of them. *)
(***************************************************************************)
EXTENDS Handover, TLAPS

VersionType == [spec : Specs, generation : Nat]
AgentType == [spec : Specs, generation : Nat, ready : {"Unknown", "True", "False"},
              observed : Nat]
WorkerType == [pc : {"idle", "deployment", "ready", "notReady"},
               held : VersionType \cup {None}, current : BOOLEAN]

StoreType ==
  /\ elects \in BOOLEAN /\ probed \in BOOLEAN
  /\ lease \in Operators \cup {None} /\ running \in SUBSET Operators
  /\ agent \in AgentType /\ deployment \in Specs \cup {None}
  /\ spent \in [edits : Nat, exits : Nat, expiries : Nat]

\* Only a process that runs has copies, events on their way, and work.
ProcessType ==
  /\ cAgent \in [Operators -> VersionType \cup {None}]
  /\ cDeployment \in [Operators -> Specs \cup {None}]
  /\ stale \in [Operators -> SUBSET Kinds]
  /\ queued \in SUBSET running
  /\ \A p \in running : cAgent[p] \in VersionType
  /\ \A p \in Operators \ running : stale[p] = {}

WorkType ==
  /\ worker \in [Operators -> WorkerType]
  /\ \A p \in Operators :
       worker[p].pc # "idle" => p \in running /\ worker[p].held \in VersionType

\* A copy that is not marked stale is what the API server stores.
CacheIsFresh ==
  \A p \in running :
    /\ "agent" \notin stale[p] => cAgent[p] = Version(agent)
    /\ "deployment" \notin stale[p] => cDeployment[p] = deployment

\* What a worker believes current is the stored version, and nobody wrote another one.
HeldIsCurrent ==
  \A p \in Operators :
    worker[p].pc # "idle" /\ worker[p].current =>
      worker[p].held = Version(agent) /\ "agent" \notin stale[p]

TypeInv == StoreType /\ ProcessType /\ WorkType /\ CacheIsFresh /\ HeldIsCurrent

-----------------------------------------------------------------------------
LEMMA IdleType == Idle \in WorkerType /\ Idle.pc = "idle"
  BY DEF Idle, WorkerType

LEMMA VersionHasType == ASSUME StoreType PROVE Version(agent) \in VersionType
  BY DEF Version, VersionType, StoreType, AgentType

LEMMA TypeInit == Init => TypeInv
<1> SUFFICES ASSUME Init PROVE TypeInv
  OBVIOUS
<1>1. StoreType
  BY SpecsAssumption DEF Init, StoreType, NewAgent, AgentType
<1>2. ProcessType
  BY DEF Init, ProcessType
<1>3. WorkType /\ HeldIsCurrent
  BY IdleType DEF Init, WorkType, HeldIsCurrent
<1> QED
  BY <1>1, <1>2, <1>3 DEF Init, TypeInv, CacheIsFresh

\* A new version of the Agent, whoever writes it, leaves no worker with a current copy.
LEMMA NewVersion ==
  ASSUME TypeInv, StoreType', Outdate("agent"), UNCHANGED <<running, deployment, cacheVars>>,
         queued' \in SUBSET running, WorkType',
         \A p \in Operators : worker'[p].pc # "idle" => ~worker'[p].current
  PROVE  TypeInv'
<1>1. ProcessType'
  BY DEF TypeInv, ProcessType, Outdate, cacheVars, Kinds
<1>2. CacheIsFresh'
  BY DEF TypeInv, StoreType, ProcessType, CacheIsFresh, Outdate, cacheVars
<1> QED
  BY <1>1, <1>2 DEF TypeInv, HeldIsCurrent

LEMMA TypeStep == TypeInv /\ [Next]_vars => TypeInv'
<1> SUFFICES ASSUME TypeInv, [Next]_vars PROVE TypeInv'
  OBVIOUS
<1> USE DEF TypeInv
<1>1. ASSUME NEW p \in Operators, Start(p) PROVE TypeInv'
  <2>1. StoreType'
    BY <1>1 DEF Start, StoreType, storeVars
  <2>2. ProcessType'
    BY <1>1, VersionHasType DEF Start, StoreType, ProcessType, storeVars
  <2>3. worker[p].pc = "idle" /\ UNCHANGED <<agent, deployment, worker>>
    BY <1>1 DEF Start, WorkType, storeVars
  <2>4. WorkType'
    BY <1>1, <2>3 DEF Start, WorkType
  <2>5. CacheIsFresh'
    BY <1>1, <2>3 DEF Start, StoreType, ProcessType, CacheIsFresh, storeVars, Version
  <2>6. HeldIsCurrent'
    BY <1>1, <2>3 DEF Start, ProcessType, HeldIsCurrent, Version
  <2> QED
    BY <2>1, <2>2, <2>4, <2>5, <2>6
<1>2. ASSUME NEW p \in Operators, Exit(p) \/ LoseElection(p) PROVE TypeInv'
  <2>1. Stop(p) /\ UNCHANGED <<elects, probed, lease, storeVars>>
    BY <1>2 DEF Exit, LoseElection
  <2>2. StoreType'
    BY <1>2, <2>1 DEF Exit, LoseElection, Stop, StoreType, storeVars
  <2>3. ProcessType'
    BY <2>1 DEF Stop, StoreType, ProcessType
  <2>4. worker' = [worker EXCEPT ![p] = Idle]
    BY <2>1 DEF Stop
  <2>5. WorkType'
    BY <2>1, <2>4, IdleType DEF Stop, WorkType
  <2>6. CacheIsFresh'
    BY <2>1 DEF Stop, StoreType, ProcessType, CacheIsFresh, storeVars, Version
  <2>7. HeldIsCurrent'
    BY <2>1, <2>4, IdleType DEF Stop, ProcessType, WorkType, HeldIsCurrent, storeVars, Version
  <2> QED
    BY <2>2, <2>3, <2>5, <2>6, <2>7
<1>3. CASE Expire \/ ExpireEarly
  <2>1. UNCHANGED <<elects, probed, running, storeVars, cacheVars, stale, queued, worker>>
    BY <1>3 DEF Expire, ExpireEarly
  <2>2. StoreType'
    BY <1>3 DEF Expire, ExpireEarly, StoreType, storeVars
  <2> QED
    BY <2>1, <2>2 DEF ProcessType, WorkType, CacheIsFresh, HeldIsCurrent, storeVars,
       cacheVars, Version
<1>4. ASSUME NEW s \in Specs, Edit(s) PROVE TypeInv'
  <2>1. StoreType'
    <3>1. PICK n \in Nat : n = agent.generation + 1
      BY DEF StoreType, AgentType
    <3>2. agent' = [agent EXCEPT !.spec = s, !.generation = n]
      BY <1>4, <3>1 DEF Edit
    <3>3. agent' \in AgentType
      BY <3>2 DEF StoreType, AgentType
    <3> QED
      BY <1>4, <3>3 DEF Edit, StoreType, leaseVars
  <2>2. \A p \in Operators : /\ worker'[p] \in WorkerType /\ ~worker'[p].current
                             /\ worker'[p].pc = worker[p].pc /\ worker'[p].held = worker[p].held
    BY <1>4 DEF Edit, WorkType, WorkerType
  <2>3. worker' \in [Operators -> WorkerType]
    BY <1>4, <2>2 DEF Edit
  <2>4. WorkType'
    BY <1>4, <2>2, <2>3 DEF Edit, WorkType, leaseVars
  <2> QED
    BY <1>4, <2>1, <2>2, <2>4, NewVersion DEF Edit, leaseVars, ProcessType
<1>5. ASSUME NEW p \in Operators, NEW k \in Kinds, Sync(p, k) PROVE TypeInv'
  <2>1. p \in running /\ UNCHANGED <<leaseVars, storeVars, worker, spent>>
    BY <1>5 DEF Sync, ProcessType
  <2>2. StoreType' /\ WorkType'
    BY <2>1 DEF StoreType, WorkType, leaseVars, storeVars
  <2>3. ProcessType'
    BY <1>5, <2>1, VersionHasType DEF Sync, StoreType, ProcessType, leaseVars
  <2>4. CacheIsFresh'
    BY <1>5, <2>1 DEF Sync, StoreType, ProcessType, CacheIsFresh, leaseVars, storeVars,
       Version, Kinds
  <2>5. HeldIsCurrent'
    BY <1>5, <2>1 DEF Sync, ProcessType, HeldIsCurrent, storeVars, Version
  <2> QED
    BY <2>2, <2>3, <2>4, <2>5
<1>6. ASSUME NEW p \in Operators, Fetch(p) PROVE TypeInv'
  <2>1. p \in running /\ UNCHANGED <<leaseVars, storeVars, cacheVars, stale, spent>>
    BY <1>6 DEF Fetch, ProcessType
  <2>2. worker' = [worker EXCEPT ![p] = [pc |-> "deployment", held |-> cAgent[p],
                                         current |-> "agent" \notin stale[p]]]
    BY <1>6 DEF Fetch
  <2>3. cAgent[p] \in VersionType
    BY <2>1 DEF ProcessType
  <2>4. WorkType'
    BY <2>1, <2>2, <2>3 DEF WorkType, WorkerType, leaseVars
  <2>5. HeldIsCurrent'
    BY <2>1, <2>2 DEF WorkType, CacheIsFresh, HeldIsCurrent, storeVars, cacheVars, Version
  <2>6. StoreType' /\ ProcessType' /\ CacheIsFresh'
    BY <1>6, <2>1 DEF Fetch, StoreType, ProcessType, CacheIsFresh, leaseVars, storeVars,
       cacheVars, Version
  <2> QED
    BY <2>4, <2>5, <2>6
<1>7. ASSUME NEW p \in Operators, Ensure(p) \/ Rejected(p) PROVE TypeInv'
  <2>1. /\ worker[p].pc # "idle"
        /\ UNCHANGED <<leaseVars, agent, cacheVars, queued, spent>>
    BY <1>7 DEF Ensure, Rejected, storeVars
  <2>2. p \in running /\ worker[p].held.spec \in Specs
    BY <2>1 DEF WorkType, VersionType
  <2>3. PICK label \in {"ready", "notReady"} : worker' = [worker EXCEPT ![p].pc = label]
    BY <1>7 DEF Ensure, Rejected, Goto
  <2>4. \A q \in Operators : /\ worker'[q].held = worker[q].held
                             /\ worker'[q].current = worker[q].current
                             /\ worker'[q].pc # "idle" => worker[q].pc # "idle"
                             /\ worker'[q] \in WorkerType
    BY <2>1, <2>3 DEF WorkType, WorkerType
  <2>5. WorkType'
    BY <2>1, <2>3, <2>4 DEF WorkType, leaseVars
  <2>6. \/ UNCHANGED <<deployment, stale>>
        \/ /\ deployment' = worker[p].held.spec
           /\ Outdate("deployment")
    BY <1>7 DEF Ensure, Rejected, Write, storeVars
  <2>7. StoreType'
    BY <2>1, <2>2, <2>6 DEF StoreType, leaseVars
  <2>8. ProcessType'
    BY <2>1, <2>6 DEF StoreType, ProcessType, Outdate, leaseVars, cacheVars, Kinds
  <2>9. CacheIsFresh'
    BY <2>1, <2>6 DEF StoreType, ProcessType, CacheIsFresh, Outdate, leaseVars, cacheVars, Version
  <2>10. HeldIsCurrent'
    BY <2>1, <2>4, <2>6 DEF StoreType, ProcessType, WorkType, HeldIsCurrent, Outdate,
       leaseVars, Version
  <2> QED
    BY <2>5, <2>7, <2>8, <2>9, <2>10
<1>8. ASSUME NEW p \in Operators, Publish(p) PROVE TypeInv'
  <2>1. /\ worker[p].pc # "idle" /\ p \in running /\ worker[p].held \in VersionType
        /\ UNCHANGED <<leaseVars, deployment, cacheVars, spent>>
        /\ queued' \in SUBSET running
    BY <1>8 DEF Publish, WorkType, ProcessType
  <2>2. CASE worker[p].current /\ Reported(p) # agent
    <3>1. /\ agent' = Reported(p) /\ Outdate("agent")
          /\ worker' = [q \in Operators |->
               IF q = p THEN Idle ELSE [worker[q] EXCEPT !.current = FALSE]]
      BY <1>8, <2>2 DEF Publish
    <3>2. agent' \in AgentType
      BY <2>1, <3>1 DEF Reported, StoreType, AgentType, VersionType
    <3>3. StoreType'
      BY <2>1, <3>2 DEF StoreType, leaseVars
    <3>4. \A q \in Operators : /\ worker'[q] \in WorkerType
                               /\ worker'[q].pc # "idle" =>
                                    /\ ~worker'[q].current /\ worker[q].pc # "idle"
                                    /\ worker'[q].held = worker[q].held
      BY <3>1, IdleType DEF WorkType, WorkerType
    <3>5. WorkType'
      BY <2>1, <3>1, <3>4 DEF WorkType, leaseVars
    <3> QED
      BY <2>1, <3>1, <3>3, <3>4, <3>5, NewVersion DEF leaseVars
  <2>3. CASE ~(worker[p].current /\ Reported(p) # agent)
    <3>1. worker' = [worker EXCEPT ![p] = Idle] /\ UNCHANGED <<agent, stale>>
      BY <1>8, <2>3 DEF Publish
    <3>2. WorkType' /\ HeldIsCurrent'
      BY <2>1, <3>1, IdleType DEF WorkType, HeldIsCurrent, leaseVars, Version
    <3>3. StoreType' /\ ProcessType' /\ CacheIsFresh'
      BY <2>1, <3>1 DEF StoreType, ProcessType, CacheIsFresh, leaseVars, cacheVars, Version
    <3> QED
      BY <3>2, <3>3
  <2> QED
    BY <2>2, <2>3
<1>9. CASE UNCHANGED vars
  BY <1>9 DEF vars, leaseVars, storeVars, cacheVars, StoreType, ProcessType, WorkType,
     CacheIsFresh, HeldIsCurrent, Version
<1> QED
  BY <1>1, <1>2, <1>3, <1>4, <1>5, <1>6, <1>7, <1>8, <1>9 DEF Next, Step

-----------------------------------------------------------------------------
(* No process forgets the Agent                                              *)

\* p runs, and no event and no key is on its way that would make it look again.
Settled(p) == p \in running /\ p \notin queued /\ stale[p] = {}

\* What the worker of p has done still stands.
Done(p) ==
  /\ worker[p].pc = "idle" => Reconciled
  /\ worker[p].pc # "idle" => worker[p].current
  /\ worker[p].pc = "ready" => deployment = worker[p].held.spec

NothingIsForgotten == \A p \in Operators : Settled(p) => Done(p)

LEMMA QuietStep == TypeInv /\ NothingIsForgotten /\ [Next]_vars => NothingIsForgotten'
<1> SUFFICES ASSUME TypeInv, NothingIsForgotten, [Next]_vars,
                    NEW q \in Operators, Settled(q)'
             PROVE  Done(q)'
  BY DEF NothingIsForgotten
<1> USE DEF TypeInv
<1>1. ASSUME Settled(q), UNCHANGED storeVars, worker'[q] = worker[q] PROVE Done(q)'
  BY <1>1 DEF NothingIsForgotten, Done, Reconciled, storeVars
<1>2. ASSUME NEW k \in Kinds, Outdate(k), UNCHANGED running PROVE FALSE
  BY <1>2 DEF Outdate, Settled
<1>3. ASSUME NEW p \in Operators, Start(p) \/ Exit(p) \/ LoseElection(p) PROVE Done(q)'
  <2>1. CASE Start(p)
    BY <1>1, <2>1 DEF Start, Settled, StoreType, ProcessType
  <2>2. CASE Exit(p) \/ LoseElection(p)
    <3>1. q # p
      BY <2>2 DEF Exit, LoseElection, Stop, Settled
    <3> QED
      BY <1>1, <2>2, <3>1 DEF Exit, LoseElection, Stop, Settled, StoreType, ProcessType, WorkType
  <2> QED
    BY <1>3, <2>1, <2>2
<1>4. CASE Expire \/ ExpireEarly
  BY <1>1, <1>4 DEF Expire, ExpireEarly, Settled
<1>5. ~ \E s \in Specs : Edit(s)
  BY <1>2 DEF Edit, leaseVars, Kinds
<1>6. ASSUME NEW p \in Operators, NEW k \in Kinds, Sync(p, k) PROVE Done(q)'
  BY <1>1, <1>6 DEF Sync, Settled, ProcessType, leaseVars
<1>7. ASSUME NEW p \in Operators, Fetch(p) PROVE Done(q)'
  <2>1. /\ worker' = [worker EXCEPT ![p] = [pc |-> "deployment", held |-> cAgent[p],
                                            current |-> "agent" \notin stale[p]]]
        /\ queued' = queued \ {p} /\ UNCHANGED <<leaseVars, storeVars, cacheVars, stale>>
    BY <1>7 DEF Fetch
  <2>2. CASE q = p
    BY <2>1, <2>2 DEF Settled, Done, WorkType
  <2>3. CASE q # p
    BY <1>1, <2>1, <2>3 DEF Settled, WorkType, leaseVars
  <2> QED
    BY <2>2, <2>3
<1>8. ASSUME NEW p \in Operators, Ensure(p) PROVE Done(q)'
  <2>1. /\ worker[p].pc = "deployment" /\ UNCHANGED <<leaseVars, agent, cacheVars, queued>>
        /\ worker' = [worker EXCEPT ![p].pc = "ready"]
    BY <1>8 DEF Ensure, Goto
  <2>2. /\ UNCHANGED <<deployment, stale>>
        /\ Sends(p) => deployment = worker[p].held.spec
    BY <1>2, <1>8, <2>1 DEF Ensure, Write, leaseVars, Kinds
  <2>3. Settled(q) /\ UNCHANGED storeVars
    BY <2>1, <2>2 DEF Settled, leaseVars, storeVars
  <2>4. CASE q = p
    <3>1. deployment = worker[p].held.spec
      BY <2>2, <2>3, <2>4 DEF Sends, CacheIsFresh, Settled
    <3>2. worker[p].current
      BY <2>1, <2>3, <2>4 DEF NothingIsForgotten, Done
    <3>3. /\ worker'[p].pc = "ready" /\ worker'[p].held = worker[p].held
          /\ worker'[p].current = worker[p].current
      BY <2>1 DEF WorkType, WorkerType
    <3> QED
      BY <2>2, <2>4, <3>1, <3>2, <3>3 DEF Done
  <2>5. CASE q # p
    BY <1>1, <2>1, <2>3, <2>5 DEF WorkType
  <2> QED
    BY <2>4, <2>5
<1>9. ASSUME NEW p \in Operators, Rejected(p) PROVE Done(q)'
  <2>1. /\ worker[p].pc = "deployment" /\ worker' = [worker EXCEPT ![p].pc = "notReady"]
        /\ Settled(q) /\ UNCHANGED storeVars
    BY <1>9 DEF Rejected, Goto, Settled, leaseVars
  <2>2. CASE q = p
    <3>1. worker[p].current
      BY <2>1, <2>2 DEF NothingIsForgotten, Done
    <3>2. worker'[p].pc = "notReady" /\ worker'[p].current = worker[p].current
      BY <2>1 DEF WorkType, WorkerType
    <3> QED
      BY <2>2, <3>1, <3>2 DEF Done
  <2>3. CASE q # p
    BY <1>1, <2>1, <2>3 DEF WorkType
  <2> QED
    BY <2>2, <2>3
<1>10. ASSUME NEW p \in Operators, Publish(p) PROVE Done(q)'
  <2>1. /\ worker' = [worker EXCEPT ![p] = Idle]
        /\ UNCHANGED <<running, storeVars, stale>>
        /\ ~(worker[p].current /\ Reported(p) # agent)
    BY <1>2, <1>10 DEF Publish, leaseVars, storeVars, Kinds
  <2>2. CASE q = p
    <3>1. worker[p].pc = "ready" /\ worker[p].current /\ Settled(q)
      BY <1>10, <2>1, <2>2 DEF Publish, Settled
    <3>2. deployment = worker[p].held.spec /\ worker[p].held = Version(agent)
      BY <2>2, <3>1 DEF NothingIsForgotten, Done, HeldIsCurrent
    <3>3. agent.ready = "True" /\ agent.observed = worker[p].held.generation
      BY <2>1, <3>1 DEF Reported, StoreType, AgentType
    <3>4. Reconciled
      BY <3>2, <3>3 DEF Reconciled, Version
    <3> QED
      BY <2>1, <2>2, <3>4, IdleType DEF Done, Reconciled, storeVars, WorkType
  <2>3. CASE q # p
    BY <1>1, <1>10, <2>1, <2>3 DEF Publish, Settled, WorkType
  <2> QED
    BY <2>2, <2>3
<1>11. CASE UNCHANGED vars
  BY <1>1, <1>11 DEF vars, leaseVars, Settled
<1> QED
  BY <1>3, <1>4, <1>5, <1>6, <1>7, <1>8, <1>9, <1>10, <1>11 DEF Next, Step

\* However many processes run, elected or not, one that has nothing left to do leaves the
\* Agent reconciled: nothing that another one or its predecessor left half done is missed.
THEOREM NoProcessForgets == Spec => []QuiescentIsReconciled
<1>1. Init => NothingIsForgotten
  BY DEF Init, NothingIsForgotten, Settled
<1>2. TypeInv /\ NothingIsForgotten => QuiescentIsReconciled
  BY IdleType DEF TypeInv, StoreType, NothingIsForgotten, Settled, Done, QuiescentIsReconciled
<1>3. Spec => [](TypeInv /\ NothingIsForgotten)
  BY <1>1, TypeInit, TypeStep, QuietStep, PTL DEF Spec
<1> QED
  BY <1>2, <1>3, PTL

-----------------------------------------------------------------------------
(* Ready is true with leader election                                        *)

Guarded == elects /\ probed /\ spent.expiries = 0

\* Ready of the current generation is true of the Deployment as long as one process leads.
ReadyIsRolledOut ==
  Guarded /\ agent.ready = "True" /\ agent.observed = agent.generation
  => deployment = agent.spec

\* Only the holder of the lease runs.
OneLeader == Guarded => \A p \in running : lease = p

\* A copy is of a generation that exists or existed, and the generation tells which spec.
Known(v) ==
  v.generation <= agent.generation /\ (v.generation = agent.generation => v = Version(agent))

VersionsKnown ==
  /\ agent.observed <= agent.generation
  /\ \A p \in running : Known(cAgent[p]) /\ (worker[p].pc # "idle" => Known(worker[p].held))

\* Whoever runs has seen the generation that was last reported on.
ReportIsSeen ==
  Guarded => \A p \in running :
    /\ cAgent[p].generation >= agent.observed
    /\ worker[p].pc # "idle" => worker[p].held.generation >= agent.observed

\* The Deployment a worker wrote is there when it reports Ready.
InPlace ==
  Guarded => \A p \in running :
    worker[p].pc = "ready" /\ worker[p].current => deployment = worker[p].held.spec

RolloutInv == OneLeader /\ VersionsKnown /\ ReportIsSeen /\ InPlace /\ ReadyIsRolledOut

LEMMA RolloutInit == Init => RolloutInv
<1> SUFFICES ASSUME Init PROVE RolloutInv
  OBVIOUS
<1>1. agent.ready = "Unknown" /\ agent.observed = 0 /\ agent.generation = 1 /\ running = {}
  BY DEF Init, NewAgent
<1> QED
  BY <1>1 DEF RolloutInv, OneLeader, VersionsKnown, ReportIsSeen, InPlace, ReadyIsRolledOut

LEMMA RolloutStep == TypeInv /\ TypeInv' /\ RolloutInv /\ [Next]_vars => RolloutInv'
<1> SUFFICES ASSUME TypeInv, TypeInv', RolloutInv, [Next]_vars PROVE RolloutInv'
  OBVIOUS
<1> USE DEF TypeInv, RolloutInv
<1>n. agent.generation \in Nat /\ agent.observed \in Nat
  BY DEF StoreType, AgentType
<1>1. ASSUME NEW p \in Operators, Start(p) PROVE RolloutInv'
  <2>1. /\ UNCHANGED <<elects, probed, storeVars, worker, spent>>
        /\ running' = running \cup {p} /\ p \notin running /\ worker[p].pc = "idle"
        /\ cAgent' = [cAgent EXCEPT ![p] = Version(agent)]
    BY <1>1 DEF Start, WorkType
  <2>2. Guarded => running = {} /\ lease' = p
    BY <1>1, SpecsAssumption DEF Start, Guarded, OneLeader, StoreType
  <2>3. cAgent'[p] = Version(agent) /\ \A q \in running : cAgent'[q] = cAgent[q]
    BY <2>1 DEF ProcessType, StoreType
  <2>4. OneLeader'
    BY <2>1, <2>2 DEF OneLeader, Guarded
  <2>5. VersionsKnown' /\ ReportIsSeen'
    BY <1>n, <2>1, <2>3 DEF VersionsKnown, ReportIsSeen, Known, Version, Guarded, storeVars
  <2>6. InPlace' /\ ReadyIsRolledOut'
    BY <2>1 DEF InPlace, ReadyIsRolledOut, Guarded, storeVars
  <2> QED
    BY <2>4, <2>5, <2>6
<1>2. ASSUME NEW p \in Operators, Exit(p) \/ LoseElection(p) PROVE RolloutInv'
  <2>1. /\ UNCHANGED <<elects, probed, lease, storeVars>>
        /\ running' = running \ {p} /\ spent'.expiries = spent.expiries
        /\ \A q \in running' : cAgent'[q] = cAgent[q] /\ worker'[q] = worker[q]
    BY <1>2 DEF Exit, LoseElection, Stop, StoreType, ProcessType, WorkType
  <2> QED
    BY <2>1 DEF OneLeader, VersionsKnown, ReportIsSeen, InPlace, ReadyIsRolledOut, Known,
       Version, Guarded, storeVars
<1>3. CASE Expire \/ ExpireEarly
  <2>1. UNCHANGED <<elects, probed, running, storeVars, cacheVars, worker>>
    BY <1>3 DEF Expire, ExpireEarly
  <2>2. Guarded' => Guarded
    <3>1. CASE Expire
      BY <3>1 DEF Expire, Guarded
    <3>2. CASE ExpireEarly
      <4>1. spent.expiries \in Nat /\ spent'.expiries = spent.expiries + 1
        BY <3>2 DEF ExpireEarly, StoreType
      <4> QED
        BY <4>1 DEF Guarded
    <3> QED
      BY <1>3, <3>1, <3>2
  <2>3. OneLeader'
    <3>1. CASE Expire
      BY <2>1, <2>2, <3>1 DEF Expire, OneLeader, Guarded
    <3>2. CASE ExpireEarly
      BY <3>2 DEF ExpireEarly, OneLeader, Guarded, StoreType
    <3> QED
      BY <1>3, <3>1, <3>2
  <2> QED
    BY <2>1, <2>2, <2>3 DEF VersionsKnown, ReportIsSeen, InPlace, ReadyIsRolledOut, Known,
       Version, Guarded, storeVars, cacheVars
<1>4. ASSUME NEW s \in Specs, Edit(s) PROVE RolloutInv'
  <2>1. /\ agent'.generation = agent.generation + 1 /\ agent'.observed = agent.observed
        /\ UNCHANGED <<leaseVars, deployment, cacheVars>> /\ spent'.expiries = spent.expiries
    BY <1>4 DEF Edit, StoreType, AgentType
  <2>2. \A p \in Operators : /\ ~worker'[p].current /\ worker'[p].pc = worker[p].pc
                             /\ worker'[p].held = worker[p].held
    BY <1>4 DEF Edit, WorkType, WorkerType
  <2>3. \A v \in VersionType : Known(v) => Known(v)'
    BY <1>n, <2>1 DEF Known, VersionType
  <2>4. VersionsKnown'
    BY <1>n, <2>1, <2>2, <2>3 DEF VersionsKnown, StoreType, ProcessType, WorkType,
       leaseVars, cacheVars
  <2>5. OneLeader' /\ ReportIsSeen' /\ InPlace'
    BY <2>1, <2>2 DEF OneLeader, ReportIsSeen, InPlace, Guarded, StoreType, leaseVars, cacheVars
  <2>6. ReadyIsRolledOut'
    BY <1>n, <2>1 DEF VersionsKnown, ReadyIsRolledOut
  <2> QED
    BY <2>4, <2>5, <2>6
<1>5. ASSUME NEW p \in Operators, NEW k \in Kinds, Sync(p, k) PROVE RolloutInv'
  <2>1. UNCHANGED <<leaseVars, storeVars, worker, spent>>
    BY <1>5 DEF Sync
  <2>2. \A q \in running : cAgent'[q] = cAgent[q] \/ cAgent'[q] = Version(agent)
    BY <1>5 DEF Sync, StoreType, ProcessType
  <2>3. VersionsKnown' /\ ReportIsSeen'
    BY <1>n, <2>1, <2>2 DEF VersionsKnown, ReportIsSeen, Known, Version, Guarded, storeVars,
       leaseVars
  <2> QED
    BY <2>1, <2>3 DEF OneLeader, InPlace, ReadyIsRolledOut, Guarded, leaseVars, storeVars
<1>6. ASSUME NEW p \in Operators, Fetch(p) PROVE RolloutInv'
  <2>1. /\ UNCHANGED <<leaseVars, storeVars, cacheVars, spent>>
        /\ \A q \in running : worker'[q] # worker[q] =>
             worker'[q].pc = "deployment" /\ worker'[q].held = cAgent[q]
    BY <1>6 DEF Fetch, StoreType, WorkType
  <2> QED
    BY <2>1 DEF OneLeader, VersionsKnown, ReportIsSeen, InPlace, ReadyIsRolledOut, Known, Version,
       Guarded, leaseVars, storeVars, cacheVars
<1>7. ASSUME NEW p \in Operators, Ensure(p) \/ Rejected(p) PROVE RolloutInv'
  <2>1. /\ worker[p].pc = "deployment" /\ p \in running
        /\ UNCHANGED <<leaseVars, agent, cacheVars, spent>>
    BY <1>7 DEF Ensure, Rejected, WorkType, storeVars
  <2>2. PICK label \in {"ready", "notReady"} : worker' = [worker EXCEPT ![p].pc = label]
    BY <1>7 DEF Ensure, Rejected, Goto
  <2>3. \A q \in running : /\ worker'[q].held = worker[q].held
                           /\ worker'[q].current = worker[q].current
                           /\ worker'[q].pc # "idle" => worker[q].pc # "idle"
    BY <2>1, <2>2 DEF WorkType, WorkerType, StoreType
  <2>4. OneLeader' /\ VersionsKnown' /\ ReportIsSeen'
    BY <2>1, <2>3 DEF OneLeader, VersionsKnown, ReportIsSeen, Known, Version, Guarded,
       leaseVars, cacheVars
  <2>5. Guarded => \A q \in running : q = p
    BY <2>1 DEF OneLeader
  <2>6. CASE Rejected(p)
    <3>1. UNCHANGED deployment /\ worker'[p].pc = "notReady"
      BY <2>6 DEF Rejected, Goto, WorkType, WorkerType, storeVars
    <3> QED
      BY <2>1, <2>4, <2>5, <3>1 DEF InPlace, ReadyIsRolledOut, Guarded, leaseVars
  <2>7. CASE Ensure(p) /\ Guarded
    <3>1. deployment' = worker[p].held.spec
      BY <2>7 DEF Ensure, Sends, Write, Guarded
    <3>2. InPlace'
      BY <2>1, <2>3, <2>5, <2>7, <3>1 DEF InPlace, leaseVars
    <3>3. ReadyIsRolledOut'
      <4>1. worker[p].held \in VersionType /\ Known(worker[p].held)
              /\ worker[p].held.generation >= agent.observed
        BY <2>1, <2>7 DEF VersionsKnown, ReportIsSeen, WorkType
      <4>2. agent.observed = agent.generation => worker[p].held.spec = agent.spec
        BY <1>n, <4>1 DEF Known, Version, VersionType
      <4> QED
        BY <2>1, <3>1, <4>2 DEF ReadyIsRolledOut
    <3> QED
      BY <2>4, <3>2, <3>3
  <2>8. CASE ~Guarded
    BY <2>1, <2>4, <2>8 DEF InPlace, ReadyIsRolledOut, Guarded, leaseVars
  <2> QED
    BY <1>7, <2>6, <2>7, <2>8
<1>8. ASSUME NEW p \in Operators, Publish(p) PROVE RolloutInv'
  <2>1. /\ worker[p].pc \in {"ready", "notReady"} /\ p \in running
        /\ worker[p].held \in VersionType
        /\ UNCHANGED <<leaseVars, deployment, cacheVars, spent>>
    BY <1>8 DEF Publish, WorkType
  <2>2. \A q \in running : /\ worker'[q].pc # "idle" =>
                                worker'[q].pc = worker[q].pc /\ worker'[q].held = worker[q].held
                           /\ worker'[q].current => worker'[q] = worker[q] \/ worker'[q] = Idle
                           /\ worker'[p] = Idle
    <3>1. CASE worker[p].current /\ Reported(p) # agent
      <4>1. worker' = [q \in Operators |->
              IF q = p THEN Idle ELSE [worker[q] EXCEPT !.current = FALSE]]
        BY <1>8, <3>1 DEF Publish
      <4>2. \A q \in running : q # p =>
              /\ worker'[q].pc = worker[q].pc /\ worker'[q].held = worker[q].held
              /\ ~worker'[q].current
        BY <4>1 DEF StoreType, WorkType, WorkerType
      <4>3. worker'[p] = Idle
        BY <4>1
      <4> QED
        BY <4>2, <4>3, IdleType
    <3>2. CASE ~(worker[p].current /\ Reported(p) # agent)
      <4>1. worker' = [worker EXCEPT ![p] = Idle]
        BY <1>8, <3>2 DEF Publish
      <4>2. \A q \in Operators : worker'[q] = IF q = p THEN Idle ELSE worker[q]
        BY <4>1 DEF WorkType
      <4> QED
        BY <2>1, <4>2, IdleType DEF StoreType
    <3> QED
      BY <3>1, <3>2
  <2>3. OneLeader' /\ (Guarded => \A q \in running : q = p)
    BY <2>1 DEF OneLeader, Guarded, leaseVars
  <2>4. InPlace'
    BY <2>1, <2>2, <2>3, IdleType DEF InPlace, Guarded, leaseVars
  <2>5. CASE UNCHANGED agent
    <3>1. VersionsKnown' /\ ReportIsSeen'
      BY <2>1, <2>2, <2>5 DEF VersionsKnown, ReportIsSeen, Known, Version, Guarded,
         leaseVars, cacheVars
    <3> QED
      BY <2>1, <2>3, <2>4, <2>5, <3>1 DEF ReadyIsRolledOut, Guarded, leaseVars
  <2>6. CASE worker[p].current /\ agent' = Reported(p)
    <3>1. worker[p].held = Version(agent) /\ cAgent[p] = Version(agent)
      BY <2>1, <2>6 DEF HeldIsCurrent, CacheIsFresh
    <3>2. /\ agent'.spec = agent.spec /\ agent'.generation = agent.generation
          /\ agent'.observed = agent.generation
          /\ agent'.ready = "True" => worker[p].pc = "ready"
      BY <2>6, <3>1 DEF Reported, Version, StoreType, AgentType
    <3>3. VersionsKnown'
      BY <1>n, <2>1, <2>2, <3>2 DEF VersionsKnown, Known, Version, leaseVars, cacheVars
    <3>4. ReportIsSeen'
      BY <1>n, <2>1, <2>2, <2>3, <3>1, <3>2, IdleType DEF ReportIsSeen, Version, Guarded,
         leaseVars, cacheVars
    <3>5. ReadyIsRolledOut'
      BY <2>1, <2>6, <3>1, <3>2 DEF ReadyIsRolledOut, InPlace, Guarded, Version, leaseVars
    <3> QED
      BY <2>3, <2>4, <3>3, <3>4, <3>5
  <2> QED
    BY <1>8, <2>5, <2>6 DEF Publish
<1>9. CASE UNCHANGED vars
  BY <1>9 DEF vars, leaseVars, storeVars, cacheVars, OneLeader, VersionsKnown, ReportIsSeen,
     InPlace, ReadyIsRolledOut, Known, Version, Guarded
<1> QED
  BY <1>1, <1>2, <1>3, <1>4, <1>5, <1>6, <1>7, <1>8, <1>9 DEF Next, Step

\* With leader election, and no lease that expires under its holder, an Agent with
\* protocols that is Ready at its generation runs that spec, through any number of
\* handovers between any number of processes.
THEOREM LeaderKeepsReadyTrue == Spec => []ReadyIsRolledOut
<1>1. Spec => [](TypeInv /\ RolloutInv)
  BY TypeInit, TypeStep, RolloutInit, RolloutStep, PTL DEF Spec
<1>2. RolloutInv => ReadyIsRolledOut
  BY DEF RolloutInv
<1> QED
  BY <1>1, <1>2, PTL

-----------------------------------------------------------------------------
(* The promise of a single controller                                        *)

USE DEF One

LEMMA Demand ==
  ASSUME StoreType
  PROVE  Wanted["agent"] # None /\ (Address # None <=> probed)
<1>1. Wanted["agent"] \in Demands
  BY DEF Wanted, Address, Addresses, Demands, StoreType, AgentType
<1> QED
  BY <1>1, NoneAssumption DEF Address

\* The claim that AgentPromise protects is the one a reader of the status takes from it.
LEMMA ClaimIsReady ==
  ASSUME StoreType
  PROVE  Promise!Claims("agent") <=>
           probed /\ agent.ready = "True" /\ agent.observed = agent.generation
<1>1. Wanted["agent"].address = Address /\ Wanted["agent"].generation = agent.generation
  BY DEF Wanted
<1>2. Published["agent"].ready = agent.ready /\ Published["agent"].observed = agent.observed
  BY DEF Published
<1> QED
  BY <1>1, <1>2, Demand DEF Promise!Claims

LEMMA OnlyOne ==
  /\ Promise!Touches(Wanted, Wanted', "agent")
  /\ Promise!Touches(RolledOut, RolledOut', "agent")
  /\ Promise!Touches(Published, Published', "agent")
  BY DEF Promise!Touches, Wanted, RolledOut, Published

LEMMA PromiseInit == Init => Promise!Init
  BY DEF Init, NewAgent, Wanted, RolledOut, Published, Promise!Init, Promise!Blank

\* A Deployment that changes while its Agent is claimed Ready is the one claimed.
LEMMA PromiseRollOut ==
  ASSUME StoreType, StoreType', ReadyIsRolledOut', OneLeads, UNCHANGED <<leaseVars, agent, spent>>
  PROVE  Promise!RollOut("agent")
<1>1. UNCHANGED <<Wanted, Published>>
  BY DEF Wanted, Published, Address, leaseVars
<1>2. ASSUME Promise!Claims("agent")
      PROVE  RolledOut'["agent"] = [owner |-> Wanted'["agent"].uid, spec |-> Wanted'["agent"].spec]
  <2>1. deployment' = agent'.spec
    BY <1>2, ClaimIsReady DEF ReadyIsRolledOut, Guarded, OneLeads, leaseVars
  <2>2. agent'.spec # None
    BY SpecsAssumption DEF StoreType, AgentType
  <2> QED
    BY <2>1, <2>2 DEF RolledOut, Wanted
<1> QED
  BY <1>1, <1>2, OnlyOne DEF Promise!RollOut, Promise!Fulfilled

LEMMA PromiseStep ==
  ASSUME TypeInv, TypeInv', RolloutInv, RolloutInv', OneLeads, Next
  PROVE  Promise!Next \/ UNCHANGED <<Wanted, RolledOut, Published>>
<1> USE DEF TypeInv
<1>1. ASSUME UNCHANGED <<probed, storeVars>> PROVE UNCHANGED <<Wanted, RolledOut, Published>>
  BY <1>1 DEF Wanted, RolledOut, Published, Address, storeVars
<1>2. ASSUME NEW s \in Specs, Edit(s) PROVE Promise!Next
  <2>1. /\ agent' = [agent EXCEPT !.spec = s, !.generation = @ + 1]
        /\ UNCHANGED <<leaseVars, deployment>>
    BY <1>2 DEF Edit
  <2>2. /\ agent'.generation = agent.generation + 1
        /\ agent'.ready = agent.ready /\ agent'.observed = agent.observed
    BY <2>1 DEF StoreType, AgentType
  <2>3. UNCHANGED <<RolledOut, Published>>
    BY <2>1, <2>2 DEF RolledOut, Published, Address, leaseVars
  <2>4. /\ Wanted'["agent"].uid = Wanted["agent"].uid
        /\ Wanted'["agent"].generation = Wanted["agent"].generation + 1
    BY <2>2 DEF Wanted
  <2>5. Wanted["agent"] # None
    BY Demand
  <2>6. Wanted'["agent"] # None
    <3>1. Wanted'["agent"] \in Demands
      BY <2>1 DEF Wanted, Address, Addresses, Demands, StoreType, AgentType, leaseVars
    <3> QED
      BY <3>1, NoneAssumption
  <2> QED
    BY <2>3, <2>4, <2>5, <2>6, OnlyOne DEF Promise!Next, Promise!Amend
<1>3. ASSUME NEW p \in Operators, Ensure(p) PROVE Promise!Next
  <2>1. UNCHANGED <<leaseVars, agent, spent>>
    BY <1>3 DEF Ensure
  <2> QED
    BY <2>1, PromiseRollOut DEF RolloutInv, Promise!Next
<1>4. ASSUME NEW p \in Operators, Publish(p)
      PROVE  Promise!Next \/ UNCHANGED <<Wanted, RolledOut, Published>>
  <2>1. worker[p].pc \in {"ready", "notReady"} /\ UNCHANGED <<leaseVars, deployment>>
    BY <1>4 DEF Publish
  <2>2. CASE UNCHANGED agent
    BY <1>1, <2>1, <2>2 DEF leaseVars, storeVars
  <2>3. CASE worker[p].current /\ agent' = Reported(p)
    <3>1. p \in running /\ worker[p].held = Version(agent)
      BY <2>1, <2>3 DEF WorkType, HeldIsCurrent
    <3>2. /\ agent'.spec = agent.spec /\ agent'.generation = agent.generation
          /\ agent'.observed = agent.generation
          /\ agent'.ready = IF worker[p].pc = "ready" THEN "True" ELSE "False"
      BY <2>3, <3>1 DEF Reported, Version, StoreType, AgentType
    <3>3. UNCHANGED <<Wanted, RolledOut>>
      BY <2>1, <3>2 DEF Wanted, RolledOut, Address, leaseVars
    <3>4. Published'["agent"].observed = Wanted["agent"].generation
      BY <3>2 DEF Published, Wanted
    <3>5. CASE worker[p].pc = "ready"
      <4>1. Published'["agent"].ready = "True" /\ Published'["agent"].url = Wanted["agent"].address
        BY <2>1, <3>2, <3>5 DEF Published, Wanted, Address, leaseVars
      <4>2. Wanted["agent"].address # None => deployment = agent.spec
        BY <2>3, <3>1, <3>5, Demand DEF RolloutInv, InPlace, Guarded, OneLeads, Version, Wanted
      <4>3. Wanted["agent"].address # None => Promise!Fulfilled("agent")
        BY <4>2, SpecsAssumption DEF Promise!Fulfilled, RolledOut, Wanted, StoreType, AgentType
      <4> QED
        BY <3>3, <3>4, <4>1, <4>3, OnlyOne, Demand DEF Promise!Next, Promise!Publish
    <3>6. CASE worker[p].pc = "notReady"
      <4>1. Published'["agent"].ready = "False" /\ Published'["agent"].url = None
        BY <3>2, <3>6 DEF Published
      <4> QED
        BY <3>3, <3>4, <4>1, OnlyOne, Demand DEF Promise!Next, Promise!Publish
    <3> QED
      BY <2>1, <3>5, <3>6
  <2> QED
    BY <1>4, <2>2, <2>3 DEF Publish
<1>5. CASE \/ Expire \/ ExpireEarly
           \/ \E p \in Operators : \/ Start(p) \/ Exit(p) \/ LoseElection(p) \/ Fetch(p)
                                   \/ Rejected(p) \/ \E k \in Kinds : Sync(p, k)
  BY <1>1, <1>5 DEF Expire, ExpireEarly, Start, Exit, LoseElection, Fetch, Rejected, Sync, leaseVars
<1> QED
  BY <1>2, <1>3, <1>4, <1>5 DEF Next, Step

\* As long as leader election keeps to one process, several of them in turn implement
\* AgentPromise: no handover, wherever it falls, shows a reader of the API anything that
\* a single controller would not.
THEOREM LeadersKeepPromise == Spec => KeepsPromise
<1>1. TypeInv /\ TypeInv' /\ RolloutInv /\ RolloutInv' /\ [Next]_vars
        => [OneLeads => Promise!Next]_(Promise!vars)
  <2> SUFFICES ASSUME TypeInv, TypeInv', RolloutInv, RolloutInv', [Next]_vars, OneLeads
               PROVE  Promise!Next \/ UNCHANGED <<Wanted, RolledOut, Published>>
    BY DEF Promise!vars
  <2>1. CASE Next
    BY <2>1, PromiseStep
  <2>2. CASE UNCHANGED vars
    BY <2>2 DEF vars, leaseVars, storeVars, Wanted, RolledOut, Published, Address
  <2> QED
    BY <2>1, <2>2
<1>2. Spec => [](TypeInv /\ RolloutInv)
  BY TypeInit, TypeStep, RolloutInit, RolloutStep, PTL DEF Spec
<1> QED
  BY <1>1, <1>2, PromiseInit, PTL DEF Spec, KeepsPromise
=============================================================================
