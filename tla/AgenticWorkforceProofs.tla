------------------------ MODULE AgenticWorkforceProofs ------------------------
(***************************************************************************)
(* Proofs about the AgenticWorkforce controller.                           *)
(***************************************************************************)
EXTENDS AgenticWorkforce, FiniteSetTheorems, TLAPS

CacheIsFresh == ~stale => cWorkforce = workforce

\* What a worker believes current is the stored workforce.
HeldIsCurrent == worker.current => worker.pc # "idle" /\ worker.held = workforce

\* What the worker has found has to do with the entry points it holds.
AboutEntries ==
  /\ worker.pc = "validate" =>
       /\ worker.todo \subseteq worker.held.entries
       /\ worker.missing \subseteq worker.held.entries \ worker.todo
       /\ worker.visited = {} /\ worker.tools = {} /\ worker.remotes = {}
  /\ worker.pc = "traverse" =>
       /\ worker.missing \subseteq worker.held.entries
       /\ worker.held.entries \subseteq worker.visited \cup worker.todo
       /\ worker.visited \cap worker.todo = {}

TypeInv == TypeOK /\ CacheIsFresh /\ HeldIsCurrent /\ AboutEntries

-----------------------------------------------------------------------------
LEMMA BlankStatusType == BlankStatus \in StatusType /\ Listed(BlankStatus.agents) = {}
<1>1. NoListing \in Listings({})
  <2>1. 1 .. Cardinality({}) = {}
    BY FS_EmptySet
  <2>2. NoListing \in [{} -> {}]
    BY DEF NoListing
  <2> QED
    BY <2>1, <2>2 DEF Listings
<1>2. NoListing \in UNION {Listings(S) : S \in SUBSET Agents}
  BY <1>1
<1>3. {} \in RemoteSets
  BY DEF RemoteSets
<1> QED
  BY <1>2, <1>3 DEF BlankStatus, StatusType, NoListing, Listed

LEMMA IdleType ==
  /\ Idle \in WorkerType /\ Idle.pc = "idle" /\ ~Idle.current
  BY DEF Idle, WorkerType, RemoteSets

\* Putting remote agents over others keeps one of each URL that either had, and no other.
LEMMA OverKeepsUrls ==
  ASSUME NEW S \in RemoteSets, NEW T \in RemoteSets
  PROVE  /\ Over(S, T) \in RemoteSets
         /\ Over(S, T) \subseteq S \cup T
         /\ \A r \in S \cup T : \E q \in Over(S, T) : q.url = r.url
<1>1. Over(S, T) \subseteq S \cup T
  BY DEF Over
<1>2. \A r, q \in Over(S, T) : r.url = q.url => r = q
  BY DEF Over, RemoteSets
<1>3. \A r \in S \cup T : \E q \in Over(S, T) : q.url = r.url
  BY DEF Over
<1>4. Over(S, T) \in SUBSET [url : Urls, name : Names]
  BY <1>1 DEF RemoteSets
<1> QED
  BY <1>1, <1>2, <1>3, <1>4 DEF RemoteSets

\* What a status says is what the worker found.
LEMMA StatusSaysWhatWasFound ==
  ASSUME worker \in WorkerType, worker.held \in WorkforceType, NEW st \in Statuses
  PROVE  /\ st \in StatusType
         /\ Listed(st.agents) = worker.visited
         /\ st.observed = worker.held.generation /\ st.missing = worker.missing
         /\ st.ready = IF worker.missing = {} THEN "True" ELSE "False"
         /\ st.tools = worker.tools /\ st.remotes = worker.remotes
<1>1. PICK l \in Listings(worker.visited) :
        st = [ready |-> IF worker.missing = {} THEN "True" ELSE "False",
              missing |-> worker.missing, observed |-> worker.held.generation, agents |-> l,
              tools |-> worker.tools, remotes |-> worker.remotes]
  BY DEF Statuses
<1>2. /\ worker.visited \in SUBSET Agents /\ worker.missing \in SUBSET Agents
      /\ worker.tools \in SUBSET Tools /\ worker.remotes \in RemoteSets
      /\ worker.held.generation \in Nat
  BY DEF WorkerType, WorkforceType
<1>3. l \in UNION {Listings(S) : S \in SUBSET Agents}
  BY <1>2
<1>4. Listed(l) = worker.visited
  BY DEF Listings, Listed
<1>5. (IF worker.missing = {} THEN "True" ELSE "False") \in {"Unknown", "True", "False"}
  OBVIOUS
<1> QED
  BY <1>1, <1>2, <1>3, <1>4, <1>5 DEF StatusType

-----------------------------------------------------------------------------
(* Types                                                                     *)

LEMMA TypeInit == Init => TypeInv
<1> SUFFICES ASSUME Init PROVE TypeInv
  OBVIOUS
<1>1. agents \in [Agents -> AgentSpecType \cup {None}]
  BY WorkforceAssumption DEF Init
<1>2. workforce \in WorkforceType
  BY WorkforceAssumption, BlankStatusType DEF Init, WorkforceType
<1> QED
  BY <1>1, <1>2, IdleType
     DEF Init, TypeInv, TypeOK, CacheIsFresh, HeldIsCurrent, AboutEntries, WorkerType

\* Users replace the workforce: the cache and the worker's copy are outdated.
LEMMA ChangeWorkforceStep ==
  ASSUME TypeInv, NEW w \in WorkforceType \cup {None}, ChangeWorkforce(w)
  PROVE  TypeInv'
<1>1. PICK v \in WorkerType : v = [worker EXCEPT !.current = FALSE]
  BY DEF TypeInv, TypeOK, WorkerType
<1>2. /\ ~v.current /\ v.pc = worker.pc /\ v.held = worker.held /\ v.todo = worker.todo
      /\ v.missing = worker.missing /\ v.visited = worker.visited
      /\ v.tools = worker.tools /\ v.remotes = worker.remotes
  BY <1>1 DEF TypeInv, TypeOK, WorkerType
<1>3. /\ worker' = v /\ workforce' = w /\ stale' = TRUE /\ events' = events + 1
      /\ UNCHANGED <<agents, cAgents, cWorkforce, notify, queued>>
  BY <1>1 DEF ChangeWorkforce, Happens
<1>4. TypeOK'
  BY <1>2, <1>3 DEF TypeInv, TypeOK
<1> QED
  BY <1>2, <1>3, <1>4 DEF TypeInv, CacheIsFresh, HeldIsCurrent, AboutEntries

LEMMA UsersStep ==
  ASSUME TypeInv, Environment
  PROVE  TypeInv'
<1>1. ASSUME NEW a \in Agents, NEW s \in AgentSpecs[a] \cup {None}, ChangeAgent(a, s)
      PROVE  TypeInv'
  <2>1. s \in AgentSpecType \cup {None}
    BY WorkforceAssumption
  <2>2. /\ agents' = [agents EXCEPT ![a] = s] /\ events' = events + 1
        /\ UNCHANGED <<cAgents, workforce, cWorkforce, stale, notify, queued, worker>>
    BY <1>1 DEF ChangeAgent, Happens
  <2> QED
    BY <2>1, <2>2 DEF TypeInv, TypeOK, CacheIsFresh, HeldIsCurrent, AboutEntries
<1>2. ASSUME NEW e \in EntrySpecs, EditWorkforce(e) PROVE TypeInv'
  <2>1. workforce \in WorkforceType /\ e \in SUBSET Agents
    BY <1>2, WorkforceAssumption DEF EditWorkforce, TypeInv, TypeOK
  <2>2. PICK n \in Nat : n = workforce.generation + 1
    BY <2>1 DEF WorkforceType
  <2>3. PICK w \in WorkforceType : w = [workforce EXCEPT !.entries = e, !.generation = n]
    BY <2>1 DEF WorkforceType
  <2>4. ChangeWorkforce(w)
    BY <1>2, <2>2, <2>3 DEF EditWorkforce
  <2> QED
    BY <2>4, ChangeWorkforceStep
<1>3. ASSUME NEW e \in EntrySpecs, CreateWorkforce(e) PROVE TypeInv'
  <2>1. e \in SUBSET Agents
    BY WorkforceAssumption
  <2>2. [generation |-> 1, entries |-> e, status |-> BlankStatus] \in WorkforceType
    BY <2>1, BlankStatusType DEF WorkforceType
  <2> QED
    BY <1>3, <2>2, ChangeWorkforceStep DEF CreateWorkforce
<1>4. CASE DeleteWorkforce
  BY <1>4, ChangeWorkforceStep DEF DeleteWorkforce
<1> QED
  BY <1>1, <1>2, <1>3, <1>4 DEF Environment

LEMMA DeliveryStep ==
  ASSUME TypeInv,
         SyncWorkforce \/ Restart \/ \E a \in Agents : SyncAgent(a) \/ Notify(a)
  PROVE  TypeInv'
<1> USE DEF TypeInv
<1>1. CASE SyncWorkforce
  BY <1>1 DEF SyncWorkforce, TypeOK, CacheIsFresh, HeldIsCurrent, AboutEntries
<1>2. CASE Restart
  <2>1. worker' = Idle
    BY <1>2 DEF Restart
  <2>2. queued' \in BOOLEAN /\ notify' \in SUBSET Agents /\ events' \in Nat
    BY <1>2 DEF Restart, Happens, TypeOK
  <2>3. TypeOK'
    BY <1>2, <2>1, <2>2, IdleType DEF Restart, TypeOK
  <2> QED
    BY <1>2, <2>1, <2>3, IdleType DEF Restart, CacheIsFresh, HeldIsCurrent, AboutEntries
<1>3. ASSUME NEW a \in Agents, SyncAgent(a) PROVE TypeInv'
  BY <1>3 DEF SyncAgent, TypeOK, CacheIsFresh, HeldIsCurrent, AboutEntries
<1>4. ASSUME NEW a \in Agents, Notify(a) PROVE TypeInv'
  <2>1. queued' \in BOOLEAN
    BY <1>4 DEF Notify, TypeOK
  <2> QED
    BY <1>4, <2>1 DEF Notify, TypeOK, CacheIsFresh, HeldIsCurrent, AboutEntries
<1> QED
  BY <1>1, <1>2, <1>3, <1>4

LEMMA FetchStep ==
  ASSUME TypeInv, Fetch
  PROVE  TypeInv'
<1>1. /\ worker.pc = "idle" /\ queued' = FALSE
      /\ UNCHANGED <<agents, cAgents, cWorkforce, notify, events, workforce, stale>>
  BY DEF Fetch, inputs
<1>2. CASE cWorkforce = None
  <2>1. worker' = worker
    BY <1>2 DEF Fetch
  <2>2. TypeOK'
    BY <1>1, <2>1 DEF TypeInv, TypeOK
  <2> QED
    BY <1>1, <2>1, <2>2 DEF TypeInv, CacheIsFresh, HeldIsCurrent, AboutEntries
<1>3. CASE cWorkforce # None
  <2>1. cWorkforce \in WorkforceType /\ cWorkforce.entries \in SUBSET Agents
    BY <1>3 DEF TypeInv, TypeOK, WorkforceType
  <2>2. worker' = [Idle EXCEPT !.pc = "validate", !.held = cWorkforce,
                               !.current = ~stale, !.todo = cWorkforce.entries]
    BY <1>3 DEF Fetch
  <2>3. /\ worker' \in WorkerType /\ worker'.pc = "validate" /\ worker'.held = cWorkforce
        /\ worker'.current = ~stale /\ worker'.todo = cWorkforce.entries
        /\ worker'.missing = {} /\ worker'.visited = {} /\ worker'.tools = {}
        /\ worker'.remotes = {}
    BY <2>1, <2>2 DEF Idle, WorkerType, RemoteSets, TypeInv, TypeOK
  <2> QED
    BY <1>1, <1>3, <2>3 DEF TypeInv, TypeOK, CacheIsFresh, HeldIsCurrent, AboutEntries
<1> QED
  BY <1>2, <1>3

\* What Validate and Traverse change of a worker; the rest of the worker stays.
WorkerMoves ==
  /\ worker' \in WorkerType
  /\ worker'.held = worker.held /\ worker'.current = worker.current
  /\ UNCHANGED <<agents, cAgents, cWorkforce, notify, events, workforce, stale, queued>>

LEMMA ValidateStep ==
  ASSUME TypeInv, NEW a \in Agents, Validate(a)
  PROVE  /\ WorkerMoves /\ worker.pc = "validate" /\ worker'.pc = "validate"
         /\ a \in worker.todo /\ worker'.todo = worker.todo \ {a}
         /\ worker'.missing = IF cAgents[a] = None THEN worker.missing \cup {a}
                              ELSE worker.missing
         /\ worker'.visited = worker.visited /\ worker'.tools = worker.tools
         /\ worker'.remotes = worker.remotes
         /\ TypeInv'
<1>1. PICK m \in SUBSET Agents :
        m = IF cAgents[a] = None THEN worker.missing \cup {a} ELSE worker.missing
  BY DEF TypeInv, TypeOK, WorkerType
<1>2. worker' = [worker EXCEPT !.todo = worker.todo \ {a}, !.missing = m]
  BY <1>1 DEF Validate
<1>3. worker.todo \ {a} \in SUBSET Agents
  BY DEF TypeInv, TypeOK, WorkerType
<1>4. /\ worker' \in WorkerType /\ worker'.held = worker.held /\ worker'.pc = worker.pc
      /\ worker'.current = worker.current /\ worker'.todo = worker.todo \ {a}
      /\ worker'.missing = m /\ worker'.visited = worker.visited
      /\ worker'.tools = worker.tools /\ worker'.remotes = worker.remotes
  BY <1>2, <1>3 DEF TypeInv, TypeOK, WorkerType
<1>5. WorkerMoves /\ worker.pc = "validate" /\ a \in worker.todo
  BY <1>4 DEF Validate, WorkerMoves, inputs
<1>6. AboutEntries'
  BY <1>1, <1>4, <1>5 DEF TypeInv, AboutEntries
<1> QED
  BY <1>1, <1>4, <1>5, <1>6 DEF TypeInv, TypeOK, CacheIsFresh, HeldIsCurrent, WorkerMoves

LEMMA ValidatedStep ==
  ASSUME TypeInv, Validated
  PROVE  /\ WorkerMoves /\ worker.pc = "validate" /\ worker.todo = {}
         /\ worker'.pc = "traverse" /\ worker'.todo = worker.held.entries
         /\ worker'.missing = worker.missing
         /\ worker'.visited = {} /\ worker'.tools = {} /\ worker'.remotes = {}
         /\ TypeInv'
<1>1. worker.pc = "validate" /\ worker.todo = {}
  BY DEF Validated
<1>2. worker.held \in WorkforceType /\ worker.held.entries \in SUBSET Agents
  BY <1>1 DEF TypeInv, TypeOK, WorkerType, WorkforceType
<1>3. worker' = [worker EXCEPT !.pc = "traverse", !.todo = worker.held.entries]
  BY DEF Validated
<1>4. /\ worker' \in WorkerType /\ worker'.held = worker.held /\ worker'.pc = "traverse"
      /\ worker'.current = worker.current /\ worker'.todo = worker.held.entries
      /\ worker'.missing = worker.missing /\ worker'.visited = worker.visited
      /\ worker'.tools = worker.tools /\ worker'.remotes = worker.remotes
  BY <1>2, <1>3 DEF TypeInv, TypeOK, WorkerType
<1>5. WorkerMoves /\ worker.visited = {} /\ worker.tools = {} /\ worker.remotes = {}
  BY <1>1, <1>4 DEF Validated, WorkerMoves, inputs, TypeInv, AboutEntries
<1>6. AboutEntries'
  BY <1>1, <1>4, <1>5 DEF TypeInv, AboutEntries
<1> QED
  BY <1>1, <1>4, <1>5, <1>6 DEF TypeInv, TypeOK, CacheIsFresh, HeldIsCurrent, WorkerMoves

\* What is read of an Agent; one that does not exist has nothing.
Found(a) == IF cAgents[a] = None THEN [subs |-> {}, tools |-> {}, remotes |-> {}] ELSE cAgents[a]

LEMMA TraverseStep ==
  ASSUME TypeInv, NEW a \in Agents, Traverse(a)
  PROVE  /\ WorkerMoves /\ worker.pc = "traverse" /\ worker'.pc = "traverse"
         /\ a \in worker.todo
         /\ worker'.visited = worker.visited \cup {a}
         /\ worker'.tools = worker.tools \cup Found(a).tools
         /\ worker'.remotes \in {Over(Found(a).remotes, worker.remotes),
                                 Over(worker.remotes, Found(a).remotes)}
         /\ worker'.todo = (worker.todo \cup Found(a).subs) \ (worker.visited \cup {a})
         /\ worker'.missing = worker.missing
         /\ TypeInv'
<1>1. Found(a) \in AgentSpecType
  BY DEF Found, TypeInv, TypeOK, AgentSpecType, RemoteSets
<1>2. PICK t \in {Over(Found(a).remotes, worker.remotes), Over(worker.remotes, Found(a).remotes)} :
        worker' = [worker EXCEPT
          !.visited = worker.visited \cup {a}, !.tools = worker.tools \cup Found(a).tools,
          !.remotes = t,
          !.todo = (worker.todo \cup Found(a).subs) \ (worker.visited \cup {a})]
  BY DEF Traverse, Found
<1>3. t \in RemoteSets
  <2>1. Found(a).remotes \in RemoteSets /\ worker.remotes \in RemoteSets
    BY <1>1 DEF AgentSpecType, TypeInv, TypeOK, WorkerType
  <2>2. /\ Over(Found(a).remotes, worker.remotes) \in RemoteSets
        /\ Over(worker.remotes, Found(a).remotes) \in RemoteSets
    BY <2>1, OverKeepsUrls
  <2> QED
    BY <2>2
<1>4. /\ worker.visited \cup {a} \in SUBSET Agents
      /\ worker.tools \cup Found(a).tools \in SUBSET Tools
      /\ (worker.todo \cup Found(a).subs) \ (worker.visited \cup {a}) \in SUBSET Agents
  BY <1>1 DEF TypeInv, TypeOK, WorkerType, AgentSpecType
<1>5. /\ worker' \in WorkerType /\ worker'.held = worker.held /\ worker'.pc = worker.pc
      /\ worker'.current = worker.current /\ worker'.missing = worker.missing
      /\ worker'.visited = worker.visited \cup {a} /\ worker'.remotes = t
      /\ worker'.tools = worker.tools \cup Found(a).tools
      /\ worker'.todo = (worker.todo \cup Found(a).subs) \ (worker.visited \cup {a})
  BY <1>2, <1>3, <1>4 DEF TypeInv, TypeOK, WorkerType
<1>6. WorkerMoves /\ worker.pc = "traverse" /\ a \in worker.todo
  BY <1>5 DEF Traverse, WorkerMoves, inputs
<1>7. AboutEntries'
  BY <1>5, <1>6 DEF TypeInv, AboutEntries
<1> QED
  BY <1>2, <1>5, <1>6, <1>7 DEF TypeInv, TypeOK, CacheIsFresh, HeldIsCurrent, WorkerMoves

LEMMA PublishStep ==
  ASSUME TypeInv, Publish
  PROVE  /\ worker.pc = "traverse" /\ worker.todo = {} /\ worker.held \in WorkforceType
         /\ worker' = Idle /\ queued' = (queued \/ ~worker.current)
         /\ UNCHANGED <<agents, cAgents, cWorkforce, notify, events>>
         /\ \E st \in Statuses :
              \/ /\ worker.current /\ workforce = worker.held /\ workforce.status # st
                 /\ workforce' = [workforce EXCEPT !.status = st] /\ workforce'.status = st
                 /\ stale'
              \/ /\ ~worker.current \/ workforce.status = st
                 /\ UNCHANGED <<workforce, stale>>
         /\ TypeInv'
<1>1. /\ worker.pc = "traverse" /\ worker.todo = {}
      /\ worker' = Idle /\ queued' = (queued \/ ~worker.current)
      /\ UNCHANGED <<agents, cAgents, cWorkforce, notify, events>>
  BY DEF Publish, inputs
<1>2. worker.held \in WorkforceType
  BY <1>1 DEF TypeInv, TypeOK, WorkerType
<1>3. PICK st \in Statuses :
        IF worker.current /\ workforce.status # st
        THEN workforce' = [workforce EXCEPT !.status = st] /\ stale' = TRUE
        ELSE UNCHANGED <<workforce, stale>>
  BY DEF Publish
<1>4. st \in StatusType
  BY <1>2, StatusSaysWhatWasFound DEF TypeInv, TypeOK
<1>5. queued' \in BOOLEAN
  BY <1>1 DEF TypeInv, TypeOK, WorkerType
<1>6. CASE worker.current /\ workforce.status # st
  <2>1. workforce = worker.held
    BY <1>6 DEF TypeInv, HeldIsCurrent
  <2>2. /\ workforce' = [workforce EXCEPT !.status = st] /\ stale' = TRUE
        /\ workforce' \in WorkforceType /\ workforce'.status = st
    BY <1>2, <1>3, <1>4, <1>6, <2>1 DEF WorkforceType
  <2>3. TypeInv'
    BY <1>1, <1>5, <2>2, IdleType
       DEF TypeInv, TypeOK, CacheIsFresh, HeldIsCurrent, AboutEntries
  <2> QED
    BY <1>1, <1>2, <1>6, <2>1, <2>2, <2>3
<1>7. CASE ~(worker.current /\ workforce.status # st)
  <2>1. UNCHANGED <<workforce, stale>>
    BY <1>3, <1>7
  <2>2. TypeInv'
    BY <1>1, <1>5, <2>1, IdleType
       DEF TypeInv, TypeOK, CacheIsFresh, HeldIsCurrent, AboutEntries
  <2> QED
    BY <1>1, <1>2, <1>7, <2>1, <2>2
<1> QED
  BY <1>6, <1>7

LEMMA TypeStep == TypeInv /\ [Next]_vars => TypeInv'
<1> SUFFICES ASSUME TypeInv, [Next]_vars PROVE TypeInv'
  OBVIOUS
<1>1. CASE Reconcile
  BY <1>1, FetchStep, ValidateStep, ValidatedStep, TraverseStep, PublishStep DEF Reconcile
<1>2. CASE UNCHANGED vars
  BY <1>2 DEF vars, TypeInv, TypeOK, CacheIsFresh, HeldIsCurrent, AboutEntries
<1> QED
  BY <1>1, <1>2, UsersStep, DeliveryStep DEF Next

\* Every variable has its type; in particular no reconcile goes on without a workforce,
\* whatever is deleted meanwhile.
THEOREM WorkforceTypeCorrect == Spec => []TypeOK
<1>1. TypeInv => TypeOK
  BY DEF TypeInv
<1> QED
  BY <1>1, TypeInit, TypeStep, PTL DEF Spec

-----------------------------------------------------------------------------
(* What a status says is about the spec it is written over                   *)

LEMMA StatusWriteStep ==
  ASSUME TypeInv, [Next]_vars, workforce # None, workforce' # None,
         workforce'.status # workforce.status
  PROVE  /\ workforce'.status.observed = workforce.generation
         /\ workforce'.status.missing \subseteq workforce.entries
         /\ workforce.entries \subseteq Listed(workforce'.status.agents)
<1>1. ASSUME NEW e \in EntrySpecs, EditWorkforce(e) PROVE FALSE
  <2>1. workforce \in WorkforceType /\ e \in SUBSET Agents
    BY WorkforceAssumption DEF TypeInv, TypeOK
  <2>2. PICK n : n = workforce.generation + 1
    OBVIOUS
  <2>3. workforce' = [workforce EXCEPT !.entries = e, !.generation = n]
    BY <1>1, <2>2 DEF EditWorkforce, ChangeWorkforce
  <2>4. workforce'.status = workforce.status
    BY <2>1, <2>3 DEF WorkforceType
  <2> QED
    BY <2>4
<1>2. ~Environment
  BY <1>1 DEF Environment, ChangeAgent, CreateWorkforce, DeleteWorkforce, ChangeWorkforce
<1>3. ~(SyncWorkforce \/ Restart \/ \E a \in Agents : SyncAgent(a) \/ Notify(a))
  BY DEF SyncWorkforce, Restart, SyncAgent, Notify
<1>4. Publish
  BY <1>2, <1>3 DEF Next, Reconcile, Fetch, Validate, Validated, Traverse, vars
<1>5. PICK st \in Statuses : worker.current /\ workforce = worker.held /\ workforce'.status = st
  BY <1>4, PublishStep
<1>6. /\ worker.pc = "traverse" /\ worker.todo = {} /\ worker.held \in WorkforceType
      /\ worker \in WorkerType
  BY <1>4, PublishStep DEF TypeInv, TypeOK
<1>7. worker.missing \subseteq worker.held.entries /\ worker.held.entries \subseteq worker.visited
  BY <1>6 DEF TypeInv, AboutEntries
<1> QED
  BY <1>5, <1>6, <1>7, StatusSaysWhatWasFound

\* A status is never written over a spec that it was not computed from, however the graph,
\* the entry points and the workforce itself change during the walk.
THEOREM StatusFitsItsSpec == Spec => StatusJudgesCurrentSpec
<1>1. TypeInv /\ [Next]_vars
        => [workforce # None /\ workforce' # None /\ workforce'.status # workforce.status
              => /\ workforce'.status.observed = workforce.generation
                 /\ workforce'.status.missing \subseteq workforce.entries
                 /\ workforce.entries \subseteq Listed(workforce'.status.agents)]_workforce
  BY StatusWriteStep
<1> QED
  BY <1>1, TypeInit, TypeStep, PTL DEF Spec, StatusJudgesCurrentSpec

-----------------------------------------------------------------------------
(* No wake-up is lost                                                        *)

GraphType == [Agents -> AgentSpecType \cup {None}]

\* W is what a walk from the entry points knows of when it has read the Agents in V, and
\* graph is what it read: all of it is there for a reason.
Explains(graph, entries, V, W) ==
  /\ entries \subseteq W
  /\ \A b \in V : graph[b] # None => graph[b].subs \subseteq W
  /\ \A R \in SUBSET Agents :
       /\ entries \subseteq R
       /\ \A b \in V : b \in R /\ graph[b] # None => graph[b].subs \subseteq R
       => W \subseteq R

\* These are the tools and the remote agents, one of each URL, that graph has for V.
Gathers(graph, V, tools, remotes) ==
  /\ \A t \in Tools : t \in tools <=> \E b \in V : graph[b] # None /\ t \in graph[b].tools
  /\ \A r \in remotes : \E b \in V : graph[b] # None /\ r \in graph[b].remotes
  /\ \A b \in V : graph[b] # None =>
       \A r \in graph[b].remotes : \E q \in remotes : q.url = r.url

\* The entry points among S that are missing, unless a change of them is still to be seen.
MissingIsKnown(S, missing) ==
  \A a \in S : a \in notify \/ (a \in missing <=> cAgents[a] = None)

\* Nothing but the worker and changes of Agents can still bring the workforce about.
AtRest == workforce # None /\ ~queued /\ ~stale

ToValidate == IF worker.pc = "validate" THEN worker.todo ELSE {}

ValidateInv ==
  AtRest /\ worker.current => MissingIsKnown(workforce.entries \ ToValidate, worker.missing)

\* An Agent that the worker has read may have changed since, and its change may have
\* been thought to be no concern: but only if the status does not list it yet.
WalkInv ==
  AtRest /\ worker.current /\ worker.pc = "traverse" =>
    \E graph \in GraphType :
      /\ Explains(graph, workforce.entries, worker.visited, worker.visited \cup worker.todo)
      /\ Gathers(graph, worker.visited, worker.tools, worker.remotes)
      /\ \A a \in worker.visited : Concerns(a) => a \in notify \/ graph[a] = cAgents[a]

RestInv ==
  AtRest /\ worker.pc = "idle" =>
    LET st == workforce.status IN
    /\ st.observed = workforce.generation /\ st.missing \subseteq workforce.entries
    /\ st.ready = IF st.missing = {} THEN "True" ELSE "False"
    /\ MissingIsKnown(workforce.entries, st.missing)
    /\ \E graph \in GraphType :
         /\ Explains(graph, workforce.entries, Listed(st.agents), Listed(st.agents))
         /\ Gathers(graph, Listed(st.agents), st.tools, st.remotes)
         /\ \A a \in Listed(st.agents) : a \in notify \/ graph[a] = cAgents[a]

WakeUpInv == ValidateInv /\ WalkInv /\ RestInv

\* Steps that only concern Agents: of those the cached status lists or the workforce
\* names, no change is forgotten.
LEMMA AgentsStep ==
  ASSUME TypeInv, WakeUpInv, UNCHANGED <<workforce, cWorkforce, worker, stale>>,
         ~queued' => ~queued,
         \A a \in Agents : Concerns(a) /\ ~queued' /\ a \notin notify'
                             => a \notin notify /\ cAgents'[a] = cAgents[a]
  PROVE  WakeUpInv'
<1> SUFFICES ASSUME AtRest' PROVE WakeUpInv'
  BY DEF WakeUpInv, ValidateInv, WalkInv, RestInv
<1>1. AtRest /\ ~queued' /\ cWorkforce = workforce /\ workforce \in WorkforceType
  BY DEF AtRest, TypeInv, CacheIsFresh, TypeOK
<1>2. workforce.entries \in SUBSET Agents /\ Listed(workforce.status.agents) \in SUBSET Agents
  <2>1. workforce.status.agents \in UNION {Listings(S) : S \in SUBSET Agents}
    BY <1>1 DEF WorkforceType, StatusType
  <2>2. PICK S \in SUBSET Agents : workforce.status.agents \in Listings(S)
    BY <2>1
  <2>3. Listed(workforce.status.agents) \subseteq S
    BY <2>2 DEF Listings, Listed
  <2> QED
    BY <1>1, <2>3 DEF WorkforceType
<1>3. \A a \in workforce.entries \cup Listed(workforce.status.agents) :
        a \notin notify' => a \notin notify /\ cAgents'[a] = cAgents[a]
  BY <1>1, <1>2 DEF Concerns, AtRest
<1>4. ValidateInv'
  BY <1>1, <1>3 DEF WakeUpInv, ValidateInv, MissingIsKnown, ToValidate
<1>5. WalkInv'
  <2> SUFFICES ASSUME worker.current, worker.pc = "traverse" PROVE WalkInv'
    BY DEF WalkInv
  <2>1. PICK graph \in GraphType :
          /\ Explains(graph, workforce.entries, worker.visited, worker.visited \cup worker.todo)
          /\ Gathers(graph, worker.visited, worker.tools, worker.remotes)
          /\ \A a \in worker.visited : Concerns(a) => a \in notify \/ graph[a] = cAgents[a]
    BY <1>1 DEF WakeUpInv, WalkInv
  <2>2. \A a \in worker.visited : Concerns(a)' => a \in notify' \/ graph[a] = cAgents'[a]
    BY <1>1, <1>3, <2>1 DEF Concerns
  <2> QED
    BY <2>1, <2>2 DEF WalkInv, Explains, Gathers
<1>6. RestInv'
  <2> SUFFICES ASSUME worker.pc = "idle" PROVE RestInv'
    BY DEF RestInv
  <2> DEFINE st == workforce.status
  <2>1. /\ st.observed = workforce.generation /\ st.missing \subseteq workforce.entries
        /\ st.ready = IF st.missing = {} THEN "True" ELSE "False"
        /\ MissingIsKnown(workforce.entries, st.missing)
    BY <1>1 DEF WakeUpInv, RestInv
  <2>2. PICK graph \in GraphType :
         /\ Explains(graph, workforce.entries, Listed(st.agents), Listed(st.agents))
         /\ Gathers(graph, Listed(st.agents), st.tools, st.remotes)
         /\ \A a \in Listed(st.agents) : a \in notify \/ graph[a] = cAgents[a]
    BY <1>1 DEF WakeUpInv, RestInv
  <2>3. \A a \in Listed(st.agents) : a \in notify' \/ graph[a] = cAgents'[a]
    BY <1>3, <2>2
  <2>4. MissingIsKnown(workforce.entries, st.missing)'
    BY <1>3, <2>1 DEF MissingIsKnown
  <2> QED
    BY <2>1, <2>2, <2>3, <2>4 DEF RestInv, Explains, Gathers
<1> QED
  BY <1>4, <1>5, <1>6 DEF WakeUpInv

\* Whoever reads one more Agent that waits to be read still knows why it knows what it knows.
LEMMA ExplainsMore ==
  ASSUME NEW graph \in GraphType, NEW entries \in SUBSET Agents,
         NEW V \in SUBSET Agents, NEW T \in SUBSET Agents, V \cap T = {}, NEW a \in T,
         NEW spec \in AgentSpecType \cup {None}, NEW subs \in SUBSET Agents,
         subs = IF spec = None THEN {} ELSE spec.subs,
         Explains(graph, entries, V, V \cup T),
         NEW next, next = [graph EXCEPT ![a] = spec]
  PROVE  Explains(next, entries, V \cup {a}, (V \cup {a}) \cup ((T \cup subs) \ (V \cup {a})))
<1>1. /\ next[a] = spec /\ a \notin V
      /\ \A b \in V : next[b] = graph[b]
  BY DEF GraphType
<1>2. (V \cup {a}) \cup ((T \cup subs) \ (V \cup {a})) = V \cup T \cup subs
  OBVIOUS
<1>3. \A b \in V \cup {a} : next[b] # None => next[b].subs \subseteq V \cup T \cup subs
  BY <1>1 DEF Explains
<1>4. ASSUME NEW R \in SUBSET Agents, entries \subseteq R,
             \A b \in V \cup {a} : b \in R /\ next[b] # None => next[b].subs \subseteq R
      PROVE  V \cup T \cup subs \subseteq R
  <2>1. V \cup T \subseteq R
    BY <1>1, <1>4 DEF Explains
  <2>2. subs \subseteq R
    BY <1>1, <1>4, <2>1
  <2> QED
    BY <2>1, <2>2
<1> QED
  BY <1>2, <1>3, <1>4 DEF Explains

LEMMA GathersMore ==
  ASSUME NEW graph \in GraphType, NEW V \in SUBSET Agents, NEW a \in Agents, a \notin V,
         NEW tools, NEW remotes,
         Gathers(graph, V, tools, remotes), NEW spec, NEW found, NEW kept,
         found.tools = IF spec = None THEN {} ELSE spec.tools,
         found.remotes = IF spec = None THEN {} ELSE spec.remotes,
         kept \subseteq remotes \cup found.remotes,
         \A r \in remotes \cup found.remotes : \E q \in kept : q.url = r.url
  PROVE  Gathers([graph EXCEPT ![a] = spec], V \cup {a}, tools \cup found.tools, kept)
<1> DEFINE next == [graph EXCEPT ![a] = spec]
<1>1. /\ next[a] = spec
      /\ \A b \in V : next[b] = graph[b]
  BY DEF GraphType
<1> HIDE DEF next
<1> SUFFICES Gathers(next, V \cup {a}, tools \cup found.tools, kept)
  BY DEF next
<1>2. /\ kept \subseteq remotes \cup found.remotes
      /\ \A r \in remotes \cup found.remotes : \E q \in kept : q.url = r.url
  OBVIOUS
<1>3. \A t \in Tools : t \in tools \cup found.tools
                         <=> \E b \in V \cup {a} : next[b] # None /\ t \in next[b].tools
  BY <1>1 DEF Gathers
<1>4. \A r \in kept : \E b \in V \cup {a} : next[b] # None /\ r \in next[b].remotes
  BY <1>1, <1>2 DEF Gathers
<1>5. ASSUME NEW b \in V \cup {a}, next[b] # None, NEW r \in next[b].remotes
      PROVE  \E q \in kept : q.url = r.url
  <2>1. CASE b = a
    BY <1>1, <1>2, <1>5, <2>1
  <2>2. CASE b \in V
    <3>1. PICK p \in remotes : p.url = r.url
      BY <1>1, <1>5, <2>2 DEF Gathers
    <3>2. PICK q \in kept : q.url = p.url
      BY <1>2
    <3> QED
      BY <3>1, <3>2
  <2> QED
    BY <2>1, <2>2
<1> QED
  BY <1>3, <1>4, <1>5 DEF Gathers

LEMMA TraverseKeepsWakeUps ==
  ASSUME TypeInv, WakeUpInv, NEW a \in Agents, Traverse(a)
  PROVE  WakeUpInv'
<1>1. /\ WorkerMoves /\ worker.pc = "traverse" /\ worker'.pc = "traverse" /\ a \in worker.todo
      /\ worker'.visited = worker.visited \cup {a}
      /\ worker'.tools = worker.tools \cup Found(a).tools
      /\ worker'.remotes \in {Over(Found(a).remotes, worker.remotes),
                              Over(worker.remotes, Found(a).remotes)}
      /\ worker'.todo = (worker.todo \cup Found(a).subs) \ (worker.visited \cup {a})
      /\ worker'.missing = worker.missing
  BY TraverseStep
<1>2. RestInv'
  BY <1>1 DEF RestInv
<1>3. ValidateInv'
  BY <1>1 DEF WorkerMoves, WakeUpInv, ValidateInv, AtRest, MissingIsKnown, ToValidate
<1>4. WalkInv'
  <2> SUFFICES ASSUME AtRest', worker'.current PROVE WalkInv'
    BY DEF WalkInv
  <2>1. /\ AtRest /\ worker.current /\ workforce \in WorkforceType
        /\ worker.visited \cap worker.todo = {}
    BY <1>1 DEF WorkerMoves, AtRest, TypeInv, TypeOK, AboutEntries
  <2>2. PICK graph \in GraphType :
          /\ Explains(graph, workforce.entries, worker.visited, worker.visited \cup worker.todo)
          /\ Gathers(graph, worker.visited, worker.tools, worker.remotes)
          /\ \A b \in worker.visited : Concerns(b) => b \in notify \/ graph[b] = cAgents[b]
    BY <1>1, <2>1 DEF WakeUpInv, WalkInv
  <2>3. /\ workforce.entries \in SUBSET Agents /\ worker.visited \in SUBSET Agents
        /\ worker.todo \in SUBSET Agents /\ worker.tools \in SUBSET Tools
        /\ worker.remotes \in RemoteSets /\ cAgents[a] \in AgentSpecType \cup {None}
    BY <2>1 DEF TypeInv, TypeOK, WorkerType, WorkforceType
  <2>4. /\ Found(a).subs = IF cAgents[a] = None THEN {} ELSE cAgents[a].subs
        /\ Found(a).tools = IF cAgents[a] = None THEN {} ELSE cAgents[a].tools
        /\ Found(a).remotes = IF cAgents[a] = None THEN {} ELSE cAgents[a].remotes
        /\ Found(a).subs \in SUBSET Agents /\ Found(a).tools \in SUBSET Tools
        /\ Found(a).remotes \in RemoteSets
    BY <2>3 DEF Found, AgentSpecType, RemoteSets
  <2>5. PICK next : next = [graph EXCEPT ![a] = cAgents[a]]
    OBVIOUS
  <2>6. /\ next \in GraphType /\ next[a] = cAgents[a]
        /\ \A b \in worker.visited : next[b] = graph[b]
    BY <1>1, <2>1, <2>3, <2>5 DEF GraphType
  <2>7. Explains(next, workforce.entries, worker'.visited, worker'.visited \cup worker'.todo)
    <3>1. Explains(next, workforce.entries, worker.visited \cup {a},
            (worker.visited \cup {a})
              \cup ((worker.todo \cup Found(a).subs) \ (worker.visited \cup {a})))
      BY <1>1, <2>1, <2>2, <2>3, <2>4, <2>5, ExplainsMore
    <3> QED
      BY <1>1, <3>1
  <2>8. Gathers(next, worker'.visited, worker'.tools, worker'.remotes)
    <3>1. a \notin worker.visited
      BY <1>1, <2>1
    <3>2. /\ worker'.remotes \subseteq worker.remotes \cup Found(a).remotes
          /\ \A r \in worker.remotes \cup Found(a).remotes :
               \E q \in worker'.remotes : q.url = r.url
      BY <1>1, <2>3, <2>4, OverKeepsUrls
    <3>3. Gathers([graph EXCEPT ![a] = cAgents[a]], worker.visited \cup {a},
                  worker.tools \cup Found(a).tools, worker'.remotes)
      BY <2>2, <2>3, <2>4, <3>1, <3>2, GathersMore
    <3> QED
      BY <1>1, <2>5, <3>3
  <2>9. \A b \in worker'.visited : Concerns(b) => b \in notify \/ next[b] = cAgents[b]
    BY <1>1, <2>2, <2>6
  <2>10. \A b \in worker'.visited : Concerns(b)' => b \in notify' \/ next[b] = cAgents'[b]
    BY <1>1, <2>9 DEF WorkerMoves, Concerns
  <2> QED
    BY <1>1, <2>6, <2>7, <2>8, <2>10 DEF WalkInv, WorkerMoves, Explains, Gathers
<1> QED
  BY <1>2, <1>3, <1>4 DEF WakeUpInv

LEMMA ValidateKeepsWakeUps ==
  ASSUME TypeInv, WakeUpInv, NEW a \in Agents, Validate(a)
  PROVE  WakeUpInv'
<1>1. /\ WorkerMoves /\ worker.pc = "validate" /\ worker'.pc = "validate"
      /\ a \in worker.todo /\ worker'.todo = worker.todo \ {a}
      /\ worker'.missing = IF cAgents[a] = None THEN worker.missing \cup {a} ELSE worker.missing
  BY ValidateStep
<1>2. RestInv' /\ WalkInv'
  BY <1>1 DEF RestInv, WalkInv
<1>3. ValidateInv'
  <2> SUFFICES ASSUME AtRest', worker'.current,
                      NEW b \in workforce.entries \ worker'.todo, b \notin notify
               PROVE  b \in worker'.missing <=> cAgents[b] = None
    BY <1>1 DEF ValidateInv, MissingIsKnown, ToValidate, WorkerMoves
  <2>1. AtRest /\ worker.current /\ worker.held = workforce
    BY <1>1 DEF WorkerMoves, AtRest, TypeInv, HeldIsCurrent
  <2>2. CASE b = a
    <3>1. a \notin worker.missing
      BY <1>1 DEF TypeInv, AboutEntries
    <3> QED
      BY <1>1, <2>2, <3>1
  <2>3. CASE b # a
    <3>1. b \in worker.missing <=> cAgents[b] = None
      BY <1>1, <2>1, <2>3 DEF WakeUpInv, ValidateInv, MissingIsKnown, ToValidate
    <3> QED
      BY <1>1, <2>3, <3>1
  <2> QED
    BY <2>2, <2>3
<1> QED
  BY <1>2, <1>3 DEF WakeUpInv

LEMMA ValidatedKeepsWakeUps ==
  ASSUME TypeInv, WakeUpInv, Validated
  PROVE  WakeUpInv'
<1>1. /\ WorkerMoves /\ worker.pc = "validate" /\ worker.todo = {}
      /\ worker'.pc = "traverse" /\ worker'.todo = worker.held.entries
      /\ worker'.missing = worker.missing
      /\ worker'.visited = {} /\ worker'.tools = {} /\ worker'.remotes = {}
  BY ValidatedStep
<1>2. RestInv'
  BY <1>1 DEF RestInv
<1>3. ValidateInv'
  BY <1>1 DEF WakeUpInv, ValidateInv, WorkerMoves, AtRest, MissingIsKnown, ToValidate
<1>4. WalkInv'
  <2> SUFFICES ASSUME AtRest', worker'.current PROVE WalkInv'
    BY DEF WalkInv
  <2>1. worker'.todo = workforce.entries /\ workforce' = workforce
    BY <1>1 DEF WorkerMoves, TypeInv, HeldIsCurrent
  <2>2. cAgents \in GraphType
    BY DEF GraphType, TypeInv, TypeOK
  <2>3. Explains(cAgents, workforce.entries, {}, workforce.entries)
    BY DEF Explains
  <2>4. Gathers(cAgents, {}, {}, {})
    BY DEF Gathers
  <2> QED
    BY <1>1, <2>1, <2>2, <2>3, <2>4 DEF WalkInv, Explains, Gathers
<1> QED
  BY <1>2, <1>3, <1>4 DEF WakeUpInv

LEMMA FetchKeepsWakeUps ==
  ASSUME TypeInv, WakeUpInv, Fetch
  PROVE  WakeUpInv'
<1> SUFFICES ASSUME AtRest' PROVE WakeUpInv'
  BY DEF WakeUpInv, ValidateInv, WalkInv, RestInv
<1>1. /\ UNCHANGED <<cAgents, cWorkforce, notify, workforce, stale>>
      /\ cWorkforce = workforce /\ workforce # None
  BY DEF Fetch, inputs, AtRest, TypeInv, CacheIsFresh
<1>2. worker' = [Idle EXCEPT !.pc = "validate", !.held = cWorkforce,
                             !.current = ~stale, !.todo = cWorkforce.entries]
  BY <1>1 DEF Fetch
<1>3. worker'.pc = "validate" /\ worker'.todo = workforce.entries
  BY <1>1, <1>2 DEF Idle
<1> QED
  BY <1>1, <1>3 DEF WakeUpInv, ValidateInv, WalkInv, RestInv, MissingIsKnown, ToValidate

\* A status that says nothing new lists whatever was read: a change of any of it since
\* then was of concern.
LEMMA PublishKeepsWakeUps ==
  ASSUME TypeInv, WakeUpInv, Publish
  PROVE  WakeUpInv'
<1>1. PICK st \in Statuses :
        \/ /\ worker.current /\ workforce = worker.held /\ workforce.status # st
           /\ workforce' = [workforce EXCEPT !.status = st] /\ workforce'.status = st
           /\ stale'
        \/ /\ ~worker.current \/ workforce.status = st
           /\ UNCHANGED <<workforce, stale>>
  BY PublishStep
<1>2. /\ worker.pc = "traverse" /\ worker.todo = {} /\ worker.held \in WorkforceType
      /\ worker' = Idle /\ queued' = (queued \/ ~worker.current)
      /\ UNCHANGED <<agents, cAgents, cWorkforce, notify, events>>
  BY PublishStep
<1> SUFFICES ASSUME AtRest' PROVE RestInv'
  BY <1>2, IdleType DEF WakeUpInv, ValidateInv, WalkInv, RestInv
<1>3. /\ AtRest /\ worker.current /\ workforce.status = st
      /\ UNCHANGED <<workforce, stale>> /\ worker.held = workforce
  BY <1>1, <1>2 DEF AtRest, TypeInv, TypeOK, WorkerType, HeldIsCurrent
<1>4. /\ Listed(st.agents) = worker.visited
      /\ st.observed = workforce.generation /\ st.missing = worker.missing
      /\ st.ready = IF worker.missing = {} THEN "True" ELSE "False"
      /\ st.tools = worker.tools /\ st.remotes = worker.remotes
  BY <1>2, <1>3, StatusSaysWhatWasFound DEF TypeInv, TypeOK
<1>5. worker.missing \subseteq workforce.entries
  BY <1>2, <1>3 DEF TypeInv, AboutEntries
<1>6. MissingIsKnown(workforce.entries, worker.missing)
  BY <1>2, <1>3 DEF WakeUpInv, ValidateInv, ToValidate, MissingIsKnown
<1>7. PICK graph \in GraphType :
        /\ Explains(graph, workforce.entries, worker.visited, worker.visited \cup worker.todo)
        /\ Gathers(graph, worker.visited, worker.tools, worker.remotes)
        /\ \A a \in worker.visited : Concerns(a) => a \in notify \/ graph[a] = cAgents[a]
  BY <1>2, <1>3 DEF WakeUpInv, WalkInv
<1>8. \A a \in worker.visited : Concerns(a)
  BY <1>3, <1>4 DEF Concerns, AtRest, TypeInv, CacheIsFresh
<1>9. worker.visited \cup worker.todo = worker.visited
  BY <1>2
<1>10. /\ Explains(graph, workforce.entries, worker.visited, worker.visited)
       /\ \A a \in worker.visited : a \in notify \/ graph[a] = cAgents[a]
  BY <1>7, <1>8, <1>9
<1> DEFINE said == workforce.status
<1>11. /\ said.observed = workforce.generation /\ said.missing \subseteq workforce.entries
       /\ said.ready = IF said.missing = {} THEN "True" ELSE "False"
       /\ MissingIsKnown(workforce.entries, said.missing)
       /\ Explains(graph, workforce.entries, Listed(said.agents), Listed(said.agents))
       /\ Gathers(graph, Listed(said.agents), said.tools, said.remotes)
       /\ \A a \in Listed(said.agents) : a \in notify \/ graph[a] = cAgents[a]
  BY <1>3, <1>4, <1>5, <1>6, <1>7, <1>10
<1>12. MissingIsKnown(workforce.entries, said.missing)'
  BY <1>2, <1>3, <1>11 DEF MissingIsKnown
<1> QED
  BY <1>2, <1>3, <1>11, <1>12 DEF RestInv, Explains, Gathers

LEMMA WakeUpStep ==
  ASSUME TypeInv, TypeInv', WakeUpInv, [Next]_vars
  PROVE  WakeUpInv'
<1>1. ASSUME ~AtRest' PROVE WakeUpInv'
  BY <1>1 DEF WakeUpInv, ValidateInv, WalkInv, RestInv
<1>2. CASE Environment
  <2>1. CASE \E a \in Agents : \E s \in AgentSpecs[a] \cup {None} : ChangeAgent(a, s)
    <3>1. UNCHANGED <<cAgents, workforce, cWorkforce, stale, notify, queued, worker>>
      BY <2>1 DEF ChangeAgent
    <3> QED
      BY <3>1, AgentsStep
  <2>2. ASSUME NEW w, ChangeWorkforce(w) PROVE WakeUpInv'
    BY <1>1, <2>2 DEF ChangeWorkforce, AtRest
  <2>3. CASE (\E e \in EntrySpecs : EditWorkforce(e) \/ CreateWorkforce(e)) \/ DeleteWorkforce
    <3>1. \E w : ChangeWorkforce(w)
      BY <2>3 DEF EditWorkforce, CreateWorkforce, DeleteWorkforce
    <3> QED
      BY <2>2, <3>1
  <2> QED
    BY <1>2, <2>1, <2>3 DEF Environment
<1>3. CASE SyncWorkforce
  BY <1>1, <1>3 DEF SyncWorkforce, AtRest
<1>4. CASE Restart
  BY <1>1, <1>4 DEF Restart, AtRest
<1>5. ASSUME NEW a \in Agents, SyncAgent(a) PROVE WakeUpInv'
  <2>1. /\ UNCHANGED <<workforce, cWorkforce, worker, stale, queued>>
        /\ notify' = notify \cup {a}
        /\ \A b \in Agents : b # a => cAgents'[b] = cAgents[b]
    BY <1>5 DEF SyncAgent, TypeInv, TypeOK
  <2> QED
    BY <2>1, AgentsStep
<1>6. ASSUME NEW a \in Agents, Notify(a) PROVE WakeUpInv'
  <2>1. /\ UNCHANGED <<workforce, cWorkforce, worker, stale, cAgents>>
        /\ notify' = notify \ {a} /\ queued' = (queued \/ Concerns(a))
    BY <1>6 DEF Notify
  <2> QED
    BY <2>1, AgentsStep
<1>7. CASE Reconcile
  BY <1>7, FetchKeepsWakeUps, ValidateKeepsWakeUps, ValidatedKeepsWakeUps,
     TraverseKeepsWakeUps, PublishKeepsWakeUps DEF Reconcile
<1>8. CASE UNCHANGED vars
  BY <1>8, AgentsStep DEF vars
<1> QED
  BY <1>2, <1>3, <1>4, <1>5, <1>6, <1>7, <1>8 DEF Next

\* If no change of an Agent that the entry points reach is on its way, the graph the status
\* was computed from is, as far as they reach, the graph there is.
LEMMA RestIsTrue == TypeInv /\ WakeUpInv => QuiescentIsTrue
<1> SUFFICES ASSUME TypeInv, WakeUpInv, workforce # None, ~Pending PROVE StatusIsTrue
  BY DEF QuiescentIsTrue
<1> DEFINE st == workforce.status
           L == Listed(st.agents)
           R == Reachable(workforce.entries)
<1>1. /\ AtRest /\ worker.pc = "idle"
      /\ \A a \in R : a \notin notify /\ cAgents[a] = agents[a]
  BY DEF Pending, AtRest
<1>2. PICK graph \in GraphType :
        /\ Explains(graph, workforce.entries, L, L)
        /\ Gathers(graph, L, st.tools, st.remotes)
        /\ \A a \in L : a \in notify \/ graph[a] = cAgents[a]
  BY <1>1 DEF WakeUpInv, RestInv
<1>3. /\ st.observed = workforce.generation /\ st.missing \subseteq workforce.entries
      /\ st.ready = IF st.missing = {} THEN "True" ELSE "False"
      /\ MissingIsKnown(workforce.entries, st.missing)
  BY <1>1 DEF WakeUpInv, RestInv
<1>4. /\ workforce.entries \in SUBSET Agents /\ L \in SUBSET Agents
      /\ st.tools \in SUBSET Tools
      /\ agents \in [Agents -> AgentSpecType \cup {None}]
  <2>1. workforce \in WorkforceType
    BY DEF TypeInv, TypeOK
  <2>2. PICK S \in SUBSET Agents : st.agents \in Listings(S)
    BY <2>1 DEF WorkforceType, StatusType
  <2>3. L \subseteq S
    BY <2>2 DEF Listings, Listed
  <2> QED
    BY <2>1, <2>3 DEF WorkforceType, StatusType, TypeInv, TypeOK
<1>5. workforce.entries \subseteq R /\ R \in SUBSET Agents
  BY <1>4 DEF Reachable
<1>6. \A b \in R : agents[b] # None => agents[b].subs \subseteq R
  <2> SUFFICES ASSUME NEW b \in R, agents[b] # None, NEW a \in agents[b].subs PROVE a \in R
    OBVIOUS
  <2>1. a \in Agents
    BY <1>4, <1>5 DEF AgentSpecType
  <2>2. ASSUME NEW Q \in SUBSET Agents, workforce.entries \subseteq Q,
               \A c \in Q : agents[c] # None => agents[c].subs \subseteq Q
        PROVE  a \in Q
    BY <2>2 DEF Reachable
  <2> QED
    BY <2>1, <2>2 DEF Reachable
<1>7. L \subseteq R
  <2>1. \A b \in L : b \in R /\ graph[b] # None => graph[b].subs \subseteq R
    BY <1>1, <1>2, <1>6
  <2> HIDE DEF L, R
  <2> QED
    BY <1>2, <1>5, <2>1 DEF Explains
<1>8. \A b \in L : graph[b] = agents[b]
  BY <1>1, <1>2, <1>7
<1>9. R \subseteq L
  <2>1. /\ workforce.entries \subseteq L
        /\ \A b \in L : agents[b] # None => agents[b].subs \subseteq L
    BY <1>2, <1>8 DEF Explains
  <2> QED
    BY <1>4, <2>1 DEF Reachable
<1>10. L = R
  BY <1>7, <1>9
<1>11. st.missing = {a \in workforce.entries : agents[a] = None}
  BY <1>1, <1>3, <1>5 DEF MissingIsKnown
<1>12. st.tools = UNION {agents[a].tools : a \in {b \in R : agents[b] # None}}
  <2>1. \A t \in Tools : t \in st.tools <=> \E b \in R : agents[b] # None /\ t \in agents[b].tools
    BY <1>2, <1>8, <1>10 DEF Gathers
  <2>2. \A b \in R : agents[b] # None => agents[b].tools \subseteq Tools
    BY <1>4, <1>5 DEF AgentSpecType
  <2> HIDE DEF R
  <2> QED
    BY <1>4, <2>1, <2>2
<1>13. LET remotes == UNION {agents[a].remotes : a \in {b \in R : agents[b] # None}} IN
         /\ st.remotes \subseteq remotes
         /\ \A r \in remotes : \E q \in st.remotes : q.url = r.url
  <2>1. /\ \A r \in st.remotes : \E b \in R : agents[b] # None /\ r \in agents[b].remotes
        /\ \A b \in R : agents[b] # None =>
             \A r \in agents[b].remotes : \E q \in st.remotes : q.url = r.url
    BY <1>2, <1>8, <1>10 DEF Gathers
  <2> HIDE DEF R
  <2> QED
    BY <2>1
<1> QED
  BY <1>3, <1>10, <1>11, <1>12, <1>13 DEF StatusIsTrue

\* For every set of Agents, every graph, cyclic or not, and every set of entry points: the
\* watch through the status the controller wrote itself misses no change that matters.
THEOREM NoChangeIsMissed == Spec => []QuiescentIsTrue
<1>1. Init => WakeUpInv
  BY DEF Init, WakeUpInv, ValidateInv, WalkInv, RestInv, AtRest
<1>2. TypeInv /\ WakeUpInv /\ [Next]_vars => WakeUpInv'
  BY TypeStep, WakeUpStep
<1> QED
  BY <1>1, <1>2, TypeInit, TypeStep, RestIsTrue, PTL DEF Spec
=============================================================================
