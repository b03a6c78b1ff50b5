-------------------------- MODULE AgenticWorkforce --------------------------
(***************************************************************************)
(* The AgenticWorkforce controller (agenticworkforce_reconciler.go): it    *)
(* looks up the entry points of a workforce, walks the graph of Agents     *)
(* below them one cached Agent at a time while that cache moves on, and    *)
(* writes what it found into the status of the workforce.  Its watch on    *)
(* Agents uses that very status to decide whether a changed Agent concerns *)
(* the workforce.  Workforces do not affect each other: one is modelled.   *)
(***************************************************************************)
EXTENDS Naturals, FiniteSets

CONSTANTS
  Agents,       \* names of Agents
  Tools,        \* keys of tools
  Urls, Names,  \* of remote agents
  None,         \* no object
  AgentSpecs,   \* AgentSpecs[a]: the specs Agent a may have
  EntrySpecs,   \* the sets of entry points users give the workforce
  MaxEvents     \* bound of the environment: changes and restarts together

\* Remote sub-agents, each under the URL and the name a user gave it; no spec and no
\* status keeps two of one URL.
RemoteSets ==
  {S \in SUBSET [url : Urls, name : Names] : \A r, q \in S : r.url = q.url => r = q}

AgentSpecType == [subs : SUBSET Agents, tools : SUBSET Tools, remotes : RemoteSets]

\* The ways to list a set: the order in which Go iterates over a map is not defined.
Listings(S) == {l \in [1 .. Cardinality(S) -> S] : \A x \in S : \E i \in DOMAIN l : l[i] = x}
Listed(l) == {l[i] : i \in DOMAIN l}

StatusType == [ready : {"Unknown", "True", "False"}, missing : SUBSET Agents,
               observed : Nat, agents : UNION {Listings(S) : S \in SUBSET Agents},
               tools : SUBSET Tools, remotes : RemoteSets]

WorkforceType == [generation : Nat, entries : SUBSET Agents, status : StatusType]

ASSUME WorkforceAssumption ==
  /\ AgentSpecs \in [Agents -> SUBSET AgentSpecType]
  /\ EntrySpecs \in SUBSET (SUBSET Agents) /\ {} \notin EntrySpecs
  /\ None \notin Agents /\ None \notin AgentSpecType /\ None \notin WorkforceType
  /\ MaxEvents \in Nat

VARIABLES
  agents, cAgents,         \* specs of the Agents: stored, and in the cache
  workforce, cWorkforce,   \* the workforce: stored, and in the cache
  stale,                   \* the cached workforce is not the stored version
  notify,                  \* Agents whose change the map function has not seen yet
  queued,                  \* the workforce's key waits in the workqueue
  worker,                  \* the reconcile in progress
  events                   \* changes and restarts so far

vars == <<agents, cAgents, workforce, cWorkforce, stale, notify, queued, worker, events>>

NoListing == [i \in {} |-> None]
BlankStatus == [ready |-> "Unknown", missing |-> {}, observed |-> 0,
                agents |-> NoListing, tools |-> {}, remotes |-> {}]

Idle == [pc |-> "idle", held |-> None, current |-> FALSE, todo |-> {},
         missing |-> {}, visited |-> {}, tools |-> {}, remotes |-> {}]

Init ==
  /\ agents \in [Agents -> UNION {AgentSpecs[a] : a \in Agents} \cup {None}]
  /\ \A a \in Agents : agents[a] \in AgentSpecs[a] \cup {None}
  /\ cAgents = agents
  /\ \E e \in EntrySpecs : workforce = [generation |-> 1, entries |-> e, status |-> BlankStatus]
  /\ cWorkforce = workforce
  /\ stale = FALSE
  /\ notify = {}
  /\ queued = TRUE
  /\ worker = Idle
  /\ events = 0

-----------------------------------------------------------------------------
(* The environment                                                           *)

Happens == events < MaxEvents /\ events' = events + 1

\* Users create, change and delete Agents and the workforce.
ChangeAgent(a, s) ==
  /\ Happens
  /\ agents[a] # s
  /\ agents' = [agents EXCEPT ![a] = s]
  /\ UNCHANGED <<cAgents, workforce, cWorkforce, stale, notify, queued, worker>>

ChangeWorkforce(w) ==
  /\ Happens
  /\ workforce' = w
  /\ stale' = TRUE
  /\ worker' = [worker EXCEPT !.current = FALSE]
  /\ UNCHANGED <<agents, cAgents, cWorkforce, notify, queued>>

EditWorkforce(e) ==
  /\ workforce # None /\ workforce.entries # e
  /\ ChangeWorkforce([workforce EXCEPT !.entries = e, !.generation = @ + 1])

DeleteWorkforce == workforce # None /\ ChangeWorkforce(None)

CreateWorkforce(e) ==
  /\ workforce = None
  /\ ChangeWorkforce([generation |-> 1, entries |-> e, status |-> BlankStatus])

-----------------------------------------------------------------------------
(* The informers: the cache moves first, the event handlers run later.       *)

SyncWorkforce ==
  /\ stale
  /\ cWorkforce' = workforce
  /\ stale' = FALSE
  /\ queued' = TRUE
  /\ UNCHANGED <<agents, cAgents, workforce, notify, worker, events>>

SyncAgent(a) ==
  /\ cAgents[a] # agents[a]
  /\ cAgents' = [cAgents EXCEPT ![a] = agents[a]]
  /\ notify' = notify \cup {a}
  /\ UNCHANGED <<agents, workforce, cWorkforce, stale, queued, worker, events>>

\* Mistake: only entry points are looked at.
ConcernsEntryPoint(a) == cWorkforce # None /\ a \in cWorkforce.entries

\* The cached workforce names Agent a as an entry point or lists it in its status.
Concerns(a) ==
  /\ cWorkforce # None
  /\ a \in cWorkforce.entries \/ a \in Listed(cWorkforce.status.agents)

\* findWorkforcesReferencingAgent
Notify(a) ==
  /\ a \in notify
  /\ notify' = notify \ {a}
  /\ queued' = (queued \/ Concerns(a))
  /\ UNCHANGED <<agents, cAgents, workforce, cWorkforce, stale, worker, events>>

-----------------------------------------------------------------------------
(* The reconcile loop                                                        *)

inputs == <<agents, cAgents, cWorkforce, notify, events>>

\* Mistake: a reconcile of a workforce that is gone goes on.
FetchMissing ==
  /\ worker.pc = "idle"
  /\ queued
  /\ queued' = FALSE
  /\ worker' = [Idle EXCEPT !.pc = "validate", !.held = cWorkforce, !.current = ~stale,
                            !.todo = IF cWorkforce = None THEN {} ELSE cWorkforce.entries]
  /\ UNCHANGED <<inputs, workforce, stale>>

Fetch ==
  /\ worker.pc = "idle"
  /\ queued
  /\ queued' = FALSE
  /\ worker' = IF cWorkforce = None THEN worker ELSE
                 [Idle EXCEPT !.pc = "validate", !.held = cWorkforce,
                              !.current = ~stale, !.todo = cWorkforce.entries]
  /\ UNCHANGED <<inputs, workforce, stale>>

\* validateEntryPointAgents: does entry point a exist?
Validate(a) ==
  /\ worker.pc = "validate"
  /\ a \in worker.todo
  /\ worker' = [worker EXCEPT !.todo = @ \ {a},
                              !.missing = IF cAgents[a] = None THEN @ \cup {a} ELSE @]
  /\ UNCHANGED <<inputs, workforce, stale, queued>>

Validated ==
  /\ worker.pc = "validate"
  /\ worker.todo = {}
  /\ worker' = [worker EXCEPT !.pc = "traverse", !.todo = worker.held.entries]
  /\ UNCHANGED <<inputs, workforce, stale, queued>>

\* The remote agents are kept by URL: one found later under another name takes the place.
Over(later, earlier) == later \cup {r \in earlier : \A l \in later : l.url # r.url}

\* Mistake: an Agent that is missing is not recorded as visited.
TraverseExisting(a) ==
  /\ worker.pc = "traverse"
  /\ a \in worker.todo
  /\ worker' = IF cAgents[a] = None THEN [worker EXCEPT !.todo = @ \ {a}] ELSE
                 [worker EXCEPT
                    !.visited = @ \cup {a},
                    !.tools = @ \cup cAgents[a].tools,
                    !.remotes = Over(cAgents[a].remotes, @),
                    !.todo = (@ \cup cAgents[a].subs) \ (worker.visited \cup {a})]
  /\ UNCHANGED <<inputs, workforce, stale, queued>>

\* traverseAgent: an Agent is marked visited before it is read, so that one that
\* does not exist is listed too, and a cycle ends.  (The recursion visits in the
\* order of the lists; here any order is possible, and the remote agents of a spec
\* may be recorded before or after those of the Agents below it.)
Traverse(a) ==
  /\ worker.pc = "traverse"
  /\ a \in worker.todo
  /\ LET found == IF cAgents[a] = None THEN [subs |-> {}, tools |-> {}, remotes |-> {}]
                  ELSE cAgents[a] IN
     \E remotes \in {Over(found.remotes, worker.remotes), Over(worker.remotes, found.remotes)} :
       worker' = [worker EXCEPT
                    !.visited = @ \cup {a},
                    !.tools = @ \cup found.tools,
                    !.remotes = remotes,
                    !.todo = (@ \cup found.subs) \ (worker.visited \cup {a})]
  /\ UNCHANGED <<inputs, workforce, stale, queued>>

\* The statuses Reconcile may compute from what it found.  (The remote agents are in the
\* same list; where they stand in it is left out.)
Statuses ==
  {[ready |-> IF worker.missing = {} THEN "True" ELSE "False",
    missing |-> worker.missing, observed |-> worker.held.generation, agents |-> l,
    tools |-> worker.tools, remotes |-> worker.remotes] : l \in Listings(worker.visited)}

\* Mistake: the status is written whatever the version of the workforce is now.
PublishOverLatest ==
  /\ worker.pc = "traverse"
  /\ worker.todo = {}
  /\ \E st \in Statuses :
       IF workforce # None /\ workforce.status # st
       THEN workforce' = [workforce EXCEPT !.status = st] /\ stale' = TRUE
       ELSE UNCHANGED <<workforce, stale>>
  /\ worker' = Idle
  /\ UNCHANGED <<inputs, queued>>

\* Status().Update: refused when the copy is not the current version, a no-op when
\* nothing changes, and otherwise a new version of the workforce.
Publish ==
  /\ worker.pc = "traverse"
  /\ worker.todo = {}
  /\ \E st \in Statuses :
       IF worker.current /\ workforce.status # st
       THEN workforce' = [workforce EXCEPT !.status = st] /\ stale' = TRUE
       ELSE UNCHANGED <<workforce, stale>>
  /\ queued' = (queued \/ ~worker.current)
  /\ worker' = Idle
  /\ UNCHANGED inputs

\* The operator restarts: caches are listed anew, every object found is an Add event.
Restart ==
  /\ Happens
  /\ cAgents' = agents /\ cWorkforce' = workforce
  /\ stale' = FALSE
  /\ notify' = {a \in Agents : agents[a] # None}
  /\ queued' = (workforce # None)
  /\ worker' = Idle
  /\ UNCHANGED <<agents, workforce>>

-----------------------------------------------------------------------------
Environment ==
  \/ \E a \in Agents : \E s \in AgentSpecs[a] \cup {None} : ChangeAgent(a, s)
  \/ \E e \in EntrySpecs : EditWorkforce(e) \/ CreateWorkforce(e)
  \/ DeleteWorkforce

Reconcile ==
  \/ Fetch \/ Validated \/ Publish
  \/ \E a \in Agents : Validate(a) \/ Traverse(a)

Next ==
  \/ Environment \/ Reconcile \/ Restart \/ SyncWorkforce
  \/ \E a \in Agents : SyncAgent(a) \/ Notify(a)

Spec == Init /\ [][Next]_vars

\* Watches deliver, handlers run, the worker is scheduled.
Fairness ==
  /\ WF_vars(Reconcile) /\ WF_vars(SyncWorkforce)
  /\ \A a \in Agents : WF_vars(SyncAgent(a)) /\ WF_vars(Notify(a))

FairSpec == Spec /\ Fairness

-----------------------------------------------------------------------------
(* Properties                                                                *)

WorkerType ==
  [pc : {"idle", "validate", "traverse"}, held : WorkforceType \cup {None},
   current : BOOLEAN, todo : SUBSET Agents, missing : SUBSET Agents,
   visited : SUBSET Agents, tools : SUBSET Tools, remotes : RemoteSets]

\* Every variable has its type, and a reconcile in progress holds a workforce.
TypeOK ==
  /\ agents \in [Agents -> AgentSpecType \cup {None}]
  /\ cAgents \in [Agents -> AgentSpecType \cup {None}]
  /\ workforce \in WorkforceType \cup {None}
  /\ cWorkforce \in WorkforceType \cup {None}
  /\ stale \in BOOLEAN /\ queued \in BOOLEAN
  /\ notify \in SUBSET Agents
  /\ worker \in WorkerType
  /\ worker.pc # "idle" => worker.held # None
  /\ events \in Nat

\* The Agents reachable from a set: the least set that contains it and the
\* sub-agents of its members
Reachable(S) ==
  {a \in Agents : \A R \in SUBSET Agents :
     /\ S \subseteq R
     /\ \A b \in R : agents[b] # None => agents[b].subs \subseteq R
     => a \in R}

\* The status says of the workforce what is true of the cluster now.
StatusIsTrue ==
  LET st == workforce.status
      reached == Reachable(workforce.entries)
      found == {b \in reached : agents[b] # None}
      remotes == UNION {agents[a].remotes : a \in found}
      gone == {a \in workforce.entries : agents[a] = None} IN
  /\ st.observed = workforce.generation
  /\ st.missing = gone
  /\ st.ready = IF gone = {} THEN "True" ELSE "False"
  /\ Listed(st.agents) = reached
  /\ st.tools = UNION {agents[a].tools : a \in found}
  /\ st.remotes \subseteq remotes /\ \A r \in remotes : \E q \in st.remotes : q.url = r.url

\* Something that concerns the workforce is still under way.
Pending ==
  \/ queued \/ stale \/ worker.pc # "idle"
  \/ \E a \in Reachable(workforce.entries) : a \in notify \/ cAgents[a] # agents[a]

\* No wake-up is lost: although the map function only knows the Agents the cached
\* status lists, which lags behind the graph it was read from, the status is true
\* whenever nothing is pending any more for the workforce and the Agents it reaches.
QuiescentIsTrue == workforce # None /\ ~Pending => StatusIsTrue

\* A status is only written over the spec it was computed from: every write
\* observes the generation stored at that moment, and judges Ready by the entry
\* points of that generation.
StatusJudgesCurrentSpec ==
  [][workforce # None /\ workforce' # None /\ workforce'.status # workforce.status
       => /\ workforce'.status.observed = workforce.generation
          /\ workforce'.status.missing \subseteq workforce.entries
          /\ workforce.entries \subseteq Listed(workforce'.status.agents)]_workforce

\* Once users rest, the status becomes true and stays true, cycles among Agents or not.
StatusBecomesTrue == <>[](workforce # None => StatusIsTrue)
=============================================================================
