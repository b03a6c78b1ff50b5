--------------------------- MODULE AgentDeployment ---------------------------
(***************************************************************************)
(* What ensureDeployment and ensureService of the Agent controller write:  *)
(* the environment of the agent container (agent_config.go), the labels    *)
(* and annotations (util.go) and the fields they leave to others, over     *)
(* sequences of edits of the spec and of foreign edits of the objects.     *)
(*                                                                         *)
(* AgentReconciler shows when these writes happen and from which copies;   *)
(* here a reconcile is one step, since a write computed from an outdated   *)
(* copy is refused and changes nothing.                                    *)
(***************************************************************************)
EXTENDS Naturals, Sequences, Functions

CONSTANTS
  Self,            \* the name of the Agent
  Letters, Digits, \* characters: names are sequences of characters
  Malformed,       \* the names, keys and values the API server refuses on sight
  Choices,         \* Choices[f]: the values users give field f of the spec
  FirstSpec,       \* the spec the Agent is created with
  Adoptable,       \* Deployments of the Agent's name that may exist before it
  Gateways, None,
  Marks,           \* labels and variables others set: a set of <<key, value>>
  RestartMark,     \* the pod template annotation `kubectl rollout restart` sets
  Sidecars,        \* containers of others
  Mount,           \* Mount[c]: the volume that sidecar c mounts, or None
  Commands,        \* what others set of the agent container that the operator does not set
  PodParts,        \* what others set of the pod that the operator does not set
  Scales,
  MaxEdits, MaxForeign

\* f ++ g: all of f, and of g what f does not define
f ++ g == [k \in DOMAIN f \cup DOMAIN g |-> IF k \in DOMAIN f THEN f[k] ELSE g[k]]

\* No Deployment, no Service, no agent container, no last write
Nothing == <<>>

\* protocols and storage (volumes and volumeMounts) are lists of named entries.
Fields == {"framework", "model", "protocols", "storage", "replicas", "common", "pod",
           "env", "subs", "tools"}

\* The specs users may give the Agent
IsSpec(s) == DOMAIN s = Fields /\ \A f \in Fields : s[f] \in Choices[f]

IsList(l) == l \in Seq({l[i] : i \in DOMAIN l})

IsDeployment(d) ==
  d = [selector |-> d.selector, meta |-> d.meta, template |-> d.template,
       replicas |-> d.replicas]

-----------------------------------------------------------------------------
(* What the API server asks of the objects                                   *)

Selects(selector, labels) ==
  \A k \in DOMAIN selector : k \in DOMAIN labels /\ labels[k] = selector[k]

\* Keys and values of labels have a format, and so have keys of annotations.
CleanMetadata(o) ==
  /\ \A k \in DOMAIN o.labels : k \notin Malformed /\ o.labels[k] \notin Malformed
  /\ DOMAIN o.annotations \cap Malformed = {}

Named(list) == [i \in DOMAIN list |-> list[i].name]

\* Names with a format, each only once
CleanNames(names) == IsInjective(names) /\ Range(names) \cap Malformed = {}

\* No path is mounted twice.
CleanMounts(mounts) == IsInjective([i \in DOMAIN mounts |-> mounts[i].path])

CleanContainer(c, volumes) ==
  /\ CleanNames(Named(c.ports)) /\ DOMAIN c.env \cap Malformed = {}
  /\ CleanMounts(c.mounts) /\ Range(Named(c.mounts)) \subseteq Range(volumes)

\* The rules for a Deployment that relate fields to each other, or a field to what the
\* operator makes of it.  (A rule for a single value, such as a quantity, an image or a name
\* in envFrom, is one more malformed value.)
Valid(d) ==
  LET t == d.template IN
  /\ Selects(d.selector, t.labels)
  /\ CleanMetadata(d.meta) /\ CleanMetadata(t)
  /\ CleanNames(t.volumes)
  /\ \A c \in t.sidecars : Mount[c] \in Range(t.volumes) \cup {None}
  /\ t.agent # Nothing => CleanContainer(t.agent, t.volumes)

\* Those for a Service: in addition, no port is listed twice.
ValidService(v) ==
  /\ CleanMetadata(v.meta) /\ CleanNames(Named(v.ports))
  /\ IsInjective([i \in DOMAIN v.ports |-> v.ports[i].port])

\* The names the operator itself brings are well-formed.
OwnNames == {"app", "framework", "AGENT_NAME", "AGENT_MODEL", "OTEL_SEMCONV_STABILITY_OPT_IN",
             "OTEL_SERVICE_NAME", "SUB_AGENTS", "AGENT_TOOLS", "AGENT_A2A_RPC_URL",
             "LITELLM_PROXY_API_BASE", "LITELLM_PROXY_API_KEY", "USE_LITELLM_PROXY"}

ASSUME OwnNamesAssumption == OwnNames \cap Malformed = {}

ASSUME FieldsAssumption == DOMAIN Choices = Fields /\ IsSpec(FirstSpec)

\* The lists of a spec are lists, and the name of a sub-agent is a text.
ASSUME ListsAssumption ==
  /\ \A f \in {"env", "subs", "tools"} : \A v \in Choices[f] : IsList(v)
  /\ \A v \in Choices["subs"] : \A i \in DOMAIN v : IsList(v[i].name)

\* Validation refuses a mount of a volume that the spec does not have (AgentAdmission).
ASSUME StorageAssumption ==
  \A v \in Choices["storage"] : Range(Named(v.mounts)) \subseteq Range(v.volumes)

\* Neither what replaces a character nor what replaces a missing name is a digit.
ASSUME DigitsAssumption == "_" \notin Digits /\ "agent" \notin Digits

ASSUME AdoptableAssumption == \A d \in Adoptable : IsDeployment(d) /\ Valid(d)

VARIABLES
  spec,         \* the Agent's spec, its references with the URLs they resolved to
  gateway,      \* the AiGateway the Agent resolves to, or None
  deployment,   \* the stored Deployment, or Nothing
  service,      \* the stored Service, or Nothing
  outcome,      \* of the reconcile of the current inputs
  basis,        \* history: the inputs of the last write, Nothing once others changed the object
  theirs,       \* history: what others last put where the operator sets nothing
  spent

vars == <<spec, gateway, deployment, service, outcome, basis, theirs, spent>>

Inputs == [spec |-> spec, gateway |-> gateway]

-----------------------------------------------------------------------------
(* agent_config.go                                                           *)

\* A character that cannot be part of a variable's name becomes an underscore,
\* and so does a digit's missing predecessor.
sanitizeAgentName(name) ==
  LET replaced == [i \in DOMAIN name |->
                     IF name[i] \in Letters \cup Digits THEN name[i] ELSE "_"]
  IN IF name = <<>> THEN <<"agent">>
     ELSE IF Head(replaced) \in Digits THEN <<"_">> \o replaced ELSE replaced

\* No later entry of the list has the name of entry i.
LastOfName(list, i) == \A j \in i + 1 .. Len(list) : list[j].name # list[i].name

\* A list read into a map by name: of two entries of one name the last one stays.
LastOfEachName(list) ==
  [n \in {list[i].name : i \in DOMAIN list} |->
     list[CHOOSE i \in DOMAIN list : list[i].name = n /\ LastOfName(list, i)].value]

\* Mistake: the keys are cut off after their first character.
ShortKeys(subs) ==
  LET resolved == LastOfEachName(subs)
      Key(n) == <<sanitizeAgentName(n)[1]>>
  IN {[k \in {Key(n) : n \in DOMAIN resolved} |-> resolved[pick[k]]] :
        pick \in {p \in [{Key(n) : n \in DOMAIN resolved} -> DOMAIN resolved] :
                    \A k \in DOMAIN p : Key(p[k]) = k}}

\* SUB_AGENTS: the map of resolved sub-agents is ranged over in any order, and of
\* those whose names sanitize to one key the last one stays.
SubAgentMaps(subs) ==
  LET resolved == LastOfEachName(subs)
      Keys == {sanitizeAgentName(n) : n \in DOMAIN resolved}
  IN {[k \in Keys |-> resolved[pick[k]]] :
        pick \in {p \in [Keys -> DOMAIN resolved] :
                    \A k \in Keys : sanitizeAgentName(p[k]) = k}}

\* The variables that are always set (the description and the instruction are set
\* the way the model is), those of an A2A protocol, and those of a gateway.
buildTemplateEnvironmentVars(s, g, subAgents) ==
  [AGENT_NAME |-> sanitizeAgentName(Self), AGENT_MODEL |-> s.model,
   OTEL_SEMCONV_STABILITY_OPT_IN |-> "gen_ai_latest_experimental",
   OTEL_SERVICE_NAME |-> Self,
   SUB_AGENTS |-> subAgents, AGENT_TOOLS |-> LastOfEachName(s.tools)]
  ++ (IF s.protocols = <<>> THEN <<>>
      ELSE [AGENT_A2A_RPC_URL |-> <<Self, s.protocols[1].port>>])
  ++ (IF g = None THEN <<>>
      ELSE [LITELLM_PROXY_API_BASE |-> g, LITELLM_PROXY_API_KEY |-> Self,
            USE_LITELLM_PROXY |-> "True"])

\* Mistake: the template wins.
mergeUnderTemplate(template, user) == template ++ LastOfEachName(user)

\* The list is sorted by name and no name occurs twice, so that it is determined by
\* the value of each name.
mergeEnvironmentVariables(template, user) == LastOfEachName(user) ++ template

Environments(s, g) ==
  {mergeEnvironmentVariables(buildTemplateEnvironmentVars(s, g, m), s.env) :
     m \in SubAgentMaps(s.subs)}

-----------------------------------------------------------------------------
(* util.go and the mutate functions                                          *)

Empty == [k \in {} |-> None]

SelectorLabels == [app |-> Self]
ManagedLabels(s) == [app |-> Self, framework |-> s.framework]

\* Mistake: the user's pod labels come last.
PodLabelsOverSelector(s) == s.pod.labels ++ SelectorLabels ++ s.common.labels

PodLabels(s) == SelectorLabels ++ s.pod.labels ++ s.common.labels
PodAnnotations(s) == s.pod.annotations ++ s.common.annotations

\* Mistake: the labels are replaced.
OwnMetadataOnly(old, common, managed) ==
  [labels |-> managed ++ common.labels, annotations |-> common.annotations]

\* applyCommonMetadataToObjectMeta and the managed labels on top of it: only ever
\* adds to what the object has.
ObjectMetadata(old, common, managed) ==
  [labels |-> managed ++ common.labels ++ old.labels,
   annotations |-> common.annotations ++ old.annotations]

\* The object CreateOrUpdate hands to the mutate function when there is none yet
NewDeployment ==
  [selector |-> SelectorLabels,
   meta |-> [labels |-> Empty, annotations |-> Empty],
   template |-> [labels |-> Empty, annotations |-> Empty, volumes |-> <<>>,
                agent |-> Nothing, sidecars |-> {}, pod |-> None],
   replicas |-> 0]

\* What the mutate function never sets: fields of the agent container such as its command,
\* the other containers, and init containers and what else a pod has.
Unset(t) ==
  [command |-> IF t.agent = Nothing THEN None ELSE t.agent.command,
   sidecars |-> t.sidecars, pod |-> t.pod]

\* Mistake: labels and annotations are added to those the template has.
TemplateKeepsMetadata(old, s, env) ==
  [labels |-> PodLabels(s) ++ old.labels,
   annotations |-> PodAnnotations(s) ++ old.annotations,
   volumes |-> s.storage.volumes,
   agent |-> [env |-> env, ports |-> s.protocols, mounts |-> s.storage.mounts,
             command |-> Unset(old).command],
   sidecars |-> old.sidecars, pod |-> old.pod]

\* The pod template is changed in place: what it sets is replaced as a whole, what it does
\* not set stays.  A template without an agent container gets one.  (The image, the readiness
\* probe, envFrom and the resources are set like the ports.)
Template(old, s, env) ==
  [labels |-> PodLabels(s), annotations |-> PodAnnotations(s),
   volumes |-> s.storage.volumes,
   agent |-> [env |-> env, ports |-> s.protocols, mounts |-> s.storage.mounts,
             command |-> Unset(old).command],
   sidecars |-> old.sidecars, pod |-> old.pod]

\* The Deployments the mutate function may leave, given the stored one
MutatedDeployments(stored, s, g) ==
  LET old == IF stored = Nothing THEN NewDeployment ELSE stored IN
  {[old EXCEPT !.meta = ObjectMetadata(old.meta, s.common, ManagedLabels(s)),
               !.template = Template(old.template, s, env),
               !.replicas = IF s.replicas = None THEN @ ELSE s.replicas] :
     env \in Environments(s, g)}

\* Without protocols there is no Service.
MutatedService(stored, s) ==
  IF s.protocols = <<>> THEN Nothing
  ELSE [selector |-> SelectorLabels, ports |-> s.protocols,
        meta |-> ObjectMetadata(IF stored = Nothing THEN NewDeployment.meta ELSE stored.meta,
                                s.common, SelectorLabels)]

-----------------------------------------------------------------------------
Init ==
  /\ spec = FirstSpec /\ gateway \in Gateways \cup {None}
  /\ deployment \in Adoptable \cup {Nothing} /\ service = Nothing
  /\ theirs = Unset((IF deployment = Nothing THEN NewDeployment ELSE deployment).template)
  /\ basis = Nothing /\ outcome = "none"
  /\ spent = [edits |-> 0, foreign |-> 0]

\* A user changes one field of the spec, or a reference publishes another URL.
Edit(f, v) ==
  /\ spent.edits < MaxEdits /\ spent' = [spent EXCEPT !.edits = @ + 1]
  /\ spec[f] # v
  /\ spec' = [spec EXCEPT ![f] = v]
  /\ outcome' = "none"
  /\ UNCHANGED <<gateway, deployment, service, basis, theirs>>

ChangeGateway(g) ==
  /\ spent.edits < MaxEdits /\ spent' = [spent EXCEPT !.edits = @ + 1]
  /\ gateway # g
  /\ gateway' = g
  /\ outcome' = "none"
  /\ UNCHANGED <<spec, deployment, service, basis, theirs>>

\* Somebody else writes the Deployment, and the API server accepts it.
Foreign(d) ==
  /\ spent.foreign < MaxForeign /\ spent' = [spent EXCEPT !.foreign = @ + 1]
  /\ deployment # Nothing /\ d # deployment
  /\ d # Nothing => Valid(d)
  /\ deployment' = d
  /\ theirs' = Unset((IF d = Nothing THEN NewDeployment ELSE d).template)
  /\ basis' = Nothing /\ outcome' = "none"
  /\ UNCHANGED <<spec, gateway, service>>

Added(m) == [k \in {m[1]} |-> m[2]]

PutLabel(m) == Foreign([deployment EXCEPT !.meta.labels = Added(m) ++ @])
RolloutRestart == Foreign([deployment EXCEPT !.template.annotations = RestartMark ++ @])
Scale(n) == Foreign([deployment EXCEPT !.replicas = n])
SetPod(p) == Foreign([deployment EXCEPT !.template.pod = p])
Remove == Foreign(Nothing)

\* A sidecar brings its volume, unless the pod has one of that name.
Inject(c) ==
  LET volumes == deployment.template.volumes IN
  Foreign([deployment EXCEPT
             !.template = [@ EXCEPT
               !.sidecars = @ \cup {c},
               !.volumes = IF Mount[c] \in Range(volumes) \cup {None} THEN @
                           ELSE Append(@, Mount[c])]])

HasAgentContainer == deployment # Nothing /\ deployment.template.agent # Nothing

\* Others change the agent container, where the operator sets something or where not.
SetVariable(m) ==
  /\ HasAgentContainer
  /\ Foreign([deployment EXCEPT !.template.agent.env = Added(m) ++ @])
SetCommand(c) ==
  /\ HasAgentContainer
  /\ Foreign([deployment EXCEPT !.template.agent.command = c])

\* ensureDeployment, and unless the API server refuses its write ensureService, which may be
\* refused as well.
Reconcile ==
  /\ \E d \in MutatedDeployments(deployment, spec, gateway) :
       \/ /\ ~Valid(d)
          /\ outcome' = "deployment refused"
          /\ UNCHANGED <<deployment, service, basis>>
       \/ /\ Valid(d)
          /\ deployment' = d /\ basis' = Inputs
          /\ LET v == MutatedService(service, spec) IN
             \/ /\ v # Nothing => ValidService(v)
                /\ service' = v /\ outcome' = "ready"
             \/ /\ v # Nothing /\ ~ValidService(v)
                /\ service' = service /\ outcome' = "service refused"
  /\ UNCHANGED <<spec, gateway, theirs, spent>>

Next ==
  \/ \E f \in DOMAIN Choices : \E v \in Choices[f] : Edit(f, v)
  \/ \E g \in Gateways \cup {None} : ChangeGateway(g)
  \/ \E m \in Marks : PutLabel(m) \/ SetVariable(m)
  \/ RolloutRestart
  \/ \E c \in Sidecars : Inject(c)
  \/ \E c \in Commands : SetCommand(c)
  \/ \E p \in PodParts : SetPod(p)
  \/ \E n \in Scales : Scale(n)
  \/ Remove
  \/ Reconcile

Spec == Init /\ [][Next]_vars

-----------------------------------------------------------------------------
(* Properties                                                                *)

\* The variables the agent images read unconditionally
AlwaysSet == {"AGENT_NAME", "AGENT_MODEL", "OTEL_SEMCONV_STABILITY_OPT_IN",
              "OTEL_SERVICE_NAME", "SUB_AGENTS", "AGENT_TOOLS"}

\* What the mutate function sets
Assigned(t) ==
  [labels |-> t.labels, annotations |-> t.annotations, volumes |-> t.volumes,
   env |-> t.agent.env, ports |-> t.agent.ports, mounts |-> t.agent.mounts]

\* The pod template has no past but others': what the operator sets is what a Deployment
\* created just now would have, whatever earlier specs, gateways, adoption or other writers
\* left there (so the mark of `kubectl rollout restart` goes), and the rest is as others last
\* left it, through any number of reconciles (so their containers and commands stay, also in a
\* Deployment that was adopted).
OursAndTheirs ==
  basis # Nothing =>
    /\ \E d \in MutatedDeployments(Nothing, basis.spec, basis.gateway) :
         Assigned(deployment.template) = Assigned(d.template)
    /\ Unset(deployment.template) = theirs

\* Sub-agents of different names whose variable keys are the same
Collide(subs) ==
  \E i, j \in DOMAIN subs : /\ subs[i].name # subs[j].name
                            /\ sanitizeAgentName(subs[i].name) = sanitizeAgentName(subs[j].name)

\* A reconcile of unchanged inputs changes nothing: no Agent is rolled out again
\* because maps are ranged over in another order, unless the names of its sub-agents
\* collide.
NoSpuriousRollout ==
  [][basis = Inputs /\ basis' = Inputs' /\ ~Collide(spec.subs)
     => UNCHANGED <<deployment, service>>]_vars

UserSets(s, n) == \E i \in DOMAIN s.env : s.env[i].name = n

UserWins(s, env) ==
  \A i \in DOMAIN s.env : LastOfName(s.env, i) => env[s.env[i].name] = s.env[i].value

SubAgentsSeen(s, env) ==
  /\ \A i \in DOMAIN s.subs :
       (\A j \in DOMAIN s.subs \ {i} :
          sanitizeAgentName(s.subs[j].name) # sanitizeAgentName(s.subs[i].name))
       => env.SUB_AGENTS[sanitizeAgentName(s.subs[i].name)] = s.subs[i].value
  /\ \A k \in DOMAIN env.SUB_AGENTS : k # <<>> /\ Head(k) \notin Digits

ToolsSeen(s, env) ==
  \A i \in DOMAIN s.tools :
    (\A j \in DOMAIN s.tools \ {i} : s.tools[j].name # s.tools[i].name)
    => env.AGENT_TOOLS[s.tools[i].name] = s.tools[i].value

\* What the container of an Agent sees: all the variables it relies on; the user's last
\* value of each variable the user sets; otherwise each reference that shares its key
\* with no other one, under a key that is a variable name.
ContainerSees ==
  basis # Nothing =>
    LET s == basis.spec
        env == deployment.template.agent.env
    IN /\ AlwaysSet \subseteq DOMAIN env
       /\ UserWins(s, env)
       /\ ~UserSets(s, "SUB_AGENTS") => SubAgentsSeen(s, env)
       /\ ~UserSets(s, "AGENT_TOOLS") => ToolsSeen(s, env)

\* What a user has to get right, because neither defaulting nor validation sees to it: formats,
\* a name and a path of its own for each port, mount and volume.
WellFormed(s) ==
  /\ Self \notin Malformed /\ s.framework \notin Malformed
  /\ CleanMetadata(s.common) /\ CleanMetadata(s.pod)
  /\ \A i \in DOMAIN s.env : s.env[i].name \notin Malformed
  /\ CleanNames(Named(s.protocols)) /\ CleanNames(s.storage.volumes)
  /\ CleanMounts(s.storage.mounts)

\* A Deployment that was there before has a selector of its own, or the operator drops the
\* volume of a sidecar.
Obstructed(d, s) ==
  /\ d # Nothing
  /\ \/ ~Selects(d.selector, SelectorLabels)
     \/ \E c \in d.template.sidecars : Mount[c] \notin Range(s.storage.volumes) \cup {None}

\* Nothing the operator generates or merges, and nothing it leaves on the objects, makes the
\* API server refuse them: where it does, the spec as it is now breaks a rule by itself, or
\* others are in the way.  And whatever was refused, a Service selects the pods there are.
RefusalsHaveCauses ==
  /\ outcome = "deployment refused" => ~WellFormed(spec) \/ Obstructed(deployment, spec)
  /\ outcome = "service refused" =>
       \/ ~WellFormed(spec)
       \/ ~IsInjective([i \in DOMAIN spec.protocols |-> spec.protocols[i].port])
  /\ service # Nothing /\ basis # Nothing => Selects(service.selector, deployment.template.labels)

\* A reconcile leaves what belongs to others: labels it does not set, containers, and
\* the number of replicas while the spec names none.
OthersAreKept ==
  [][Reconcile /\ deployment # Nothing =>
       LET Own == DOMAIN ManagedLabels(spec) \cup DOMAIN spec.common.labels IN
       /\ \A k \in DOMAIN deployment.meta.labels \ Own :
            k \in DOMAIN deployment'.meta.labels
              /\ deployment'.meta.labels[k] = deployment.meta.labels[k]
       /\ deployment'.template.sidecars = deployment.template.sidecars
       /\ spec.replicas = None => deployment'.replicas = deployment.replicas]_vars
=============================================================================
