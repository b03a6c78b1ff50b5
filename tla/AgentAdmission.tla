--------------------------- MODULE AgentAdmission ---------------------------
(***************************************************************************)
(* Admission of Agents (internal/webhook/v1alpha1/agent_webhook.go): every *)
(* create and update passes applyDefaults and then validateAgent, and is   *)
(* stored or rejected as a whole.  What is stored is the contract of the   *)
(* controller, which relies on it without checking again (getTemplateImage,*)
(* resolveSubAgentUrl, resolveToolUrl, the ports of Deployment and         *)
(* Service).  An AgentRuntimeConfiguration may change at any time after an *)
(* Agent was admitted.                                                     *)
(***************************************************************************)
EXTENDS Naturals, Sequences, SequencesExt

CONSTANTS
  None,              \* no Agent stored, replicas not set
  Images,            \* custom images
  Texts,             \* names of protocols, "" if not set
  ReplicaChoices,    \* replicas users ask for, or None
  ProtocolChoices,   \* lists of protocols users ask for
  SubAgentChoices,   \* sets of sub-agents users ask for
  ToolChoices,       \* sets of tools users ask for
  VolumeChoices,     \* sets of volume names users ask for
  MountChoices,      \* lists of volume mounts users ask for
  DefaultReplicas, DefaultPort

Frameworks == {"", "google-adk", "msaf", "custom"}   \* CRD enum, "" if not set
TemplateFrameworks == {"google-adk", "msaf"}

\* A name is a text and the port it was generated for (0: the user's own text).
NameType == [text : Texts, port : Nat]
NoName == [text |-> "", port |-> 0]

\* A protocol: its name and its port, 0 if not set
ProtocolType == [name : NameType, port : Nat]

\* A sub-agent: its agentRef (absent, without a name, or named) and its url
SubAgentType == [ref : {"absent", "unnamed", "named"},
                 url : {"", "http", "no-host", "other-scheme"}]

\* A tool; the CRD's rule makes the upstream exactly one of three kinds.
ToolType == [upstream : {"toolRouteRef", "toolServerRef", "external"}, named : BOOLEAN]

\* A mount path after filepath.Clean: its segments, none for "/"
Root == <<>>
MountType == [volume : STRING, path : Seq(STRING)]

\* The spec of an Agent as far as admission looks at it
SpecType ==
  [framework : Frameworks, image : Images \cup {""}, replicas : Nat \cup {None},
   protocols : Seq(ProtocolType), subs : SUBSET SubAgentType, tools : SUBSET ToolType,
   volumes : SUBSET STRING, mounts : Seq(MountType)]

ASSUME AdmissionAssumption ==
  /\ DefaultReplicas \in Nat /\ DefaultPort \in Nat \ {0}
  /\ "" \notin Images /\ {"", "a2a"} \subseteq Texts
  /\ None \notin Nat
  /\ ReplicaChoices \subseteq Nat \cup {None}
  /\ ProtocolChoices \subseteq Seq(ProtocolType)
  /\ SubAgentChoices \subseteq SUBSET SubAgentType
  /\ ToolChoices \subseteq SUBSET ToolType
  /\ VolumeChoices \subseteq SUBSET STRING
  /\ MountChoices \subseteq Seq(MountType)

VARIABLES
  stored,     \* the Agent's spec in the API server, None when there is none
  request,    \* the spec that was submitted when stored was last written
  config      \* the AgentRuntimeConfiguration's default framework and images

vars == <<stored, request, config>>

-----------------------------------------------------------------------------
(* Defaulting                                                                *)

DefaultProtocols == <<[name |-> NoName, port |-> 0]>>

\* Mistake: the default port replaces the user's.
AlwaysDefaultPort(p) ==
  [name |-> IF p.name = NoName THEN [text |-> "a2a", port |-> DefaultPort] ELSE p.name,
   port |-> DefaultPort]

\* Mistake: only the name is defaulted.
DefaultNameOnly(p) ==
  [p EXCEPT !.name = IF @ = NoName THEN [text |-> "a2a", port |-> p.port] ELSE @]

\* A missing port becomes the default one, a missing name tells the type (A2A is
\* the only one) and the port.
DefaultProtocol(p) ==
  LET port == IF p.port = 0 THEN DefaultPort ELSE p.port IN
  [name |-> IF p.name = NoName THEN [text |-> "a2a", port |-> port] ELSE p.name,
   port |-> port]

DefaultAll(ps) == [i \in DOMAIN ps |-> DefaultProtocol(ps[i])]

\* Mistake: the default protocol is added to every list.
AddDefaultProtocol(s) ==
  [s EXCEPT !.replicas = IF @ = None THEN DefaultReplicas ELSE @,
            !.protocols = DefaultAll(@ \o DefaultProtocols)]

\* The framework is left alone: the controller resolves it.
applyDefaults(s) ==
  [s EXCEPT !.replicas = IF @ = None THEN DefaultReplicas ELSE @,
            !.protocols = DefaultAll(IF @ = <<>> THEN DefaultProtocols ELSE @)]

-----------------------------------------------------------------------------
(* Validation                                                                *)

\* Mistake: an Agent without an image is taken for a template agent.
AnyFramework(s) == TRUE

ValidFramework(s) ==
  s.framework # "" /\ s.image = "" => s.framework \in TemplateFrameworks

\* Mistake: only the combination of both is refused.
NotBoth(sub) ==
  /\ sub.ref # "absent" => sub.url = ""
  /\ sub.ref # "unnamed"
  /\ sub.url \in {"", "http"}

\* Exactly one of agentRef and url; a reference has a name, a url is HTTP(S) with
\* a host.
validateSubAgent(sub) ==
  /\ (sub.ref # "absent") # (sub.url # "")
  /\ sub.ref # "unnamed"
  /\ sub.url \in {"", "http"}

validateTool(t) == t.upstream # "external" => t.named

\* path2 + "/" starts with path1 + "/"; the text of the root is "/" itself, and
\* no path starts with "//".
NestedUnder(path2, path1) ==
  path1 # Root /\ path1 # path2 /\ IsPrefix(path1, path2)

\* Mistake: a parent is only looked for before its child.
NestedLater(m) ==
  \E i, j \in DOMAIN m : i < j /\ NestedUnder(m[j].path, m[i].path)

Overlapping(m) ==
  \E i, j \in DOMAIN m : i < j /\ \/ NestedUnder(m[j].path, m[i].path)
                                  \/ NestedUnder(m[i].path, m[j].path)

validateVolumeMounts(s) ==
  /\ \A i \in DOMAIN s.mounts : s.mounts[i].volume \in s.volumes
  /\ ~Overlapping(s.mounts)

validateAgent(s) ==
  /\ ValidFramework(s)
  /\ \A sub \in s.subs : validateSubAgent(sub)
  /\ \A t \in s.tools : validateTool(t)
  /\ validateVolumeMounts(s)

-----------------------------------------------------------------------------
EmptySpec == [framework |-> "", image |-> "", replicas |-> None, protocols |-> <<>>,
              subs |-> {}, tools |-> {}, volumes |-> {}, mounts |-> <<>>]

ConfigType == [framework : {"", "google-adk", "msaf"}, images : SUBSET TemplateFrameworks]

Init ==
  /\ stored = None
  /\ request = EmptySpec
  /\ config \in ConfigType

\* The API server calls the defaulting webhook and stores what the validating one
\* lets pass.
Admit(s) ==
  /\ validateAgent(applyDefaults(s))
  /\ stored' = applyDefaults(s)
  /\ request' = s
  /\ UNCHANGED config

\* What a client edits: the new object when there is none, the stored one after.
Base == IF stored = None THEN EmptySpec ELSE stored

SetFramework(f, i) == Admit([Base EXCEPT !.framework = f, !.image = i])
SetReplicas(n) == Admit([Base EXCEPT !.replicas = n])
SetProtocols(ps) == Admit([Base EXCEPT !.protocols = ps])
SetSubAgents(subs) == Admit([Base EXCEPT !.subs = subs])
SetTools(ts) == Admit([Base EXCEPT !.tools = ts])
SetVolumes(vs, m) == Admit([Base EXCEPT !.volumes = vs, !.mounts = m])

\* ValidateDelete lets every delete pass.
Delete ==
  /\ stored # None
  /\ stored' = None
  /\ request' = EmptySpec
  /\ UNCHANGED config

\* The administrator changes the AgentRuntimeConfiguration; no Agent is admitted anew.
Configure(c) == config' = c /\ UNCHANGED <<stored, request>>

Next ==
  \/ \E f \in Frameworks, i \in Images \cup {""} : SetFramework(f, i)
  \/ \E n \in ReplicaChoices : SetReplicas(n)
  \/ \E ps \in ProtocolChoices : SetProtocols(ps)
  \/ \E subs \in SubAgentChoices : SetSubAgents(subs)
  \/ \E ts \in ToolChoices : SetTools(ts)
  \/ \E vs \in VolumeChoices, m \in MountChoices : SetVolumes(vs, m)
  \/ Delete
  \/ \E c \in ConfigType : Configure(c)

Spec == Init /\ [][Next]_vars

-----------------------------------------------------------------------------
(* What the controller makes of an admitted Agent                            *)

resolveEffectiveFramework(s) ==
  IF s.framework # "" THEN s.framework
  ELSE IF config.framework # "" THEN config.framework ELSE "google-adk"

\* Where the image of the container comes from: the user, the configured or built-in
\* template image of the framework, or the fallback for a framework without one
ContainerImage(s) ==
  LET f == resolveEffectiveFramework(s) IN
  IF s.image # "" THEN <<"spec", s.image>>
  ELSE IF f \in config.images THEN <<"configured", f>>
  ELSE IF f \in TemplateFrameworks THEN <<"built-in", f>>
  ELSE <<"fallback", f>>

\* resolveSubAgentUrl: a url wins over a reference
ResolvesTo(sub) ==
  IF sub.url # "" THEN sub.url
  ELSE IF sub.ref = "absent" THEN "error"
  ELSE IF sub.ref = "unnamed" THEN "lookup without a name" ELSE "lookup"

-----------------------------------------------------------------------------
(* Properties                                                                *)

\* Every stored Agent is complete: replicas, at least one protocol, and a port and
\* a name for each protocol (applyDefaults).
TypeOK ==
  /\ config \in ConfigType
  /\ stored # None =>
       /\ stored.framework \in Frameworks /\ stored.image \in Images \cup {""}
       /\ stored.replicas \in Nat
       /\ stored.protocols # <<>>
       /\ \A i \in DOMAIN stored.protocols :
            /\ stored.protocols[i].port \in Nat \ {0}
            /\ stored.protocols[i].name \in NameType \ {NoName}

\* Sending a stored Agent back (a status-free update, a label change, a webhook
\* called again) changes nothing: defaulting never bumps the generation of an Agent
\* that has been through it, so it never starts a rollout of its own.
DefaultsAreStable == stored # None => applyDefaults(stored) = stored

\* Defaults only fill what the user left open: everything the submitted Agent says
\* is stored as it was said (agent_webhook.go:85-112).
DefaultsOnlyFill ==
  stored # None =>
    /\ request.replicas \in {None, stored.replicas}
    /\ \A i \in DOMAIN request.protocols :
         /\ request.protocols[i].port \in {0, stored.protocols[i].port}
         /\ request.protocols[i].name \in {NoName, stored.protocols[i].name}
    /\ [request EXCEPT !.replicas = stored.replicas, !.protocols = stored.protocols] = stored

\* No default framework an administrator sets later makes an admitted Agent end up
\* with the fallback image (getTemplateImage: "This shouldn't be reached due to
\* validation").
FallbackUnreachable == stored # None => ContainerImage(stored)[1] # "fallback"

\* For an admitted Agent, resolving a sub-agent either uses an HTTP url or looks up
\* a named Agent, and a url never hides a reference.
ReferencesResolve ==
  stored # None =>
    \A sub \in stored.subs :
      /\ ResolvesTo(sub) \in {"http", "lookup"}
      /\ sub.url # "" => sub.ref = "absent"

Covers(path1, path2) == path1 # path2 /\ IsPrefix(path1, path2)

\* No mount of an admitted Agent hides another one: neither is inside the other, in
\* whatever order they are listed, the root apart.
MountsAreDisjoint ==
  stored # None =>
    \A i, j \in DOMAIN stored.mounts :
      stored.mounts[i].path # Root => ~Covers(stored.mounts[i].path, stored.mounts[j].path)
=============================================================================
