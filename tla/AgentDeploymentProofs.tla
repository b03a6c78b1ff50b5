------------------------ MODULE AgentDeploymentProofs ------------------------
(***************************************************************************)
(* Proofs about what the Agent controller writes into Deployment and       *)
(* Service, for any specs, gateways, Deployments found and foreign edits.  *)
(***************************************************************************)
EXTENDS AgentDeployment, TLAPS

-----------------------------------------------------------------------------
(* Maps                                                                      *)

LEMMA OverrideValue ==
  ASSUME NEW f, NEW g, NEW k \in DOMAIN f \cup DOMAIN g
  PROVE  (f ++ g)[k] = IF k \in DOMAIN f THEN f[k] ELSE g[k]
  BY DEF ++

LEMMA OverrideDomain ==
  ASSUME NEW f, NEW g
  PROVE  DOMAIN (f ++ g) = DOMAIN f \cup DOMAIN g
  BY DEF ++

\* Putting f over something it is already over changes nothing.
LEMMA OverrideAgain ==
  ASSUME NEW f, NEW g
  PROVE  f ++ (f ++ g) = f ++ g
  BY DEF ++

\* Nor does it when f is itself an override.
LEMMA OverrideTwiceAgain ==
  ASSUME NEW f, NEW g, NEW h
  PROVE  f ++ g ++ (f ++ g ++ h) = f ++ g ++ h
<1>1. (f ++ g) ++ ((f ++ g) ++ h) = (f ++ g) ++ h
  <2> DEFINE fg == f ++ g
  <2> HIDE DEF fg
  <2>1. fg ++ (fg ++ h) = fg ++ h
    BY OverrideAgain
  <2>2. QED
    BY <2>1 DEF fg
<1>2. QED
  BY <1>1

-----------------------------------------------------------------------------
(* Lists and names                                                           *)

LEMMA ListDomain ==
  ASSUME NEW l, IsList(l)
  PROVE  Len(l) \in Nat /\ DOMAIN l = 1 .. Len(l)
  BY DEF IsList

\* The value of a name is that of the entry that is the last one of its name.
LEMMA LastOfEachNameValue ==
  ASSUME NEW list, IsList(list), NEW i \in DOMAIN list, LastOfName(list, i)
  PROVE  /\ list[i].name \in DOMAIN LastOfEachName(list)
         /\ LastOfEachName(list)[list[i].name] = list[i].value
<1> DEFINE n == list[i].name
           P(j) == list[j].name = n /\ LastOfName(list, j)
           c == CHOOSE j \in DOMAIN list : P(j)
<1>1. /\ n \in DOMAIN LastOfEachName(list)
      /\ LastOfEachName(list)[n] = list[c].value
  BY DEF LastOfEachName
<1>2. c \in DOMAIN list /\ P(c)
  <2>1. \E j \in DOMAIN list : P(j)
    OBVIOUS
  <2>2. QED
    BY <2>1
<1>3. c = i
  <2> HIDE DEF c
  <2>1. /\ Len(list) \in Nat /\ DOMAIN list = 1 .. Len(list)
        /\ i \in 1 .. Len(list) /\ c \in 1 .. Len(list)
    BY <1>2, ListDomain
  <2>2. ~(c < i)
    BY <1>2, <2>1 DEF LastOfName
  <2>3. ~(i < c)
    BY <1>2, <2>1 DEF LastOfName
  <2>4. QED
    BY <2>1, <2>2, <2>3
<1>4. QED
  BY <1>1, <1>3

LEMMA LastOfEachNameDomain ==
  ASSUME NEW list
  PROVE  DOMAIN LastOfEachName(list) = {list[i].name : i \in DOMAIN list}
  BY DEF LastOfEachName

LEMMA PrefixHead ==
  ASSUME NEW S, NEW r \in Seq(S), NEW u
  PROVE  <<u>> \o r # <<>> /\ Head(<<u>> \o r) = u
<1> DEFINE U == S \cup {u}
           q == <<u>> \o r
<1>1. <<u>> \in Seq(U) /\ r \in Seq(U)
  OBVIOUS
<1>2. q \in Seq(U) /\ Len(q) = 1 + Len(r) /\ q[1] = u
  BY <1>1
<1>3. Len(q) # 0
  BY <1>2
<1> HIDE DEF q, U
<1>4. q # <<>> /\ Head(q) = u
  BY <1>2, <1>3
<1>5. QED
  BY <1>4 DEF q

\* A sanitized name is a variable name as far as its first character goes.
LEMMA SanitizedStart ==
  ASSUME NEW name, IsList(name)
  PROVE  /\ sanitizeAgentName(name) # <<>>
         /\ Head(sanitizeAgentName(name)) \notin Digits
<1> DEFINE replaced == [i \in DOMAIN name |->
                          IF name[i] \in Letters \cup Digits THEN name[i] ELSE "_"]
<1>1. CASE name = <<>>
  <2>1. sanitizeAgentName(name) = <<"agent">>
    BY <1>1 DEF sanitizeAgentName
  <2>2. <<"agent">> # <<>> /\ Head(<<"agent">>) = "agent"
    OBVIOUS
  <2>3. QED
    BY <2>1, <2>2, DigitsAssumption
<1>2. CASE name # <<>>
  <2>1. /\ Len(name) \in Nat \ {0} /\ DOMAIN name = 1 .. Len(name)
    BY <1>2, ListDomain DEF IsList
  <2> DEFINE S == {replaced[i] : i \in DOMAIN name}
  <2>2. replaced \in Seq(S) /\ Len(replaced) = Len(name)
    <3>1. DOMAIN replaced = 1 .. Len(name) /\ \A i \in 1 .. Len(name) : replaced[i] \in S
      BY <2>1
    <3>2. replaced = [i \in 1 .. Len(name) |-> replaced[i]]
      BY <2>1
    <3> HIDE DEF replaced, S
    <3>3. replaced \in [1 .. Len(name) -> S]
      BY <3>1, <3>2
    <3>4. QED
      BY <2>1, <3>3
  <2>3. replaced # <<>>
    BY <2>1, <2>2
  <2>4. sanitizeAgentName(name)
          = IF Head(replaced) \in Digits THEN <<"_">> \o replaced ELSE replaced
    BY <1>2 DEF sanitizeAgentName
  <2> HIDE DEF replaced, S
  <2>5. CASE Head(replaced) \in Digits
    <3>1. <<"_">> \o replaced # <<>> /\ Head(<<"_">> \o replaced) = "_"
      BY <2>2, PrefixHead
    <3>2. QED
      BY <2>4, <2>5, <3>1, DigitsAssumption
  <2>6. CASE Head(replaced) \notin Digits
    BY <2>3, <2>4, <2>6
  <2>7. QED
    BY <2>5, <2>6
<1>3. QED
  BY <1>1, <1>2

-----------------------------------------------------------------------------
(* The environment                                                           *)

LEMMA SubAgentMapsDomain ==
  ASSUME NEW subs, NEW m \in SubAgentMaps(subs)
  PROVE  DOMAIN m = {sanitizeAgentName(subs[i].name) : i \in DOMAIN subs}
<1> DEFINE resolved == LastOfEachName(subs)
           Keys == {sanitizeAgentName(n) : n \in DOMAIN resolved}
<1>1. DOMAIN m = Keys
  BY DEF SubAgentMaps
<1>2. DOMAIN resolved = {subs[i].name : i \in DOMAIN subs}
  BY LastOfEachNameDomain
<1> HIDE DEF resolved
<1>3. Keys = {sanitizeAgentName(subs[i].name) : i \in DOMAIN subs}
  BY <1>2
<1>4. QED
  BY <1>1, <1>3

\* Each map takes the value of every key from a sub-agent of that key.
LEMMA SubAgentMapsPick ==
  ASSUME NEW subs, NEW m \in SubAgentMaps(subs), NEW k \in DOMAIN m
  PROVE  \E i \in DOMAIN subs : /\ sanitizeAgentName(subs[i].name) = k
                                /\ m[k] = LastOfEachName(subs)[subs[i].name]
<1> DEFINE resolved == LastOfEachName(subs)
           Keys == {sanitizeAgentName(n) : n \in DOMAIN resolved}
<1>1. PICK pick \in {p \in [Keys -> DOMAIN resolved] :
                       \A key \in Keys : sanitizeAgentName(p[key]) = key} :
        m = [key \in Keys |-> resolved[pick[key]]]
  BY DEF SubAgentMaps
<1> HIDE DEF resolved, Keys
<1>2. k \in Keys /\ m[k] = resolved[pick[k]] /\ sanitizeAgentName(pick[k]) = k
  BY <1>1
<1>3. pick[k] \in DOMAIN resolved
  BY <1>1, <1>2
<1>4. PICK i \in DOMAIN subs : pick[k] = subs[i].name
  <2>1. DOMAIN resolved = {subs[i].name : i \in DOMAIN subs}
    BY LastOfEachNameDomain DEF resolved
  <2>2. QED
    BY <1>3, <2>1
<1>5. QED
  BY <1>2, <1>4 DEF resolved

\* A sub-agent that shares its key with no other one is found under it.
LEMMA AloneIsSeen ==
  ASSUME NEW subs, IsList(subs), NEW m \in SubAgentMaps(subs), NEW i \in DOMAIN subs,
         \A j \in DOMAIN subs \ {i} :
           sanitizeAgentName(subs[j].name) # sanitizeAgentName(subs[i].name)
  PROVE  m[sanitizeAgentName(subs[i].name)] = subs[i].value
<1> DEFINE k == sanitizeAgentName(subs[i].name)
<1>1. k \in DOMAIN m
  BY SubAgentMapsDomain
<1>2. PICK j \in DOMAIN subs : /\ sanitizeAgentName(subs[j].name) = k
                               /\ m[k] = LastOfEachName(subs)[subs[j].name]
  BY <1>1, SubAgentMapsPick
<1>3. j = i
  BY <1>2
<1>4. LastOfName(subs, i)
  <2>1. \A l \in i + 1 .. Len(subs) : l \in DOMAIN subs \ {i}
    BY ListDomain
  <2>2. QED
    BY <2>1 DEF LastOfName
<1>5. QED
  BY <1>2, <1>3, <1>4, LastOfEachNameValue

\* Ranging over the map in another order only shows where names collide.
LEMMA OneSubAgentMap ==
  ASSUME NEW subs, ~Collide(subs), NEW m1 \in SubAgentMaps(subs),
         NEW m2 \in SubAgentMaps(subs)
  PROVE  m1 = m2
<1>1. DOMAIN m1 = DOMAIN m2
  BY SubAgentMapsDomain
<1>2. ASSUME NEW k \in DOMAIN m1 PROVE m1[k] = m2[k]
  <2>1. PICK i \in DOMAIN subs : /\ sanitizeAgentName(subs[i].name) = k
                                 /\ m1[k] = LastOfEachName(subs)[subs[i].name]
    BY SubAgentMapsPick
  <2>2. PICK j \in DOMAIN subs : /\ sanitizeAgentName(subs[j].name) = k
                                 /\ m2[k] = LastOfEachName(subs)[subs[j].name]
    BY <1>1, SubAgentMapsPick
  <2>3. subs[i].name = subs[j].name
    BY <2>1, <2>2 DEF Collide
  <2>4. QED
    BY <2>1, <2>2, <2>3
<1>3. m1 = [k \in DOMAIN m1 |-> m1[k]] /\ m2 = [k \in DOMAIN m2 |-> m2[k]]
  BY DEF SubAgentMaps
<1>4. QED
  BY <1>1, <1>2, <1>3

\* The environment is determined by spec and gateway unless names collide.
LEMMA OneEnvironment ==
  ASSUME NEW s, NEW g, ~Collide(s.subs), NEW e1 \in Environments(s, g),
         NEW e2 \in Environments(s, g)
  PROVE  e1 = e2
<1>1. PICK m1 \in SubAgentMaps(s.subs) :
        e1 = mergeEnvironmentVariables(buildTemplateEnvironmentVars(s, g, m1), s.env)
  BY DEF Environments
<1>2. PICK m2 \in SubAgentMaps(s.subs) :
        e2 = mergeEnvironmentVariables(buildTemplateEnvironmentVars(s, g, m2), s.env)
  BY DEF Environments
<1>3. m1 = m2
  BY OneSubAgentMap
<1>4. QED
  BY <1>1, <1>2, <1>3

\* The template's variables that are always set
LEMMA TemplateVariables ==
  ASSUME NEW s, NEW g, NEW m
  PROVE  LET t == buildTemplateEnvironmentVars(s, g, m) IN
         /\ AlwaysSet \subseteq DOMAIN t /\ DOMAIN t \subseteq OwnNames
         /\ t["SUB_AGENTS"] = m
         /\ t["AGENT_TOOLS"] = LastOfEachName(s.tools)
<1> DEFINE base == [AGENT_NAME |-> sanitizeAgentName(Self), AGENT_MODEL |-> s.model,
                    OTEL_SEMCONV_STABILITY_OPT_IN |-> "gen_ai_latest_experimental",
                    OTEL_SERVICE_NAME |-> Self,
                    SUB_AGENTS |-> m, AGENT_TOOLS |-> LastOfEachName(s.tools)]
           a2a == IF s.protocols = <<>> THEN <<>>
                  ELSE [AGENT_A2A_RPC_URL |-> <<Self, s.protocols[1].port>>]
           proxy == IF g = None THEN <<>>
                    ELSE [LITELLM_PROXY_API_BASE |-> g, LITELLM_PROXY_API_KEY |-> Self,
                          USE_LITELLM_PROXY |-> "True"]
<1>1. buildTemplateEnvironmentVars(s, g, m) = base ++ a2a ++ proxy
  BY DEF buildTemplateEnvironmentVars
<1>2. /\ DOMAIN base = AlwaysSet
      /\ base["SUB_AGENTS"] = m /\ base["AGENT_TOOLS"] = LastOfEachName(s.tools)
      /\ "SUB_AGENTS" \in AlwaysSet /\ "AGENT_TOOLS" \in AlwaysSet
  BY DEF AlwaysSet
<1>5. /\ DOMAIN base \subseteq OwnNames
      /\ DOMAIN a2a \subseteq OwnNames /\ DOMAIN proxy \subseteq OwnNames
  BY DEF OwnNames
<1> HIDE DEF base, a2a, proxy
<1>3. /\ DOMAIN (base ++ a2a ++ proxy) = DOMAIN base \cup DOMAIN a2a \cup DOMAIN proxy
      /\ \A k \in DOMAIN base : (base ++ a2a ++ proxy)[k] = base[k]
  BY DEF ++
<1>4. QED
  BY <1>1, <1>2, <1>3, <1>5

\* What an environment holds: the variables that are always set, the user's, and the
\* template's where the user sets none.
LEMMA EnvironmentHolds ==
  ASSUME NEW s, NEW g, NEW e \in Environments(s, g)
  PROVE  \E m \in SubAgentMaps(s.subs) :
           /\ AlwaysSet \subseteq DOMAIN e
           /\ \A k \in DOMAIN e : k \in OwnNames \/ UserSets(s, k)
           /\ \A k \in DOMAIN LastOfEachName(s.env) : e[k] = LastOfEachName(s.env)[k]
           /\ ~UserSets(s, "SUB_AGENTS") => e["SUB_AGENTS"] = m
           /\ ~UserSets(s, "AGENT_TOOLS") => e["AGENT_TOOLS"] = LastOfEachName(s.tools)
<1>1. PICK m \in SubAgentMaps(s.subs) :
        e = mergeEnvironmentVariables(buildTemplateEnvironmentVars(s, g, m), s.env)
  BY DEF Environments
<1> DEFINE t == buildTemplateEnvironmentVars(s, g, m)
           u == LastOfEachName(s.env)
<1>2. e = u ++ t
  BY <1>1 DEF mergeEnvironmentVariables
<1>3. /\ AlwaysSet \subseteq DOMAIN t /\ DOMAIN t \subseteq OwnNames
      /\ t["SUB_AGENTS"] = m /\ t["AGENT_TOOLS"] = LastOfEachName(s.tools)
      /\ "SUB_AGENTS" \in AlwaysSet /\ "AGENT_TOOLS" \in AlwaysSet
  BY TemplateVariables DEF AlwaysSet
<1>4. \A n : n \in DOMAIN u <=> UserSets(s, n)
  BY LastOfEachNameDomain DEF UserSets
<1> HIDE DEF t, u
<1>5. /\ DOMAIN (u ++ t) = DOMAIN u \cup DOMAIN t
      /\ \A k \in DOMAIN u : (u ++ t)[k] = u[k]
      /\ \A k \in DOMAIN t \ DOMAIN u : (u ++ t)[k] = t[k]
  BY DEF ++
<1>6. /\ AlwaysSet \subseteq DOMAIN e
      /\ \A k \in DOMAIN e : k \in OwnNames \/ UserSets(s, k)
      /\ \A k \in DOMAIN u : e[k] = u[k]
      /\ ~UserSets(s, "SUB_AGENTS") => e["SUB_AGENTS"] = m
      /\ ~UserSets(s, "AGENT_TOOLS") => e["AGENT_TOOLS"] = LastOfEachName(s.tools)
  BY <1>2, <1>3, <1>4, <1>5
<1>7. QED
  BY <1>6 DEF u
-----------------------------------------------------------------------------
(* What a write leaves                                                       *)

Old(d) == IF d = Nothing THEN NewDeployment ELSE d

\* Deployment d as a write for spec s leaves it, with environment env
Written(d, s, env) ==
  [selector |-> d.selector,
   meta |-> ObjectMetadata(d.meta, s.common, ManagedLabels(s)),
   template |-> Template(d.template, s, env),
   replicas |-> IF s.replicas = None THEN d.replicas ELSE s.replicas]

LEMMA RecordsAreSomething ==
  /\ \A d : IsDeployment(d) => d # Nothing
  /\ IsDeployment(NewDeployment)
<1>1. ASSUME NEW d, IsDeployment(d) PROVE d # Nothing
  <2>1. "selector" \in DOMAIN d
    BY <1>1 DEF IsDeployment
  <2>2. QED
    BY <2>1 DEF Nothing
<1>2. IsDeployment(NewDeployment)
  BY DEF IsDeployment, NewDeployment
<1>3. QED
  BY <1>1, <1>2

Update(d, m, t, n) ==
  [d EXCEPT !.meta = m, !.template = t, !.replicas = IF n = None THEN @ ELSE n]

LEMMA DeploymentUpdate ==
  ASSUME NEW d, IsDeployment(d), NEW m, NEW t, NEW n
  PROVE  Update(d, m, t, n)
           = [selector |-> d.selector, meta |-> m, template |-> t,
              replicas |-> IF n = None THEN d.replicas ELSE n]
<1> DEFINE d1 == [d EXCEPT !.meta = m]
           d2 == [d1 EXCEPT !.template = t]
           d3 == [d2 EXCEPT !.replicas = IF n = None THEN @ ELSE n]
<1>1. d1 = [selector |-> d.selector, meta |-> m, template |-> d.template,
            replicas |-> d.replicas]
  BY DEF IsDeployment
<1>2. d2 = [selector |-> d.selector, meta |-> m, template |-> t,
            replicas |-> d.replicas]
  <2> HIDE DEF d1
  <2>1. QED
    BY <1>1
<1>3. d3 = [selector |-> d.selector, meta |-> m, template |-> t,
            replicas |-> IF n = None THEN d.replicas ELSE n]
  <2> HIDE DEF d2
  <2>1. QED
    BY <1>2
<1>4. Update(d, m, t, n) = d3
  BY DEF Update
<1>5. QED
  BY <1>3, <1>4

LEMMA MutatedIsWritten ==
  ASSUME NEW d, d # Nothing => IsDeployment(d), NEW s, NEW g
  PROVE  MutatedDeployments(d, s, g) = {Written(Old(d), s, env) : env \in Environments(s, g)}
<1> DEFINE old == Old(d)
<1>1. IsDeployment(old)
  BY RecordsAreSomething DEF Old
<1>2. ASSUME NEW env
      PROVE  [old EXCEPT !.meta = ObjectMetadata(old.meta, s.common, ManagedLabels(s)),
                         !.template = Template(old.template, s, env),
                         !.replicas = IF s.replicas = None THEN @ ELSE s.replicas]
               = Written(old, s, env)
  <2> DEFINE m == ObjectMetadata(old.meta, s.common, ManagedLabels(s))
             t == Template(old.template, s, env)
  <2> HIDE DEF old
  <2>1. Update(old, m, t, s.replicas) = Written(old, s, env)
    BY <1>1, DeploymentUpdate DEF Written
  <2>2. QED
    BY <2>1 DEF Update
<1>3. MutatedDeployments(d, s, g)
        = {[old EXCEPT !.meta = ObjectMetadata(old.meta, s.common, ManagedLabels(s)),
                       !.template = Template(old.template, s, env),
                       !.replicas = IF s.replicas = None THEN @ ELSE s.replicas] :
             env \in Environments(s, g)}
  BY DEF MutatedDeployments, Old
<1>4. \A w : w \in MutatedDeployments(d, s, g)
                <=> \E env \in Environments(s, g) : w = Written(old, s, env)
  BY <1>2, <1>3
<1>5. QED
  BY <1>4

LEMMA WrittenIsDeployment ==
  ASSUME NEW d, NEW s, NEW env
  PROVE  IsDeployment(Written(d, s, env))
  BY DEF Written, IsDeployment

\* Writing metadata again changes nothing.
LEMMA MetadataAgain ==
  ASSUME NEW old, NEW common, NEW managed
  PROVE  LET meta == ObjectMetadata(old, common, managed) IN
         ObjectMetadata(meta, common, managed) = meta
<1> DEFINE meta == ObjectMetadata(old, common, managed)
<1>1. /\ meta.labels = managed ++ common.labels ++ old.labels
      /\ meta.annotations = common.annotations ++ old.annotations
  BY DEF ObjectMetadata
<1>2. managed ++ common.labels ++ meta.labels = meta.labels
  BY <1>1, OverrideTwiceAgain
<1>3. common.annotations ++ meta.annotations = meta.annotations
  BY <1>1, OverrideAgain
<1>4. ObjectMetadata(meta, common, managed)
        = [labels |-> managed ++ common.labels ++ meta.labels,
           annotations |-> common.annotations ++ meta.annotations]
  BY DEF ObjectMetadata
<1>5. meta = [labels |-> meta.labels, annotations |-> meta.annotations]
  BY <1>1 DEF ObjectMetadata
<1> HIDE DEF meta
<1>6. ObjectMetadata(meta, common, managed) = meta
  BY <1>2, <1>3, <1>4, <1>5
<1>7. QED
  BY <1>6 DEF meta

\* The mutate function leaves what it does not set.
LEMMA TemplateLeaves ==
  ASSUME NEW old, NEW s, NEW env
  PROVE  Unset(Template(old, s, env)) = Unset(old)
<1> DEFINE t == Template(old, s, env)
<1>1. "env" \in DOMAIN t.agent
  BY DEF Template
<1>2. t.agent # Nothing
  BY <1>1 DEF Nothing
<1>3. /\ t.agent.command = Unset(old).command
      /\ t.sidecars = old.sidecars /\ t.pod = old.pod
  BY DEF Template
<1> HIDE DEF t
<1>4. Unset(t) = [command |-> t.agent.command, sidecars |-> t.sidecars, pod |-> t.pod]
  BY <1>2 DEF Unset
<1>5. Unset(old) = [command |-> Unset(old).command, sidecars |-> old.sidecars, pod |-> old.pod]
  BY DEF Unset
<1>6. QED
  BY <1>3, <1>4, <1>5 DEF t

\* Writing the template again changes nothing.
LEMMA TemplateAgain ==
  ASSUME NEW old, NEW s, NEW env
  PROVE  Template(Template(old, s, env), s, env) = Template(old, s, env)
<1> DEFINE t == Template(old, s, env)
           Fresh(command, sidecars, pod) ==
             [labels |-> PodLabels(s), annotations |-> PodAnnotations(s),
              volumes |-> s.storage.volumes,
              agent |-> [env |-> env, ports |-> s.protocols, mounts |-> s.storage.mounts,
                        command |-> command],
              sidecars |-> sidecars, pod |-> pod]
<1>1. t = Fresh(Unset(old).command, old.sidecars, old.pod)
  BY DEF Template
<1>2. Unset(t).command = Unset(old).command
  BY TemplateLeaves
<1>3. t.sidecars = old.sidecars /\ t.pod = old.pod
  BY DEF Template
<1> HIDE DEF t
<1>4. Template(t, s, env) = Fresh(Unset(t).command, t.sidecars, t.pod)
  BY DEF Template
<1> HIDE DEF Fresh
<1>5. Template(t, s, env) = t
  BY <1>1, <1>2, <1>3, <1>4
<1>6. QED
  BY <1>5 DEF t

\* Writing the same spec and environment again changes nothing.
LEMMA WrittenAgain ==
  ASSUME NEW d, NEW s, NEW env
  PROVE  LET w == Written(d, s, env) IN Written(w, s, env) = w
<1> DEFINE w == Written(d, s, env)
<1>1. /\ w.selector = d.selector
      /\ w.meta = ObjectMetadata(d.meta, s.common, ManagedLabels(s))
      /\ w.template = Template(d.template, s, env)
      /\ w.replicas = IF s.replicas = None THEN d.replicas ELSE s.replicas
  BY DEF Written
<1>2. ObjectMetadata(w.meta, s.common, ManagedLabels(s)) = w.meta
  BY <1>1, MetadataAgain
<1>3. Template(w.template, s, env) = w.template
  BY <1>1, TemplateAgain
<1>4. (IF s.replicas = None THEN w.replicas ELSE s.replicas) = w.replicas
  BY <1>1
<1>5. w = [selector |-> w.selector, meta |-> w.meta, template |-> w.template,
           replicas |-> w.replicas]
  BY WrittenIsDeployment DEF IsDeployment
<1> HIDE DEF w
<1>6. Written(w, s, env) = w
  BY <1>2, <1>3, <1>4, <1>5 DEF Written
<1>7. QED
  BY <1>6 DEF w

\* The same holds of the Service.
LEMMA ServiceAgain ==
  ASSUME NEW v, NEW s
  PROVE  LET w == MutatedService(v, s) IN MutatedService(w, s) = w
<1>1. CASE s.protocols = <<>>
  BY <1>1 DEF MutatedService
<1>2. CASE s.protocols # <<>>
  <2> DEFINE old == IF v = Nothing THEN NewDeployment.meta ELSE v.meta
             w == MutatedService(v, s)
  <2>1. w = [selector |-> SelectorLabels, ports |-> s.protocols,
             meta |-> ObjectMetadata(old, s.common, SelectorLabels)]
    BY <1>2 DEF MutatedService
  <2> HIDE DEF w, old
  <2>2. w # Nothing
    <3>1. "ports" \in DOMAIN w
      BY <2>1
    <3>2. QED
      BY <3>1 DEF Nothing
  <2>3. w.meta = ObjectMetadata(old, s.common, SelectorLabels)
    BY <2>1
  <2>4. ObjectMetadata(w.meta, s.common, SelectorLabels) = w.meta
    BY <2>3, MetadataAgain
  <2>5. MutatedService(w, s)
          = [selector |-> SelectorLabels, ports |-> s.protocols,
             meta |-> ObjectMetadata(w.meta, s.common, SelectorLabels)]
    BY <1>2, <2>2 DEF MutatedService
  <2>6. MutatedService(w, s) = w
    BY <2>1, <2>3, <2>4, <2>5
  <2>7. QED
    BY <2>6 DEF w
<1>3. QED
  BY <1>1, <1>2

LEMMA ServiceSelector ==
  ASSUME NEW v, NEW s, MutatedService(v, s) # Nothing
  PROVE  MutatedService(v, s).selector = SelectorLabels
  BY DEF MutatedService

\* The pods carry the labels the operator selects by, whatever the user's labels say.
LEMMA OwnPodsAreSelected ==
  ASSUME NEW s
  PROVE  Selects(SelectorLabels, PodLabels(s))
<1>1. DOMAIN SelectorLabels = {"app"} /\ SelectorLabels["app"] = Self
  BY DEF SelectorLabels
<1>2. DOMAIN SelectorLabels \subseteq DOMAIN PodLabels(s)
  BY DEF PodLabels, ++
<1>3. \A k \in DOMAIN SelectorLabels : PodLabels(s)[k] = SelectorLabels[k]
  BY DEF PodLabels, ++
<1>4. QED
  BY <1>2, <1>3 DEF Selects
-----------------------------------------------------------------------------
(* What the API server accepts                                               *)

LEMMA OwnNamesAreClean ==
  /\ "app" \notin Malformed /\ "framework" \notin Malformed
  /\ \A k \in OwnNames : k \notin Malformed
<1>1. \A k \in OwnNames : k \notin Malformed
  BY OwnNamesAssumption
<1>2. "app" \in OwnNames /\ "framework" \in OwnNames
  BY DEF OwnNames
<1>3. QED
  BY <1>1, <1>2

CleanLabels(f) == \A k \in DOMAIN f : k \notin Malformed /\ f[k] \notin Malformed
CleanKeys(f) == \A k \in DOMAIN f : k \notin Malformed

LEMMA CleanMetadataIs ==
  ASSUME NEW o
  PROVE  CleanMetadata(o) <=> CleanLabels(o.labels) /\ CleanKeys(o.annotations)
<1>1. DOMAIN o.annotations \cap Malformed = {} <=> CleanKeys(o.annotations)
  BY DEF CleanKeys
<1>2. QED
  BY <1>1 DEF CleanMetadata, CleanLabels

LEMMA CleanOverride ==
  ASSUME NEW f, NEW g
  PROVE  /\ CleanLabels(f) /\ CleanLabels(g) => CleanLabels(f ++ g)
         /\ CleanKeys(f) /\ CleanKeys(g) => CleanKeys(f ++ g)
<1>1. ASSUME CleanLabels(f), CleanLabels(g), NEW k \in DOMAIN (f ++ g)
      PROVE  k \notin Malformed /\ (f ++ g)[k] \notin Malformed
  <2>1. k \in DOMAIN f \cup DOMAIN g
    BY <1>1, OverrideDomain
  <2>2. (f ++ g)[k] = IF k \in DOMAIN f THEN f[k] ELSE g[k]
    BY <2>1, OverrideValue
  <2>3. QED
    BY <1>1, <2>1, <2>2 DEF CleanLabels
<1>2. ASSUME CleanKeys(f), CleanKeys(g), NEW k \in DOMAIN (f ++ g)
      PROVE  k \notin Malformed
  BY <1>2, OverrideDomain DEF CleanKeys
<1>3. QED
  BY <1>1, <1>2 DEF CleanLabels, CleanKeys

LEMMA CleanThreeLabels ==
  ASSUME NEW f, NEW g, NEW h, CleanLabels(f), CleanLabels(g), CleanLabels(h)
  PROVE  CleanLabels(f ++ g ++ h)
<1> DEFINE fg == f ++ g
<1>1. CleanLabels(fg)
  BY CleanOverride
<1> HIDE DEF fg
<1>2. CleanLabels(fg ++ h)
  BY <1>1, CleanOverride
<1>3. QED
  BY <1>2 DEF fg

\* The labels the operator manages are well-formed if its inputs are.
LEMMA ManagedAreClean ==
  ASSUME NEW s, WellFormed(s)
  PROVE  CleanLabels(SelectorLabels) /\ CleanLabels(ManagedLabels(s))
<1>1. /\ DOMAIN SelectorLabels = {"app"} /\ SelectorLabels["app"] = Self
      /\ DOMAIN ManagedLabels(s) = {"app", "framework"}
      /\ ManagedLabels(s)["app"] = Self /\ ManagedLabels(s)["framework"] = s.framework
  BY DEF SelectorLabels, ManagedLabels
<1>2. Self \notin Malformed /\ s.framework \notin Malformed
  BY DEF WellFormed
<1>3. QED
  BY <1>1, <1>2, OwnNamesAreClean DEF CleanLabels

LEMMA MetadataIsClean ==
  ASSUME NEW old, NEW common, NEW managed,
         CleanMetadata(old), CleanMetadata(common), CleanLabels(managed)
  PROVE  CleanMetadata(ObjectMetadata(old, common, managed))
<1> DEFINE meta == ObjectMetadata(old, common, managed)
<1>1. /\ meta.labels = managed ++ common.labels ++ old.labels
      /\ meta.annotations = common.annotations ++ old.annotations
  BY DEF ObjectMetadata
<1>2. /\ CleanLabels(old.labels) /\ CleanLabels(common.labels)
      /\ CleanKeys(old.annotations) /\ CleanKeys(common.annotations)
  BY CleanMetadataIs
<1>3. CleanLabels(meta.labels) /\ CleanKeys(meta.annotations)
  BY <1>1, <1>2, CleanThreeLabels, CleanOverride
<1>4. QED
  BY <1>3, CleanMetadataIs

\* Well-formed labels, annotations and lists make a well-formed pod template.
LEMMA TemplateIsClean ==
  ASSUME NEW s, IsSpec(s), WellFormed(s), NEW g, NEW env \in Environments(s, g), NEW old
  PROVE  LET t == Template(old, s, env) IN
         /\ CleanMetadata(t) /\ CleanNames(t.volumes)
         /\ CleanContainer(t.agent, t.volumes)
<1> DEFINE t == Template(old, s, env)
<1>1. /\ t.labels = PodLabels(s) /\ t.annotations = PodAnnotations(s)
      /\ t.volumes = s.storage.volumes
      /\ t.agent.env = env /\ t.agent.ports = s.protocols
      /\ t.agent.mounts = s.storage.mounts
  BY DEF Template
<1> HIDE DEF t
<1>2. CleanMetadata(t)
  <2>1. /\ CleanLabels(s.common.labels) /\ CleanKeys(s.common.annotations)
        /\ CleanLabels(s.pod.labels) /\ CleanKeys(s.pod.annotations)
    BY CleanMetadataIs DEF WellFormed
  <2>2. CleanLabels(PodLabels(s))
    BY <2>1, ManagedAreClean, CleanThreeLabels DEF PodLabels
  <2>3. CleanKeys(PodAnnotations(s))
    BY <2>1, CleanOverride DEF PodAnnotations
  <2>4. QED
    BY <1>1, <2>2, <2>3, CleanMetadataIs
<1>3. CleanNames(t.volumes)
  BY <1>1 DEF WellFormed
<1>4. CleanContainer(t.agent, t.volumes)
  <2>1. /\ CleanNames(Named(t.agent.ports)) /\ CleanMounts(t.agent.mounts)
        /\ Range(Named(t.agent.mounts)) \subseteq Range(t.volumes)
    <3>1. s.storage \in Choices["storage"]
      BY DEF IsSpec, Fields
    <3>2. QED
      BY <1>1, <3>1, StorageAssumption DEF WellFormed
  <2>2. \A k \in DOMAIN env : k \in OwnNames \/ UserSets(s, k)
    BY EnvironmentHolds
  <2>3. \A k : UserSets(s, k) => k \notin Malformed
    BY DEF UserSets, WellFormed
  <2>4. DOMAIN t.agent.env \cap Malformed = {}
    BY <1>1, <2>2, <2>3, OwnNamesAreClean
  <2>5. QED
    BY <2>1, <2>4 DEF CleanContainer
<1>5. QED
  BY <1>2, <1>3, <1>4 DEF t

LEMMA NewDeploymentIsClean ==
  /\ CleanMetadata(NewDeployment.meta)
  /\ Selects(NewDeployment.selector, SelectorLabels)
  /\ NewDeployment.template.sidecars = {}
<1>1. /\ NewDeployment.selector = SelectorLabels
      /\ NewDeployment.template.sidecars = {}
      /\ DOMAIN NewDeployment.meta.labels = {}
      /\ DOMAIN NewDeployment.meta.annotations = {}
  BY DEF NewDeployment, Empty
<1>2. QED
  BY <1>1 DEF CleanMetadata, Selects

\* A write for a well-formed spec is accepted unless others are in its way.
LEMMA WellFormedIsAccepted ==
  ASSUME NEW d, d # Nothing => IsDeployment(d) /\ Valid(d),
         NEW s, IsSpec(s), WellFormed(s), ~Obstructed(d, s), NEW g,
         NEW w \in MutatedDeployments(d, s, g)
  PROVE  Valid(w)
<1>1. PICK env \in Environments(s, g) : w = Written(Old(d), s, env)
  BY MutatedIsWritten
<1>2. /\ w.selector = Old(d).selector
      /\ w.meta = ObjectMetadata(Old(d).meta, s.common, ManagedLabels(s))
      /\ w.template = Template(Old(d).template, s, env)
  BY <1>1 DEF Written
<1>3. /\ w.template.labels = PodLabels(s) /\ w.template.volumes = s.storage.volumes
      /\ w.template.sidecars = Old(d).template.sidecars
  BY <1>2 DEF Template
<1>4. /\ CleanMetadata(Old(d).meta) /\ Selects(Old(d).selector, SelectorLabels)
      /\ \A c \in Old(d).template.sidecars : Mount[c] \in Range(s.storage.volumes) \cup {None}
  <2>1. CASE d = Nothing
    BY <2>1, NewDeploymentIsClean DEF Old
  <2>2. CASE d # Nothing
    BY <2>2 DEF Old, Valid, Obstructed
  <2>3. QED
    BY <2>1, <2>2
<1>5. Selects(w.selector, w.template.labels)
  BY <1>2, <1>3, <1>4, OwnPodsAreSelected DEF Selects
<1>6. CleanMetadata(w.meta)
  <2>1. CleanMetadata(s.common)
    BY DEF WellFormed
  <2>2. QED
    BY <1>2, <1>4, <2>1, ManagedAreClean, MetadataIsClean
<1>7. /\ CleanMetadata(w.template) /\ CleanNames(w.template.volumes)
      /\ CleanContainer(w.template.agent, w.template.volumes)
  BY <1>2, TemplateIsClean
<1>8. QED
  BY <1>3, <1>4, <1>5, <1>6, <1>7 DEF Valid

PortsDiffer(s) == IsInjective([i \in DOMAIN s.protocols |-> s.protocols[i].port])

\* So is the Service of a well-formed spec, unless two protocols share a port.
LEMMA WellFormedIsServed ==
  ASSUME NEW v, v # Nothing => ValidService(v), NEW s, WellFormed(s), PortsDiffer(s),
         MutatedService(v, s) # Nothing
  PROVE  ValidService(MutatedService(v, s))
<1> DEFINE old == IF v = Nothing THEN NewDeployment.meta ELSE v.meta
           w == MutatedService(v, s)
<1>1. w.ports = s.protocols /\ w.meta = ObjectMetadata(old, s.common, SelectorLabels)
  BY DEF MutatedService
<1>2. CleanMetadata(old)
  BY NewDeploymentIsClean DEF ValidService
<1>3. CleanMetadata(s.common) /\ CleanNames(Named(s.protocols))
  BY DEF WellFormed
<1> HIDE DEF w, old
<1>4. CleanMetadata(w.meta)
  BY <1>1, <1>2, <1>3, ManagedAreClean, MetadataIsClean
<1>5. ValidService(w)
  BY <1>1, <1>3, <1>4 DEF ValidService, PortsDiffer
<1>6. QED
  BY <1>5 DEF w
-----------------------------------------------------------------------------
(* The invariant                                                             *)

\* Until somebody else writes the Deployment, it is what writing the inputs of the last write
\* once more may leave, and so is the Service unless the API server refuses that.
WrittenFromBasis ==
  basis # Nothing =>
    /\ IsSpec(basis.spec) /\ deployment # Nothing
    /\ deployment \in MutatedDeployments(deployment, basis.spec, basis.gateway)
    /\ LET v == MutatedService(service, basis.spec) IN
       service = v \/ (v # Nothing /\ ~ValidService(v))

RefusedForCause ==
  /\ outcome = "deployment refused" => ~WellFormed(spec) \/ Obstructed(deployment, spec)
  /\ outcome = "service refused" => ~WellFormed(spec) \/ ~PortsDiffer(spec)

\* What is stored was accepted.
Stored(d, v) ==
  /\ d # Nothing => IsDeployment(d) /\ Valid(d)
  /\ v # Nothing => ValidService(v) /\ v.selector = SelectorLabels

Inv ==
  /\ IsSpec(spec)
  /\ Stored(deployment, service)
  /\ theirs = Unset(Old(deployment).template)
  /\ WrittenFromBasis
  /\ RefusedForCause

LEMMA InputsAreSomething == Inputs # Nothing
<1>1. "spec" \in DOMAIN Inputs
  BY DEF Inputs
<1>2. QED
  BY <1>1 DEF Nothing

LEMMA InitInv == Init => Inv
<1> SUFFICES ASSUME Init PROVE Inv
  OBVIOUS
<1>1. IsSpec(spec)
  BY FieldsAssumption DEF Init
<1>2. Stored(deployment, service)
  BY AdoptableAssumption DEF Init, Stored
<1>3. theirs = Unset(Old(deployment).template)
  BY DEF Init, Old
<1>4. WrittenFromBasis /\ RefusedForCause
  BY DEF Init, WrittenFromBasis, RefusedForCause
<1>5. QED
  BY <1>1, <1>2, <1>3, <1>4 DEF Inv

\* A change of the inputs: nothing has come of them yet.
LEMMA NewInputs ==
  ASSUME Inv, IsSpec(spec'), outcome' = "none",
         UNCHANGED <<deployment, service, basis, theirs>>
  PROVE  Inv'
<1>1. /\ deployment' = deployment /\ service' = service
      /\ basis' = basis /\ theirs' = theirs
  OBVIOUS
<1>2. Stored(deployment, service)' /\ (theirs = Unset(Old(deployment).template))'
  BY <1>1 DEF Inv
<1>3. WrittenFromBasis'
  BY <1>1 DEF Inv, WrittenFromBasis
<1>4. RefusedForCause'
  BY DEF RefusedForCause
<1>5. QED
  BY <1>2, <1>3, <1>4 DEF Inv

LEMMA EditInv ==
  ASSUME Inv, NEW f \in DOMAIN Choices, NEW v \in Choices[f], Edit(f, v)
  PROVE  Inv'
<1>1. spec' = [spec EXCEPT ![f] = v] /\ f \in Fields
  BY FieldsAssumption DEF Edit
<1>2. IsSpec(spec')
  BY <1>1 DEF Inv, IsSpec
<1>3. QED
  BY <1>2, NewInputs DEF Edit

\* Whatever others write, the inputs of the last write are forgotten.
LEMMA ForeignInv ==
  ASSUME Inv, NEW d, Foreign(d), d # Nothing => IsDeployment(d)
  PROVE  Inv'
<1>1. /\ deployment' = d /\ service' = service /\ basis' = Nothing /\ outcome' = "none"
      /\ spec' = spec /\ theirs' = Unset(Old(d).template)
      /\ d # Nothing => Valid(d)
  BY DEF Foreign, Old
<1>2. IsSpec(spec)'
  BY <1>1 DEF Inv
<1>3. Stored(deployment, service)'
  BY <1>1 DEF Inv, Stored
<1>4. (theirs = Unset(Old(deployment).template))'
  BY <1>1
<1>5. WrittenFromBasis' /\ RefusedForCause'
  BY <1>1 DEF WrittenFromBasis, RefusedForCause
<1>6. QED
  BY <1>2, <1>3, <1>4, <1>5 DEF Inv

LEMMA OthersWriteDeployments ==
  ASSUME NEW d, IsDeployment(d)
  PROVE  /\ \A m : IsDeployment([d EXCEPT !.meta.labels = Added(m) ++ @])
         /\ IsDeployment([d EXCEPT !.template.annotations = RestartMark ++ @])
         /\ \A n : IsDeployment([d EXCEPT !.replicas = n])
         /\ \A p : IsDeployment([d EXCEPT !.template.pod = p])
         /\ \A c, vs : IsDeployment(
              [d EXCEPT !.template = [@ EXCEPT !.sidecars = @ \cup {c}, !.volumes = vs]])
         /\ \A m : IsDeployment([d EXCEPT !.template.agent.env = Added(m) ++ @])
         /\ \A c : IsDeployment([d EXCEPT !.template.agent.command = c])
<1>1. ASSUME NEW t PROVE IsDeployment([d EXCEPT !.template = t])
  BY DEF IsDeployment
<1>2. ASSUME NEW m PROVE IsDeployment([d EXCEPT !.meta.labels = Added(m) ++ @])
  BY DEF IsDeployment
<1>3. ASSUME NEW n PROVE IsDeployment([d EXCEPT !.replicas = n])
  BY DEF IsDeployment
<1>4. IsDeployment([d EXCEPT !.template.annotations = RestartMark ++ @])
  BY DEF IsDeployment
<1>5. ASSUME NEW p PROVE IsDeployment([d EXCEPT !.template.pod = p])
  BY DEF IsDeployment
<1>6. ASSUME NEW m PROVE IsDeployment([d EXCEPT !.template.agent.env = Added(m) ++ @])
  BY DEF IsDeployment
<1>7. ASSUME NEW c PROVE IsDeployment([d EXCEPT !.template.agent.command = c])
  BY DEF IsDeployment
<1>8. ASSUME NEW c, NEW vs
      PROVE  IsDeployment(
               [d EXCEPT !.template = [@ EXCEPT !.sidecars = @ \cup {c}, !.volumes = vs]])
  BY <1>1
<1>9. QED
  BY <1>2, <1>3, <1>4, <1>5, <1>6, <1>7, <1>8

\* An accepted Deployment is fixed under the mutate function for the same inputs.
LEMMA AcceptedIsFixed ==
  ASSUME NEW d, d # Nothing => IsDeployment(d), NEW s, NEW g,
         NEW w \in MutatedDeployments(d, s, g)
  PROVE  /\ IsDeployment(w) /\ w # Nothing
         /\ w \in MutatedDeployments(w, s, g)
         /\ Unset(w.template) = Unset(Old(d).template)
<1>1. PICK env \in Environments(s, g) : w = Written(Old(d), s, env)
  BY MutatedIsWritten
<1>2. IsDeployment(w) /\ w # Nothing
  BY <1>1, WrittenIsDeployment, RecordsAreSomething
<1>3. Written(Old(w), s, env) = w
  BY <1>1, <1>2, WrittenAgain DEF Old
<1>4. w.template = Template(Old(d).template, s, env)
  BY <1>1 DEF Written
<1>5. QED
  BY <1>2, <1>3, <1>4, MutatedIsWritten, TemplateLeaves

LEMMA ReconcileInv ==
  ASSUME Inv, Reconcile
  PROVE  Inv'
<1> DEFINE v == MutatedService(service, spec)
<1> HIDE DEF v
<1>1. PICK d \in MutatedDeployments(deployment, spec, gateway) :
        \/ /\ ~Valid(d)
           /\ outcome' = "deployment refused"
           /\ UNCHANGED <<deployment, service, basis>>
        \/ /\ Valid(d)
           /\ deployment' = d /\ basis' = Inputs
           /\ \/ /\ v # Nothing => ValidService(v)
                 /\ service' = v /\ outcome' = "ready"
              \/ /\ v # Nothing /\ ~ValidService(v)
                 /\ service' = service /\ outcome' = "service refused"
  BY DEF Reconcile, v
<1>2. /\ spec' = spec /\ gateway' = gateway /\ theirs' = theirs /\ IsSpec(spec)
      /\ Stored(deployment, service) /\ theirs = Unset(Old(deployment).template)
  BY DEF Reconcile, Inv
<1>3. /\ IsDeployment(d) /\ d # Nothing
      /\ d \in MutatedDeployments(d, spec, gateway)
      /\ Unset(d.template) = theirs
  BY <1>2, AcceptedIsFixed DEF Stored
<1>4. CASE /\ ~Valid(d)
           /\ outcome' = "deployment refused"
           /\ UNCHANGED <<deployment, service, basis>>
  <2>1. WrittenFromBasis'
    BY <1>4 DEF Inv, WrittenFromBasis
  <2>2. ~WellFormed(spec) \/ Obstructed(deployment, spec)
    BY <1>2, <1>4, WellFormedIsAccepted DEF Stored
  <2>3. RefusedForCause'
    BY <1>2, <1>4, <2>2 DEF RefusedForCause
  <2>4. /\ Stored(deployment, service)'
        /\ (theirs = Unset(Old(deployment).template))'
    BY <1>2, <1>4
  <2>5. QED
    BY <1>2, <2>1, <2>3, <2>4 DEF Inv
<1>5. ASSUME Valid(d), deployment' = d, basis' = Inputs,
             \/ /\ v # Nothing => ValidService(v)
                /\ service' = v /\ outcome' = "ready"
             \/ /\ v # Nothing /\ ~ValidService(v)
                /\ service' = service /\ outcome' = "service refused"
      PROVE  Inv'
  <2>1. (theirs = Unset(Old(deployment).template))'
    BY <1>2, <1>3, <1>5 DEF Old
  <2>2. Stored(deployment, service)'
    <3>1. v # Nothing => v.selector = SelectorLabels
      BY ServiceSelector DEF v
    <3>2. QED
      BY <1>2, <1>3, <1>5, <3>1 DEF Stored
  <2>3. basis'.spec = spec /\ basis'.gateway = gateway
    BY <1>5 DEF Inputs
  <2>4. LET w == MutatedService(service', spec) IN
        service' = w \/ (w # Nothing /\ ~ValidService(w))
    <3>1. CASE service' = v
      BY <3>1, ServiceAgain DEF v
    <3>2. CASE v # Nothing /\ ~ValidService(v) /\ service' = service
      BY <3>2 DEF v
    <3>3. QED
      BY <1>5, <3>1, <3>2
  <2>5. WrittenFromBasis'
    BY <1>2, <1>3, <1>5, <2>3, <2>4 DEF WrittenFromBasis
  <2>6. RefusedForCause'
    <3>1. v # Nothing /\ ~ValidService(v) => ~WellFormed(spec) \/ ~PortsDiffer(spec)
      BY <1>2, WellFormedIsServed DEF v, Stored
    <3>2. QED
      BY <1>2, <1>5, <3>1 DEF RefusedForCause
  <2>7. QED
    BY <1>2, <2>1, <2>2, <2>5, <2>6 DEF Inv
<1>6. QED
  BY <1>1, <1>4, <1>5

LEMMA NextInv == Inv /\ [Next]_vars => Inv'
<1> SUFFICES ASSUME Inv, [Next]_vars PROVE Inv'
  OBVIOUS
<1>1. ASSUME NEW f \in DOMAIN Choices, NEW v \in Choices[f], Edit(f, v) PROVE Inv'
  BY <1>1, EditInv
<1>2. ASSUME NEW g \in Gateways \cup {None}, ChangeGateway(g) PROVE Inv'
  <2>1. IsSpec(spec')
    BY <1>2 DEF ChangeGateway, Inv
  <2>2. QED
    BY <1>2, <2>1, NewInputs DEF ChangeGateway
<1>3. ASSUME NEW d, Foreign(d) PROVE deployment # Nothing /\ IsDeployment(deployment)
  BY <1>3 DEF Foreign, Inv, Stored
<1>4. ASSUME NEW m \in Marks, PutLabel(m) PROVE Inv'
  BY <1>3, <1>4, OthersWriteDeployments, ForeignInv DEF PutLabel
<1>5. ASSUME NEW m \in Marks, SetVariable(m) PROVE Inv'
  BY <1>3, <1>5, OthersWriteDeployments, ForeignInv DEF SetVariable
<1>6. CASE RolloutRestart
  BY <1>3, <1>6, OthersWriteDeployments, ForeignInv DEF RolloutRestart
<1>7. ASSUME NEW c \in Sidecars, Inject(c) PROVE Inv'
  BY <1>3, <1>7, OthersWriteDeployments, ForeignInv DEF Inject
<1>8. ASSUME NEW c \in Commands, SetCommand(c) PROVE Inv'
  BY <1>3, <1>8, OthersWriteDeployments, ForeignInv DEF SetCommand
<1>9. ASSUME NEW p \in PodParts, SetPod(p) PROVE Inv'
  BY <1>3, <1>9, OthersWriteDeployments, ForeignInv DEF SetPod
<1>10. ASSUME NEW n \in Scales, Scale(n) PROVE Inv'
  BY <1>3, <1>10, OthersWriteDeployments, ForeignInv DEF Scale
<1>11. CASE Remove
  BY <1>11, ForeignInv DEF Remove
<1>12. CASE Reconcile
  BY <1>12, ReconcileInv
<1>13. CASE UNCHANGED vars
  BY <1>13 DEF vars, Inv, Stored, WrittenFromBasis, RefusedForCause
<1>14. QED
  BY <1>1, <1>2, <1>4, <1>5, <1>6, <1>7, <1>8, <1>9, <1>10, <1>11, <1>12, <1>13 DEF Next

LEMMA Invariance == Spec => []Inv
<1>1. Init => Inv
  BY InitInv
<1>2. Inv /\ [Next]_vars => Inv'
  BY NextInv
<1>3. QED
  BY <1>1, <1>2, PTL DEF Spec
-----------------------------------------------------------------------------
(* What the objects say                                                      *)

\* After a write the template holds what the inputs of that write call for.
LEMMA TemplateFromBasis ==
  ASSUME Inv, basis # Nothing
  PROVE  \E env \in Environments(basis.spec, basis.gateway) :
           deployment.template = Template(deployment.template, basis.spec, env)
<1>1. PICK env \in Environments(basis.spec, basis.gateway) :
        deployment = Written(Old(deployment), basis.spec, env)
  BY MutatedIsWritten DEF Inv, Stored, WrittenFromBasis
<1>2. deployment # Nothing
  BY DEF Inv, WrittenFromBasis
<1>3. deployment.template = Template(Old(deployment).template, basis.spec, env)
  BY <1>1 DEF Written
<1>4. QED
  BY <1>2, <1>3 DEF Old

\* What the mutate function sets does not depend on what was there.
LEMMA AssignedAlike ==
  ASSUME NEW old1, NEW old2, NEW s, NEW env
  PROVE  Assigned(Template(old1, s, env)) = Assigned(Template(old2, s, env))
  BY DEF Assigned, Template

\* The two halves of the pod template, after any history: what the operator sets is as on a
\* Deployment created just now, and what it does not set is as others last left it.
THEOREM PastIsOnlyOthers == Spec => []OursAndTheirs
<1>1. Inv => OursAndTheirs
  <2> SUFFICES ASSUME Inv, basis # Nothing
               PROVE  /\ \E d \in MutatedDeployments(Nothing, basis.spec, basis.gateway) :
                           Assigned(deployment.template) = Assigned(d.template)
                      /\ Unset(deployment.template) = theirs
    BY DEF OursAndTheirs
  <2>1. PICK env \in Environments(basis.spec, basis.gateway) :
          deployment.template = Template(deployment.template, basis.spec, env)
    BY TemplateFromBasis
  <2> DEFINE d == Written(NewDeployment, basis.spec, env)
  <2>2. d \in MutatedDeployments(Nothing, basis.spec, basis.gateway)
    BY MutatedIsWritten DEF Old
  <2>3. d.template = Template(NewDeployment.template, basis.spec, env)
    BY DEF Written
  <2>4. Assigned(deployment.template) = Assigned(d.template)
    BY <2>1, <2>3, AssignedAlike
  <2>5. Unset(deployment.template) = theirs
    BY DEF Inv, WrittenFromBasis, Old
  <2>6. QED
    BY <2>2, <2>4, <2>5
<1>2. QED
  BY Invariance, <1>1, PTL

\* For whatever lists, labels, annotations and names users choose: a Deployment or Service is
\* refused only if the spec breaks a rule by itself or others are in the way, and the Service
\* selects the pods.
THEOREM RefusalsAreExplained == Spec => []RefusalsHaveCauses
<1>1. Inv => RefusalsHaveCauses
  <2> SUFFICES ASSUME Inv PROVE RefusalsHaveCauses
    OBVIOUS
  <2>1. ASSUME service # Nothing, basis # Nothing
        PROVE  Selects(service.selector, deployment.template.labels)
    <3>1. service.selector = SelectorLabels
      BY <2>1 DEF Inv, Stored
    <3>2. deployment.template.labels = PodLabels(basis.spec)
      <4>1. PICK env \in Environments(basis.spec, basis.gateway) :
              deployment.template = Template(deployment.template, basis.spec, env)
        BY <2>1, TemplateFromBasis
      <4>2. Template(deployment.template, basis.spec, env).labels = PodLabels(basis.spec)
        BY DEF Template
      <4>3. QED
        BY <4>1, <4>2
    <3>3. QED
      BY <3>1, <3>2, OwnPodsAreSelected
  <2>2. QED
    BY <2>1 DEF Inv, RefusedForCause, RefusalsHaveCauses, PortsDiffer
<1>2. QED
  BY Invariance, <1>1, PTL

LEMMA EnvironmentSeen ==
  ASSUME NEW s, IsSpec(s), NEW g, NEW e \in Environments(s, g)
  PROVE  /\ AlwaysSet \subseteq DOMAIN e
         /\ UserWins(s, e)
         /\ ~UserSets(s, "SUB_AGENTS") => SubAgentsSeen(s, e)
         /\ ~UserSets(s, "AGENT_TOOLS") => ToolsSeen(s, e)
<1>1. /\ IsList(s.env) /\ IsList(s.subs) /\ IsList(s.tools)
      /\ \A i \in DOMAIN s.subs : IsList(s.subs[i].name)
  BY ListsAssumption DEF IsSpec, Fields
<1>2. PICK m \in SubAgentMaps(s.subs) :
        /\ AlwaysSet \subseteq DOMAIN e
        /\ \A k \in DOMAIN LastOfEachName(s.env) : e[k] = LastOfEachName(s.env)[k]
        /\ ~UserSets(s, "SUB_AGENTS") => e["SUB_AGENTS"] = m
        /\ ~UserSets(s, "AGENT_TOOLS") => e["AGENT_TOOLS"] = LastOfEachName(s.tools)
  BY EnvironmentHolds
<1>3. UserWins(s, e)
  BY <1>1, <1>2, LastOfEachNameValue DEF UserWins
<1>4. ASSUME ~UserSets(s, "SUB_AGENTS") PROVE SubAgentsSeen(s, e)
  <2>1. e.SUB_AGENTS = m
    BY <1>2, <1>4
  <2>2. ASSUME NEW i \in DOMAIN s.subs,
               \A j \in DOMAIN s.subs \ {i} :
                 sanitizeAgentName(s.subs[j].name) # sanitizeAgentName(s.subs[i].name)
        PROVE  e.SUB_AGENTS[sanitizeAgentName(s.subs[i].name)] = s.subs[i].value
    BY <1>1, <2>1, <2>2, AloneIsSeen
  <2>3. ASSUME NEW k \in DOMAIN e.SUB_AGENTS
        PROVE  k # <<>> /\ Head(k) \notin Digits
    <3>1. PICK i \in DOMAIN s.subs : k = sanitizeAgentName(s.subs[i].name)
      BY <2>1, SubAgentMapsDomain
    <3>2. QED
      BY <1>1, <3>1, SanitizedStart
  <2>4. QED
    BY <2>2, <2>3 DEF SubAgentsSeen
<1>5. ASSUME ~UserSets(s, "AGENT_TOOLS") PROVE ToolsSeen(s, e)
  <2>1. e.AGENT_TOOLS = LastOfEachName(s.tools)
    BY <1>2, <1>5
  <2>2. ASSUME NEW i \in DOMAIN s.tools,
               \A j \in DOMAIN s.tools \ {i} : s.tools[j].name # s.tools[i].name
        PROVE  LastOfEachName(s.tools)[s.tools[i].name] = s.tools[i].value
    <3>1. \A l \in i + 1 .. Len(s.tools) : l \in DOMAIN s.tools \ {i}
      BY <1>1, ListDomain
    <3>2. LastOfName(s.tools, i)
      BY <2>2, <3>1 DEF LastOfName
    <3>3. QED
      BY <1>1, <3>2, LastOfEachNameValue
  <2>3. QED
    BY <2>1, <2>2 DEF ToolsSeen
<1>6. QED
  BY <1>2, <1>3, <1>4, <1>5

\* What the container sees, for lists of any length and names of any characters.
THEOREM ContainersSee == Spec => []ContainerSees
<1>1. Inv => ContainerSees
  <2> SUFFICES ASSUME Inv, basis # Nothing
               PROVE  LET s == basis.spec
                          env == deployment.template.agent.env
                      IN /\ AlwaysSet \subseteq DOMAIN env
                         /\ UserWins(s, env)
                         /\ ~UserSets(s, "SUB_AGENTS") => SubAgentsSeen(s, env)
                         /\ ~UserSets(s, "AGENT_TOOLS") => ToolsSeen(s, env)
    BY DEF ContainerSees
  <2>1. PICK e \in Environments(basis.spec, basis.gateway) :
          deployment.template = Template(deployment.template, basis.spec, e)
    BY TemplateFromBasis
  <2>2. deployment.template.agent.env = e
    BY <2>1 DEF Template
  <2>3. IsSpec(basis.spec)
    BY DEF Inv, WrittenFromBasis
  <2>4. QED
    BY <2>1, <2>2, <2>3, EnvironmentSeen
<1>2. QED
  BY Invariance, <1>1, PTL

\* A reconcile of unchanged inputs changes neither Deployment nor Service: the order in
\* which maps are ranged over never rolls an Agent out again, unless the names of its
\* sub-agents collide.
THEOREM RolloutsHaveReasons == Spec => NoSpuriousRollout
<1>1. Inv /\ [Next]_vars => [basis = Inputs /\ basis' = Inputs' /\ ~Collide(spec.subs)
                              => UNCHANGED <<deployment, service>>]_vars
  <2> SUFFICES ASSUME Inv, Next, basis = Inputs, basis' = Inputs', ~Collide(spec.subs)
               PROVE  deployment' = deployment /\ service' = service
    BY DEF vars
  <2>1. basis # Nothing /\ basis.spec = spec /\ basis.gateway = gateway
    BY InputsAreSomething DEF Inputs
  <2>2. basis' # Nothing
    <3>1. "spec" \in DOMAIN Inputs'
      BY DEF Inputs
    <3>2. QED
      BY <3>1 DEF Nothing
  <2>3. CASE Reconcile
    <3> DEFINE v == MutatedService(service, spec)
    <3> HIDE DEF v
    <3>1. PICK d \in MutatedDeployments(deployment, spec, gateway) :
            /\ deployment' \in {d, deployment}
            /\ service' = service \/ (service' = v /\ (v # Nothing => ValidService(v)))
      BY <2>3 DEF Reconcile, v
    <3>2. /\ deployment \in MutatedDeployments(deployment, spec, gateway)
          /\ service = v \/ (v # Nothing /\ ~ValidService(v))
      BY <2>1 DEF Inv, WrittenFromBasis, v
    <3>3. PICK e1 \in Environments(spec, gateway) : d = Written(Old(deployment), spec, e1)
      BY MutatedIsWritten DEF Inv, Stored
    <3>4. PICK e2 \in Environments(spec, gateway) :
            deployment = Written(Old(deployment), spec, e2)
      BY <3>2, MutatedIsWritten DEF Inv, Stored
    <3>5. e1 = e2
      BY OneEnvironment
    <3>6. d = deployment
      BY <3>3, <3>4, <3>5
    <3>7. QED
      BY <3>1, <3>2, <3>6
  <2>4. CASE \E f \in DOMAIN Choices : \E v \in Choices[f] : Edit(f, v)
    BY <2>4 DEF Edit
  <2>5. CASE \E g \in Gateways \cup {None} : ChangeGateway(g)
    BY <2>5 DEF ChangeGateway
  <2>6. ASSUME NEW d, Foreign(d) PROVE FALSE
    BY <2>2, <2>6 DEF Foreign
  <2>7. QED
    BY <2>3, <2>4, <2>5, <2>6
       DEF Next, PutLabel, SetVariable, RolloutRestart, Inject, SetCommand, SetPod, Scale, Remove
<1>2. QED
  BY Invariance, <1>1, PTL DEF Spec, NoSpuriousRollout

\* A reconcile keeps the labels it does not set, the containers of others, and the
\* replicas where the spec names none.
THEOREM OthersKeepTheirs == Spec => OthersAreKept
<1>1. Inv /\ [Next]_vars
        => [Reconcile /\ deployment # Nothing =>
              LET Own == DOMAIN ManagedLabels(spec) \cup DOMAIN spec.common.labels IN
              /\ \A k \in DOMAIN deployment.meta.labels \ Own :
                   k \in DOMAIN deployment'.meta.labels
                     /\ deployment'.meta.labels[k] = deployment.meta.labels[k]
              /\ deployment'.template.sidecars = deployment.template.sidecars
              /\ spec.replicas = None => deployment'.replicas = deployment.replicas]_vars
  <2> DEFINE Own == DOMAIN ManagedLabels(spec) \cup DOMAIN spec.common.labels
  <2> SUFFICES ASSUME Inv, Reconcile, deployment # Nothing
               PROVE  /\ \A k \in DOMAIN deployment.meta.labels \ Own :
                           k \in DOMAIN deployment'.meta.labels
                             /\ deployment'.meta.labels[k] = deployment.meta.labels[k]
                      /\ deployment'.template.sidecars = deployment.template.sidecars
                      /\ spec.replicas = None => deployment'.replicas = deployment.replicas
    OBVIOUS
  <2>1. PICK d \in MutatedDeployments(deployment, spec, gateway) :
          deployment' = d \/ deployment' = deployment
    BY DEF Reconcile
  <2>2. PICK env \in Environments(spec, gateway) : d = Written(deployment, spec, env)
    BY MutatedIsWritten DEF Inv, Stored, Old
  <2>3. CASE deployment' = deployment
    BY <2>3
  <2>4. CASE deployment' = d
    <3>1. /\ d.template.sidecars = deployment.template.sidecars
          /\ spec.replicas = None => d.replicas = deployment.replicas
          /\ d.meta.labels = ManagedLabels(spec) ++ spec.common.labels ++ deployment.meta.labels
      BY <2>2 DEF Written, Template, ObjectMetadata
    <3>2. \A k \in DOMAIN deployment.meta.labels \ Own :
            k \in DOMAIN d.meta.labels /\ d.meta.labels[k] = deployment.meta.labels[k]
      BY <3>1 DEF ++
    <3>3. QED
      BY <2>4, <3>1, <3>2
  <2>5. QED
    BY <2>1, <2>3, <2>4
<1>2. QED
  BY Invariance, <1>1, PTL DEF Spec, OthersAreKept
=============================================================================
