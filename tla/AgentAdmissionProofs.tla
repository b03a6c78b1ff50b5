------------------------ MODULE AgentAdmissionProofs ------------------------
(***************************************************************************)
(* Proofs about the admission of Agents, for any requests, ports, replicas *)
(* and images.                                                             *)
(***************************************************************************)
EXTENDS AgentAdmission, TLAPS

\* A protocol, and the spec of an Agent, that defaulting leaves nothing open in
CompleteProtocol == [name : NameType \ {NoName}, port : Nat \ {0}]
CompleteSpec ==
  {s \in SpecType : /\ s.replicas \in Nat
                    /\ s.protocols \in Seq(CompleteProtocol) \ {<<>>}}

\* What is stored is what the last request becomes by defaulting, and it was validated
\* in that form.
AdmittedAsDefaulted ==
  stored # None => stored = applyDefaults(request) /\ validateAgent(stored)

Inv ==
  /\ config \in ConfigType
  /\ request \in SpecType
  /\ AdmittedAsDefaulted

-----------------------------------------------------------------------------
(* What defaulting does                                                      *)

LEMMA CompleteIsProtocol == CompleteProtocol \subseteq ProtocolType
  BY DEF CompleteProtocol, ProtocolType

\* Whatever was asked for, a defaulted protocol has a name and a port.
LEMMA DefaultProtocolCompletes ==
  ASSUME NEW p \in ProtocolType
  PROVE  DefaultProtocol(p) \in CompleteProtocol
<1> DEFINE port == IF p.port = 0 THEN DefaultPort ELSE p.port
<1>1. p.name \in NameType /\ p.port \in Nat
  BY DEF ProtocolType
<1>2. port \in Nat \ {0}
  BY <1>1, AdmissionAssumption
<1>3. [text |-> "a2a", port |-> port] \in NameType \ {NoName}
  <2>1. [text |-> "a2a", port |-> port].text # NoName.text
    BY DEF NoName
  <2>2. QED
    BY <1>2, <2>1, AdmissionAssumption DEF NameType
<1>4. (IF p.name = NoName THEN [text |-> "a2a", port |-> port] ELSE p.name)
        \in NameType \ {NoName}
  BY <1>1, <1>3
<1>5. QED
  BY <1>2, <1>4 DEF DefaultProtocol, CompleteProtocol

\* Nothing is left to default in a complete protocol.
LEMMA CompleteProtocolIsStable ==
  ASSUME NEW p \in CompleteProtocol
  PROVE  DefaultProtocol(p) = p
<1>1. /\ p = [name |-> p.name, port |-> p.port]
      /\ p.name # NoName /\ p.port # 0
  BY DEF CompleteProtocol
<1>2. QED
  BY <1>1 DEF DefaultProtocol

\* Defaulting a list keeps its length and completes each of its protocols.
LEMMA DefaultAllCompletes ==
  ASSUME NEW ps \in Seq(ProtocolType)
  PROVE  /\ DefaultAll(ps) \in Seq(CompleteProtocol)
         /\ Len(DefaultAll(ps)) = Len(ps)
<1>1. /\ DOMAIN ps = 1 .. Len(ps) /\ Len(ps) \in Nat
      /\ \A i \in DOMAIN ps : ps[i] \in ProtocolType
  OBVIOUS
<1>2. \A i \in DOMAIN ps : DefaultProtocol(ps[i]) \in CompleteProtocol
  BY <1>1, DefaultProtocolCompletes
<1>3. DefaultAll(ps) \in [1 .. Len(ps) -> CompleteProtocol]
  BY <1>1, <1>2 DEF DefaultAll
<1>4. QED
  BY <1>1, <1>3

LEMMA CompleteListIsStable ==
  ASSUME NEW ps \in Seq(CompleteProtocol)
  PROVE  DefaultAll(ps) = ps
<1>1. \A i \in DOMAIN ps : ps[i] \in CompleteProtocol
  OBVIOUS
<1>2. \A i \in DOMAIN ps : DefaultProtocol(ps[i]) = ps[i]
  BY <1>1, CompleteProtocolIsStable
<1>3. ps = [i \in DOMAIN ps |-> ps[i]]
  OBVIOUS
<1>4. QED
  BY <1>2, <1>3 DEF DefaultAll

LEMMA DefaultProtocolsType == DefaultProtocols \in Seq(ProtocolType) /\ Len(DefaultProtocols) = 1
<1>1. [name |-> NoName, port |-> 0] \in ProtocolType
  BY AdmissionAssumption DEF NoName, NameType, ProtocolType
<1>2. QED
  BY <1>1 DEF DefaultProtocols

\* The record a spec is, so that an edit of one field can be followed.
LEMMA SpecRecord ==
  ASSUME NEW s \in SpecType
  PROVE  /\ s.framework \in Frameworks /\ s.image \in Images \cup {""}
         /\ s.replicas \in Nat \cup {None} /\ s.protocols \in Seq(ProtocolType)
         /\ s.subs \in SUBSET SubAgentType /\ s.tools \in SUBSET ToolType
         /\ s.volumes \in SUBSET STRING /\ s.mounts \in Seq(MountType)
         /\ s = [framework |-> s.framework, image |-> s.image, replicas |-> s.replicas,
                 protocols |-> s.protocols, subs |-> s.subs, tools |-> s.tools,
                 volumes |-> s.volumes, mounts |-> s.mounts]
  BY DEF SpecType

\* The lists defaulting starts from: the user's, or the one default protocol.
LEMMA OpenProtocols ==
  ASSUME NEW ps \in Seq(ProtocolType)
  PROVE  LET open == IF ps = <<>> THEN DefaultProtocols ELSE ps IN
         open \in Seq(ProtocolType) /\ Len(open) # 0
  BY DefaultProtocolsType

\* Every request becomes a complete spec.
LEMMA DefaultsComplete ==
  ASSUME NEW s \in SpecType
  PROVE  applyDefaults(s) \in CompleteSpec
<1> DEFINE open == IF s.protocols = <<>> THEN DefaultProtocols ELSE s.protocols
           d == applyDefaults(s)
<1>1. s.protocols \in Seq(ProtocolType)
  BY SpecRecord
<1>2. open \in Seq(ProtocolType) /\ Len(open) # 0
  BY <1>1, OpenProtocols
<1>3. DefaultAll(open) \in Seq(CompleteProtocol) /\ Len(DefaultAll(open)) # 0
  BY <1>2, DefaultAllCompletes
<1>4. DefaultAll(open) \in Seq(CompleteProtocol) \ {<<>>}
  BY <1>3
<1>5. DefaultAll(open) \in Seq(ProtocolType)
  <2>1. DefaultAll(open) \in [1 .. Len(DefaultAll(open)) -> CompleteProtocol]
        /\ Len(DefaultAll(open)) \in Nat
    BY <1>3
  <2>2. DefaultAll(open) \in [1 .. Len(DefaultAll(open)) -> ProtocolType]
    BY <2>1, CompleteIsProtocol
  <2>3. QED
    BY <2>1, <2>2
<1>6. (IF s.replicas = None THEN DefaultReplicas ELSE s.replicas) \in Nat
  BY SpecRecord, AdmissionAssumption
<1> DEFINE n == IF s.replicas = None THEN DefaultReplicas ELSE s.replicas
<1>7. d = [s EXCEPT !.replicas = n, !.protocols = DefaultAll(open)]
  BY DEF applyDefaults
<1> HIDE DEF open, n
<1>8. /\ [s EXCEPT !.replicas = n, !.protocols = DefaultAll(open)] \in SpecType
      /\ [s EXCEPT !.replicas = n, !.protocols = DefaultAll(open)].replicas = n
      /\ [s EXCEPT !.replicas = n, !.protocols = DefaultAll(open)].protocols
           = DefaultAll(open)
  BY <1>5, <1>6 DEF SpecType, n
<1>9. QED
  BY <1>4, <1>6, <1>7, <1>8 DEF CompleteSpec, n

\* Defaulting a complete spec changes nothing.
LEMMA CompleteSpecIsStable ==
  ASSUME NEW s \in CompleteSpec
  PROVE  applyDefaults(s) = s
<1>1. /\ s \in SpecType /\ s.replicas \in Nat /\ s.protocols # <<>>
      /\ s.protocols \in Seq(CompleteProtocol)
  BY DEF CompleteSpec
<1>2. s.replicas # None
  BY <1>1, AdmissionAssumption
<1>3. DefaultAll(s.protocols) = s.protocols
  BY <1>1, CompleteListIsStable
<1>4. applyDefaults(s) = [s EXCEPT !.replicas = s.replicas, !.protocols = s.protocols]
  BY <1>1, <1>2, <1>3 DEF applyDefaults
<1>5. QED
  BY <1>1, <1>4, SpecRecord

-----------------------------------------------------------------------------
(* The invariant                                                             *)

LEMMA EmptySpecType == EmptySpec \in SpecType
  BY DEF EmptySpec, SpecType, Frameworks

\* What is stored is a spec like any request, so a client can edit it.
LEMMA StoredIsComplete ==
  ASSUME Inv, stored # None
  PROVE  stored \in CompleteSpec
  BY DefaultsComplete DEF Inv, AdmittedAsDefaulted

LEMMA BaseType == ASSUME Inv PROVE Base \in SpecType
  BY EmptySpecType, StoredIsComplete DEF Base, CompleteSpec

LEMMA AdmitInv ==
  ASSUME Inv, NEW s \in SpecType, Admit(s)
  PROVE  Inv'
<1>1. config' = config /\ request' = s
  BY DEF Admit
<1>2. stored' = applyDefaults(request') /\ validateAgent(applyDefaults(s))
  BY DEF Admit
<1>3. validateAgent(stored')
  BY <1>1, <1>2
<1>4. validateAgent(stored)'
  BY <1>3 DEF validateAgent, ValidFramework, validateVolumeMounts, Overlapping
<1>5. applyDefaults(request)' = applyDefaults(request')
  BY DEF applyDefaults
<1>6. QED
  BY <1>1, <1>2, <1>4, <1>5 DEF Inv, AdmittedAsDefaulted

LEMMA InitInv == Init => Inv
  BY EmptySpecType DEF Init, Inv, AdmittedAsDefaulted

LEMMA NextInv == Inv /\ [Next]_vars => Inv'
<1> SUFFICES ASSUME Inv, [Next]_vars PROVE Inv'
  OBVIOUS
<1>b. Base \in SpecType
  BY BaseType
<1>1. ASSUME NEW f \in Frameworks, NEW i \in Images \cup {""}, SetFramework(f, i)
      PROVE  Inv'
  <2>1. [Base EXCEPT !.framework = f, !.image = i] \in SpecType
    BY <1>b DEF SpecType
  <2>2. QED
    BY <1>1, <2>1, AdmitInv DEF SetFramework
<1>2. ASSUME NEW n \in ReplicaChoices, SetReplicas(n) PROVE Inv'
  <2>1. [Base EXCEPT !.replicas = n] \in SpecType
    BY <1>b, AdmissionAssumption DEF SpecType
  <2>2. QED
    BY <1>2, <2>1, AdmitInv DEF SetReplicas
<1>3. ASSUME NEW ps \in ProtocolChoices, SetProtocols(ps) PROVE Inv'
  <2>1. [Base EXCEPT !.protocols = ps] \in SpecType
    BY <1>b, AdmissionAssumption DEF SpecType
  <2>2. QED
    BY <1>3, <2>1, AdmitInv DEF SetProtocols
<1>4. ASSUME NEW subs \in SubAgentChoices, SetSubAgents(subs) PROVE Inv'
  <2>1. [Base EXCEPT !.subs = subs] \in SpecType
    BY <1>b, AdmissionAssumption DEF SpecType
  <2>2. QED
    BY <1>4, <2>1, AdmitInv DEF SetSubAgents
<1>5. ASSUME NEW ts \in ToolChoices, SetTools(ts) PROVE Inv'
  <2>1. [Base EXCEPT !.tools = ts] \in SpecType
    BY <1>b, AdmissionAssumption DEF SpecType
  <2>2. QED
    BY <1>5, <2>1, AdmitInv DEF SetTools
<1>6. ASSUME NEW vs \in VolumeChoices, NEW m \in MountChoices, SetVolumes(vs, m) PROVE Inv'
  <2>1. [Base EXCEPT !.volumes = vs, !.mounts = m] \in SpecType
    BY <1>b, AdmissionAssumption DEF SpecType
  <2>2. QED
    BY <1>6, <2>1, AdmitInv DEF SetVolumes
<1>7. CASE Delete
  BY <1>7, EmptySpecType DEF Delete, Inv, AdmittedAsDefaulted
<1>8. ASSUME NEW c \in ConfigType, Configure(c) PROVE Inv'
  <2>1. /\ config' \in ConfigType
        /\ stored' = stored /\ request' = request
    BY <1>8 DEF Configure
  <2>2. AdmittedAsDefaulted'
    BY <2>1 DEF Inv, AdmittedAsDefaulted, applyDefaults, validateAgent, ValidFramework,
                validateVolumeMounts, Overlapping
  <2>3. ConfigType' = ConfigType /\ SpecType' = SpecType
    OBVIOUS
  <2>4. QED
    BY <2>1, <2>2 DEF Inv
<1>9. CASE UNCHANGED vars
  <2>1. stored' = stored /\ request' = request /\ config' = config
    BY <1>9 DEF vars
  <2>2. AdmittedAsDefaulted'
    BY <2>1 DEF Inv, AdmittedAsDefaulted, applyDefaults, validateAgent, ValidFramework,
                validateVolumeMounts, Overlapping
  <2>3. QED
    BY <2>1, <2>2 DEF Inv
<1>10. QED
  BY <1>1, <1>2, <1>3, <1>4, <1>5, <1>6, <1>7, <1>8, <1>9 DEF Next

LEMMA Invariance == Spec => []Inv
<1>1. Init => Inv
  BY InitInv
<1>2. Inv /\ [Next]_vars => Inv'
  BY NextInv
<1>3. QED
  BY <1>1, <1>2, PTL DEF Spec

-----------------------------------------------------------------------------
(* What the controller may rely on                                           *)

\* Every stored Agent is complete, whatever lists and numbers users ask for and
\* whichever defaults the operator has: the controller never meets an Agent without
\* replicas, protocols, ports or names.
THEOREM AdmissionTypeCorrect == Spec => []TypeOK
<1>1. Inv => TypeOK
  <2> SUFFICES ASSUME Inv PROVE TypeOK
    OBVIOUS
  <2>1. config \in ConfigType
    BY DEF Inv
  <2>2. ASSUME stored # None
        PROVE  /\ stored.framework \in Frameworks /\ stored.image \in Images \cup {""}
               /\ stored.replicas \in Nat
               /\ stored.protocols \in Seq(CompleteProtocol) \ {<<>>}
    BY <2>2, StoredIsComplete, SpecRecord DEF CompleteSpec
  <2>3. ASSUME stored # None, NEW i \in DOMAIN stored.protocols
        PROVE  /\ stored.protocols[i].port \in Nat \ {0}
               /\ stored.protocols[i].name \in NameType \ {NoName}
    <3>1. stored.protocols[i] \in CompleteProtocol
      <4>1. stored.protocols \in Seq(CompleteProtocol)
        BY <2>2, <2>3
      <4>2. QED
        BY <2>3, <4>1
    <3>2. QED
      BY <3>1 DEF CompleteProtocol
  <2>4. QED
    BY <2>1, <2>2, <2>3 DEF TypeOK
<1>2. QED
  BY Invariance, <1>1, PTL

\* Defaulting is idempotent on everything that was ever stored: sending an Agent back
\* never changes it.
THEOREM DefaultingIsIdempotent == Spec => []DefaultsAreStable
<1>1. Inv => DefaultsAreStable
  BY StoredIsComplete, CompleteSpecIsStable DEF DefaultsAreStable
<1>2. QED
  BY Invariance, <1>1, PTL

\* Whatever a user said is stored as it was said; only what was left open is filled.
THEOREM UserIsNeverOverruled == Spec => []DefaultsOnlyFill
<1>1. ASSUME NEW p \in ProtocolType
      PROVE  /\ p.port \in {0, DefaultProtocol(p).port}
             /\ p.name \in {NoName, DefaultProtocol(p).name}
  BY DEF DefaultProtocol
<1>2. ASSUME NEW s \in SpecType, NEW i \in DOMAIN s.protocols
      PROVE  /\ s.protocols[i].port \in {0, applyDefaults(s).protocols[i].port}
             /\ s.protocols[i].name \in {NoName, applyDefaults(s).protocols[i].name}
  <2>0. s.protocols \in Seq(ProtocolType)
    BY SpecRecord
  <2>1. s.protocols # <<>> /\ s.protocols[i] \in ProtocolType
    BY <2>0
  <2>2. applyDefaults(s).protocols = DefaultAll(s.protocols)
    <3>1. s = [framework |-> s.framework, image |-> s.image, replicas |-> s.replicas,
               protocols |-> s.protocols, subs |-> s.subs, tools |-> s.tools,
               volumes |-> s.volumes, mounts |-> s.mounts]
      BY SpecRecord
    <3>2. "protocols" \in DOMAIN s
      BY <3>1
    <3>3. QED
      BY <2>1, <3>2 DEF applyDefaults
  <2>3. DefaultAll(s.protocols)[i] = DefaultProtocol(s.protocols[i])
    BY DEF DefaultAll
  <2>4. QED
    BY <1>1, <2>1, <2>2, <2>3
<1>3. ASSUME NEW s \in SpecType
      PROVE  /\ s.replicas \in {None, applyDefaults(s).replicas}
             /\ [s EXCEPT !.replicas = applyDefaults(s).replicas,
                          !.protocols = applyDefaults(s).protocols] = applyDefaults(s)
  <2>1. s = [framework |-> s.framework, image |-> s.image, replicas |-> s.replicas,
             protocols |-> s.protocols, subs |-> s.subs, tools |-> s.tools,
             volumes |-> s.volumes, mounts |-> s.mounts]
    BY SpecRecord
  <2>2. QED
    BY <2>1 DEF applyDefaults
<1>4. Inv => DefaultsOnlyFill
  BY <1>2, <1>3 DEF Inv, AdmittedAsDefaulted, DefaultsOnlyFill
<1>5. QED
  BY Invariance, <1>4, PTL

\* Validation of the spec alone rules the fallback image out, for every default
\* framework and template image an administrator may configure afterwards.
THEOREM FallbackIsUnreachable == Spec => []FallbackUnreachable
<1>1. Inv => FallbackUnreachable
  <2> SUFFICES ASSUME Inv, stored # None
               PROVE  ContainerImage(stored)[1] # "fallback"
    BY DEF FallbackUnreachable
  <2>1. ValidFramework(stored)
    BY DEF Inv, AdmittedAsDefaulted, validateAgent
  <2>2. config.framework \in {"", "google-adk", "msaf"}
    BY DEF Inv, ConfigType
  <2>3. ASSUME stored.image = ""
        PROVE  resolveEffectiveFramework(stored) \in TemplateFrameworks
    BY <2>1, <2>2, <2>3 DEF ValidFramework, resolveEffectiveFramework, TemplateFrameworks
  <2>4. QED
    BY <2>3 DEF ContainerImage
<1>2. QED
  BY Invariance, <1>1, PTL

\* Every sub-agent of a stored Agent resolves through exactly one of a url and a
\* named reference.
THEOREM ReferencesAlwaysResolve == Spec => []ReferencesResolve
<1>1. ASSUME NEW sub \in SubAgentType, validateSubAgent(sub)
      PROVE  /\ ResolvesTo(sub) \in {"http", "lookup"}
             /\ sub.url # "" => sub.ref = "absent"
  BY <1>1 DEF SubAgentType, validateSubAgent, ResolvesTo
<1>2. Inv => ReferencesResolve
  <2> SUFFICES ASSUME Inv, stored # None, NEW sub \in stored.subs
               PROVE  /\ ResolvesTo(sub) \in {"http", "lookup"}
                      /\ sub.url # "" => sub.ref = "absent"
    BY DEF ReferencesResolve
  <2>1. validateSubAgent(sub)
    BY DEF Inv, AdmittedAsDefaulted, validateAgent
  <2>2. sub \in SubAgentType
    BY StoredIsComplete, SpecRecord DEF CompleteSpec
  <2>3. QED
    BY <1>1, <2>1, <2>2
<1>3. QED
  BY Invariance, <1>2, PTL

\* No mount of a stored Agent hides another, for any number of mounts in any order:
\* validation looks at each pair once but in both directions.
THEOREM MountsNeverHide == Spec => []MountsAreDisjoint
<1>1. Inv => MountsAreDisjoint
  <2> SUFFICES ASSUME Inv, stored # None, NEW i \in DOMAIN stored.mounts,
                      NEW j \in DOMAIN stored.mounts, stored.mounts[i].path # Root,
                      Covers(stored.mounts[i].path, stored.mounts[j].path)
               PROVE  FALSE
    BY DEF MountsAreDisjoint
  <2>1. ~Overlapping(stored.mounts)
    BY DEF Inv, AdmittedAsDefaulted, validateAgent, validateVolumeMounts
  <2>2. NestedUnder(stored.mounts[j].path, stored.mounts[i].path)
    BY DEF Covers, NestedUnder
  <2>3. i \in Nat /\ j \in Nat
    <3>1. stored.mounts \in Seq(MountType)
      BY StoredIsComplete, SpecRecord DEF CompleteSpec
    <3>2. QED
      BY <3>1
  <2>4. i # j
    BY DEF Covers
  <2>5. CASE i < j
    BY <2>1, <2>2, <2>5 DEF Overlapping
  <2>6. CASE j < i
    BY <2>1, <2>2, <2>6 DEF Overlapping
  <2>7. QED
    BY <2>3, <2>4, <2>5, <2>6
<1>2. QED
  BY Invariance, <1>1, PTL
=============================================================================
