---------------------- MODULE ToolServerAdmissionProofs ----------------------
(***************************************************************************)
(* Proofs about the admission of ToolServers, for any manifests.           *)
(***************************************************************************)
EXTENDS ToolServerAdmission, TLAPS

Fields == {"transport", "port", "path", "replicas"}

\* A spec that reaches the defaulting, and one that has been through it
RawType ==
  [transport : Transports \cup {""}, port : Ports \cup {None, DefaultPort},
   path : Paths \cup {"", "/mcp", "/sse"}, replicas : Nat \cup {None}]
CompleteType ==
  [transport : Transports, port : Ports \cup {DefaultPort},
   path : Paths \cup {"/mcp", "/sse"}, replicas : Nat]

\* ManifestWins makes the invariant inductive: what an apply keeps of the stored spec
\* is exactly what no manifest is the source of.
Inv ==
  /\ manifest \in ManifestType
  /\ stored # None => stored \in CompleteType /\ stored.path \in WellFormedPaths
  /\ ManifestWins

-----------------------------------------------------------------------------
LEMMA BlankFields ==
  /\ DOMAIN Blank = Fields
  /\ Blank["transport"] = "" /\ Blank["port"] = None
  /\ Blank["path"] = "" /\ Blank["replicas"] = None
  BY DEF Blank, Fields

LEMMA ManifestIsRaw == ManifestType \subseteq RawType
  BY ToolServerAdmissionAssumption DEF ManifestType, RawType

LEMMA CompleteIsRaw == CompleteType \subseteq RawType
  BY DEF CompleteType, RawType

\* Defaulting completes every spec.
LEMMA AdmittedCompletes ==
  ASSUME NEW s \in RawType
  PROVE  Admitted(s) \in CompleteType
<1>1. SchemaDefault(s) \in [transport : Transports, port : Ports \cup {None, DefaultPort},
                            path : Paths \cup {"", "/mcp", "/sse"}, replicas : Nat \cup {None}]
  BY DEF RawType, SchemaDefault, Transports
<1>2. QED
  BY <1>1, ToolServerAdmissionAssumption
     DEF Admitted, applyDefaults, DefaultPath, CompleteType, Transports

\* Defaulting keeps every field that is set.
LEMMA AdmittedKeeps ==
  ASSUME NEW s \in RawType, NEW f \in Fields, s[f] # Blank[f]
  PROVE  Admitted(s)[f] = s[f]
<1>1. CASE f = "transport"
  BY <1>1, BlankFields DEF Admitted, applyDefaults, SchemaDefault, RawType
<1>2. CASE f = "port"
  BY <1>2, BlankFields DEF Admitted, applyDefaults, SchemaDefault, RawType
<1>3. CASE f = "path"
  BY <1>3, BlankFields DEF Admitted, applyDefaults, SchemaDefault, RawType
<1>4. CASE f = "replicas"
  BY <1>4, BlankFields DEF Admitted, applyDefaults, SchemaDefault, RawType
<1>5. QED
  BY <1>1, <1>2, <1>3, <1>4 DEF Fields

\* A complete spec is left alone.
LEMMA CompleteIsStable ==
  ASSUME NEW s \in CompleteType, "" \notin Paths
  PROVE  Admitted(s) = s
<1>1. /\ s = [transport |-> s.transport, port |-> s.port, path |-> s.path,
              replicas |-> s.replicas]
      /\ s.transport # "" /\ s.port # None /\ s.path # "" /\ s.replicas # None
  BY ToolServerAdmissionAssumption DEF CompleteType, Transports
<1>2. SchemaDefault(s) = s
  BY <1>1 DEF SchemaDefault
<1>3. applyDefaults(s) = s
  BY <1>1 DEF applyDefaults
<1>4. QED
  BY <1>2, <1>3 DEF Admitted

\* A merge is a spec that may reach the defaulting, and holds the manifest's fields.
LEMMA MergedType ==
  ASSUME NEW old \in ManifestType, NEW m \in ManifestType, NEW s \in CompleteType
  PROVE  /\ Merged(old, m, s) \in RawType
         /\ \A f \in Fields : Set(m, f) => Merged(old, m, s)[f] = m[f]
<1>1. m \in RawType /\ s \in RawType
  BY ManifestIsRaw, CompleteIsRaw
<1> DEFINE r == Merged(old, m, s)
<1>2. /\ DOMAIN r = Fields
      /\ \A f \in Fields : r[f] \in {m[f], Blank[f], s[f]}
      /\ \A f \in Fields : Set(m, f) => r[f] = m[f]
      /\ r = [f \in Fields |-> r[f]]
  BY BlankFields DEF Merged
<1>3. r = [transport |-> r["transport"], port |-> r["port"], path |-> r["path"],
           replicas |-> r["replicas"]]
  BY <1>2 DEF Fields
<1>4. /\ r["transport"] \in Transports \cup {""}
      /\ r["port"] \in Ports \cup {None, DefaultPort}
      /\ r["path"] \in Paths \cup {"", "/mcp", "/sse"}
      /\ r["replicas"] \in Nat \cup {None}
  BY <1>1, <1>2, BlankFields DEF Fields, RawType
<1>5. r \in RawType
  BY <1>3, <1>4 DEF RawType
<1>6. QED
  BY <1>2, <1>5

\* Merging a manifest into what it is in force in changes nothing.
LEMMA MergedIsStable ==
  ASSUME NEW m \in ManifestType, NEW s \in CompleteType,
         \A f \in Fields : Set(m, f) => s[f] = m[f]
  PROVE  Merged(m, m, s) = s
<1>1. Merged(m, m, s) = [f \in Fields |-> s[f]]
  BY BlankFields DEF Merged
<1>2. s = [f \in Fields |-> s[f]]
  BY DEF CompleteType, Fields
<1>3. QED
  BY <1>1, <1>2

-----------------------------------------------------------------------------
LEMMA BlankIsManifest == Blank \in ManifestType
  BY DEF Blank, ManifestType

LEMMA InitInv == Init => Inv
  BY BlankIsManifest DEF Init, Inv, ManifestWins

LEMMA AdmitInv ==
  ASSUME Inv, NEW m \in ManifestType, NEW s \in RawType, Admit(s, m),
         \A f \in Fields : Set(m, f) => s[f] = m[f]
  PROVE  Inv'
<1>1. stored' = Admitted(s) /\ manifest' = m /\ validateToolServer(Admitted(s))
  BY DEF Admit
<1>2. Admitted(s) \in CompleteType
  BY AdmittedCompletes
<1>3. Admitted(s).path \in WellFormedPaths
  BY <1>1, <1>2, ToolServerAdmissionAssumption DEF validateToolServer, CompleteType
<1>4. \A f \in Fields : Set(m, f) => Admitted(s)[f] = m[f]
  BY AdmittedKeeps DEF Set
<1>5. ManifestWins'
  BY <1>1, <1>4, BlankFields DEF ManifestWins, Set
<1>6. QED
  BY <1>1, <1>2, <1>3, <1>5 DEF Inv

LEMMA NextInv == Inv /\ [Next]_vars => Inv'
<1> SUFFICES ASSUME Inv, [Next]_vars PROVE Inv'
  OBVIOUS
<1>1. ASSUME NEW m \in ManifestType, Create(m) \/ Replace(m) PROVE Inv'
  <2>1. m \in RawType
    BY ManifestIsRaw
  <2>2. Admit(m, m)
    BY <1>1 DEF Create, Replace
  <2>3. QED
    BY <2>1, <2>2, AdmitInv
<1>2. ASSUME NEW m \in ManifestType, Apply(m) PROVE Inv'
  <2>1. stored \in CompleteType /\ manifest \in ManifestType
    BY <1>2 DEF Apply, Inv
  <2>2. Admit(Merged(manifest, m, stored), m)
    BY <1>2 DEF Apply
  <2>3. QED
    BY <2>1, <2>2, MergedType, AdmitInv
<1>3. CASE Delete
  BY <1>3, BlankIsManifest DEF Delete, Inv, ManifestWins
<1>4. CASE UNCHANGED vars
  BY <1>4 DEF vars, Inv, ManifestWins, Set
<1>5. QED
  BY <1>1, <1>2, <1>3, <1>4 DEF Next

LEMMA Invariance == Spec => []Inv
<1>1. Init => Inv
  BY InitInv
<1>2. Inv /\ [Next]_vars => Inv'
  BY NextInv
<1>3. QED
  BY <1>1, <1>2, PTL DEF Spec

-----------------------------------------------------------------------------
\* Every stored ToolServer is complete, however it was written.
THEOREM AdmissionTypeCorrect == Spec => []TypeOK
<1>1. Inv => TypeOK
  BY DEF Inv, TypeOK, CompleteType
<1>2. QED
  BY Invariance, <1>1, PTL

\* What the last manifest mentions is in force, through any history of creates,
\* applies and replaces: no default and no leftover of an earlier one wins over it.
THEOREM ManifestAlwaysWins == Spec => []ManifestWins
<1>1. Inv => ManifestWins
  BY DEF Inv
<1>2. QED
  BY Invariance, <1>1, PTL

\* Applying a manifest again never changes the stored ToolServer, although defaults
\* come back with it as if the user had set them.
THEOREM ReapplyChangesNothing == Spec => []ReapplyIsStable
<1>1. Inv => ReapplyIsStable
  <2> SUFFICES ASSUME Inv, stored # None
               PROVE  Admitted(Merged(manifest, manifest, stored)) = stored
    BY DEF ReapplyIsStable
  <2>1. stored \in CompleteType /\ manifest \in ManifestType
    BY DEF Inv
  <2>2. \A f \in Fields : Set(manifest, f) => stored[f] = manifest[f]
    BY BlankFields DEF Inv, ManifestWins
  <2>3. QED
    BY <2>1, <2>2, MergedIsStable, CompleteIsStable, ToolServerAdmissionAssumption
<1>2. QED
  BY Invariance, <1>1, PTL
=============================================================================
