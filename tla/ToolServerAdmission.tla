------------------------ MODULE ToolServerAdmission ------------------------
(***************************************************************************)
(* Admission of ToolServers (internal/webhook/v1alpha1/                    *)
(* toolserver_webhook.go) under the two ways a client writes an object: a  *)
(* replace sends the whole spec, an apply changes the stored spec where    *)
(* the client's manifest differs from the one it applied before.  With     *)
(* apply, what applyDefaults filled in comes back as part of the next      *)
(* request and looks as if the user had set it.                            *)
(***************************************************************************)
EXTENDS Naturals

CONSTANTS
  None,              \* no ToolServer stored, no port, no replicas
  Ports, Paths, ReplicaChoices,   \* what manifests ask for
  WellFormedPaths,   \* the paths that isValidPathFormat accepts
  DefaultPort

Transports == {"http", "sse"}

\* "" and None stand for a field the manifest does not mention.
ManifestType ==
  [transport : Transports \cup {""}, port : Ports \cup {None},
   path : Paths \cup {""}, replicas : ReplicaChoices \cup {None}]

ASSUME ToolServerAdmissionAssumption ==
  /\ {"/", "/mcp", "/sse"} \subseteq WellFormedPaths
  /\ "" \notin Paths \cup WellFormedPaths
  /\ ReplicaChoices \subseteq Nat
  /\ None \notin Ports \cup Nat
  /\ DefaultPort \in Nat \ {0}

Blank == [transport |-> "", port |-> None, path |-> "", replicas |-> None]

VARIABLES
  stored,     \* the ToolServer's spec in the API server, None when there is none
  manifest    \* the spec the client wrote last

vars == <<stored, manifest>>

-----------------------------------------------------------------------------
\* Set(m, f): the manifest mentions field f
Set(m, f) == m[f] # Blank[f]

\* The default of the CRD: transportType is http.
SchemaDefault(s) == [s EXCEPT !.transport = IF @ = "" THEN "http" ELSE @]

DefaultPath(transport) == IF transport = "http" THEN "/mcp" ELSE "/sse"

\* Mistake: the path always follows the transport.
DefaultsOverPath(s) ==
  [s EXCEPT !.port = IF @ = None THEN DefaultPort ELSE @,
            !.path = DefaultPath(s.transport),
            !.replicas = IF @ = None THEN 1 ELSE @]

\* Mistake: servers without replicas are left to the Deployment's default.
DefaultsWithoutReplicas(s) ==
  [s EXCEPT !.port = IF @ = None THEN DefaultPort ELSE @,
            !.path = IF @ = "" THEN DefaultPath(s.transport) ELSE @]

\* Mistake: an else-if chain fills in one field per pass.
OneDefaultPerPass(s) ==
  IF s.port = None THEN [s EXCEPT !.port = DefaultPort]
  ELSE IF s.path = "" THEN [s EXCEPT !.path = DefaultPath(s.transport)]
  ELSE [s EXCEPT !.replicas = IF @ = None THEN 1 ELSE @]

applyDefaults(s) ==
  [s EXCEPT !.port = IF @ = None THEN DefaultPort ELSE @,
            !.path = IF @ = "" THEN DefaultPath(s.transport) ELSE @,
            !.replicas = IF @ = None THEN 1 ELSE @]

validateToolServer(s) ==
  /\ s.port # None
  /\ s.path \in {"", "/"} \cup WellFormedPaths

-----------------------------------------------------------------------------
Init == stored = None /\ manifest = Blank

Admitted(s) == applyDefaults(SchemaDefault(s))

\* Three-way merge: the new manifest's fields, without those it no longer mentions
Merged(old, m, s) ==
  [f \in DOMAIN Blank |-> IF Set(m, f) THEN m[f]
                          ELSE IF Set(old, f) THEN Blank[f] ELSE s[f]]

Admit(s, m) ==
  /\ validateToolServer(Admitted(s))
  /\ stored' = Admitted(s)
  /\ manifest' = m

Create(m) == stored = None /\ Admit(m, m)

Apply(m) == stored # None /\ Admit(Merged(manifest, m, stored), m)

Replace(m) == stored # None /\ Admit(m, m)

Delete == stored # None /\ stored' = None /\ manifest' = Blank

Next ==
  \/ \E m \in ManifestType : Create(m) \/ Apply(m) \/ Replace(m)
  \/ Delete

Spec == Init /\ [][Next]_vars

-----------------------------------------------------------------------------
(* Properties                                                                *)

\* Every stored ToolServer is complete: the controller builds ports, replicas and
\* status.url from it without a default of its own.
TypeOK ==
  /\ manifest \in ManifestType
  /\ stored # None =>
       /\ stored.transport \in Transports /\ stored.port \in Ports \cup {DefaultPort}
       /\ stored.path \in WellFormedPaths /\ stored.replicas \in Nat

\* Applying the same manifest once more changes nothing, although the stored object
\* now holds defaults the manifest does not mention.
ReapplyIsStable ==
  stored # None => Admitted(Merged(manifest, manifest, stored)) = stored

\* Whatever was stored before, every field of the last manifest is in force.
ManifestWins ==
  stored # None =>
    \A f \in DOMAIN Blank : Set(manifest, f) => stored[f] = manifest[f]
=============================================================================
