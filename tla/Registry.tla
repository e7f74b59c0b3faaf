------------------------------ MODULE Registry ------------------------------
(* The catalogue of manifests (ubb_registry/, ubb_schema.py).  Operators   *)
(* write manifests; `ubb-schema` judges all of the catalogue, its examples *)
(* included, before it is deployed; load_registry judges the directories   *)
(* of services, endpoints and integrations again with code of its own and  *)
(* builds the read-only registry that a process queries from then on.  Of  *)
(* `ubb-schema` with paths as arguments, which checks each document alone, *)
(* only SchemaValid is here.  What is written while a process runs is for  *)
(* the next one and left out here.  A manifest has the fields that the     *)
(* checks read.                                                            *)
EXTENDS Naturals, FiniteSets

CONSTANTS ServiceIds, EndpointIds, IntegrationIds,
          NoRef,          \* no integration, and the answer of a query that raises
          MaxManifests,   \* bound: manifests in the catalogue
          MaxExamples     \* bound: those of them among the examples

ASSUME RegistryAssumption ==
  NoRef \notin IntegrationIds /\ MaxManifests \in Nat /\ MaxExamples \in Nat

VARIABLES catalog,   \* the manifests beneath the three directories
          examples,  \* the manifests beneath other ones, as catalog/examples
          loaded     \* the registry of the running process

registryVars == <<catalog, examples, loaded>>

Kinds == {"service", "endpoint", "integration"}
EndpointTypes == {"tcp", "supervisor"}   \* two of the schema's seven

Services == [kind : {"service"}, id : ServiceIds, endpoint : EndpointIds,
             integration : IntegrationIds \cup {NoRef}, type : {"bbs", "door"},
             via : {{}} \cup {{s} : s \in ServiceIds}]
Endpoints == [kind : {"endpoint"}, id : EndpointIds, type : EndpointTypes]
Integrations == [kind : {"integration"}, id : IntegrationIds, target : ServiceIds]
(* Manifests that a check of the document alone refuses: bad ones, and     *)
(* good ones of another kind or in another kind's directory.               *)
Others == {[kind |-> "service", id |-> "bad"], [kind |-> "artifact", id |-> "stray"],
           [kind |-> "endpoint", id |-> "misplaced"]}
Manifests == Services \cup Endpoints \cup Integrations \cup Others

NoRegistry == [k \in Kinds |-> {}]

RegistryInit == catalog = {} /\ examples = {} /\ loaded = NoRegistry

-----------------------------------------------------------------------------
(* validation_errors, and the two tests of load_registry that follow it.   *)
SchemaValid(d) == d.id # "bad"
RegistryKind(d) == d.kind \in Kinds
InItsDirectory(d) == d.id # "misplaced"

OfKind(docs, k) == {d \in docs : d.kind = k}
Ids(docs, k) == {d.id : d \in OfKind(docs, k)}
Unique(docs) == \A d, e \in docs : d.kind = e.kind /\ d.id = e.id => d = e

(* Registry.create, from documents with unique identifiers.                *)
Create(docs) == [k \in Kinds |-> OfKind(docs, k)]

(* _validate_references                                                    *)
ReferencesHold(reg) ==
  /\ \A s \in reg["service"] :
       /\ \E e \in reg["endpoint"] : e.id = s.endpoint
       /\ s.integration # NoRef => \E i \in reg["integration"] : i.id = s.integration /\ i.target = s.id
       /\ \A b \in s.via : \E t \in reg["service"] : t.id = b /\ t.type = "bbs"
  /\ \A i \in reg["integration"] : \E s \in reg["service"] : s.id = i.target

(* load_registry, which raises at the first test that fails.               *)
Loads(docs) ==
  /\ docs # {}
  /\ \A d \in docs : SchemaValid(d) /\ RegistryKind(d) /\ InItsDirectory(d)
  /\ Unique(docs)
  /\ ReferencesHold(Create(docs))

FaultyCrossReferenceErrors(docs, more) ==
  {<<s, "integration">> : s \in {x \in OfKind(docs \cup more, "service") \ Others :
        x.integration # NoRef /\ x.integration \notin Ids(docs \cup more, "integration")}}

(* cross_reference_errors: one entry for every fault, over the documents   *)
(* of the three directories and more; where identifiers repeat, the first  *)
(* declaration stands for them.  A text in both places is there twice.     *)
CrossReferenceErrors(docs, more) ==
  LET all == docs \cup more
      services == OfKind(all, "service")
      integrations == OfKind(all, "integration")
      first(of, id) == CHOOSE d \in of : d.id = id IN
     {<<d, "duplicate">> : d \in (docs \cap more) \cup
          {x \in all : \E y \in all \ {x} : y.kind = x.kind /\ y.id = x.id}}
  \cup {<<s, "endpoint">> : s \in {x \in services : x.endpoint \notin Ids(all, "endpoint")}}
  \cup {<<s, "integration">> : s \in {x \in services : x.integration # NoRef /\
           \/ x.integration \notin Ids(all, "integration")
           \/ first(integrations, x.integration).target # x.id}}
  \cup {<<s, "via_bbs">> : s \in {x \in services : \E b \in x.via :
           \/ b \notin Ids(all, "service")
           \/ first(services, b).type # "bbs"}}
  \cup {<<i, "target">> : i \in {x \in integrations : x.target \notin Ids(all, "service")}}

(* ubb-schema: every document, then the references if all are valid.       *)
SchemaCommandPasses(docs, more) ==
  /\ docs \cup more # {}
  /\ \A d \in docs \cup more : SchemaValid(d)
  /\ CrossReferenceErrors(docs, more) = {}

-----------------------------------------------------------------------------
Room == Cardinality(catalog) + Cardinality(examples) < MaxManifests

AddManifest(d) ==
  /\ loaded = NoRegistry /\ Room
  /\ catalog' = catalog \cup {d}
  /\ UNCHANGED <<examples, loaded>>

AddExample(d) ==
  /\ loaded = NoRegistry /\ Room
  /\ Cardinality(examples) < MaxExamples
  /\ examples' = examples \cup {d}
  /\ UNCHANGED <<catalog, loaded>>

RemoveManifest(d) ==
  /\ loaded = NoRegistry
  /\ \/ catalog' = catalog \ {d} /\ UNCHANGED examples
     \/ examples' = examples \ {d} /\ UNCHANGED catalog
  /\ UNCHANGED loaded

FaultyLoadRegistry ==
  /\ loaded' = IF Unique(catalog) /\ \A d \in catalog : d \notin Others
               THEN Create(catalog) ELSE NoRegistry
  /\ UNCHANGED <<catalog, examples>>

(* A process starts and loads the registry, or ends with the error.        *)
LoadRegistry ==
  /\ loaded' = IF Loads(catalog) THEN Create(catalog) ELSE NoRegistry
  /\ UNCHANGED <<catalog, examples>>

ProcessEnds ==
  /\ loaded' = NoRegistry
  /\ UNCHANGED <<catalog, examples>>

RegistryNext ==
  \/ \E d \in Manifests : AddManifest(d) \/ AddExample(d)
  \/ \E d \in catalog \cup examples : RemoveManifest(d)
  \/ LoadRegistry \/ ProcessEnds

RegistrySpec == RegistryInit /\ [][RegistryNext]_registryVars

-----------------------------------------------------------------------------
(* The queries: what they return, NoRef where they raise.                  *)

Lookup(reg, k, id) ==
  LET found == {d \in reg[k] : d.id = id} IN
  IF found = {} THEN NoRef ELSE CHOOSE d \in found : TRUE

NormalizedType(e) == IF e.type = "supervisor" THEN "remote_supervisor" ELSE e.type

(* resolve(service_id)                                                     *)
Resolve(reg, id) ==
  LET s == Lookup(reg, "service", id) IN
  IF s = NoRef THEN NoRef
  ELSE LET e == Lookup(reg, "endpoint", s.endpoint)
           i == Lookup(reg, "integration", s.integration) IN
       IF e = NoRef \/ (s.integration # NoRef /\ i = NoRef) THEN NoRef
       ELSE [service |-> s, endpoint |-> NormalizedType(e), integration |-> i]

(* An answer is told from the error.                                       *)
ASSUME NoRefAssumption ==
  /\ NoRef \notin Manifests
  /\ NoRef \notin [service : Services, endpoint : EndpointTypes \cup {"remote_supervisor"},
                   integration : Integrations \cup {NoRef}]

(* list_services(via_bbs): every service is resolved before it is chosen.  *)
ListRaises(reg) == \E s \in reg["service"] : Resolve(reg, s.id) = NoRef
ListServices(reg, bbs) == {s \in reg["service"] : bbs \in s.via}

RegistryTypeOK ==
  /\ catalog \subseteq Manifests /\ Cardinality(catalog) <= MaxManifests
  /\ examples \subseteq Manifests
  /\ \A k \in Kinds : loaded[k] \subseteq Manifests

(* The identifiers of a kind that a manifest refers to.                    *)
Refs(d, k) ==
  CASE d.kind = "service" /\ k = "endpoint" -> {d.endpoint}
    [] d.kind = "service" /\ k = "integration" -> {d.integration} \ {NoRef}
    [] d.kind = "service" /\ k = "service" -> d.via
    [] d.kind = "integration" /\ k = "service" -> {d.target}
    [] OTHER -> {}

(* A manifest of the registry refers to one that only the examples have.   *)
Leans(docs, more) ==
  \E d \in docs, k \in Kinds : Refs(d, k) \cap Ids(more, k) # {}

(* The two programs that judge a catalogue share no code and read          *)
(* different files.  What load_registry accepts, ubb-schema passes as far  *)
(* as the three directories go; what ubb-schema passes, load_registry      *)
(* accepts, apart from documents of another kind or in another kind's      *)
(* directory, of which only the latter complains, and unless a manifest of *)
(* the registry leans on an example.                                       *)
ChecksAgree ==
  /\ Loads(catalog) => SchemaCommandPasses(catalog, {})
  /\ /\ SchemaCommandPasses(catalog, examples)
     /\ catalog # {} /\ \A d \in catalog : RegistryKind(d) /\ InItsDirectory(d)
     => Loads(catalog) \/ Leans(catalog, examples)

(* A registry that was loaded answers every query about its services: no   *)
(* service is listed that cannot be resolved, a door listed behind a BBS   *)
(* has that BBS beside it, and an integration belongs to the service that  *)
(* names it.                                                               *)
LoadedAnswers ==
  /\ ~ListRaises(loaded)
  /\ \A s \in loaded["service"] :
       LET r == Resolve(loaded, s.id) IN
       r.service = s /\ (r.integration # NoRef => r.integration.target = s.id)
  /\ \A b \in ServiceIds :
       ListServices(loaded, b) # {} => Lookup(loaded, "service", b).type = "bbs"
=============================================================================
