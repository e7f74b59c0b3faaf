----------------------------- MODULE HostProofs -----------------------------
(* The services of the host: the DOS stack, the registry, the              *)
(* administrative requests and the login throttle, each for any            *)
(* population, and the types of all of them together.                      *)
EXTENDS MCHost, DeliveryProofs, SequenceTheorems, FiniteSetTheorems,
        WellFoundedInduction, TLAPS

-----------------------------------------------------------------------------
(* The pool of nodes.                                                      *)

(* NodeExclusive alone is not inductive.  What carries it is that a live   *)
(* session owns the node it was told unless the node was released without  *)
(* naming it, that a session owns no other node, and that a session that   *)
(* has not begun owns none.                                                *)
ToldIsOwned ==
  \A c \in Callers : life[c] = "live" /\ c \notin robbed
                       => told[c] \in Nodes /\ allocated[told[c]] = c

OwnedIsTold ==
  \A n \in Nodes : allocated[n] # NoCaller =>
    told[allocated[n]] = n /\ life[allocated[n]] # "new"

BegunIsTold == \A c \in Callers : life[c] # "new" => told[c] \in Nodes

NodeInv == NodeTypeOK /\ ToldIsOwned /\ OwnedIsTold /\ BegunIsTold

(* The empty pool satisfies the invariant.                                 *)
LEMMA NodeInitInv == NodeInit => NodeInv
  BY CapacityAssumption DEF NodeInit, NodeInv, NodeTypeOK, ToldIsOwned, OwnedIsTold, BegunIsTold, Nodes

(* allocate keeps it: the node is the session's own, or is free.           *)
LEMMA AllocateInv == ASSUME NodeInv, NEW c \in Callers, Allocate(c) PROVE NodeInv'
  <1> USE DEF NodeInv, NodeTypeOK, Nodes
  <1>1. PICK n \in Nodes :
          /\ allocated[n] = c \/ (allocated[n] = NoCaller /\ Owned(c) = {})
          /\ allocated' = [allocated EXCEPT ![n] = c]
          /\ told' = [told EXCEPT ![c] = n]
          /\ life' = [life EXCEPT ![c] = "live"]
          /\ robbed' = robbed \ {c}
    BY DEF Allocate, Owned, Free
  <1>2. NodeTypeOK'
    BY <1>1, CapacityAssumption
  <1>3. \A k \in Nodes : allocated[k] = c => k = n
    BY <1>1, CapacityAssumption DEF OwnedIsTold, Owned
  <1>4. ToldIsOwned'
    BY <1>1, CapacityAssumption DEF ToldIsOwned
  <1>5. OwnedIsTold'
    <2>1. ASSUME NEW k \in Nodes, allocated'[k] # NoCaller
          PROVE  told'[allocated'[k]] = k /\ life'[allocated'[k]] # "new"
      <3>1. CASE k = n
        BY <1>1, <3>1, CapacityAssumption
      <3>2. CASE k # n
        BY <1>1, <1>3, <2>1, <3>2, CapacityAssumption DEF OwnedIsTold
      <3> QED BY <3>1, <3>2
    <2> QED BY <2>1 DEF OwnedIsTold
  <1>6. BegunIsTold'
    BY <1>1 DEF BegunIsTold
  <1> QED BY <1>2, <1>4, <1>5, <1>6

(* release keeps it, however late: the node that is freed is the session's *)
(* own, or its owner is noted as robbed.                                   *)
LEMMA ReleaseInv ==
  ASSUME NodeInv, NEW c \in Callers, NEW named \in BOOLEAN, Release(c, named)
  PROVE  NodeInv'
  <1> USE DEF NodeInv, NodeTypeOK, Nodes
  <1>1. told[c] \in Nodes
    BY DEF BegunIsTold, Release
  <1>2. NodeTypeOK'
    BY CapacityAssumption DEF Release, Released
  <1>3. ToldIsOwned'
    BY <1>1, CapacityAssumption DEF Release, Released, ToldIsOwned
  <1>4. OwnedIsTold' /\ BegunIsTold'
    BY <1>1, CapacityAssumption DEF Release, Released, OwnedIsTold, BegunIsTold
  <1> QED BY <1>2, <1>3, <1>4

(* Every step keeps the invariant.                                         *)
LEMMA NodeStepInv == NodeInv /\ [NodeNext]_nodeVars => NodeInv'
  <1> SUFFICES ASSUME NodeInv, [NodeNext]_nodeVars PROVE NodeInv'
    OBVIOUS
  <1> USE DEF NodeInv, NodeTypeOK, Nodes, ToldIsOwned, OwnedIsTold, BegunIsTold
  <1>1. CASE \E c \in Callers : Allocate(c)
    BY <1>1, AllocateInv
  <1>2. CASE \E c \in Callers, named \in BOOLEAN : Release(c, named)
    BY <1>2, ReleaseInv
  <1>3. CASE \E c \in Callers : Vanish(c)
    BY <1>3, CapacityAssumption DEF Vanish
  <1>4. CASE RecoverStale
    BY <1>4, CapacityAssumption DEF RecoverStale
  <1>5. CASE UNCHANGED nodeVars
    BY <1>5 DEF nodeVars
  <1> QED BY <1>1, <1>2, <1>3, <1>4, <1>5 DEF NodeNext

(* Two live sessions run on one DOS node only after a release that named   *)
(* no session took it from one of them, whatever the capacity and the      *)
(* number of sessions (NodeAllocator of ubb_dos.py).                       *)
THEOREM NodesExclusive == NodeSpec => []NodeExclusive
  <1>1. NodeInv => NodeExclusive
    BY DEF NodeInv, ToldIsOwned, NodeExclusive
  <1> QED BY NodeInitInv, NodeStepInv, <1>1, PTL DEF NodeSpec

-----------------------------------------------------------------------------
(* Provisioning.                                                           *)

(* A call that got past its first test found no complete marker, and what  *)
(* it has finished at each step is whole and of this call.                 *)
ProvisionInv ==
  /\ DosTypeOK
  /\ step # "idle" => marker # "whole"
  /\ step \in {"dosemu2", "mark"} => prefix["fdpp"] = "whole"
  /\ step = "mark" => prefix["dosemu2"] = "whole"
  /\ step = "unpack" => \A p \in Products : tree[p] = "absent"
  /\ MarkerMeansBuilt
  /\ BuiltFromFresh

(* Nothing is provisioned at first.                                        *)
LEMMA ProvisionInit == DosInit => ProvisionInv
  BY DEF DosInit, ProvisionInv, DosTypeOK, MarkerMeansBuilt, BuiltFromFresh, Steps, FileStates3

(* Every step of the provisioning keeps markers and trees together.        *)
LEMMA ProvisionStep == ProvisionInv /\ [DosNext]_dosVars => ProvisionInv'
  <1> SUFFICES ASSUME ProvisionInv, [DosNext]_dosVars PROVE ProvisionInv'
    OBVIOUS
  <1> USE DEF ProvisionInv, DosTypeOK, MarkerMeansBuilt, BuiltFromFresh, Steps, FileStates3, Products,
              DosUnchanged
  <1>1. CASE \E i \in Inputs, bytes \in {"whole", "damaged"} : InputChanges(i, bytes)
    BY <1>1 DEF InputChanges
  <1>2. CASE SupportChanges
    BY <1>2 DEF SupportChanges
  <1>3. CASE ProvisionBegin
    BY <1>3 DEF ProvisionBegin
  <1>4. CASE ClearTrees
    BY <1>4 DEF ClearTrees
  <1>5. CASE Unpack
    BY <1>5 DEF Unpack
  <1>6. CASE InstallFdpp
    BY <1>6 DEF InstallFdpp
  <1>7. CASE InstallDosemu
    BY <1>7 DEF InstallDosemu
  <1>8. CASE WriteMarker
    BY <1>8 DEF WriteMarker
  <1>9. CASE ProvisionFails
    BY <1>9 DEF ProvisionFails
  <1>10. CASE \E e \in Extractors : ExtractBegin(e) \/ ExtractOpen(e) \/ ExtractCopy(e) \/ ExtractFails(e)
    BY <1>10 DEF ExtractBegin, ExtractOpen, ExtractCopy, ExtractFails, IsoUnchanged
  <1>11. CASE UNCHANGED dosVars
    BY <1>11 DEF dosVars
  <1> QED BY <1>1, <1>2, <1>3, <1>4, <1>5, <1>6, <1>7, <1>8, <1>9, <1>10, <1>11 DEF DosNext

(* A complete ubb-provisioning.json stands in a prefix whose two installs  *)
(* ran to their end, whatever provision_runtime calls failed or died.      *)
THEOREM MarkersMeanBuilt == DosSpec => []MarkerMeansBuilt
  <1>1. ProvisionInv => MarkerMeansBuilt
    BY DEF ProvisionInv
  <1> QED BY <1>1, ProvisionInit, ProvisionStep, PTL DEF DosSpec

(* What provision_runtime installs was built from trees it extracted.      *)
THEOREM BuildsAreFresh == DosSpec => []BuiltFromFresh
  <1>1. ProvisionInv => BuiltFromFresh
    BY DEF ProvisionInv
  <1> QED BY <1>1, ProvisionInit, ProvisionStep, PTL DEF DosSpec

-----------------------------------------------------------------------------
(* The serial qualification.                                               *)

(* Past the reply the guest has answered, there is no verdict before the   *)
(* finally clause, and a stopped guest does not come back.                 *)
EvidenceInv ==
  /\ at \notin {"finally", "idle"} => verdict = "none"
  /\ at = "selftest" => mode = "SELFTEST"
  /\ at \in {"stop", "inspect", "result"} /\ mode # "SELFTEST" => wire = "answered"
  /\ ImageIsQuiet
  /\ PassIsEvidenced

(* Every step of the harness keeps its verdicts on what it has read.       *)
LEMMA EvidenceStep == EvidenceInv /\ [SerialNext]_serialVars => EvidenceInv'
  <1> SUFFICES ASSUME EvidenceInv, [SerialNext]_serialVars PROVE EvidenceInv'
    OBVIOUS
  <1> USE DEF EvidenceInv, ImageIsQuiet, PassIsEvidenced
  <1>1. CASE \E m \in SerialModes, i \in BOOLEAN : RunStarts(m, i)
    BY <1>1 DEF RunStarts
  <1>2. CASE GuestBoots \/ GuestSelftest \/ GuestAnswers \/ GuestRecords \/ GuestGivesUp \/ GuestEnds
    BY <1>2 DEF GuestBoots, GuestSelftest, GuestAnswers, GuestRecords, GuestGivesUp, GuestEnds, GuestStep
  <1>3. CASE DeadlinePasses
    BY <1>3 DEF DeadlinePasses
  <1>4. CASE AwaitBoot \/ SendBytes
    BY <1>4 DEF AwaitBoot, SendBytes, HarnessUnchanged, Goto, Raise, Uncaught, Conclude
  <1>5. CASE AwaitSelftest
    BY <1>5 DEF AwaitSelftest, HarnessUnchanged, Goto, Raise, Uncaught, Conclude, Matches
  <1>6. CASE AwaitReply \/ StopGuest
    BY <1>6 DEF AwaitReply, StopGuest, HarnessUnchanged, Goto, Raise, Uncaught, Conclude
  <1>7. CASE InspectImage
    BY <1>7 DEF InspectImage, HarnessUnchanged, Goto, Raise, Uncaught, Conclude, Matches
  <1>8. CASE AwaitResult
    BY <1>8 DEF AwaitResult, HarnessUnchanged, Goto, Raise, Uncaught, Conclude, Matches
  <1>9. CASE CleanUp
    BY <1>9 DEF CleanUp
  <1>10. CASE UNCHANGED serialVars
    BY <1>10 DEF serialVars
  <1> QED BY <1>1, <1>2, <1>3, <1>4, <1>5, <1>6, <1>7, <1>8, <1>9, <1>10 DEF SerialNext, Harness

(* There is no verdict at first.                                           *)
LEMMA EvidenceInit == SerialInit => EvidenceInv
  BY DEF SerialInit, EvidenceInv, ImageIsQuiet, PassIsEvidenced

(* A PASS of EXCHANGE or MATRIX means that this run's guest answered, and  *)
(* every PASS rests on a record of the run's mode.                         *)
THEOREM PassesAreEvidenced == SerialSpec => []PassIsEvidenced
  <1>1. EvidenceInv => PassIsEvidenced
    BY DEF EvidenceInv
  <1> QED BY <1>1, EvidenceInit, EvidenceStep, PTL DEF SerialSpec

(* The FAT image is never read, nor the next run begun, beside a live      *)
(* guest.                                                                  *)
THEOREM ImagesAreQuiet == SerialSpec => []ImageIsQuiet
  <1>1. EvidenceInv => ImageIsQuiet
    BY DEF EvidenceInv
  <1> QED BY <1>1, EvidenceInit, EvidenceStep, PTL DEF SerialSpec

-----------------------------------------------------------------------------
(* The registry.                                                           *)

(* The valid manifests of a registry kind are of the shape of their kind.  *)
LEMMA ShapeOfManifests ==
  ASSUME NEW d \in Manifests, SchemaValid(d), InItsDirectory(d)
  PROVE  /\ d.kind = "service" => d \in Services
         /\ d.kind = "endpoint" => d \in Endpoints
         /\ d.kind = "integration" => d \in Integrations
  BY DEF Manifests, Services, Endpoints, Integrations, Others, SchemaValid, InItsDirectory

(* With unique identifiers, the declaration that stands for an identifier  *)
(* is the one that bears it.                                               *)
LEMMA FirstIsUnique ==
  ASSUME NEW docs, Unique(docs), NEW k, NEW d \in OfKind(docs, k)
  PROVE  (CHOOSE x \in OfKind(docs, k) : x.id = d.id) = d
  <1> DEFINE c == CHOOSE x \in OfKind(docs, k) : x.id = d.id
  <1>1. c \in OfKind(docs, k) /\ c.id = d.id
    OBVIOUS
  <1> QED BY <1>1 DEF OfKind, Unique

(* What cross_reference_errors says of the documents of the directories    *)
(* and more, fault by fault.                                               *)
FirstOf(of, id) == CHOOSE d \in of : d.id = id

Faultless(docs, more) ==
  LET all == docs \cup more IN
  /\ docs \cap more = {} /\ Unique(all)
  /\ \A x \in OfKind(all, "service") :
       /\ x.endpoint \in Ids(all, "endpoint")
       /\ x.integration # NoRef => /\ x.integration \in Ids(all, "integration")
                                  /\ FirstOf(OfKind(all, "integration"), x.integration).target = x.id
       /\ \A b \in x.via : /\ b \in Ids(all, "service")
                           /\ FirstOf(OfKind(all, "service"), b).type = "bbs"
  /\ \A x \in OfKind(all, "integration") : x.target \in Ids(all, "service")

(* There are no errors exactly when there is no fault.                     *)
LEMMA NoErrors ==
  ASSUME NEW docs, NEW more
  PROVE  CrossReferenceErrors(docs, more) = {} <=> Faultless(docs, more)
  <1> DEFINE all == docs \cup more
             S == OfKind(all, "service")
             I == OfKind(all, "integration")
             dup == (docs \cap more) \cup {x \in all : \E y \in all \ {x} : y.kind = x.kind /\ y.id = x.id}
             noEndpoint == {x \in S : x.endpoint \notin Ids(all, "endpoint")}
             noIntegration == {x \in S : x.integration # NoRef /\
                                 \/ x.integration \notin Ids(all, "integration")
                                 \/ FirstOf(I, x.integration).target # x.id}
             noBbs == {x \in S : \E b \in x.via :
                         \/ b \notin Ids(all, "service")
                         \/ FirstOf(S, b).type # "bbs"}
             noTarget == {x \in I : x.target \notin Ids(all, "service")}
  <1>1. CrossReferenceErrors(docs, more) = {} <=>
          dup = {} /\ noEndpoint = {} /\ noIntegration = {} /\ noBbs = {} /\ noTarget = {}
    <2>1. CrossReferenceErrors(docs, more) =
             {<<x, "duplicate">> : x \in dup} \cup {<<x, "endpoint">> : x \in noEndpoint}
        \cup {<<x, "integration">> : x \in noIntegration} \cup {<<x, "via_bbs">> : x \in noBbs}
        \cup {<<x, "target">> : x \in noTarget}
      BY DEF CrossReferenceErrors, FirstOf
    <2> HIDE DEF dup, noEndpoint, noIntegration, noBbs, noTarget
    <2> QED BY <2>1
  <1>2. dup = {} <=> docs \cap more = {} /\ Unique(all)
    BY DEF Unique
  <1> HIDE DEF all, S, I
  <1>3. noEndpoint = {} <=> \A x \in S : x.endpoint \in Ids(all, "endpoint")
    OBVIOUS
  <1>4. noIntegration = {} <=> \A x \in S : x.integration # NoRef =>
          x.integration \in Ids(all, "integration") /\ FirstOf(I, x.integration).target = x.id
    OBVIOUS
  <1>5. noBbs = {} <=> \A x \in S : \A b \in x.via :
          b \in Ids(all, "service") /\ FirstOf(S, b).type = "bbs"
    OBVIOUS
  <1>6. noTarget = {} <=> \A x \in I : x.target \in Ids(all, "service")
    OBVIOUS
  <1> HIDE DEF dup, noEndpoint, noIntegration, noBbs, noTarget
  <1> QED BY <1>1, <1>2, <1>3, <1>4, <1>5, <1>6 DEF Faultless, all, S, I

(* The references of load_registry, and those of ubb-schema without the    *)
(* examples.                                                               *)
LEMMA ReferencesAgree ==
  ASSUME NEW docs
  PROVE  Unique(docs) /\ ReferencesHold(Create(docs)) <=> CrossReferenceErrors(docs, {}) = {}
  <1> DEFINE S == OfKind(docs, "service")
             E == OfKind(docs, "endpoint")
             I == OfKind(docs, "integration")
  <1>1. CrossReferenceErrors(docs, {}) = {} <=>
          /\ Unique(docs)
          /\ \A x \in S : x.endpoint \in Ids(docs, "endpoint")
          /\ \A x \in S : x.integration # NoRef =>
               x.integration \in Ids(docs, "integration") /\ FirstOf(I, x.integration).target = x.id
          /\ \A x \in S : \A b \in x.via :
               b \in Ids(docs, "service") /\ FirstOf(S, b).type = "bbs"
          /\ \A x \in I : x.target \in Ids(docs, "service")
    <2>1. docs \cup {} = docs /\ docs \cap {} = {}
      OBVIOUS
    <2>2. Faultless(docs, {}) <=> CrossReferenceErrors(docs, {}) = {}
      BY NoErrors
    <2> QED BY <2>1, <2>2 DEF Faultless
  <1>3. /\ Create(docs)["service"] = S
        /\ Create(docs)["endpoint"] = E
        /\ Create(docs)["integration"] = I
    BY DEF Create, Kinds
  <1>4. /\ \A id : id \in Ids(docs, "service") <=> \E x \in S : x.id = id
        /\ \A id : id \in Ids(docs, "endpoint") <=> \E x \in E : x.id = id
        /\ \A id : id \in Ids(docs, "integration") <=> \E x \in I : x.id = id
    BY DEF Ids
  <1>5. ASSUME Unique(docs)
        PROVE  /\ \A x \in S : FirstOf(S, x.id) = x
               /\ \A x \in I : FirstOf(I, x.id) = x
    BY <1>5, FirstIsUnique DEF FirstOf
  <1> HIDE DEF S, E, I
  <1> QED BY <1>1, <1>3, <1>4, <1>5 DEF ReferencesHold

(* A catalogue that passes with its examples and does not lean on them     *)
(* passes without them.                                                    *)
LEMMA WithoutExamples ==
  ASSUME NEW docs, NEW more, Faultless(docs, more), ~Leans(docs, more)
  PROVE  Faultless(docs, {})
  <1> DEFINE all == docs \cup more
  <1>1. /\ Unique(all) /\ Unique(docs)
        /\ \A k : OfKind(docs, k) \subseteq OfKind(all, k)
        /\ \A k, id : id \in Ids(all, k) => id \in Ids(docs, k) \/ id \in Ids(more, k)
    BY DEF Faultless, Unique, OfKind, Ids
  <1>2. ASSUME NEW k \in Kinds, NEW d \in docs, NEW id \in Refs(d, k), id \in Ids(all, k)
        PROVE  id \in Ids(docs, k) /\ FirstOf(OfKind(docs, k), id) = FirstOf(OfKind(all, k), id)
    <2>1. id \in Ids(docs, k)
      BY <1>1, <1>2 DEF Leans
    <2>2. PICK d0 \in OfKind(docs, k) : d0.id = id
      BY <2>1 DEF Ids
    <2>3. d0 \in OfKind(all, k)
      BY <1>1
    <2> QED BY <1>1, <2>1, <2>2, <2>3, FirstIsUnique DEF FirstOf
  <1>3. ASSUME NEW x \in OfKind(docs, "service")
        PROVE  /\ x \in docs /\ x \in OfKind(all, "service")
               /\ x.endpoint \in Refs(x, "endpoint")
               /\ x.integration # NoRef => x.integration \in Refs(x, "integration")
               /\ \A b \in x.via : b \in Refs(x, "service")
    <2>1. x.kind = "service" /\ x \in docs /\ x \in OfKind(all, "service")
      BY DEF OfKind
    <2>2. /\ Refs(x, "endpoint") = {x.endpoint}
          /\ Refs(x, "integration") = {x.integration} \ {NoRef}
          /\ Refs(x, "service") = x.via
      BY <2>1 DEF Refs
    <2> QED BY <2>1, <2>2
  <1>4. ASSUME NEW x \in OfKind(docs, "integration")
        PROVE  x \in docs /\ x \in OfKind(all, "integration") /\ x.target \in Refs(x, "service")
    <2>1. x.kind = "integration" /\ x \in docs /\ x \in OfKind(all, "integration")
      BY DEF OfKind
    <2>2. Refs(x, "service") = {x.target}
      BY <2>1 DEF Refs
    <2> QED BY <2>1, <2>2
  <1>5. "service" \in Kinds /\ "endpoint" \in Kinds /\ "integration" \in Kinds
    BY DEF Kinds
  <1>6. docs \cup {} = docs /\ docs \cap {} = {}
    OBVIOUS
  <1>7. /\ \A x \in OfKind(all, "service") :
             /\ x.endpoint \in Ids(all, "endpoint")
             /\ x.integration # NoRef => /\ x.integration \in Ids(all, "integration")
                                        /\ FirstOf(OfKind(all, "integration"), x.integration).target = x.id
             /\ \A b \in x.via : /\ b \in Ids(all, "service")
                                 /\ FirstOf(OfKind(all, "service"), b).type = "bbs"
        /\ \A x \in OfKind(all, "integration") : x.target \in Ids(all, "service")
    BY DEF Faultless
  <1> HIDE DEF all
  <1>8. ASSUME NEW x \in OfKind(docs, "service")
        PROVE  /\ x.endpoint \in Ids(docs, "endpoint")
               /\ x.integration # NoRef => /\ x.integration \in Ids(docs, "integration")
                                          /\ FirstOf(OfKind(docs, "integration"), x.integration).target = x.id
               /\ \A b \in x.via : /\ b \in Ids(docs, "service")
                                   /\ FirstOf(OfKind(docs, "service"), b).type = "bbs"
    BY <1>2, <1>3, <1>5, <1>7
  <1>9. ASSUME NEW x \in OfKind(docs, "integration") PROVE x.target \in Ids(docs, "service")
    BY <1>2, <1>4, <1>5, <1>7
  <1> QED BY <1>1, <1>6, <1>8, <1>9 DEF Faultless

(* load_registry and ubb-schema, whatever is in the catalogue: the former  *)
(* accepts no registry that the latter would not pass, and refuses none    *)
(* that the latter passed unless it leans on an example, although the two  *)
(* share no code and read different files.                                 *)
THEOREM ChecksAlwaysAgree == RegistrySpec => []ChecksAgree
  <1>1. Loads(catalog) => SchemaCommandPasses(catalog, {})
    BY ReferencesAgree DEF Loads, SchemaCommandPasses
  <1>2. ASSUME SchemaCommandPasses(catalog, examples), ~Leans(catalog, examples), catalog # {},
               \A d \in catalog : RegistryKind(d) /\ InItsDirectory(d)
        PROVE  Loads(catalog)
    <2>1. CrossReferenceErrors(catalog, {}) = {}
      BY <1>2, NoErrors, WithoutExamples DEF SchemaCommandPasses
    <2>2. Unique(catalog) /\ ReferencesHold(Create(catalog))
      BY <2>1, ReferencesAgree
    <2> QED BY <1>2, <2>2 DEF Loads, SchemaCommandPasses
  <1>3. ChecksAgree
    BY <1>1, <1>2 DEF ChecksAgree
  <1> QED BY <1>3, PTL

(* A running process has no registry, or one that load_registry built from *)
(* manifests it accepted.                                                  *)
LoadedInv ==
  /\ catalog \subseteq Manifests /\ examples \subseteq Manifests
  /\ loaded # NoRegistry => loaded = Create(catalog) /\ Loads(catalog)

(* No registry is loaded at first.                                         *)
LEMMA LoadedInit == RegistryInit => LoadedInv
  BY DEF RegistryInit, LoadedInv

(* The catalogue changes for the next process only.                        *)
LEMMA LoadedStep == LoadedInv /\ [RegistryNext]_registryVars => LoadedInv'
  <1> USE DEF LoadedInv
  <1>1. ASSUME LoadedInv, NEW d \in Manifests, AddManifest(d) \/ AddExample(d) PROVE LoadedInv'
    BY <1>1 DEF AddManifest, AddExample
  <1>2. ASSUME LoadedInv, NEW d \in catalog \cup examples, RemoveManifest(d) PROVE LoadedInv'
    BY <1>2 DEF RemoveManifest
  <1>3. ASSUME LoadedInv, LoadRegistry \/ ProcessEnds PROVE LoadedInv'
    <2>1. Loads(catalog)' <=> Loads(catalog)
      BY <1>3 DEF LoadRegistry, ProcessEnds
    <2> QED BY <1>3, <2>1 DEF LoadRegistry, ProcessEnds
  <1>4. ASSUME LoadedInv, UNCHANGED registryVars PROVE LoadedInv'
    BY <1>4 DEF registryVars
  <1> QED BY <1>1, <1>2, <1>3, <1>4 DEF RegistryNext

(* Looking up an identifier that is declared finds its declaration.        *)
LEMMA LookupFinds ==
  ASSUME NEW docs, docs \subseteq Manifests, Unique(docs), NEW k \in Kinds,
         NEW d \in OfKind(docs, k)
  PROVE  Lookup(Create(docs), k, d.id) = d /\ d # NoRef
  <1> DEFINE found == {x \in OfKind(docs, k) : x.id = d.id}
  <1>1. Create(docs)[k] = OfKind(docs, k)
    BY DEF Create
  <1>2. found = {d}
    BY DEF OfKind, Unique
  <1>3. (CHOOSE x \in found : TRUE) = d
    BY <1>2
  <1>4. d # NoRef
    BY NoRefAssumption DEF OfKind
  <1> QED BY <1>1, <1>2, <1>3, <1>4 DEF Lookup

(* No integration is declared under NoRef.                                 *)
LEMMA NoIntegration ==
  ASSUME NEW docs, docs \subseteq Manifests, Loads(docs)
  PROVE  Lookup(Create(docs), "integration", NoRef) = NoRef
  <1>1. Create(docs)["integration"] = OfKind(docs, "integration")
    BY DEF Create, Kinds
  <1>2. \A d \in OfKind(docs, "integration") : d.id # NoRef
    BY ShapeOfManifests, RegistryAssumption DEF OfKind, Loads, Integrations
  <1> QED BY <1>1, <1>2 DEF Lookup

(* A service of an accepted catalogue resolves to itself, and to the       *)
(* integration that targets it if it names one.                            *)
LEMMA ServiceResolves ==
  ASSUME NEW docs, docs \subseteq Manifests, Loads(docs),
         NEW s \in OfKind(docs, "service")
  PROVE  LET r == Resolve(Create(docs), s.id) IN
         /\ r # NoRef /\ r.service = s
         /\ r.integration # NoRef => r.integration.target = s.id
  <1> DEFINE reg == Create(docs)
             i == Lookup(reg, "integration", s.integration)
  <1>1. /\ reg["service"] = OfKind(docs, "service")
        /\ reg["endpoint"] = OfKind(docs, "endpoint")
        /\ reg["integration"] = OfKind(docs, "integration")
    BY DEF Create, Kinds
  <1>2. Unique(docs) /\ ReferencesHold(reg) /\ s \in Services
    BY ShapeOfManifests DEF Loads, OfKind
  <1> HIDE DEF reg
  <1>3. Lookup(reg, "service", s.id) = s /\ s # NoRef
    BY <1>2, LookupFinds DEF Kinds, reg
  <1>4. PICK e \in OfKind(docs, "endpoint") : e.id = s.endpoint
    BY <1>1, <1>2 DEF ReferencesHold
  <1>5. Lookup(reg, "endpoint", s.endpoint) = e /\ e # NoRef /\ e \in Endpoints
    BY <1>2, <1>4, LookupFinds, ShapeOfManifests DEF Kinds, reg, OfKind, Loads
  <1>6. IF s.integration = NoRef THEN i = NoRef
        ELSE i \in Integrations /\ i # NoRef /\ i.target = s.id
    <2>1. CASE s.integration = NoRef
      BY <2>1, NoIntegration DEF reg
    <2>2. CASE s.integration # NoRef
      <3>1. PICK x \in OfKind(docs, "integration") : x.id = s.integration /\ x.target = s.id
        BY <1>1, <1>2, <2>2 DEF ReferencesHold
      <3>2. i = x /\ x # NoRef /\ x \in Integrations
        BY <1>2, <3>1, LookupFinds, ShapeOfManifests DEF Kinds, reg, OfKind, Loads
      <3> QED BY <2>2, <3>1, <3>2
    <2> QED BY <2>1, <2>2
  <1> DEFINE r == [service |-> s, endpoint |-> NormalizedType(e), integration |-> i]
  <1>7. Resolve(reg, s.id) = r
    BY <1>3, <1>5, <1>6 DEF Resolve
  <1>8. r \in [service : Services, endpoint : EndpointTypes \cup {"remote_supervisor"},
               integration : Integrations \cup {NoRef}]
    BY <1>2, <1>5, <1>6 DEF NormalizedType, Endpoints
  <1>9. r # NoRef
    BY <1>8, NoRefAssumption
  <1>10. r.service = s /\ r.integration = i
    OBVIOUS
  <1> HIDE DEF r, i
  <1> QED BY <1>6, <1>7, <1>9, <1>10 DEF reg

(* Whatever the catalogue was when the process started, a registry that    *)
(* loaded answers resolve and list_services for every service, with the    *)
(* integration that targets it, and lists doors only behind a BBS.         *)
THEOREM LoadedRegistryAnswers == RegistrySpec => []LoadedAnswers
  <1>1. ASSUME LoadedInv, loaded = NoRegistry PROVE LoadedAnswers
    BY <1>1 DEF LoadedAnswers, NoRegistry, Kinds, ListRaises, ListServices
  <1>2. ASSUME LoadedInv, loaded # NoRegistry PROVE LoadedAnswers
    <2>1. /\ loaded = Create(catalog) /\ Loads(catalog) /\ catalog \subseteq Manifests
          /\ loaded["service"] = OfKind(catalog, "service")
      BY <1>2 DEF LoadedInv, Create, Kinds
    <2>2. ASSUME NEW b \in ServiceIds, ListServices(loaded, b) # {}
          PROVE  Lookup(loaded, "service", b).type = "bbs"
      <3>1. PICK t \in OfKind(catalog, "service") : t.id = b /\ t.type = "bbs"
        BY <2>1, <2>2 DEF ListServices, Loads, ReferencesHold
      <3>2. Lookup(loaded, "service", b) = t
        BY <2>1, <3>1, LookupFinds DEF Kinds, Loads
      <3> QED BY <3>1, <3>2
    <2> QED BY <2>1, <2>2, ServiceResolves DEF LoadedAnswers, ListRaises
  <1>3. LoadedInv => LoadedAnswers
    BY <1>1, <1>2
  <1> QED BY <1>3, LoadedInit, LoadedStep, PTL DEF RegistrySpec

-----------------------------------------------------------------------------
(* Administrative requests and the audit log.                              *)

(* The calls of an action are made one after the other: those made and     *)
(* those left are together the calls of the action.                        *)
Underway(done, left, a) ==
  \/ done = <<>> /\ left = Calls[a]
  \/ a = "restart" /\ done = <<"stop">> /\ left = <<"start">>

RoleAllows(p) == Rank[p.role] >= Rank[Needs[p.action]]

Results == {"success", "failure", "denied"}
Recorded == {"answer", "answered"}

(* What is known of a request from where its thread stands, and of what it *)
(* has delegated.                                                          *)
RequestOK(p, done) ==
  /\ p.at \in {"new", "role", "act", "audit", "refused", "lost"} \cup Recorded
  /\ p.at = "new" => p = NewRequest
  /\ p.at \in {"role", "act", "audit"} \cup Recorded =>
       p.action \in Actions /\ p.role \in Roles /\ p.result \in Results
  /\ p.at \in {"new", "role", "refused"} => done = <<>>
  /\ p.at = "role" => p.calls = Calls[p.action]
  /\ p.at \in {"role", "act"} => p.result = "failure"
  /\ p.at = "act" => Underway(done, p.calls, p.action) /\ RoleAllows(p)
  /\ p.at \in {"audit"} \cup Recorded /\ p.result = "success" =>
       done = Calls[p.action] /\ RoleAllows(p)

(* What is known of a record in the log.                                   *)
RecordOK(x) ==
  /\ x.request \in Requests
  /\ request[x.request].at \in Recorded \cup {"lost"}
  /\ request[x.request].at # "lost" => x.result = request[x.request].result
  /\ x.result = "success" => effects[x.request] \in {Calls[a] : a \in Actions}

(* Accounts and sessions.                                                  *)
StoreInv ==
  /\ accounts \in [Accounts -> Roles \cup {"none"}]
  /\ sessions \in [Tokens -> {NoSession} \cup [user : Accounts, role : Roles, over : BOOLEAN]]

(* AuditFaithful, made inductive by what each request has done so far.     *)
AuditInv ==
  /\ StoreInv
  /\ request = [r \in Requests |-> request[r]]
  /\ effects = [r \in Requests |-> effects[r]]
  /\ audit \in Seq([request : Requests, result : Results])
  /\ \A r \in Requests : RequestOK(request[r], effects[r])
  /\ \A i \in DOMAIN audit : RecordOK(audit[i])
  /\ \A i, k \in DOMAIN audit : audit[i].request = audit[k].request => i = k
  /\ \A r \in Requests : request[r].at \in Recorded => RecordsOf(r) # {}

(* Nothing has been requested at first.                                    *)
LEMMA AuditInit == AdminInit => AuditInv
  BY DEF AdminInit, AuditInv, StoreInv, RequestOK, NewRequest, NoSession, Recorded

(* A step that leaves requests, effects and log alone.                     *)
LEMMA StoreChanges ==
  ASSUME AuditInv, StoreInv', UNCHANGED <<request, effects, audit>> PROVE AuditInv'
  BY DEF AuditInv, RecordOK, RecordsOf

(* A request without a record takes a step, and nothing is recorded.       *)
LEMMA RequestMoves ==
  ASSUME AuditInv, StoreInv', UNCHANGED audit, NEW r \in Requests, NEW p, NEW done,
         request' = [request EXCEPT ![r] = p], effects' = [effects EXCEPT ![r] = done],
         request[r].at \notin Recorded \cup {"lost"}, p.at \notin Recorded, RequestOK(p, done)
  PROVE  AuditInv'
  <1>1. /\ request'[r] = p /\ effects'[r] = done
        /\ request' = [q \in Requests |-> request'[q]]
        /\ effects' = [q \in Requests |-> effects'[q]]
        /\ \A q \in Requests \ {r} : request'[q] = request[q] /\ effects'[q] = effects[q]
    BY DEF AuditInv
  <1>2. \A q \in Requests : RequestOK(request[q], effects[q])'
    BY <1>1 DEF AuditInv
  <1>3. \A i \in DOMAIN audit : audit[i].request # r
    BY DEF AuditInv, RecordOK
  <1>4. \A i \in DOMAIN audit : RecordOK(audit[i])'
    BY <1>1, <1>3 DEF AuditInv, RecordOK
  <1>5. \A q \in Requests : request'[q].at \in Recorded => RecordsOf(q)' # {}
    BY <1>1 DEF AuditInv, RecordsOf
  <1> QED BY <1>1, <1>2, <1>4, <1>5 DEF AuditInv

(* The same of a step that delegates nothing.                              *)
LEMMA RequestAlone ==
  ASSUME AuditInv, StoreInv', UNCHANGED <<audit, effects>>, NEW r \in Requests, NEW p,
         Proceed(r, p),
         request[r].at \notin Recorded \cup {"lost"}, p.at \notin Recorded, RequestOK(p, effects[r])
  PROVE  AuditInv'
  <1>1. effects' = [effects EXCEPT ![r] = effects[r]]
    BY DEF AuditInv
  <1> QED BY <1>1, RequestMoves DEF Proceed

(* Accounts and sessions keep their types.                                 *)
LEMMA StoreStep ==
  ASSUME AuditInv, [AdminNext]_adminVars PROVE StoreInv'
  <1> USE DEF AuditInv, StoreInv, NoSession, Roles
  <1>1. ASSUME NEW u \in Accounts, NEW role \in Roles, AddAccount(u, role) PROVE StoreInv'
    BY <1>1 DEF AddAccount
  <1>2. ASSUME NEW u \in Accounts, DisableAccount(u) PROVE StoreInv'
    BY <1>2 DEF DisableAccount
  <1>3. ASSUME NEW u \in Accounts, NEW t \in Tokens, CreateSession(t, u) PROVE StoreInv'
    <2>1. [user |-> u, role |-> accounts[u], over |-> FALSE]
            \in [user : Accounts, role : Roles, over : BOOLEAN]
      BY <1>3 DEF CreateSession
    <2> QED BY <1>3, <2>1 DEF CreateSession
  <1>4. ASSUME NEW t \in Tokens, Logout(t) PROVE StoreInv'
    BY <1>4 DEF Logout
  <1>5. ASSUME NEW t \in Tokens, SessionExpires(t) PROVE StoreInv'
    <2>1. sessions[t] \in [user : Accounts, role : Roles, over : BOOLEAN]
      BY <1>5 DEF SessionExpires
    <2>2. [sessions[t] EXCEPT !.over = TRUE] \in [user : Accounts, role : Roles, over : BOOLEAN]
      BY <2>1
    <2> QED BY <1>5, <2>2 DEF SessionExpires
  <1>6. ASSUME NEW r \in Requests, NEW t \in Tokens, NEW action \in Actions, NEW csrf \in BOOLEAN,
               Receive(r, t, action, csrf)
        PROVE  StoreInv'
    BY <1>6 DEF Receive
  <1>7. ASSUME NEW r \in Requests,
               \/ CheckRole(r) \/ Delegate(r) \/ AppendAudit(r) \/ AuditFails(r) \/ Answer(r)
               \/ \E result \in {"failure", "denied"} : CallRaises(r, result)
        PROVE  StoreInv'
    BY <1>7 DEF CheckRole, Delegate, AppendAudit, AuditFails, Answer, CallRaises
  <1>8. CASE DashboardRestarts
    BY <1>8 DEF DashboardRestarts
  <1>9. CASE UNCHANGED adminVars
    BY <1>9 DEF adminVars
  <1> QED BY <1>1, <1>2, <1>3, <1>4, <1>5, <1>6, <1>7, <1>8, <1>9 DEF AdminNext

(* A record is appended: its request had none, and now has this one.       *)
LEMMA AppendStep ==
  ASSUME AuditInv, StoreInv', NEW r \in Requests, AppendAudit(r) PROVE AuditInv'
  <1> DEFINE p == [request[r] EXCEPT !.at = "answer"]
             x == [request |-> r, result |-> request[r].result]
  <1>1. /\ request'[r] = p
        /\ request' = [q \in Requests |-> request'[q]]
        /\ \A q \in Requests \ {r} : request'[q] = request[q]
        /\ effects' = effects
    BY DEF AuditInv, AppendAudit, Proceed
  <1>2. RequestOK(request[r], effects[r]) /\ request[r].at = "audit"
    BY DEF AuditInv, AppendAudit
  <1>3. /\ p.at = "answer" /\ p.action = request[r].action /\ p.role = request[r].role
        /\ p.result = request[r].result
    BY <1>2 DEF RequestOK
  <1>4. RequestOK(p, effects[r])
    BY <1>2, <1>3 DEF RequestOK, Recorded, RoleAllows
  <1>5. \A q \in Requests : RequestOK(request[q], effects[q])'
    BY <1>1, <1>4 DEF AuditInv
  <1>6. x \in [request : Requests, result : Results] /\ x.request = r /\ x.result = p.result
    BY <1>2, <1>3 DEF RequestOK, Recorded
  <1> HIDE DEF x, p
  <1>7. audit' = Append(audit, x)
    BY DEF AppendAudit, x
  <1>8. /\ audit' \in Seq([request : Requests, result : Results])
        /\ DOMAIN audit' = DOMAIN audit \cup {Len(audit) + 1} /\ Len(audit) + 1 \notin DOMAIN audit
        /\ audit'[Len(audit) + 1] = x
        /\ \A i \in DOMAIN audit : audit'[i] = audit[i]
    BY <1>6, <1>7 DEF AuditInv
  <1>9. \A i \in DOMAIN audit : audit[i].request \in Requests \ {r}
    BY <1>2 DEF AuditInv, RecordOK, Recorded
  <1>10. \A i \in DOMAIN audit : RecordOK(audit[i])'
    BY <1>1, <1>8, <1>9 DEF AuditInv, RecordOK
  <1>11. x.result = "success" => effects[r] \in {Calls[a] : a \in Actions}
    BY <1>2, <1>3, <1>6 DEF RequestOK
  <1>12. /\ x.request \in Requests /\ request'[x.request].at \in Recorded
         /\ x.result = request'[x.request].result
         /\ x.result = "success" => effects'[x.request] \in {Calls[a] : a \in Actions}
    BY <1>1, <1>3, <1>6, <1>8, <1>11 DEF Recorded
  <1>13. \A i \in DOMAIN audit' : RecordOK(audit[i])'
    BY <1>8, <1>10, <1>12 DEF RecordOK
  <1>14. \A i, k \in DOMAIN audit' : audit'[i].request = audit'[k].request => i = k
    BY <1>6, <1>8, <1>9 DEF AuditInv
  <1>15. ASSUME NEW q \in Requests, request'[q].at \in Recorded PROVE RecordsOf(q)' # {}
    <2>1. CASE q = r
      BY <2>1, <1>6, <1>8 DEF RecordsOf
    <2>2. CASE q # r
      BY <2>2, <1>1, <1>8, <1>15 DEF RecordsOf, AuditInv
    <2> QED BY <2>1, <2>2
  <1> QED BY <1>1, <1>5, <1>8, <1>13, <1>14, <1>15 DEF AuditInv

(* The answer is sent: the request keeps its record.                       *)
LEMMA AnswerStep ==
  ASSUME AuditInv, StoreInv', NEW r \in Requests, Answer(r) PROVE AuditInv'
  <1> DEFINE p == [request[r] EXCEPT !.at = "answered"]
  <1>1. /\ request'[r] = p
        /\ request' = [q \in Requests |-> request'[q]]
        /\ \A q \in Requests \ {r} : request'[q] = request[q]
        /\ effects' = effects /\ audit' = audit
    BY DEF AuditInv, Answer, Proceed
  <1>2. RequestOK(request[r], effects[r]) /\ request[r].at = "answer"
    BY DEF AuditInv, Answer
  <1>3. /\ p.at = "answered" /\ p.action = request[r].action /\ p.role = request[r].role
        /\ p.result = request[r].result
    BY <1>2 DEF RequestOK
  <1>4. RequestOK(p, effects[r])
    BY <1>2, <1>3 DEF RequestOK, Recorded, RoleAllows
  <1> HIDE DEF p
  <1>5. \A q \in Requests : RequestOK(request[q], effects[q])'
    BY <1>1, <1>4 DEF AuditInv
  <1>6. \A i \in DOMAIN audit : RecordOK(audit[i])'
    BY <1>1, <1>2, <1>3 DEF AuditInv, RecordOK, Recorded
  <1>7. \A q \in Requests : request'[q].at \in Recorded => RecordsOf(q)' # {}
    BY <1>1, <1>2 DEF AuditInv, RecordsOf, Recorded
  <1> QED BY <1>1, <1>5, <1>6, <1>7 DEF AuditInv

(* A sequence of one element, and another appended.                        *)
LEMMA AppendTwo ==
  ASSUME NEW S, NEW a \in S, NEW b \in S PROVE Append(<<a>>, b) = <<a, b>>
  <1> DEFINE s == Append(<<a>>, b)
             t == <<a, b>>
  <1>1. s \in Seq(S) /\ Len(s) = 2 /\ s[1] = a /\ s[2] = b
    OBVIOUS
  <1>2. t \in Seq(S) /\ Len(t) = 2 /\ t[1] = a /\ t[2] = b
    OBVIOUS
  <1> HIDE DEF s, t
  <1>3. Len(s) = Len(t) /\ \A i \in 1..Len(s) : s[i] = t[i]
    BY <1>1, <1>2
  <1>4. s = t
    BY <1>1, <1>2, <1>3, SeqEqual
  <1> QED BY <1>4 DEF s, t

(* A call is made: it is the next of the action's, and after the last one  *)
(* they have all been made.                                                *)
LEMMA DelegateStep ==
  ASSUME AuditInv, StoreInv', NEW r \in Requests, Delegate(r) PROVE AuditInv'
  <1> DEFINE q == request[r]
             done == Append(effects[r], Head(q.calls))
             rest == Tail(q.calls)
             more == [q EXCEPT !.calls = rest]
             last == [q EXCEPT !.at = "audit", !.calls = rest, !.result = "success"]
             p == IF rest # <<>> THEN more ELSE last
  <1>1. /\ request' = [request EXCEPT ![r] = p]
        /\ effects' = [effects EXCEPT ![r] = done]
        /\ audit' = audit /\ q.at = "act"
    BY DEF Delegate, AuditInv, Proceed
  <1>2. RequestOK(q, effects[r])
    BY DEF AuditInv
  <1>3. q.action \in Actions /\ q.role \in Roles /\ Underway(effects[r], q.calls, q.action)
        /\ RoleAllows(q) /\ q.result = "failure"
    BY <1>1, <1>2 DEF RequestOK
  <1>4. \/ rest = <<>> /\ done = Calls[q.action]
        \/ rest # <<>> /\ Underway(done, rest, q.action)
    <2>1. CASE effects[r] = <<>> /\ q.calls = Calls[q.action]
      <3>1. CASE q.action = "start"
        BY <2>1, <3>1 DEF Calls
      <3>2. CASE q.action = "promote"
        BY <2>1, <3>2 DEF Calls
      <3>3. CASE q.action = "restart"
        <4>1. done = <<"stop">> /\ rest = <<"start">>
          BY <2>1, <3>3 DEF Calls
        <4> QED BY <4>1, <3>3 DEF Underway
      <3> QED BY <1>3, <3>1, <3>2, <3>3 DEF Actions, Needs
    <2>2. CASE q.action = "restart" /\ effects[r] = <<"stop">> /\ q.calls = <<"start">>
      <3>1. Append(<<"stop">>, "start") = <<"stop", "start">>
        <4>1. "stop" \in {"stop", "start"} /\ "start" \in {"stop", "start"}
          OBVIOUS
        <4> QED BY <4>1, AppendTwo, Zenon
      <3>2. Head(<<"start">>) = "start" /\ Tail(<<"start">>) = <<>>
        OBVIOUS
      <3>3. rest = <<>> /\ done = <<"stop", "start">>
        BY <2>2, <3>1, <3>2
      <3> QED BY <2>2, <3>3 DEF Calls
    <2> QED BY <1>3, <2>1, <2>2 DEF Underway
  <1>5. rest # <<>> => RequestOK(p, done)
    <2> SUFFICES ASSUME rest # <<>> PROVE RequestOK(more, done)
      OBVIOUS
    <2>1. /\ more.at = "act" /\ more.action = q.action /\ more.role = q.role
          /\ more.result = "failure"
      BY <1>1, <1>3
    <2>1a. more.calls = rest
      BY <1>2 DEF RequestOK
    <2> HIDE DEF more, done, rest, q
    <2> QED BY <2>1, <2>1a, <1>3, <1>4 DEF RequestOK, RoleAllows, Recorded, Results
  <1>6. rest = <<>> => RequestOK(p, done)
    <2> SUFFICES ASSUME rest = <<>> PROVE RequestOK(last, done)
      OBVIOUS
    <2>1. /\ last.at = "audit" /\ last.action = q.action /\ last.role = q.role
          /\ last.result = "success"
      BY <1>1, <1>3
    <2> HIDE DEF last, done, rest, q
    <2> QED BY <2>1, <1>3, <1>4 DEF RequestOK, RoleAllows, Recorded, Results
  <1>7. p.at \notin Recorded
    BY <1>1 DEF Recorded
  <1>8. request[r].at \notin Recorded \cup {"lost"}
    BY <1>1 DEF Recorded
  <1> HIDE DEF p, done, q
  <1> QED BY <1>1, <1>5, <1>6, <1>7, <1>8, RequestMoves

(* The dashboard restarts: requests under way lose their thread, records   *)
(* stay.                                                                   *)
LEMMA DashboardStep ==
  ASSUME AuditInv, StoreInv', DashboardRestarts PROVE AuditInv'
  <1>1. /\ effects' = effects /\ audit' = audit
        /\ request' = [q \in Requests |-> request'[q]]
        /\ \A q \in Requests : \/ request'[q] = request[q] /\ request[q].at # "answer"
                               \/ request'[q] = [at |-> "lost"]
    BY DEF DashboardRestarts
  <1>2. ASSUME NEW q \in Requests PROVE RequestOK(request[q], effects[q])'
    BY <1>1 DEF AuditInv, RequestOK, Recorded
  <1>3. \A i \in DOMAIN audit : RecordOK(audit[i])'
    BY <1>1 DEF AuditInv, RecordOK
  <1>4. \A q \in Requests : request'[q].at \in Recorded => RecordsOf(q)' # {}
    BY <1>1 DEF AuditInv, RecordsOf, Recorded
  <1> QED BY <1>1, <1>2, <1>3, <1>4 DEF AuditInv

(* Every step keeps AuditInv.                                              *)
LEMMA AuditStep == AuditInv /\ [AdminNext]_adminVars => AuditInv'
  <1> SUFFICES ASSUME AuditInv, [AdminNext]_adminVars PROVE AuditInv'
    OBVIOUS
  <1>0. StoreInv'
    BY StoreStep
  <1>2. ASSUME NEW r \in Requests, NEW t \in Tokens, NEW action \in Actions, NEW csrf \in BOOLEAN,
               Receive(r, t, action, csrf)
        PROVE  AuditInv'
    <2> DEFINE p == [at |-> IF csrf THEN "role" ELSE "audit", action |-> action,
                     role |-> sessions[t].role, calls |-> Calls[action],
                     result |-> IF csrf THEN "failure" ELSE "denied"]
    <2>1. request[r].at = "new" /\ effects[r] = <<>> /\ UNCHANGED <<audit, effects>>
      BY <1>2 DEF Receive, AuditInv, RequestOK, NewRequest
    <2>2. CASE Valid(t)
      <3>1. sessions[t].role \in Roles
        BY <2>2 DEF Valid, AuditInv, StoreInv
      <3>2. RequestOK(p, effects[r]) /\ p.at \notin Recorded
        BY <2>1, <3>1 DEF RequestOK, Recorded, Results
      <3>3. Proceed(r, p)
        BY <1>2, <2>2 DEF Receive
      <3> HIDE DEF p
      <3> QED BY <1>0, <2>1, <3>2, <3>3, RequestAlone DEF Recorded
    <2>3. CASE ~Valid(t)
      <3>1. Proceed(r, [at |-> "refused"])
        BY <1>2, <2>3 DEF Receive
      <3>2. RequestOK([at |-> "refused"], effects[r])
        BY <2>1 DEF RequestOK, Recorded
      <3> QED BY <1>0, <2>1, <3>1, <3>2, RequestAlone DEF Recorded
    <2> QED BY <2>2, <2>3
  <1>3. ASSUME NEW r \in Requests, CheckRole(r) PROVE AuditInv'
    <2> DEFINE q == request[r]
               no == [q EXCEPT !.at = "audit", !.result = "denied"]
               yes == [q EXCEPT !.at = "act"]
    <2>1. RequestOK(q, effects[r]) /\ q.at = "role" /\ UNCHANGED <<audit, effects>>
      BY <1>3 DEF CheckRole, AuditInv
    <2>2. q.action \in Actions /\ q.role \in Roles /\ effects[r] = <<>>
          /\ q.calls = Calls[q.action] /\ q.result = "failure"
      BY <2>1 DEF RequestOK
    <2>3. CASE Rank[q.role] < Rank[Needs[q.action]]
      <3>1. no.at = "audit" /\ no.action = q.action /\ no.role = q.role /\ no.result = "denied"
        BY <2>1, <2>2
      <3>2. Proceed(r, no)
        BY <1>3, <2>3 DEF CheckRole
      <3> HIDE DEF no
      <3>3. RequestOK(no, effects[r])
        BY <2>2, <3>1 DEF RequestOK, Recorded, Results
      <3> QED BY <1>0, <2>1, <3>1, <3>2, <3>3, RequestAlone DEF Recorded
    <2>4. CASE ~(Rank[q.role] < Rank[Needs[q.action]])
      <3>1. yes.at = "act" /\ yes.action = q.action /\ yes.role = q.role
            /\ yes.result = "failure" /\ yes.calls = Calls[q.action]
        BY <2>1, <2>2
      <3>2. Proceed(r, yes)
        BY <1>3, <2>4 DEF CheckRole
      <3>3. Rank[q.role] >= Rank[Needs[q.action]]
        BY <2>2, <2>4 DEF Rank, Needs, Actions, Roles
      <3> HIDE DEF yes
      <3>4. RequestOK(yes, effects[r])
        BY <2>2, <3>1, <3>3 DEF RequestOK, Recorded, Results, RoleAllows, Underway
      <3> QED BY <1>0, <2>1, <3>1, <3>2, <3>4, RequestAlone DEF Recorded
    <2> QED BY <2>3, <2>4
  <1>4. ASSUME NEW r \in Requests, NEW result \in {"failure", "denied"}, CallRaises(r, result)
        PROVE  AuditInv'
    <2> DEFINE q == request[r]
               p == [q EXCEPT !.at = "audit",
                              !.result = IF result = "failure" THEN q.result ELSE result]
    <2>1. RequestOK(q, effects[r]) /\ q.at = "act" /\ UNCHANGED <<audit, effects>>
      BY <1>4 DEF CallRaises, AuditInv
    <2>2. q.action \in Actions /\ q.role \in Roles /\ q.result = "failure"
      BY <2>1 DEF RequestOK
    <2>3. p.at = "audit" /\ p.action = q.action /\ p.role = q.role
          /\ p.result \in {"failure", "denied"}
      BY <2>1, <2>2
    <2>4. Proceed(r, p)
      BY <1>4 DEF CallRaises
    <2> HIDE DEF p
    <2>5. RequestOK(p, effects[r])
      BY <2>2, <2>3 DEF RequestOK, Recorded, Results
    <2> QED BY <1>0, <2>1, <2>3, <2>4, <2>5, RequestAlone DEF Recorded
  <1>5. ASSUME NEW r \in Requests, AuditFails(r) PROVE AuditInv'
    <2>1. request[r].at = "audit" /\ Proceed(r, [at |-> "lost"]) /\ UNCHANGED <<audit, effects>>
      BY <1>5 DEF AuditFails
    <2>2. RequestOK([at |-> "lost"], effects[r])
      BY DEF RequestOK, Recorded
    <2> QED BY <1>0, <2>1, <2>2, RequestAlone DEF Recorded
  <1>6. CASE UNCHANGED adminVars
    BY <1>0, <1>6, StoreChanges DEF adminVars
  <1>7. ASSUME NEW u \in Accounts, NEW role \in Roles, AddAccount(u, role) PROVE AuditInv'
    BY <1>0, <1>7, StoreChanges DEF AddAccount
  <1>8. ASSUME NEW u \in Accounts, DisableAccount(u) PROVE AuditInv'
    BY <1>0, <1>8, StoreChanges DEF DisableAccount
  <1>9. ASSUME NEW t \in Tokens, NEW u \in Accounts, CreateSession(t, u) PROVE AuditInv'
    BY <1>0, <1>9, StoreChanges DEF CreateSession
  <1>10. ASSUME NEW t \in Tokens, Logout(t) \/ SessionExpires(t) PROVE AuditInv'
    BY <1>0, <1>10, StoreChanges DEF Logout, SessionExpires
  <1> QED BY <1>0, <1>2, <1>3, <1>4, <1>5, <1>6, <1>7, <1>8, <1>9, <1>10, AppendStep,
            AnswerStep, DelegateStep, DashboardStep DEF AdminNext

(* The audit log is faithful, whatever the requests, sessions and          *)
(* restarts: an answered request has exactly one record, none has two, and *)
(* a success was allowed and made all its calls in their order.            *)
THEOREM AuditIsFaithful == AdminSpec => []AuditFaithful
  <1>1. AuditInv => AuditFaithful
    <2> SUFFICES ASSUME AuditInv PROVE AuditFaithful
      OBVIOUS
    <2>1. ASSUME NEW r \in Requests
          PROVE  /\ \A i, k \in RecordsOf(r) : i = k
                 /\ request[r].at = "answered" => RecordsOf(r) # {}
      BY DEF AuditInv, RecordsOf, Recorded
    <2>2. ASSUME NEW i \in DOMAIN audit, audit[i].result = "success",
                 request[audit[i].request].at # "lost"
          PROVE  /\ effects[audit[i].request] = Calls[request[audit[i].request].action]
                 /\ RoleAllows(request[audit[i].request])
      BY <2>2 DEF AuditInv, RecordOK, RequestOK
    <2>3. ASSUME NEW i \in DOMAIN audit, audit[i].result = "success"
          PROVE  effects[audit[i].request] \in {Calls[a] : a \in Actions}
      BY <2>3 DEF AuditInv, RecordOK
    <2> QED BY <2>1, <2>2, <2>3 DEF AuditFaithful, RoleAllows
  <1> QED BY <1>1, AuditInit, AuditStep, PTL DEF AdminSpec

-----------------------------------------------------------------------------
(* The login throttle.                                                     *)

(* A set of naturals has a least one.                                      *)
LEMMA LeastNatural ==
  ASSUME NEW T, T \subseteq Nat, T # {}
  PROVE  \E x \in T : \A y \in T : x <= y
  <1> DEFINE R == OpToRel(<, Nat)
  <1>1. IsWellFoundedOn(R, Nat)
    BY NatLessThanWellFounded
  <1>2. \A x, y \in Nat : y < x => <<y, x>> \in {ss \in Nat \X Nat : ss[1] < ss[2]}
    OBVIOUS
  <1>3. \A x, y \in Nat : y < x => <<y, x>> \in R
    BY <1>2, Zenon DEF OpToRel
  <1> HIDE DEF R
  <1>4. PICK x \in T : \A y \in T : ~ (<<y, x>> \in R)
    BY <1>1, WFMin
  <1>5. ASSUME NEW y \in T PROVE x <= y
    <2>1. x \in Nat /\ y \in Nat /\ ~(y < x)
      BY <1>3, <1>4, Zenon
    <2> QED BY <2>1
  <1> QED BY <1>5

(* Induction, over a set.                                                  *)
LEMMA SetInduction ==
  ASSUME NEW S, 0 \in S, \A n \in Nat : n \in S => n + 1 \in S
  PROVE  Nat \subseteq S
  <1> SUFFICES ASSUME Nat \ S # {} PROVE FALSE
    OBVIOUS
  <1>1. PICK x \in Nat \ S : \A y \in Nat \ S : x <= y
    BY LeastNatural
  <1>2. x # 0 /\ x - 1 \in Nat /\ x - 1 \in S
    BY <1>1
  <1>3. (x - 1) + 1 \in S
    BY <1>2
  <1> QED BY <1>1, <1>2, <1>3

(* One step of Without, from what the first i - 1 keys left.               *)
Pass(order, gone, before, i) ==
  IF order[i] \in gone THEN before ELSE Append(before, order[i])

IsRest(f, order, gone, n) ==
  f = [i \in 0..n |-> IF i = 0 THEN <<>> ELSE Pass(order, gone, f[i - 1], i)]

(* The function that Without chooses exists, for every sequence.           *)
LEMMA RestExists ==
  ASSUME NEW order, NEW gone, NEW n \in Nat
  PROVE  \E f : IsRest(f, order, gone, n)
  <1> DEFINE S == {m \in Nat : \E f : IsRest(f, order, gone, m)}
  <1>1. 0 \in S
    <2> DEFINE f == [i \in 0..0 |-> <<>>]
    <2>1. f = [i \in 0..0 |-> IF i = 0 THEN <<>> ELSE Pass(order, gone, f[i - 1], i)]
      OBVIOUS
    <2>2. IsRest(f, order, gone, 0)
      BY <2>1, Zenon DEF IsRest
    <2> QED BY <2>2
  <1>2. ASSUME NEW m \in Nat, m \in S PROVE m + 1 \in S
    <2>1. PICK f : IsRest(f, order, gone, m)
      BY <1>2
    <2> DEFINE g == [i \in 0..(m + 1) |->
                       IF i = m + 1 THEN Pass(order, gone, f[m], m + 1) ELSE f[i]]
    <2>2. ASSUME NEW i \in 0..(m + 1)
          PROVE  g[i] = IF i = 0 THEN <<>> ELSE Pass(order, gone, g[i - 1], i)
      <3>1. CASE i = m + 1
        <4>1. g[i] = Pass(order, gone, f[m], m + 1) /\ g[i - 1] = f[m]
          BY <3>1
        <4> QED BY <3>1, <4>1
      <3>2. CASE i \in 0..m
        <4>1. f[i] = IF i = 0 THEN <<>> ELSE Pass(order, gone, f[i - 1], i)
          BY <2>1, <3>2 DEF IsRest
        <4>2. g[i] = f[i] /\ (i # 0 => g[i - 1] = f[i - 1])
          BY <3>2
        <4> HIDE DEF g
        <4> QED BY <4>1, <4>2
      <3> QED BY <3>1, <3>2
    <2>3. g = [i \in 0..(m + 1) |-> g[i]]
      OBVIOUS
    <2> HIDE DEF g
    <2>4. IsRest(g, order, gone, m + 1)
      BY <2>2, <2>3 DEF IsRest
    <2> QED BY <2>4
  <1> HIDE DEF S
  <1>3. n \in S
    BY <1>1, <1>2, SetInduction
  <1> QED BY <1>3 DEF S

(* Popping keys leaves a sequence of the same kind of keys.                *)
LEMMA WithoutType ==
  ASSUME NEW S, NEW order \in Seq(S), NEW gone
  PROVE  Without(order, gone) \in Seq(S)
  <1> DEFINE n == Len(order)
             f == CHOOSE f : IsRest(f, order, gone, n)
             T == {m \in Nat : m <= n => f[m] \in Seq(S)}
  <1>1. n \in Nat
    OBVIOUS
  <1>2. IsRest(f, order, gone, n)
    BY <1>1, RestExists
  <1>3. Without(order, gone) = f[n]
    BY Zenon DEF Without, IsRest, Pass
  <1> HIDE DEF f
  <1>4. f[0] \in Seq(S)
    <2>1. f[0] = <<>>
      BY <1>1, <1>2 DEF IsRest
    <2>2. <<>> \in Seq(S)
      OBVIOUS
    <2> QED BY <2>1, <2>2
  <1>5. 0 \in T
    BY <1>4
  <1>6. ASSUME NEW m \in Nat, m \in T PROVE m + 1 \in T
    <2> SUFFICES ASSUME m + 1 <= n PROVE f[m + 1] \in Seq(S)
      BY <1>1
    <2>1. f[m + 1] = Pass(order, gone, f[m], m + 1)
      BY <1>1, <1>2 DEF IsRest
    <2>2. f[m] \in Seq(S)
      BY <1>1, <1>6
    <2>3. order[m + 1] \in S
      BY <1>1
    <2> QED BY <2>1, <2>2, <2>3 DEF Pass
  <1> HIDE DEF T, n
  <1>7. n \in T
    BY <1>1, <1>5, <1>6, SetInduction
  <1> QED BY <1>1, <1>3, <1>7 DEF T

(* The lockouts grow with the failures.                                    *)
LEMMA DelayGrows ==
  ASSUME NEW m \in Nat, NEW n \in Nat, m <= n
  PROVE  Delay(m) \in Nat /\ Delay(m) <= Delay(n)
  <1>1. /\ Delays[1] = 1 /\ Delays[2] = 2 /\ Delays[3] = 4 /\ Delays[4] = 8 /\ Delays[5] = 12
    BY DEF Delays
  <1>2. \A i \in Nat : Delay(i) = IF i < 4 THEN 0 ELSE IF i = 4 THEN 1 ELSE IF i = 5 THEN 2
                                  ELSE IF i = 6 THEN 4 ELSE IF i = 7 THEN 8 ELSE 12
    <2>1. ASSUME NEW i \in Nat
          PROVE  \/ i < 4 \/ i >= 8
                 \/ i = 4 /\ i - 3 = 1
                 \/ i = 5 /\ i - 3 = 2
                 \/ i = 6 /\ i - 3 = 3
                 \/ i = 7 /\ i - 3 = 4
      OBVIOUS
    <2> QED BY <1>1, <2>1 DEF Delay
  <1> QED BY <1>2

Tables == [order : Seq(Keys), failures : [Keys -> Nat], retryAt : [Keys -> Nat]]

(* _cleanup forgets a key or leaves it alone, and leaves none whose        *)
(* lockout is over.                                                        *)
LEMMA CleanupKeys ==
  ASSUME NEW table \in Tables, clock \in Nat
  PROVE  /\ Cleanup(table) \in Tables
         /\ \A k \in Keys :
              \/ Cleanup(table).failures[k] = 0 /\ Cleanup(table).retryAt[k] = 0
              \/ /\ Cleanup(table).failures[k] = table.failures[k]
                 /\ Cleanup(table).retryAt[k] = table.retryAt[k]
                 /\ table.failures[k] < 4 \/ table.retryAt[k] > clock
  <1> DEFINE over == {k \in Keys : table.failures[k] >= 4 /\ table.retryAt[k] <= clock}
             left == Without(table.order, over)
             kept == IF Len(left) > MaxEntries
                     THEN SubSeq(left, Len(left) - MaxEntries + 1, Len(left)) ELSE left
             gone == over \cup (ToSet(left) \ ToSet(kept))
             fs == [k \in Keys |-> IF k \in gone THEN 0 ELSE table.failures[k]]
             rs == [k \in Keys |-> IF k \in gone THEN 0 ELSE table.retryAt[k]]
  <1>1. table.order \in Seq(Keys) /\ table.failures \in [Keys -> Nat] /\ table.retryAt \in [Keys -> Nat]
    BY DEF Tables
  <1>2. left \in Seq(Keys)
    BY <1>1, WithoutType
  <1>3. kept \in Seq(Keys)
    <2> HIDE DEF left
    <2>1. CASE Len(left) > MaxEntries
      <3>1. SubSeq(left, Len(left) - MaxEntries + 1, Len(left)) \in Seq(Keys)
        BY <1>2, <2>1, ThrottleAssumption, SubSeqProperties
      <3> QED BY <2>1, <3>1
    <2> QED BY <1>2, <2>1
  <1>4. Cleanup(table) = [order |-> kept, failures |-> fs, retryAt |-> rs]
    BY DEF Cleanup
  <1>5. \A k \in over : k \in gone
    OBVIOUS
  <1>6. \A k \in Keys : k \notin over => table.failures[k] < 4 \/ table.retryAt[k] > clock
    BY <1>1
  <1> HIDE DEF over, left, kept, gone
  <1>7. fs \in [Keys -> Nat] /\ rs \in [Keys -> Nat]
    BY <1>1
  <1>8. \A k \in Keys : \/ fs[k] = 0 /\ rs[k] = 0
                        \/ /\ fs[k] = table.failures[k] /\ rs[k] = table.retryAt[k]
                           /\ table.failures[k] < 4 \/ table.retryAt[k] > clock
    BY <1>5, <1>6
  <1> HIDE DEF fs, rs
  <1>9. [order |-> kept, failures |-> fs, retryAt |-> rs] \in Tables
    BY <1>3, <1>7 DEF Tables
  <1> QED BY <1>4, <1>8, <1>9

(* A failure is counted to its key alone, whose lockout is what that many  *)
(* failures call for.                                                      *)
LEMMA CountKeys ==
  ASSUME NEW table \in Tables, NEW k \in Keys, clock \in Nat
  PROVE  /\ Count(table, k) \in Tables
         /\ Count(table, k).failures[k] = table.failures[k] + 1
         /\ Count(table, k).retryAt[k] <= clock + Delay(table.failures[k] + 1)
         /\ \A x \in Keys \ {k} : /\ Count(table, k).failures[x] = table.failures[x]
                                  /\ Count(table, k).retryAt[x] = table.retryAt[x]
  <1> DEFINE n == table.failures[k] + 1
             order == Append(Without(table.order, {k}), k)
             fs == [table.failures EXCEPT ![k] = n]
             until == IF n < 4 THEN 0 ELSE clock + Delay(n)
             rs == [table.retryAt EXCEPT ![k] = until]
  <1>1. table.order \in Seq(Keys) /\ table.failures \in [Keys -> Nat] /\ table.retryAt \in [Keys -> Nat]
    BY DEF Tables
  <1>2. n \in Nat
    BY <1>1
  <1>3. order \in Seq(Keys)
    <2>1. Without(table.order, {k}) \in Seq(Keys)
      BY <1>1, WithoutType
    <2> QED BY <2>1
  <1>4. Delay(n) \in Nat
    BY <1>2, DelayGrows
  <1>5. Count(table, k) = [order |-> order, failures |-> fs, retryAt |-> rs]
    BY DEF Count
  <1> HIDE DEF n, order
  <1>6. until \in Nat /\ until <= clock + Delay(n)
    BY <1>2, <1>4
  <1> HIDE DEF until
  <1>7. /\ fs \in [Keys -> Nat] /\ rs \in [Keys -> Nat] /\ fs[k] = n /\ rs[k] = until
        /\ \A x \in Keys \ {k} : fs[x] = table.failures[x] /\ rs[x] = table.retryAt[x]
    BY <1>1, <1>2, <1>6
  <1> HIDE DEF fs, rs
  <1>8. [order |-> order, failures |-> fs, retryAt |-> rs] \in Tables
    BY <1>3, <1>7 DEF Tables
  <1> QED BY <1>5, <1>6, <1>7, <1>8 DEF n

(* The threads that have passed the throttle and may still fail for a key. *)
Past(k) == {t \in Threads : attempt[t].at = "verify" /\ k \in KeysOf(attempt[t])}

Attempts == [at : {"login", "verify"}, user : Users, source : Sources]

(* The failures counted and those that may still come are within the       *)
(* bound, as only an open key lets a thread pass.                          *)
ThrottleInv ==
  /\ clock \in 0..MaxClock
  /\ Table \in Tables
  /\ attempt \in [Threads -> {NoAttempt} \cup Attempts]
  /\ \A k \in Keys :
       /\ failures[k] + Cardinality(Past(k)) <= 3 + Cardinality(Threads)
       /\ retryAt[k] <= clock + Delay(3 + Cardinality(Threads))

(* Nobody has tried to log in at first.                                    *)
LEMMA ThrottleInitInv == ThrottleInit => ThrottleInv
  <1> SUFFICES ASSUME ThrottleInit PROVE ThrottleInv
    OBVIOUS
  <1>1. \A k \in Keys : Past(k) = {}
    BY DEF ThrottleInit, Past, NoAttempt
  <1>2. Table \in Tables
    BY DEF ThrottleInit, Table, Tables
  <1>3. Cardinality(Threads) \in Nat /\ Cardinality({}) = 0
    BY ThrottleAssumption, FS_CardinalityType, FS_EmptySet
  <1>4. Delay(3 + Cardinality(Threads)) \in Nat
    BY <1>3, DelayGrows
  <1>5. attempt \in [Threads -> {NoAttempt} \cup Attempts]
    BY DEF ThrottleInit
  <1>6. clock = 0 /\ \A k \in Keys : failures[k] = 0 /\ retryAt[k] = 0
    BY DEF ThrottleInit
  <1>7. \A k \in Keys : Cardinality(Past(k)) = 0
    BY <1>1, <1>3
  <1> QED BY <1>2, <1>3, <1>4, <1>5, <1>6, <1>7, ThrottleAssumption DEF ThrottleInv

(* The threads that may still fail for a key are counted.                  *)
LEMMA PastCounts ==
  ASSUME NEW k
  PROVE  /\ IsFiniteSet(Past(k)) /\ Past(k) \subseteq Threads
         /\ Cardinality(Past(k)) \in Nat
         /\ Cardinality(Past(k)) <= Cardinality(Threads)
         /\ Cardinality(Threads) \in Nat
  BY ThrottleAssumption, FS_Subset, FS_CardinalityType DEF Past

(* The same after a step, and of the threads that were in it before.       *)
LEMMA PastShrinks ==
  ASSUME NEW k, Past(k)' \subseteq Past(k)
  PROVE  Cardinality(Past(k)') \in Nat /\ Cardinality(Past(k)') <= Cardinality(Past(k))
  BY PastCounts, FS_Subset, FS_CardinalityType

(* The keys of an attempt.                                                 *)
LEMMA KeysOfAttempt ==
  ASSUME NEW a \in Attempts
  PROVE  /\ KeysOf(a) \subseteq Keys
         /\ <<"user", a.user>> # <<"source", a.source>>
         /\ KeysOf(a) = {<<"user", a.user>>, <<"source", a.source>>}
  BY DEF Attempts, KeysOf, Keys

(* What the table becomes, seen key by key.                                *)
LEMMA TableSet ==
  ASSUME NEW table, SetTable(table), table \in Tables
  PROVE  Table' = table /\ failures' = table.failures /\ retryAt' = table.retryAt
  BY DEF SetTable, Table, Tables

(* A step that only forgets keys and lets no thread pass.                  *)
LEMMA Forgetting ==
  ASSUME ThrottleInv, NEW table \in Tables, SetTable(table), UNCHANGED clock,
         \A k \in Keys : \/ table.failures[k] = 0 /\ table.retryAt[k] = 0
                         \/ table.failures[k] = failures[k] /\ table.retryAt[k] = retryAt[k],
         attempt' \in [Threads -> {NoAttempt} \cup Attempts],
         \A t \in Threads : attempt'[t] = attempt[t] \/ attempt'[t].at # "verify"
  PROVE  ThrottleInv'
  <1>1. \A k : Past(k)' \subseteq Past(k)
    BY DEF Past
  <1>2. ASSUME NEW k \in Keys
        PROVE  /\ failures'[k] + Cardinality(Past(k)') <= 3 + Cardinality(Threads)
               /\ retryAt'[k] <= clock + Delay(3 + Cardinality(Threads))
    <2>1. Cardinality(Past(k)') \in Nat /\ Cardinality(Past(k)') <= Cardinality(Past(k))
      BY <1>1, PastShrinks
    <2>2. /\ Cardinality(Past(k)) \in Nat /\ Cardinality(Threads) \in Nat
          /\ Cardinality(Past(k)) <= Cardinality(Threads)
      BY PastCounts
    <2>3. failures[k] \in Nat /\ retryAt[k] \in Nat /\ clock \in Nat
      BY ThrottleAssumption DEF ThrottleInv, Tables, Table
    <2>4. Delay(3 + Cardinality(Threads)) \in Nat
      BY <2>2, DelayGrows
    <2>5. failures'[k] = table.failures[k] /\ retryAt'[k] = table.retryAt[k]
      BY TableSet
    <2>6. /\ failures[k] + Cardinality(Past(k)) <= 3 + Cardinality(Threads)
          /\ retryAt[k] <= clock + Delay(3 + Cardinality(Threads))
      BY DEF ThrottleInv
    <2> QED BY <2>1, <2>2, <2>3, <2>4, <2>5, <2>6
  <1>3. (Table \in Tables)'
    BY TableSet
  <1> QED BY <1>2, <1>3 DEF ThrottleInv

(* A request or a login that the throttle lets in: an open key has at most *)
(* three failures.                                                         *)
LEMMA RetryAfterInv ==
  ASSUME ThrottleInv, NEW t \in Threads, NEW a, NEW next \in {"login", "verify"},
         a.user \in Users, a.source \in Sources, [a EXCEPT !.at = next] \in Attempts,
         KeysOf([a EXCEPT !.at = next]) = KeysOf(a), RetryAfter(t, a, next)
  PROVE  ThrottleInv'
  <1> DEFINE c == Cleanup(Table)
             open == [a EXCEPT !.at = next]
  <1>1. clock \in Nat /\ Table \in Tables
    BY ThrottleAssumption DEF ThrottleInv
  <1>2. c \in Tables /\ SetTable(c) /\ UNCHANGED clock
    BY <1>1, CleanupKeys DEF RetryAfter
  <1>3. \A k \in Keys :
          \/ c.failures[k] = 0 /\ c.retryAt[k] = 0
          \/ /\ c.failures[k] = failures[k] /\ c.retryAt[k] = retryAt[k]
             /\ failures[k] < 4 \/ retryAt[k] > clock
    BY <1>1, CleanupKeys DEF Table
  <1>4. \/ attempt' = [attempt EXCEPT ![t] = NoAttempt]
        \/ /\ attempt' = [attempt EXCEPT ![t] = open]
           /\ \A k \in KeysOf(a) : ~(c.retryAt[k] > clock)
    BY DEF RetryAfter
  <1>5. attempt' \in [Threads -> {NoAttempt} \cup Attempts]
    BY <1>4 DEF ThrottleInv
  <1> HIDE DEF c
  <1>6. CASE attempt' = [attempt EXCEPT ![t] = NoAttempt]
    BY <1>2, <1>3, <1>5, <1>6, Forgetting DEF NoAttempt, ThrottleInv
  <1>7. CASE /\ attempt' = [attempt EXCEPT ![t] = open]
             /\ \A k \in KeysOf(a) : ~(c.retryAt[k] > clock)
    <2>1. attempt'[t] = open /\ \A q \in Threads \ {t} : attempt'[q] = attempt[q]
      BY <1>7 DEF ThrottleInv
    <2> HIDE DEF open
    <2>2. KeysOf(open) = KeysOf(a)
      BY DEF open
    <2>3. ASSUME NEW k \in Keys
          PROVE  /\ failures'[k] + Cardinality(Past(k)') <= 3 + Cardinality(Threads)
                 /\ retryAt'[k] <= clock + Delay(3 + Cardinality(Threads))
      <3>1. /\ failures[k] + Cardinality(Past(k)) <= 3 + Cardinality(Threads)
            /\ retryAt[k] <= clock + Delay(3 + Cardinality(Threads))
            /\ failures[k] \in Nat /\ retryAt[k] \in Nat /\ clock \in Nat
        BY ThrottleAssumption DEF ThrottleInv, Table, Tables
      <3>2. failures'[k] = c.failures[k] /\ retryAt'[k] = c.retryAt[k]
        BY <1>2, TableSet
      <3>3. /\ Cardinality(Past(k)) \in Nat /\ Cardinality(Threads) \in Nat
            /\ Cardinality(Past(k)) <= Cardinality(Threads)
        BY PastCounts
      <3>4. Delay(3 + Cardinality(Threads)) \in Nat
        BY <3>3, DelayGrows
      <3>5. CASE k \in KeysOf(a)
        <4>1. failures'[k] <= 3
          BY <1>3, <1>7, <3>1, <3>2, <3>5
        <4>2. Past(k)' \subseteq Threads
          BY DEF Past
        <4>3. Cardinality(Past(k)') \in Nat /\ Cardinality(Past(k)') <= Cardinality(Threads)
          BY <4>2, ThrottleAssumption, FS_Subset, FS_CardinalityType
        <4>4. failures'[k] \in Nat
          BY <1>3, <3>1, <3>2
        <4> QED BY <1>3, <3>1, <3>2, <3>3, <3>4, <4>1, <4>3, <4>4
      <3>6. CASE k \notin KeysOf(a)
        <4>1. Past(k)' \subseteq Past(k)
          BY <2>1, <2>2, <3>6 DEF Past
        <4>2. Cardinality(Past(k)') \in Nat /\ Cardinality(Past(k)') <= Cardinality(Past(k))
          BY <4>1, PastShrinks
        <4> QED BY <1>3, <3>1, <3>2, <3>3, <3>4, <4>2
      <3> QED BY <3>5, <3>6
    <2>4. (Table \in Tables)'
      BY <1>2, TableSet
    <2> QED BY <1>2, <1>5, <2>3, <2>4 DEF ThrottleInv
  <1> QED BY <1>4, <1>6, <1>7

(* A failure: what the thread might still have added is now counted.       *)
LEMMA FailureInv ==
  ASSUME ThrottleInv, NEW t \in Threads, Failure(t) PROVE ThrottleInv'
  <1> DEFINE u == <<"user", attempt[t].user>>
             s == <<"source", attempt[t].source>>
             c0 == Cleanup(Table)
             c1 == Count(c0, u)
             c2 == Count(c1, s)
             c3 == Cleanup(c2)
             bound == 3 + Cardinality(Threads)
  <1>1. attempt[t] \in Attempts /\ attempt[t].at = "verify"
    BY DEF ThrottleInv, Failure, NoAttempt
  <1>2. u \in Keys /\ s \in Keys /\ u # s /\ KeysOf(attempt[t]) = {u, s}
    BY <1>1, KeysOfAttempt DEF KeysOf
  <1>3. SetTable(c3) /\ clock' = clock /\ attempt' = [attempt EXCEPT ![t] = NoAttempt]
    BY DEF Failure
  <1> HIDE DEF u, s
  <1>4. clock \in Nat /\ Table \in Tables
    BY ThrottleAssumption DEF ThrottleInv
  <1>5. /\ c0 \in Tables
        /\ \A k \in Keys : \/ c0.failures[k] = 0 /\ c0.retryAt[k] = 0
                           \/ c0.failures[k] = failures[k] /\ c0.retryAt[k] = retryAt[k]
    BY <1>4, CleanupKeys DEF Table
  <1> HIDE DEF c0
  <1>6. /\ c1 \in Tables /\ c1.failures[u] = c0.failures[u] + 1
        /\ c1.retryAt[u] <= clock + Delay(c0.failures[u] + 1)
        /\ \A x \in Keys \ {u} : c1.failures[x] = c0.failures[x] /\ c1.retryAt[x] = c0.retryAt[x]
    BY <1>2, <1>4, <1>5, CountKeys
  <1> HIDE DEF c1
  <1>7. /\ c2 \in Tables /\ c2.failures[s] = c1.failures[s] + 1
        /\ c2.retryAt[s] <= clock + Delay(c1.failures[s] + 1)
        /\ \A x \in Keys \ {s} : c2.failures[x] = c1.failures[x] /\ c2.retryAt[x] = c1.retryAt[x]
    BY <1>2, <1>4, <1>6, CountKeys
  <1> HIDE DEF c2
  <1>8. /\ c3 \in Tables
        /\ \A k \in Keys : \/ c3.failures[k] = 0 /\ c3.retryAt[k] = 0
                           \/ c3.failures[k] = c2.failures[k] /\ c3.retryAt[k] = c2.retryAt[k]
    BY <1>4, <1>7, CleanupKeys
  <1> HIDE DEF c3
  <1>9. attempt'[t] = NoAttempt /\ \A q \in Threads \ {t} : attempt'[q] = attempt[q]
    BY <1>3 DEF ThrottleInv
  <1>10. ASSUME NEW k \in Keys
         PROVE  /\ failures'[k] + Cardinality(Past(k)') <= bound
                /\ retryAt'[k] <= clock + Delay(bound)
    <2>1. failures'[k] = c3.failures[k] /\ retryAt'[k] = c3.retryAt[k]
      BY <1>3, <1>8, TableSet
    <2>2. /\ failures[k] + Cardinality(Past(k)) <= bound
          /\ retryAt[k] <= clock + Delay(bound)
          /\ failures[k] \in Nat /\ retryAt[k] \in Nat
      BY DEF ThrottleInv, Table, Tables
    <2>3. /\ IsFiniteSet(Past(k)) /\ Cardinality(Past(k)) \in Nat /\ Cardinality(Threads) \in Nat
          /\ Cardinality(Past(k)) <= Cardinality(Threads)
      BY PastCounts
    <2>4. Past(k)' \subseteq Past(k) \ {t}
      BY <1>9 DEF Past, NoAttempt
    <2>5. Cardinality(Past(k)') \in Nat /\ Cardinality(Past(k)') <= Cardinality(Past(k))
      BY <2>4, PastShrinks
    <2>6. Delay(bound) \in Nat
      BY <2>3, DelayGrows
    <2>7. c0.failures[k] \in Nat /\ c0.failures[k] <= failures[k]
          /\ c0.retryAt[k] <= clock + Delay(bound)
      BY <1>4, <1>5, <2>2, <2>6
    <2>8. CASE k \in {u, s}
      <3>1. t \in Past(k)
        BY <1>1, <1>2, <2>8 DEF Past
      <3>2. Cardinality(Past(k)') <= Cardinality(Past(k)) - 1
        <4>1. /\ IsFiniteSet(Past(k) \ {t})
              /\ Cardinality(Past(k) \ {t}) = Cardinality(Past(k)) - 1
          BY <2>3, <3>1, FS_RemoveElement
        <4> QED BY <2>4, <4>1, FS_Subset
      <3>3. c2.failures[k] = c0.failures[k] + 1
            /\ c2.retryAt[k] <= clock + Delay(c0.failures[k] + 1)
        BY <1>2, <1>6, <1>7, <2>8
      <3>4. c0.failures[k] + 1 <= bound
        BY <2>2, <2>3, <2>5, <2>7, <3>2
      <3>5. Delay(c0.failures[k] + 1) \in Nat /\ Delay(c0.failures[k] + 1) <= Delay(bound)
        <4>1. bound \in Nat /\ c0.failures[k] + 1 \in Nat
          BY <2>3, <2>7
        <4> HIDE DEF bound
        <4> QED BY <3>4, <4>1, DelayGrows
      <3>6. c2.retryAt[k] \in Nat
        BY <1>7 DEF Tables
      <3> QED BY <1>4, <1>8, <2>1, <2>2, <2>3, <2>5, <2>6, <2>7, <3>2, <3>3, <3>4, <3>5, <3>6
    <2>9. CASE k \notin {u, s}
      <3>1. c2.failures[k] = c0.failures[k] /\ c2.retryAt[k] = c0.retryAt[k]
        BY <1>6, <1>7, <2>9
      <3> QED BY <1>4, <1>8, <2>1, <2>2, <2>3, <2>5, <2>6, <2>7, <3>1
    <2> QED BY <2>8, <2>9
  <1>11. (Table \in Tables)'
    BY <1>3, <1>8, TableSet
  <1>12. attempt' \in [Threads -> {NoAttempt} \cup Attempts]
    BY <1>3 DEF ThrottleInv
  <1> QED BY <1>3, <1>10, <1>11, <1>12 DEF ThrottleInv

(* A success forgets both keys.                                            *)
LEMMA SuccessInv ==
  ASSUME ThrottleInv, NEW t \in Threads, Success(t) PROVE ThrottleInv'
  <1> DEFINE gone == KeysOf(attempt[t])
             order == Without(entries, gone)
             fs == [k \in Keys |-> IF k \in gone THEN 0 ELSE failures[k]]
             rs == [k \in Keys |-> IF k \in gone THEN 0 ELSE retryAt[k]]
             table == [order |-> order, failures |-> fs, retryAt |-> rs]
  <1>1. entries \in Seq(Keys) /\ failures \in [Keys -> Nat] /\ retryAt \in [Keys -> Nat]
    BY DEF ThrottleInv, Table, Tables
  <1>2. SetTable(table) /\ clock' = clock /\ attempt' = [attempt EXCEPT ![t] = NoAttempt]
    BY DEF Success
  <1>3. order \in Seq(Keys)
    BY <1>1, WithoutType
  <1> HIDE DEF gone, order
  <1>4. fs \in [Keys -> Nat] /\ rs \in [Keys -> Nat]
    BY <1>1
  <1>5. \A k \in Keys : \/ fs[k] = 0 /\ rs[k] = 0
                        \/ fs[k] = failures[k] /\ rs[k] = retryAt[k]
    OBVIOUS
  <1> HIDE DEF fs, rs
  <1>6. table \in Tables /\ table.failures = fs /\ table.retryAt = rs
    BY <1>3, <1>4 DEF Tables
  <1> HIDE DEF table
  <1>7. /\ attempt' \in [Threads -> {NoAttempt} \cup Attempts]
        /\ \A q \in Threads : attempt'[q] = attempt[q] \/ attempt'[q].at # "verify"
    BY <1>2 DEF ThrottleInv, NoAttempt
  <1> QED BY <1>2, <1>5, <1>6, <1>7, Forgetting

(* Every step keeps ThrottleInv.                                           *)
LEMMA ThrottleStep == ThrottleInv /\ [ThrottleNext]_throttleVars => ThrottleInv'
  <1> SUFFICES ASSUME ThrottleInv, [ThrottleNext]_throttleVars PROVE ThrottleInv'
    OBVIOUS
  <1>1. CASE TickClock
    <2>1. /\ clock \in Nat /\ clock' = clock + 1 /\ clock' \in 0..MaxClock
          /\ entries' = entries /\ failures' = failures /\ retryAt' = retryAt
          /\ attempt' = attempt
      BY <1>1, ThrottleAssumption DEF ThrottleInv, TickClock
    <2>2. \A k : Past(k)' = Past(k)
      BY <2>1 DEF Past
    <2>3. Table' = Table
      BY <2>1 DEF Table
    <2>4. Cardinality(Threads) \in Nat
      BY ThrottleAssumption, FS_CardinalityType
    <2>5. Delay(3 + Cardinality(Threads)) \in Nat
      BY <2>4, DelayGrows
    <2>6. retryAt \in [Keys -> Nat]
      BY DEF ThrottleInv, Table, Tables
    <2> QED BY <2>1, <2>2, <2>3, <2>5, <2>6 DEF ThrottleInv
  <1>2. ASSUME NEW t \in Threads, NEW u \in Users, NEW s \in Sources, Request(t, u, s)
        PROVE  ThrottleInv'
    <2> DEFINE a == [at |-> "idle", user |-> u, source |-> s]
    <2>1. /\ a.user \in Users /\ a.source \in Sources
          /\ [a EXCEPT !.at = "login"] \in Attempts
          /\ KeysOf([a EXCEPT !.at = "login"]) = KeysOf(a)
      BY DEF Attempts, KeysOf
    <2>2. RetryAfter(t, a, "login")
      BY <1>2 DEF Request
    <2> HIDE DEF a
    <2> QED BY <2>1, <2>2, RetryAfterInv
  <1>3. ASSUME NEW t \in Threads, Login(t) PROVE ThrottleInv'
    <2> DEFINE a == attempt[t]
    <2>1. a \in Attempts
      BY <1>3 DEF ThrottleInv, Login, NoAttempt
    <2>2. RetryAfter(t, a, "verify")
      BY <1>3 DEF Login
    <2> HIDE DEF a
    <2>3. /\ a.user \in Users /\ a.source \in Sources
          /\ [a EXCEPT !.at = "verify"] \in Attempts
          /\ KeysOf([a EXCEPT !.at = "verify"]) = KeysOf(a)
      BY <2>1 DEF Attempts, KeysOf
    <2> QED BY <2>2, <2>3, RetryAfterInv
  <1>4. CASE UNCHANGED throttleVars
    <2>1. \A k : Past(k)' = Past(k)
      BY <1>4 DEF Past, throttleVars
    <2>2. Table' = Table
      BY <1>4 DEF Table, throttleVars
    <2> QED BY <1>4, <2>1, <2>2 DEF ThrottleInv, throttleVars
  <1> QED BY <1>1, <1>2, <1>3, <1>4, FailureInv, SuccessInv DEF ThrottleNext

(* With any threads, users and sources, the requests that pass the         *)
(* throttle before a lockout cannot count a key's failures past three plus *)
(* the threads, nor lock it out for longer than that many call for.        *)
THEOREM FailuresStayBounded == ThrottleSpec => []FailuresBounded
  <1>1. ThrottleInv => FailuresBounded
    <2> SUFFICES ASSUME ThrottleInv, NEW k \in Keys
                 PROVE  /\ failures[k] <= 3 + Cardinality(Threads)
                        /\ retryAt[k] <= clock + Delay(3 + Cardinality(Threads))
      BY DEF FailuresBounded
    <2>1. failures[k] \in Nat
      BY DEF ThrottleInv, Table, Tables
    <2> QED BY <2>1, PastCounts DEF ThrottleInv
  <1> QED BY <1>1, ThrottleInitInv, ThrottleStep, PTL DEF ThrottleSpec

-----------------------------------------------------------------------------
(* The types of all services.                                              *)

(* The steps of the serial harness and its guest keep their types.         *)
LEMMA SerialTyped == SerialTypeOK /\ [SerialNext]_serialVars => SerialTypeOK'
  <1> SUFFICES ASSUME SerialTypeOK, [SerialNext]_serialVars PROVE SerialTypeOK'
    OBVIOUS
  <1>1. ASSUME NEW m \in SerialModes, NEW i \in BOOLEAN, RunStarts(m, i) PROVE SerialTypeOK'
    <2>1. runs' \in 0..MaxRuns
      BY <1>1, SerialAssumption DEF SerialTypeOK, RunStarts
    <2> QED BY <1>1, <2>1, Zenon DEF SerialTypeOK, RunStarts, GuestStates
  <1>2. ASSUME \/ GuestBoots \/ GuestSelftest \/ GuestAnswers \/ GuestRecords
               \/ GuestGivesUp \/ GuestEnds
        PROVE  SerialTypeOK'
    <2>1. /\ UNCHANGED <<runs, mode, image, at, verdict, expired, hostReady>>
          /\ guest' \in {"running", "recording", "done", "dead"}
          /\ UNCHANGED banner \/ banner' \in BOOLEAN
          /\ UNCHANGED wire \/ wire' = "answered"
      BY <1>2, Zenon DEF GuestBoots, GuestSelftest, GuestAnswers, GuestRecords,
                         GuestGivesUp, GuestEnds, GuestStep
    <2>2. guest' \in GuestStates
      BY <2>1 DEF GuestStates
    <2>3. banner' \in BOOLEAN /\ hostReady' \in BOOLEAN /\ wire' \in {"quiet", "sent", "answered"}
      BY <2>1, Zenon DEF SerialTypeOK
    <2> QED BY <2>1, <2>2, <2>3, Zenon DEF SerialTypeOK
  <1>3. ASSUME DeadlinePasses \/ SendBytes \/ CleanUp PROVE SerialTypeOK'
    BY <1>3, Zenon DEF SerialTypeOK, DeadlinePasses, SendBytes, CleanUp, Goto,
                       HarnessUnchanged, GuestStates
  <1>4. ASSUME AwaitBoot \/ AwaitSelftest \/ AwaitReply \/ StopGuest \/ InspectImage \/ AwaitResult
        PROVE  SerialTypeOK'
    <2>1. /\ UNCHANGED <<runs, mode, image, expired, banner, guest, wire, hostReady>>
          /\ at' \in {"selftest", "send", "stop", "result", "inspect", "finally"}
          /\ verdict' = verdict \/ verdict' \in {"PASS", "FAIL", "traceback"}
      BY <1>4 DEF AwaitBoot, AwaitSelftest, AwaitReply, StopGuest, InspectImage, AwaitResult,
                  Goto, Raise, Uncaught, Conclude, HarnessUnchanged
    <2> QED BY <2>1, Zenon DEF SerialTypeOK
  <1>5. CASE UNCHANGED serialVars
    BY <1>5, Zenon DEF SerialTypeOK, serialVars
  <1> QED BY <1>1, <1>2, <1>3, <1>4, <1>5 DEF SerialNext, Harness

(* The evaluators of the alerts are records with a place.                  *)
AlertsInv ==
  /\ AlertsTypeOK
  /\ evaluator = [e \in Evaluators |-> evaluator[e]]
  /\ \A e \in Evaluators : "at" \in DOMAIN evaluator[e]

(* An evaluator moves on, and the two files keep their kind.               *)
LEMMA EvaluatorMoves ==
  ASSUME AlertsInv, NEW e \in Evaluators, NEW p, "at" \in DOMAIN p,
         p.at \in {"load", "open", "write", "replace", "idle"},
         evaluator' = [evaluator EXCEPT ![e] = p], holding' = holding, changes' = changes,
         {file'.text, tmp'.text} \subseteq {"absent", "torn", "whole"}
  PROVE  AlertsInv'
  BY DEF AlertsInv, AlertsTypeOK

(* Evaluations keep their types, wherever they meet on the two files.      *)
LEMMA AlertsStep == AlertsInv /\ [AlertsNext]_alertVars => AlertsInv'
  <1> SUFFICES ASSUME AlertsInv, [AlertsNext]_alertVars PROVE AlertsInv'
    OBVIOUS
  <1>1. ASSUME NEW c \in Conditions, ConditionsChange(c) PROVE AlertsInv'
    BY <1>1, AlertsAssumption DEF ConditionsChange, AlertsInv, AlertsTypeOK
  <1>3. ASSUME NEW e \in Evaluators, Observe(e) PROVE AlertsInv'
    <2> DEFINE p == [at |-> "load", seen |-> holding]
    <2>1. p.at = "load" /\ "at" \in DOMAIN p
      OBVIOUS
    <2>2. evaluator' = [evaluator EXCEPT ![e] = p] /\ UNCHANGED <<holding, changes, file, tmp>>
      BY <1>3 DEF Observe
    <2> HIDE DEF p
    <2> QED BY EvaluatorMoves, <2>1, <2>2 DEF AlertsInv, AlertsTypeOK
  <1>4. ASSUME NEW e \in Evaluators, Load(e) PROVE AlertsInv'
    <2>1. PICK records : evaluator' = [evaluator EXCEPT ![e] = [at |-> "open", records |-> records]]
      BY <1>4 DEF Load
    <2> DEFINE p == [at |-> "open", records |-> records]
    <2>2. p.at = "open" /\ "at" \in DOMAIN p
      OBVIOUS
    <2>3. evaluator' = [evaluator EXCEPT ![e] = p] /\ UNCHANGED <<holding, changes, file, tmp>>
      BY <1>4, <2>1 DEF Load
    <2> HIDE DEF p
    <2> QED BY EvaluatorMoves, <2>2, <2>3 DEF AlertsInv, AlertsTypeOK
  <1>5. ASSUME NEW e \in Evaluators, NEW next \in {"write", "replace"},
               evaluator' = [evaluator EXCEPT ![e].at = next],
               UNCHANGED <<holding, changes>>,
               {file'.text, tmp'.text} \subseteq {"absent", "torn", "whole"}
        PROVE  AlertsInv'
    <2> DEFINE p == [evaluator[e] EXCEPT !.at = next]
    <2>1. p.at \in {"load", "open", "write", "replace", "idle"} /\ "at" \in DOMAIN p
      BY DEF AlertsInv
    <2>2. evaluator' = [evaluator EXCEPT ![e] = p]
      BY <1>5
    <2> HIDE DEF p
    <2> QED BY EvaluatorMoves, <1>5, <2>1, <2>2
  <1>6. ASSUME NEW e \in Evaluators, OpenTmp(e) PROVE AlertsInv'
    <2>1. tmp'.text = "torn" /\ UNCHANGED <<holding, changes, file>>
          /\ evaluator' = [evaluator EXCEPT ![e].at = "write"]
      BY <1>6 DEF OpenTmp
    <2> QED BY <1>5, <2>1 DEF AlertsInv, AlertsTypeOK
  <1>7. ASSUME NEW e \in Evaluators, WriteTmp(e) PROVE AlertsInv'
    <2>1. ASSUME NEW f, NEW g \in Written(f, e) PROVE g.text \in {"whole", "torn"}
      <3> DEFINE mine == [text |-> "whole", records |-> evaluator[e].records,
                          writers |-> f.writers \ {e}]
      <3>1. g = mine \/ g = [mine EXCEPT !.text = "torn", !.records = NoRecords]
        BY <2>1 DEF Written
      <3>2. /\ mine.text = "whole"
            /\ [mine EXCEPT !.text = "torn", !.records = NoRecords].text = "torn"
        OBVIOUS
      <3> HIDE DEF mine
      <3> QED BY <3>1, <3>2, Zenon
    <2>2. /\ tmp' = tmp \/ tmp' \in Written(tmp, e)
          /\ file' = file \/ file' \in Written(file, e)
          /\ UNCHANGED <<holding, changes>>
          /\ evaluator' = [evaluator EXCEPT ![e].at = "replace"]
      BY <1>7 DEF WriteTmp
    <2>3. {file'.text, tmp'.text} \subseteq {"absent", "torn", "whole"}
      BY <2>1, <2>2 DEF AlertsInv, AlertsTypeOK
    <2> QED BY <1>5, <2>2, <2>3
  <1>8. ASSUME NEW e \in Evaluators, ReplaceFile(e) PROVE AlertsInv'
    <2>1. {file'.text, tmp'.text} \subseteq {"absent", "torn", "whole"}
      BY <1>8 DEF ReplaceFile, Missing, AlertsInv, AlertsTypeOK
    <2>2. /\ Resting.at \in {"load", "open", "write", "replace", "idle"}
          /\ "at" \in DOMAIN Resting
      BY DEF Resting
    <2>3. evaluator' = [evaluator EXCEPT ![e] = Resting] /\ UNCHANGED <<holding, changes>>
      BY <1>8 DEF ReplaceFile
    <2> QED BY EvaluatorMoves, <2>1, <2>2, <2>3
  <1>9. CASE UNCHANGED alertVars
    BY <1>9 DEF alertVars, AlertsInv, AlertsTypeOK
  <1> QED BY <1>1, <1>3, <1>4, <1>6, <1>7, <1>8, <1>9 DEF AlertsNext, Evaluation

(* A catalogue stays within its bound, and a registry within it.           *)
CatalogInv ==
  /\ LoadedInv
  /\ IsFiniteSet(catalog) /\ Cardinality(catalog) <= MaxManifests
  /\ examples \subseteq Manifests /\ IsFiniteSet(examples)

(* Manifests are added below the bound only.                               *)
LEMMA CatalogStep == CatalogInv /\ [RegistryNext]_registryVars => CatalogInv'
  <1> SUFFICES ASSUME CatalogInv, [RegistryNext]_registryVars PROVE CatalogInv'
    OBVIOUS
  <1>1. LoadedInv'
    BY LoadedStep DEF CatalogInv
  <1>2. Cardinality(catalog) \in Nat /\ Cardinality(examples) \in Nat
    BY FS_CardinalityType DEF CatalogInv
  <1>3. ASSUME NEW d \in Manifests, AddManifest(d) PROVE CatalogInv'
    <2>1. /\ Cardinality(catalog) < MaxManifests
          /\ catalog' = catalog \cup {d} /\ UNCHANGED examples
      BY <1>2, <1>3, RegistryAssumption DEF AddManifest, Room
    <2>2. /\ IsFiniteSet(catalog')
          /\ Cardinality(catalog') \in {Cardinality(catalog), Cardinality(catalog) + 1}
      <3>1. IsFiniteSet(catalog)
        BY DEF CatalogInv
      <3>2. /\ IsFiniteSet(catalog \cup {d})
            /\ \/ Cardinality(catalog \cup {d}) = Cardinality(catalog)
               \/ Cardinality(catalog \cup {d}) = Cardinality(catalog) + 1
        BY <3>1, FS_AddElement
      <3> QED BY <2>1, <3>2
    <2>3. Cardinality(catalog') \in Nat
      BY <2>2, FS_CardinalityType
    <2> QED BY <1>1, <1>2, <2>1, <2>2, <2>3, RegistryAssumption DEF CatalogInv
  <1>4. ASSUME NEW d \in Manifests, AddExample(d) PROVE CatalogInv'
    <2>1. examples' = examples \cup {d} /\ UNCHANGED catalog
      BY <1>4 DEF AddExample
    <2>2. IsFiniteSet(examples') /\ examples' \subseteq Manifests
      BY <2>1, FS_AddElement DEF CatalogInv
    <2> QED BY <1>1, <2>1, <2>2 DEF CatalogInv
  <1>5. ASSUME NEW d \in catalog \cup examples, RemoveManifest(d) PROVE CatalogInv'
    <2>1. catalog' \subseteq catalog /\ examples' \subseteq examples
      BY <1>5 DEF RemoveManifest
    <2>2. /\ IsFiniteSet(catalog') /\ Cardinality(catalog') <= Cardinality(catalog)
          /\ Cardinality(catalog') \in Nat /\ IsFiniteSet(examples')
      BY <2>1, FS_Subset, FS_CardinalityType DEF CatalogInv
    <2> QED BY <1>1, <1>2, <2>1, <2>2, RegistryAssumption DEF CatalogInv
  <1>6. ASSUME UNCHANGED <<catalog, examples>> PROVE CatalogInv'
    BY <1>1, <1>6 DEF CatalogInv
  <1> QED BY <1>3, <1>4, <1>5, <1>6 DEF RegistryNext, LoadRegistry, ProcessEnds, registryVars

PrepInv == PrepTyped /\ media \in Bytes

(* Preparations keep their types.                                          *)
LEMMA PrepInvStep == PrepInv /\ [PrepNext]_prepVars => PrepInv'
  <1> SUFFICES ASSUME PrepInv, [PrepNext]_prepVars PROVE PrepInv'
    OBVIOUS
  <1>1. PrepTyped'
    BY PrepTypedStep DEF PrepInv
  <1>2. media' = media \/ media' \in Bytes
    <2>1. \A p \in Preparers :
            /\ \A r \in Roots : Prepare(p, r) => UNCHANGED media
            /\ ExtractTree(p) \/ CopyTree(p) \/ CopyEnds(p) => UNCHANGED media
            /\ RegisterTree(p) \/ Recheck(p) \/ PrepareDies(p) => UNCHANGED media
      BY DEF Prepare, ExtractTree, CopyTree, CopyEnds, RegisterTree, Recheck, PrepareDies,
             PrepUnchanged
    <2>2. \A r, complete, observed : QualifyPrepared(r, complete, observed) => UNCHANGED media
      BY Zenon DEF QualifyPrepared
    <2>3. (\E bytes \in Bytes : DerivedChanges(bytes)) \/ RegisterOther \/ UNCHANGED prepVars
            => UNCHANGED media
      BY DEF DerivedChanges, RegisterOther, prepVars
    <2>4. (\E bytes \in Bytes : MediaChanges(bytes)) => media' \in Bytes
      BY DEF MediaChanges
    <2> QED BY <2>1, <2>2, <2>3, <2>4, Zenon DEF PrepNext
  <1> QED BY <1>1, <1>2 DEF PrepInv, Bytes

(* The inductive invariants of the services, side by side.                 *)
HostInv ==
  /\ PayloadInv /\ TreeInv /\ ProvisionInv /\ NodeInv /\ ThrottleInv
  /\ AuditInv /\ AlertsInv /\ CatalogInv /\ SerialTypeOK /\ PrepInv

(* A step of the host is a step of one service, and the others rest.       *)
LEMMA OneServiceSteps ==
  ASSUME [HostNext]_hostVars
  PROVE  /\ [BackupNext]_backupVars /\ [DeploymentNext]_deploymentVars /\ [DosNext]_dosVars
         /\ [NodeNext]_nodeVars /\ [ThrottleNext]_throttleVars /\ [AdminNext]_adminVars
         /\ [AlertsNext]_alertVars /\ [RegistryNext]_registryVars /\ [SerialNext]_serialVars
         /\ [PrepNext]_prepVars
  <1>1. CASE UNCHANGED hostVars
    BY <1>1 DEF hostVars
  <1>2. CASE HostNext
    BY <1>2 DEF HostNext, Only
  <1> QED BY <1>1, <1>2

(* Every service's state keeps its type, whatever services run.            *)
THEOREM HostTyped == HostSpec => []HostTypeOK
  <1>1. HostInit => HostInv
    <2> SUFFICES ASSUME HostInit PROVE HostInv
      OBVIOUS
    <2>1. PayloadInv /\ TreeInv /\ ProvisionInv /\ NodeInv /\ ThrottleInv /\ AuditInv /\ LoadedInv
      BY PayloadInit, TreeInit, ProvisionInit, NodeInitInv, ThrottleInitInv, AuditInit, LoadedInit
         DEF HostInit
    <2>2. PrepInit /\ SerialInit /\ AlertsInit /\ RegistryInit
      BY DEF HostInit
    <2>3. PrepInv
      BY <2>2, DeliveredInit DEF DeliveredInv, PrepInv, PrepInit, Bytes
    <2>4. SerialTypeOK
      <3>1. runs \in 0..MaxRuns
        BY <2>2, SerialAssumption DEF SerialInit
      <3> QED BY <2>2, <3>1, Zenon DEF SerialInit, SerialTypeOK, SerialModes, GuestStates
    <2>5. AlertsInv
      BY <2>2, AlertsAssumption DEF AlertsInit, AlertsInv, AlertsTypeOK, Missing, Resting
    <2>6. CatalogInv
      BY <2>1, <2>2, RegistryAssumption, FS_EmptySet DEF CatalogInv, RegistryInit
    <2> QED BY <2>1, <2>3, <2>4, <2>5, <2>6 DEF HostInv
  <1>2. HostInv /\ [HostNext]_hostVars => HostInv'
    BY OneServiceSteps, PayloadStep, TreeStep, ProvisionStep, NodeStepInv, ThrottleStep, AuditStep,
       AlertsStep, CatalogStep, SerialTyped, PrepInvStep DEF HostInv
  <1>3. HostInv => HostTypeOK
    <2> SUFFICES ASSUME HostInv PROVE HostTypeOK
      OBVIOUS
    <2>1. BackupTypeOK /\ DosTypeOK /\ NodeTypeOK /\ AlertsTypeOK /\ SerialTypeOK
      BY DEF HostInv, PayloadInv, ProvisionInv, NodeInv, AlertsInv
    <2>2. DeploymentTypeOK
      BY DEF HostInv, TreeInv, DeploymentTypeOK, MaterializeCalls, Deployments, Allowed, Contents
    <2>3. ThrottleTypeOK
      <3>1. Table \in Tables /\ attempt \in [Threads -> {NoAttempt} \cup Attempts]
            /\ clock \in 0..MaxClock
        BY DEF HostInv, ThrottleInv
      <3> QED BY <3>1 DEF Table, Tables, ThrottleTypeOK, NoAttempt, Attempts
    <2>4. AdminTypeOK
      BY DEF HostInv, AuditInv, StoreInv, RequestOK, AdminTypeOK, NoSession, Recorded
    <2>5. RegistryTypeOK
      <3>1. \A k \in Kinds : loaded[k] \subseteq catalog
        BY DEF HostInv, CatalogInv, LoadedInv, Create, OfKind, NoRegistry
      <3> QED BY <3>1 DEF HostInv, CatalogInv, LoadedInv, RegistryTypeOK
    <2>6. PrepTypeOK
      BY DEF HostInv, PrepInv, PrepTyped, PrepTypeOK, Trees, Preps, NotDerived, PrepIdle
    <2> QED BY <2>1, <2>2, <2>3, <2>4, <2>5, <2>6 DEF HostTypeOK
  <1> QED BY <1>1, <1>2, <1>3, PTL DEF HostSpec
=============================================================================
