----------------------------- MODULE DosRuntime -----------------------------
(* The provisioning of the DOS stack (ubb_dos.py): provision_runtime       *)
(* builds FDPP and DOSEMU2 from verified objects of the archive into one   *)
(* prefix and writes a marker there last; materialize_freedos extracts the *)
(* FreeDOS image.  A call of either may fail or die at any step.  The      *)
(* module has one provisioning at a time, an administrator's command, and  *)
(* several extractions.                                                    *)
EXTENDS Naturals

CONSTANT Extractors   \* processes that call materialize_freedos

VARIABLES input,    \* the bytes of the three pinned objects
          support,  \* whether the host can link 32-bit programs
          step,     \* the next step of provision_runtime
          tree,     \* build trees: absent, extracted by this call, or older
          prefix,   \* what is installed of the two products
          marker,   \* ubb-provisioning.json
          iso,      \* FD14LIVE.iso
          extract   \* progress of each materialize_freedos

dosVars == <<input, support, step, tree, prefix, marker, iso, extract>>

Inputs == {"dosemu2", "fdpp", "freedos"}
Products == {"dosemu2", "fdpp"}
Steps == {"idle", "clear", "unpack", "fdpp", "dosemu2", "mark"}
FileStates3 == {"absent", "partial", "whole"}

DosInit ==
  /\ input = [i \in Inputs |-> "absent"]
  /\ support = FALSE
  /\ step = "idle"
  /\ tree = [p \in Products |-> "absent"]
  /\ prefix = [p \in Products |-> "absent"]
  /\ marker = "absent"
  /\ iso = "absent"
  /\ extract = [e \in Extractors |-> "idle"]

-----------------------------------------------------------------------------
(* verify_preserved_input and provisioning_manifest                        *)
Preserved(i) == input[i] = "whole"
ManifestVerifies == \A i \in Inputs : Preserved(i)

(* The archive takes an object in, or its disk damages one; packages that  *)
(* 32-bit programs need come and go.                                       *)
InputChanges(i, bytes) ==
  /\ input' = [input EXCEPT ![i] = bytes]
  /\ UNCHANGED <<support, step, tree, prefix, marker, iso, extract>>

SupportChanges ==
  /\ support' = ~support
  /\ UNCHANGED <<input, step, tree, prefix, marker, iso, extract>>

-----------------------------------------------------------------------------
(* provision_runtime                                                       *)

DosUnchanged == UNCHANGED <<input, support, iso, extract>>

(* Nothing is done when the marker holds this very manifest.               *)
ProvisionBegin ==
  /\ step = "idle"
  /\ ManifestVerifies /\ support
  /\ marker # "whole"
  /\ step' = "clear"
  /\ UNCHANGED <<tree, prefix, marker>> /\ DosUnchanged

ClearTrees ==
  /\ step = "clear"
  /\ tree' = [p \in Products |-> "absent"]
  /\ step' = "unpack"
  /\ UNCHANGED <<prefix, marker>> /\ DosUnchanged

(* _safe_extract_tar, into what is there if anything is.                   *)
Unpack ==
  /\ step = "unpack"
  /\ tree' = [p \in Products |-> IF tree[p] = "absent" THEN "fresh" ELSE tree[p]]
  /\ step' = "fdpp"
  /\ UNCHANGED <<prefix, marker>> /\ DosUnchanged

(* The patch, the cross file, meson and ninja install, of which the last   *)
(* replaces files of the prefix one by one.                                *)
InstallFdpp ==
  /\ step = "fdpp"
  /\ \/ /\ prefix["fdpp"] # "partial"
        /\ prefix' = [prefix EXCEPT !["fdpp"] = "partial"]
        /\ UNCHANGED step
     \/ /\ prefix["fdpp"] = "partial"
        /\ prefix' = [prefix EXCEPT !["fdpp"] = "whole"]
        /\ step' = "dosemu2"
  /\ UNCHANGED <<tree, marker>> /\ DosUnchanged

InstallDosemu ==
  /\ step = "dosemu2"
  /\ \/ /\ prefix["dosemu2"] # "partial"
        /\ prefix' = [prefix EXCEPT !["dosemu2"] = "partial"]
        /\ UNCHANGED step
     \/ /\ prefix["dosemu2"] = "partial"
        /\ prefix' = [prefix EXCEPT !["dosemu2"] = "whole"]
        /\ step' = "mark"
  /\ UNCHANGED <<tree, marker>> /\ DosUnchanged

FaultyWriteMarker ==
  /\ step \in {"dosemu2", "mark"}
  /\ marker' = "whole"
  /\ step' = IF step = "mark" THEN "idle" ELSE step
  /\ UNCHANGED <<tree, prefix>> /\ DosUnchanged

(* Written in place, so that a crash may leave a part of it, which is no   *)
(* manifest's text.                                                        *)
WriteMarker ==
  /\ step = "mark"
  /\ \/ marker # "partial" /\ marker' = "partial" /\ UNCHANGED step
     \/ marker = "partial" /\ marker' = "whole" /\ step' = "idle"
  /\ UNCHANGED <<tree, prefix>> /\ DosUnchanged

(* A command fails, or the process dies: the trees and the prefix stay.    *)
ProvisionFails ==
  /\ step # "idle"
  /\ step' = "idle"
  /\ tree' = [p \in Products |-> IF tree[p] = "fresh" THEN "stale" ELSE tree[p]]
  /\ UNCHANGED <<prefix, marker>> /\ DosUnchanged

-----------------------------------------------------------------------------
(* materialize_freedos: an image that is there is taken as it is.          *)

IsoUnchanged == UNCHANGED <<input, support, step, tree, prefix, marker>>

ExtractBegin(e) ==
  /\ extract[e] = "idle"
  /\ Preserved("freedos")
  /\ iso = "absent"
  /\ extract' = [extract EXCEPT ![e] = "open"]
  /\ UNCHANGED iso /\ IsoUnchanged

(* Mode "xb": of two calls that saw no image the second fails here.        *)
ExtractOpen(e) ==
  /\ extract[e] = "open"
  /\ IF iso = "absent"
       THEN iso' = "partial" /\ extract' = [extract EXCEPT ![e] = "copy"]
       ELSE iso' = iso /\ extract' = [extract EXCEPT ![e] = "idle"]
  /\ IsoUnchanged

ExtractCopy(e) ==
  /\ extract[e] = "copy"
  /\ iso' = "whole"
  /\ extract' = [extract EXCEPT ![e] = "idle"]
  /\ IsoUnchanged

ExtractFails(e) ==
  /\ extract[e] # "idle"
  /\ extract' = [extract EXCEPT ![e] = "idle"]
  /\ UNCHANGED iso /\ IsoUnchanged

DosNext ==
  \/ \E i \in Inputs, bytes \in {"whole", "damaged"} : InputChanges(i, bytes)
  \/ SupportChanges
  \/ ProvisionBegin \/ ClearTrees \/ Unpack \/ InstallFdpp \/ InstallDosemu
  \/ WriteMarker \/ ProvisionFails
  \/ \E e \in Extractors :
       ExtractBegin(e) \/ ExtractOpen(e) \/ ExtractCopy(e) \/ ExtractFails(e)

DosSpec == DosInit /\ [][DosNext]_dosVars

-----------------------------------------------------------------------------
DosTypeOK ==
  /\ input \in [Inputs -> {"absent", "whole", "damaged"}]
  /\ support \in BOOLEAN
  /\ step \in Steps
  /\ tree \in [Products -> {"absent", "fresh", "stale"}]
  /\ prefix \in [Products -> FileStates3]
  /\ {marker, iso} \subseteq FileStates3
  /\ extract \in [Extractors -> {"idle", "open", "copy"}]

(* "already-present" is never said of half a runtime: whatever attempts    *)
(* failed or died on the way, a complete marker stands in a prefix whose   *)
(* two installs ran to their end.                                          *)
MarkerMeansBuilt == marker = "whole" => \A p \in Products : prefix[p] = "whole"

(* "Always discard a partial/configured tree so a failed architecture      *)
(* probe or linker run cannot poison the next run": what is installed was  *)
(* built from trees that the same call extracted.                          *)
BuiltFromFresh ==
  step \in {"fdpp", "dosemu2", "mark"} => \A p \in Products : tree[p] = "fresh"

=============================================================================
