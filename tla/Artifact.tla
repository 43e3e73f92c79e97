------------------------------- MODULE Artifact --------------------------------
(***************************************************************************)
(* An artifact of a worker: what a build makes, and what a verifier checks *)
(* of it.  A digest is modelled by the content it is of: no two contents   *)
(* have the same one.  A BEAM module is a record with a name.              *)
(*                                                                         *)
(* The supervisor requires attestations and trusted builds, as it does by  *)
(* default, and so takes no artifact of the legacy profile.  What it asks  *)
(* of single fields is a predicate, with everything it depends on.         *)
(***************************************************************************)
EXTENDS Naturals, FiniteSets

CONSTANTS None, Torn,  \* a file that is missing, and one half written
          SdkNames,    \* what the SDK's modules are called: bmscl, bmscl@...
          MaxModules,  \* how many modules an artifact may have
          ValidName(_),      \* of a module
          AtomsFit(_),       \* of a set of modules: the static limits of atoms
          WellFormed(_),     \* of a builder: identifiers, digests and versions
          Trusts(_),         \* of a provenance: the lists of what is trusted
          ProfileAllows(_)   \* of a manifest: its profile, capabilities, limits

ASSUME RootIsSdk == "bmscl" \in SdkNames

\* The members a build makes, and those of a signed artifact.
Parts == {"report", "beam", "provenance", "manifest"}
Signed == Parts \cup {"attestation"}

VerifiedAdmission(a) ==
  /\ a["report"].admitted
  /\ a["report"].profile = a["manifest"].profile
  /\ a["report"].source = a["manifest"].source
  /\ a["report"].limits = a["manifest"].limits

\* Mutant: the digest in the manifest is not compared.
VerifiedBuild(a) == a["provenance"].build = a["manifest"].build

VerifiedProvenance(a) ==
  /\ a["manifest"].provenance = a["provenance"]
  /\ a["provenance"].source = a["manifest"].source
  /\ a["provenance"].build = a["manifest"].build
  /\ WellFormed(a["provenance"].builder)
  /\ Trusts(a["provenance"])

HasWorker(modules) == \E m \in modules : m.name = "worker"

\* verify_trusted_sdk_modules: it knows the modules of the SDK by their names.
VerifiedSdk(a) ==
  /\ a["provenance"].sdk <=> \E m \in a["beam"] : m.name \in SdkNames
  /\ a["provenance"].sdk => \E m \in a["beam"] : m.name = "bmscl"

\* The atoms, verify_module_names, and the entry point.
VerifiedModules(modules) ==
  /\ AtomsFit(modules)
  /\ Cardinality(modules) <= MaxModules
  /\ \A m \in modules : ValidName(m.name)
  /\ HasWorker(modules)

\* bmscl_artifact:verify of an unpacked artifact: the signature is over manifest
\* and report, the manifest has the digests of the provenance and the modules.
Verified(a) ==
  /\ \A part \in Signed : a[part] \notin {None, Torn}
  /\ a["attestation"] = [manifest |-> a["manifest"], report |-> a["report"]]
  /\ ProfileAllows(a["manifest"])
  /\ VerifiedAdmission(a)
  /\ VerifiedProvenance(a)
  /\ a["manifest"].build = a["beam"]
  /\ VerifiedSdk(a)
  /\ VerifiedModules(a["beam"])

=============================================================================
