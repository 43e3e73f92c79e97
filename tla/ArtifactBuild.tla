----------------------------- MODULE ArtifactBuild -----------------------------
(***************************************************************************)
(* The output directory of the artifact compiler (build-source.rs): a      *)
(* build admits a project, compiles a copy of it and writes an admission   *)
(* report, the BEAM modules, a provenance and a manifest; a packaging      *)
(* writes two archives and their digests.  Each may stop after any write,  *)
(* by an error or by a crash, and a write that stops leaves a torn file.   *)
(* The project may be edited during a build, once; an edit between builds  *)
(* is the choice of the next one's project.                                *)
(***************************************************************************)
EXTENDS Artifact

CONSTANTS Sources,     \* the contents the project may have
          Policies,    \* the policies a build may be run with
          Builders,    \* what a build's environment says it runs in, or by
                       \* default does not: 'local-untracked'
          Sdk,         \* the modules of the trusted SDK
          MaxBuilds,   \* bound on the number of builds
          Admits(_, _),  \* what check_project says of a policy and a source
          Rejects(_, _), \* what verify_generated_erlang says of them
          Importing(_),  \* whether a module has a forbidden import
          Compiled(_),   \* the modules gleam build makes of a source
          UsesSdk(_),    \* whether the source depends on the trusted SDK
          Profile(_),    \* the version a policy gives itself
          Limits(_, _)   \* the limits and durable settings that a policy and a
                         \* source's configuration give

Files == Signed \cup {"tar", "zip", "digests"}

VARIABLES out,       \* the output directory
          pc,        \* what the compiler does next
          run,       \* the build in progress: [source, policy, builder, project, copy]
          builds,    \* how many builds have begun
          wrote,     \* history: what the last build to write a report has written
          complete   \* history: everything a build has written to the end

buildVars == <<out, pc, run, builds, wrote, complete>>

Nothing == [part \in Parts |-> None]

\* Mutant: the SDK is recorded and not copied.
ProductWithoutSdk(s) == Compiled(s)

Product(s) == Compiled(s) \cup (IF UsesSdk(s) THEN Sdk ELSE {})

\* What the files may hold; neither nothing nor half a file is a content.
Products == {Product(s) : s \in Sources}
Profiles == {Profile(policy) : policy \in Policies}
Settings == {Limits(policy, s) : policy \in Policies, s \in Sources}
Reports == [source : Sources, profile : Profiles, admitted : BOOLEAN, limits : Settings]
Provenances == [source : Sources, policy : Policies, builder : Builders,
                build : Products, sdk : BOOLEAN]
Manifests == [source : Sources, profile : Profiles, build : Products,
              provenance : Provenances, limits : Settings, config : Sources]
Attestations == [manifest : Manifests, report : Reports]

ASSUME AnswersAreBoolean ==
  \A s \in Sources : UsesSdk(s) \in BOOLEAN
                     /\ \A policy \in Policies : Admits(policy, s) \in BOOLEAN
ASSUME NoneIsNoContent ==
  \A none \in {None, Torn} :
    none \notin Products \cup Reports \cup Provenances \cup Manifests \cup Attestations

BuildInit ==
  /\ out = [f \in Files |-> None]
  /\ pc = "idle"
  /\ run = None
  /\ builds = 0
  /\ wrote = Nothing
  /\ complete = {}

-----------------------------------------------------------------------------
(* build_project *)

\* check_project reads the project; its errors leave everything as it is.
Begin(s, policy, builder) ==
  /\ pc = "idle"
  /\ builds < MaxBuilds
  /\ builds' = builds + 1
  /\ run' = [source |-> s, policy |-> policy, builder |-> builder,
             project |-> s, copy |-> None]
  /\ pc' = "clear"
  /\ UNCHANGED <<out, wrote, complete>>

\* From outside; after the last reading of the project it changes nothing.
Edit(s) ==
  /\ pc \in {"clear", "compile", "beams"}
  /\ run.project = run.source
  /\ s # run.project
  /\ run' = [run EXCEPT !.project = s]
  /\ UNCHANGED <<out, pc, builds, wrote, complete>>

\* Mutant: the provenance of an earlier build stays.
StaleButProvenance == <<"attestation", "tar", "zip", "digests">>

\* The files of an earlier build that go first, in this order.
Stale == <<"attestation", "provenance", "tar", "zip", "digests">>

RemoveStale ==
  /\ pc = "clear"
  /\ \E i \in DOMAIN Stale :
       /\ out[Stale[i]] # None
       /\ \A j \in 1 .. i - 1 : out[Stale[j]] = None
       /\ out' = [out EXCEPT ![Stale[i]] = None]
  /\ UNCHANGED <<pc, run, builds, wrote, complete>>

\* digest_tree: of the names and the contents of all modules.
BuildDigest == out["beam"]

Report == [source |-> run.source, profile |-> Profile(run.policy),
           admitted |-> Admits(run.policy, run.source),
           limits |-> Limits(run.policy, run.source)]

\* collect_provenance; the builder is what the environment says, unchecked.
Provenance == [source |-> run.source, policy |-> run.policy, builder |-> run.builder,
               build |-> BuildDigest, sdk |-> UsesSdk(run.copy)]

\* The configuration is read from the project once more, after the modules.
Manifest == [source |-> run.source, profile |-> Profile(run.policy),
             build |-> BuildDigest, provenance |-> out["provenance"],
             limits |-> Limits(run.policy, run.project), config |-> run.project]

\* fs::write: the whole file or, with an error or a crash, a part of it.
Write(file, content, next) ==
  /\ \/ /\ out' = [out EXCEPT ![file] = content]
        /\ pc' = next
     \/ /\ out' = [out EXCEPT ![file] = Torn]
        /\ pc' = "idle"
  /\ run' = IF pc' = "idle" THEN None ELSE run

WriteReport ==
  /\ pc = "clear"
  /\ \A i \in DOMAIN Stale : out[Stale[i]] = None
  /\ Write("report", Report, IF Report.admitted THEN "compile" ELSE "idle")
  /\ wrote' = [Nothing EXCEPT !["report"] = Report]
  /\ UNCHANGED <<builds, complete>>

\* verify_generated_erlang
GeneratedErlangPasses(copy) == ~Rejects(run.policy, copy)

\* verify_beam_imports, of everything that is in beam/.
BeamImportsPass == out["beam"] # {} /\ ~\E m \in out["beam"] : Importing(m)

\* Mutant: the modules of an earlier build stay.
CompileBeside ==
  /\ pc = "compile"
  /\ GeneratedErlangPasses(run.project)
  /\ run' = [run EXCEPT !.copy = run.project]
  /\ out' = [out EXCEPT !["beam"] = IF @ = None THEN {} ELSE @]
  /\ pc' = "beams"
  /\ UNCHANGED <<builds, wrote, complete>>

\* The project is copied, the copy is built and its Erlang is searched for what
\* the policy forbids; then beam/ is emptied.
Compile ==
  /\ pc = "compile"
  /\ GeneratedErlangPasses(run.project)
  /\ run' = [run EXCEPT !.copy = run.project]
  /\ out' = [out EXCEPT !["beam"] = {}]
  /\ pc' = "beams"
  /\ UNCHANGED <<builds, wrote, complete>>

\* The worker's modules one by one, then the SDK's, which must not collide.
CopyBeam(m) ==
  /\ \/ m \in Compiled(run.copy)
     \/ /\ UsesSdk(run.copy)
        /\ m \in Sdk
        /\ Compiled(run.copy) \subseteq out["beam"]
        /\ \A n \in out["beam"] \ Sdk : n.name # m.name
  /\ m \notin out["beam"]
  /\ out' = [out EXCEPT !["beam"] = @ \cup {m}]
  /\ UNCHANGED <<pc, run, builds, wrote, complete>>

WriteProvenance ==
  /\ pc = "beams"
  /\ Product(run.copy) \subseteq out["beam"]
  /\ Compiled(run.copy) # {}
  /\ UsesSdk(run.copy) => \E m \in Sdk : m.name = "bmscl"
  /\ BeamImportsPass
  /\ Write("provenance", Provenance, "manifest")
  /\ wrote' = [[wrote EXCEPT !["beam"] = out["beam"]] EXCEPT !["provenance"] = Provenance]
  /\ UNCHANGED <<builds, complete>>

WriteManifest ==
  /\ pc = "manifest"
  /\ Write("manifest", Manifest, "idle")
  /\ wrote' = [wrote EXCEPT !["manifest"] = Manifest]
  /\ complete' = IF out'["manifest"] = Torn THEN complete
                 ELSE complete \cup {[parts |-> wrote', copy |-> run.copy,
                                      edited |-> run.project # run.source]}
  /\ UNCHANGED <<builds>>

\* Any error that is returned, and any crash between two writes.
Stop ==
  /\ pc # "idle"
  /\ pc' = "idle"
  /\ run' = None
  /\ UNCHANGED <<out, builds, wrote, complete>>

-----------------------------------------------------------------------------
(* package_project *)

BeginPackage ==
  /\ pc = "idle"
  /\ \A file \in {"report", "manifest", "provenance"} : out[file] # None
  /\ pc' = "tar"
  /\ UNCHANGED <<out, run, builds, wrote, complete>>

\* What artifact_entries lists: beam/ may be missing, and so may the attestation.
Archive == [part \in Signed |->
              IF part = "beam" /\ out["beam"] = None THEN {} ELSE out[part]]

\* The end of the compressed stream is written when the encoder is dropped,
\* where an error is not reported: the packaging goes on with a short file.
WriteTar ==
  /\ pc = "tar"
  /\ \/ Write("tar", Archive, "zip")
     \/ /\ out' = [out EXCEPT !["tar"] = Torn]
        /\ pc' = "zip"
        /\ UNCHANGED run
  /\ UNCHANGED <<builds, wrote, complete>>

\* Mutant: the attestation is left out.
WriteZipUnsigned ==
  /\ pc = "zip"
  /\ Write("zip", [Archive EXCEPT !["attestation"] = None], "digests")
  /\ UNCHANGED <<builds, wrote, complete>>

WriteZip ==
  /\ pc = "zip"
  /\ Write("zip", Archive, "digests")
  /\ UNCHANGED <<builds, wrote, complete>>

WriteDigests ==
  /\ pc = "digests"
  /\ Write("digests", [tar |-> out["tar"], zip |-> out["zip"]], "idle")
  /\ UNCHANGED <<builds, wrote, complete>>

\* The signer, outside the program: it signs the two files it is given.
Sign ==
  /\ pc = "idle"
  /\ {out["manifest"], out["report"]} \cap {None, Torn} = {}
  /\ out' = [out EXCEPT !["attestation"] =
                          [manifest |-> out["manifest"], report |-> out["report"]]]
  /\ UNCHANGED <<pc, run, builds, wrote, complete>>

BuildNext ==
  \/ \E s \in Sources : \/ Edit(s)
                        \/ \E policy \in Policies, builder \in Builders : Begin(s, policy, builder)
  \/ pc = "beams" /\ \E m \in Product(run.copy) : CopyBeam(m)
  \/ RemoveStale \/ WriteReport \/ Compile \/ WriteProvenance \/ WriteManifest
  \/ Stop \/ BeginPackage \/ WriteTar \/ WriteZip \/ WriteDigests \/ Sign

BuildSpec == BuildInit /\ [][BuildNext]_buildVars

-----------------------------------------------------------------------------
(* What is promised of the output directory *)

\* The package in the output directory, when its digests are those of its files.
Published ==
  /\ out["digests"] \notin {None, Torn}
  /\ out["digests"].tar = out["tar"]
  /\ out["digests"].zip = out["zip"]

\* What the admission outside the program takes: it has to unpack and verify.
Acceptable == Published /\ out["tar"] \notin {None, Torn} /\ Verified(out["tar"])

\* A package that would be accepted consists of the report, the modules and
\* the provenance that the last build to write a report has written, and of a
\* manifest that a build has written to its end with just these: an interrupted
\* or rejected build never leaves an acceptable mixture with an earlier one
\* (build_project, package_project).
PackageIsOneBuild ==
  Acceptable =>
    /\ \A part \in Parts \ {"manifest"} : out["tar"][part] = wrote[part]
    /\ \E c \in complete : \A part \in Parts : out["tar"][part] = c.parts[part]

\* An accepted package has exactly the modules that its build compiled, from
\* Erlang its policy allows and with no forbidden import, and they and the
\* configuration are those of the source that was admitted, unless the project
\* was edited during the build (verify_generated_erlang, copy_worker_beams,
\* append_trusted_sdk_beams, verify_beam_imports).
AcceptedWasAdmitted ==
  Acceptable =>
    \E c \in complete :
      /\ \A part \in Parts : out["tar"][part] = c.parts[part]
      /\ out["tar"]["beam"] = Product(c.copy)
      /\ ~Rejects(out["tar"]["provenance"].policy, c.copy)
      /\ ~\E m \in out["tar"]["beam"] : Importing(m)
      /\ ~c.edited => {c.copy, out["tar"]["manifest"].config} = {out["tar"]["report"].source}

\* Digests that fit the two archives vouch for two archives of one content,
\* whatever a packaging interrupted or repeated has left, if the first one
\* unpacks at all: digests may fit a short one (package_project).
ArchivesAgree == Published /\ out["tar"] # Torn => out["tar"] = out["zip"]

\* What a build has written to its end, and the signer has signed.
SignedBuild(c) ==
  [part \in Signed |->
     IF part \in Parts THEN c.parts[part]
     ELSE [manifest |-> c.parts["manifest"], report |-> c.parts["report"]]]

\* What the compiler does not look at and a verifier refuses: modules, builder,
\* policy and settings that are not to the supervisor's liking, and modules that
\* are called like the SDK's where it is not used.
Conforms(c) ==
  /\ VerifiedModules(c.parts["beam"])
  /\ ~UsesSdk(c.copy) => ~\E m \in c.parts["beam"] : m.name \in SdkNames
  /\ WellFormed(c.parts["provenance"].builder) /\ Trusts(c.parts["provenance"])
  /\ ProfileAllows(c.parts["manifest"])

\* What a build has run to its end for, without an edit of the project, a
\* verifier accepts once it is signed if and only if it conforms: the compiler
\* never writes parts that do not fit each other, and the list of its
\* disagreements with the verifier is complete.  A build in an environment that
\* names no builder is one (build_project, bmscl_artifact:verify).
CompleteIsAccepted ==
  \A c \in complete : ~c.edited => (Verified(SignedBuild(c)) <=> Conforms(c))
=============================================================================
