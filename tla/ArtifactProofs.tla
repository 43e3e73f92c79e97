---------------------------- MODULE ArtifactProofs ----------------------------
(***************************************************************************)
(* The output directory of the compiler, for every set of sources and      *)
(* policies and every number of builds: an acceptable package is of one    *)
(* build, it is what its policy admitted, digests that fit vouch for one   *)
(* content, and what is built to its end and signed is accepted if and     *)
(* only if it conforms.                                                    *)
(*                                                                         *)
(* The archive has the report and the provenance the last build has        *)
(* written, because a build removes the archive before it writes a report. *)
(* Its manifest is one that a build wrote to its end, maybe an earlier one *)
(* that was not overwritten; but a manifest names its provenance, and      *)
(* source, policy and modules, which a provenance names, determine all the *)
(* rest.  So that build has written just what the last one has.            *)
(*                                                                         *)
(* Then the registry directory, for every set of accepted packages.        *)
(***************************************************************************)
EXTENDS ArtifactBuild, ArtifactStore, TLAPS

Building == {"clear", "compile", "beams", "manifest"}

BuildShape ==
  /\ pc \in Building \cup {"idle", "tar", "zip", "digests"}
  /\ DOMAIN out = Files
  /\ DOMAIN wrote = Parts
  /\ pc \in Building => DOMAIN run = {"source", "policy", "builder", "project", "copy"}
  /\ pc \in Building => {run.source, run.project} \subseteq Sources /\ run.policy \in Policies
                       /\ run.builder \in Builders
  /\ pc \in {"beams", "manifest"} => run.copy \in Sources

ReportOf(source, policy) ==
  [source |-> source, profile |-> Profile(policy),
   admitted |-> Admits(policy, source), limits |-> Limits(policy, source)]

\* An SDK that is used has the module it is named after.
HasRoot(source) == UsesSdk(source) => \E m \in Sdk : m.name = "bmscl"

\* What the build in progress has done so far.
BuildInProgress ==
  /\ pc \in {"compile", "beams", "manifest"} =>
       /\ out["tar"] = None /\ out["digests"] = None
       /\ wrote["report"] = ReportOf(run.source, run.policy)
       /\ Admits(run.policy, run.source)
  /\ pc \in {"compile", "beams"} => out["provenance"] = None
  /\ pc \in {"beams", "manifest"} =>
       /\ ~Rejects(run.policy, run.copy)
       /\ run.project = run.source => run.copy = run.source
  /\ pc = "beams" => out["beam"] \subseteq Product(run.copy)
  /\ pc = "manifest" =>
       /\ out["beam"] = Product(run.copy)
       /\ ~\E m \in out["beam"] : Importing(m)
       /\ HasRoot(run.copy)
       /\ wrote["beam"] = out["beam"]
       /\ wrote["provenance"] = Provenance
       /\ out["provenance"] = Provenance

\* Of a report, the modules and a provenance that one build has written.
Fit(parts) ==
  /\ parts["report"] = ReportOf(parts["provenance"].source, parts["provenance"].policy)
  /\ parts["provenance"].build = parts["beam"]

LastWritten ==
  /\ wrote["provenance"] # None => Fit(wrote)
  /\ out["report"] \in {None, Torn, wrote["report"]}
  /\ out["provenance"] \notin {None, Torn} =>
       /\ out["provenance"] = wrote["provenance"]
       /\ out["beam"] = wrote["beam"]
       /\ out["beam"] # None

CompleteFits ==
  \A c \in complete :
    /\ Fit(c.parts)
    /\ c.parts["manifest"].source = c.parts["report"].source
    /\ c.parts["manifest"].build = c.parts["beam"]
    /\ c.parts["manifest"].provenance = c.parts["provenance"]
    /\ c.parts["beam"] = Product(c.copy)
    /\ ~Rejects(c.parts["provenance"].policy, c.copy)
    /\ ~\E m \in c.parts["beam"] : Importing(m)
    /\ ~c.edited => c.copy = c.parts["report"].source
                    /\ c.parts["manifest"].config = c.parts["report"].source

\* What a verifier asks, beside that, of what a build wrote to its end.
CompletePasses ==
  \A c \in complete :
    /\ c.copy \in Sources
    /\ HasRoot(c.copy)
    /\ c.parts["report"] \in Reports /\ c.parts["report"].admitted
    /\ c.parts["provenance"] \in Provenances
    /\ c.parts["provenance"].sdk = UsesSdk(c.copy)
    /\ c.parts["manifest"] \in Manifests
    /\ c.parts["manifest"].profile = c.parts["report"].profile
    /\ ~c.edited => c.parts["manifest"].limits = c.parts["report"].limits

ManifestKnown(m) == m \in {None, Torn} \/ \E c \in complete : m = c.parts["manifest"]

ArchiveIsLast ==
  out["tar"] \notin {None, Torn} =>
    /\ out["tar"]["report"] \in {None, Torn, wrote["report"]}
    /\ out["tar"]["provenance"] \notin {None, Torn} =>
         /\ out["tar"]["provenance"] = wrote["provenance"]
         /\ out["tar"]["beam"] = wrote["beam"]
    /\ ManifestKnown(out["tar"]["manifest"])

DigestsAgree ==
  /\ pc = "zip" => out["tar"] \in {Torn, Archive}
  /\ pc = "digests" => out["tar"] \in {Torn, out["zip"]}
  /\ out["digests"] \notin {None, Torn} => out["digests"].tar \in {Torn, out["digests"].zip}

BuildInv ==
  /\ BuildShape
  /\ BuildInProgress
  /\ LastWritten
  /\ CompleteFits
  /\ CompletePasses
  /\ ManifestKnown(out["manifest"])
  /\ ArchiveIsLast
  /\ DigestsAgree
-----------------------------------------------------------------------------
(* Begin, end and interruption *)

LEMMA FilesAre ==
  /\ Files = {"report", "beam", "provenance", "manifest", "attestation", "tar", "zip", "digests"}
  /\ Parts = {"report", "beam", "provenance", "manifest"}
  /\ Signed = {"report", "beam", "provenance", "manifest", "attestation"}
  BY DEF Files, Signed, Parts

LEMMA InitBuild == BuildInit => BuildInv
  <1> SUFFICES ASSUME BuildInit PROVE BuildInv
    OBVIOUS
  <1>1. pc = "idle" /\ complete = {} /\ DOMAIN out = Files /\ \A f \in Files : out[f] = None
    BY DEF BuildInit
  <1>2. DOMAIN wrote = Parts /\ \A part \in Parts : wrote[part] = None
    BY DEF BuildInit, Nothing
  <1> QED
    BY <1>1, <1>2, FilesAre
    DEF BuildInv, BuildShape, Building, BuildInProgress, LastWritten, CompleteFits, CompletePasses, ManifestKnown,
        ArchiveIsLast, DigestsAgree

\* A step that writes nothing.
LEMMA OutFrame ==
  ASSUME BuildInv, UNCHANGED <<out, wrote, complete>>,
         BuildShape', BuildInProgress', DigestsAgree'
  PROVE  BuildInv'
  BY DEF BuildInv, LastWritten, Fit, CompleteFits, CompletePasses, ManifestKnown, ArchiveIsLast

LEMMA BeginInv ==
  ASSUME BuildInv, NEW s \in Sources, NEW policy \in Policies, NEW builder \in Builders,
         Begin(s, policy, builder)
  PROVE  BuildInv'
  <1>1. /\ UNCHANGED <<out, wrote, complete>>
        /\ run' = [source |-> s, policy |-> policy, builder |-> builder,
                   project |-> s, copy |-> None]
        /\ pc' = "clear"
    BY DEF Begin
  <1>2. BuildShape'
    BY <1>1 DEF BuildInv, BuildShape, Building
  <1>3. BuildInProgress' /\ DigestsAgree'
    BY <1>1 DEF BuildInv, BuildInProgress, DigestsAgree
  <1> QED
    BY <1>1, <1>2, <1>3, OutFrame

LEMMA EditInv ==
  ASSUME BuildInv, NEW s \in Sources, Edit(s)
  PROVE  BuildInv'
  <1>1. /\ UNCHANGED <<out, wrote, complete, pc>>
        /\ pc \in {"clear", "compile", "beams"}
        /\ s # run.source
        /\ run' = [run EXCEPT !.project = s]
    BY DEF Edit
  <1>2. /\ DOMAIN run' = {"source", "policy", "builder", "project", "copy"}
        /\ run'.source = run.source /\ run'.policy = run.policy /\ run'.copy = run.copy
        /\ run'.project = s /\ run'.builder = run.builder
    BY <1>1 DEF BuildInv, BuildShape, Building
  <1>3. BuildShape'
    BY <1>1, <1>2 DEF BuildInv, BuildShape, Building
  <1>4. BuildInProgress'
    BY <1>1, <1>2 DEF BuildInv, BuildInProgress
  <1>5. DigestsAgree'
    BY <1>1 DEF BuildInv, DigestsAgree
  <1> QED
    BY <1>1, <1>3, <1>4, <1>5, OutFrame

LEMMA IdleInv == BuildInv /\ (Stop \/ BeginPackage) => BuildInv'
  <1> SUFFICES ASSUME BuildInv, Stop \/ BeginPackage PROVE BuildInv'
    OBVIOUS
  <1>1. UNCHANGED <<out, wrote, complete>> /\ pc' \in {"idle", "tar"}
    BY DEF Stop, BeginPackage
  <1>2. BuildShape' /\ BuildInProgress' /\ DigestsAgree'
    BY <1>1 DEF BuildInv, BuildShape, Building, BuildInProgress, DigestsAgree
  <1> QED
    BY <1>1, <1>2, OutFrame

\* A step that changes one file of the directory, and no history.
LEMMA OneFile ==
  ASSUME BuildInv, NEW file \in Files, NEW v, out' = [out EXCEPT ![file] = v]
  PROVE  /\ DOMAIN out' = Files
         /\ out'[file] = v
         /\ \A f \in Files : f # file => out'[f] = out[f]
  BY DEF BuildInv, BuildShape

\* What fs::write does.
LEMMA WriteCases ==
  ASSUME NEW file, NEW content, NEW next, Write(file, content, next)
  PROVE  \E v : /\ out' = [out EXCEPT ![file] = v]
                /\ \/ v = content /\ pc' = next
                   \/ v = Torn /\ pc' = "idle"
                /\ pc' # "idle" => run' = run
  BY DEF Write

-----------------------------------------------------------------------------
(* The build *)

LEMMA RemoveStaleInv == BuildInv /\ RemoveStale => BuildInv'
  <1> SUFFICES ASSUME BuildInv, RemoveStale PROVE BuildInv'
    OBVIOUS
  <1>1. pc = "clear" /\ UNCHANGED <<pc, run, wrote, complete>>
    BY DEF RemoveStale
  <1>2. PICK i \in DOMAIN Stale : out' = [out EXCEPT ![Stale[i]] = None]
    BY DEF RemoveStale
  <1>3. Stale[i] \in {"attestation", "provenance", "tar", "zip", "digests"}
    BY DEF Stale
  <1> DEFINE file == Stale[i]
  <1>4. file \in Files
    BY <1>3, FilesAre
  <1>5. /\ DOMAIN out' = Files
        /\ out'[file] = None
        /\ \A f \in Files : f # file => out'[f] = out[f]
    BY <1>2, <1>4, OneFile
  <1> HIDE DEF file
  <1>6. BuildShape'
    BY <1>1, <1>5 DEF BuildInv, BuildShape
  <1>7. BuildInProgress' /\ CompleteFits' /\ CompletePasses'
    BY <1>1 DEF BuildInv, BuildInProgress, CompleteFits, CompletePasses, Fit
  <1>8. \A f \in Files : out'[f] \in {None, out[f]}
    BY <1>5
  <1>9. file # "report" /\ file # "beam" /\ file # "manifest"
    BY <1>3 DEF file
  <1>10. LastWritten'
    BY <1>1, <1>5, <1>8, <1>9, FilesAre DEF BuildInv, LastWritten, Fit
  <1>11. ManifestKnown(out["manifest"])'
    BY <1>1, <1>5, <1>9, FilesAre DEF BuildInv, ManifestKnown
  <1>12. ArchiveIsLast'
    <2>1. out'["tar"] \in {None, out["tar"]}
      BY <1>8, FilesAre
    <2> QED
      BY <1>1, <2>1 DEF BuildInv, ArchiveIsLast, ManifestKnown
  <1>13. DigestsAgree'
    <2>1. out'["digests"] \in {None, out["digests"]}
      BY <1>8, FilesAre
    <2> QED
      BY <1>1, <2>1 DEF BuildInv, DigestsAgree
  <1> QED
    BY <1>6, <1>7, <1>10, <1>11, <1>12, <1>13 DEF BuildInv

LEMMA WriteReportInv == BuildInv /\ WriteReport => BuildInv'
  <1> SUFFICES ASSUME BuildInv, WriteReport PROVE BuildInv'
    OBVIOUS
  <1>1. /\ pc = "clear" /\ complete' = complete
        /\ wrote' = [Nothing EXCEPT !["report"] = Report]
        /\ Write("report", Report, IF Report.admitted THEN "compile" ELSE "idle")
    BY DEF WriteReport
  <1>2. \A f \in {"provenance", "tar", "digests"} : out[f] = None
    <2>1. \A f \in {"provenance", "tar", "digests"} : \E i \in DOMAIN Stale : Stale[i] = f
      BY DEF Stale
    <2> QED
      BY <2>1 DEF WriteReport
  <1>3. PICK v : /\ out' = [out EXCEPT !["report"] = v]
                 /\ \/ v = Report /\ pc' = IF Report.admitted THEN "compile" ELSE "idle"
                    \/ v = Torn /\ pc' = "idle"
                 /\ pc' # "idle" => run' = run
    BY <1>1, WriteCases
  <1>4. /\ DOMAIN out' = Files
        /\ out'["report"] = v
        /\ \A f \in Files : f # "report" => out'[f] = out[f]
    BY <1>3, OneFile, FilesAre
  <1>5. /\ DOMAIN wrote' = Parts
        /\ wrote'["report"] = Report /\ wrote'["provenance"] = None
    BY <1>1, FilesAre DEF Nothing
  <1>6. Report = ReportOf(run.source, run.policy)
    BY DEF Report, ReportOf
  <1>7. pc' \in {"compile", "idle"} /\ v \in {Report, Torn}
    BY <1>3
  <1>8. out'["tar"] = None /\ out'["digests"] = None /\ out'["provenance"] = None
        /\ out'["manifest"] = out["manifest"]
    BY <1>2, <1>4, FilesAre
  <1>9. BuildShape'
    BY <1>1, <1>3, <1>4, <1>5, <1>7 DEF BuildInv, BuildShape, Building
  <1>9a. pc' = "compile" => Admits(run.policy, run.source)
    <2>1. Report.admitted = Admits(run.policy, run.source)
      BY DEF Report
    <2> QED
      BY <1>3, <2>1
  <1>10. BuildInProgress'
    BY <1>3, <1>5, <1>6, <1>7, <1>8, <1>9a DEF BuildInProgress
  <1>11. LastWritten'
    BY <1>4, <1>5, <1>7, <1>8 DEF LastWritten
  <1>12. CompleteFits' /\ CompletePasses' /\ ManifestKnown(out["manifest"])'
    BY <1>1, <1>8 DEF BuildInv, CompleteFits, CompletePasses, Fit, ManifestKnown
  <1>13. ArchiveIsLast' /\ DigestsAgree'
    BY <1>7, <1>8 DEF ArchiveIsLast, DigestsAgree
  <1> QED
    BY <1>9, <1>10, <1>11, <1>12, <1>13 DEF BuildInv

\* Compile and CopyBeam change beam/ alone, while there is neither provenance
\* nor archive.
LEMMA BeamFrame ==
  ASSUME BuildInv, pc \in {"compile", "beams"}, pc' = "beams", UNCHANGED <<wrote, complete>>,
         NEW v, out' = [out EXCEPT !["beam"] = v], BuildShape',
         run'.source = run.source, run'.policy = run.policy, run'.project = run.project,
         ~Rejects(run.policy, run'.copy),
         run.project = run.source => run'.copy = run.source,
         v \subseteq Product(run'.copy)
  PROVE  BuildInv'
  <1>1. /\ out'["beam"] = v
        /\ \A f \in Files : f # "beam" => out'[f] = out[f]
    BY OneFile, FilesAre
  <1>2. out'["tar"] = None /\ out'["digests"] = None /\ out'["provenance"] = None
        /\ out'["manifest"] = out["manifest"] /\ out'["report"] = out["report"]
    BY <1>1, FilesAre DEF BuildInv, BuildInProgress
  <1>3. BuildInProgress'
    BY <1>1, <1>2 DEF BuildInv, BuildInProgress, Product
  <1>4. LastWritten'
    BY <1>2 DEF BuildInv, LastWritten, Fit
  <1>5. CompleteFits' /\ CompletePasses' /\ ManifestKnown(out["manifest"])'
    BY <1>2 DEF BuildInv, CompleteFits, CompletePasses, Fit, ManifestKnown
  <1>6. ArchiveIsLast' /\ DigestsAgree'
    BY <1>2 DEF ArchiveIsLast, DigestsAgree
  <1> QED
    BY <1>3, <1>4, <1>5, <1>6 DEF BuildInv

LEMMA CompileInv == BuildInv /\ Compile => BuildInv'
  <1> SUFFICES ASSUME BuildInv, Compile PROVE BuildInv'
    OBVIOUS
  <1> DEFINE empty == {}
  <1>1. /\ pc = "compile" /\ pc' = "beams" /\ UNCHANGED <<wrote, complete>>
        /\ ~Rejects(run.policy, run.project)
        /\ out' = [out EXCEPT !["beam"] = empty]
    BY DEF Compile, GeneratedErlangPasses
  <1>2. /\ DOMAIN run' = {"source", "policy", "builder", "project", "copy"}
        /\ run'.source = run.source /\ run'.policy = run.policy
        /\ run'.builder = run.builder
        /\ run'.project = run.project /\ run'.copy = run.project
    BY DEF Compile, BuildInv, BuildShape, Building
  <1>3. BuildShape'
    BY <1>1, <1>2, OneFile, FilesAre DEF BuildInv, BuildShape, Building
  <1>4. ~Rejects(run.policy, run'.copy) /\ empty \subseteq Product(run'.copy)
    BY <1>1, <1>2
  <1>5. run.project = run.source => run'.copy = run.source
    BY <1>2
  <1> HIDE DEF empty
  <1> QED
    BY <1>1, <1>2, <1>3, <1>4, <1>5, BeamFrame

LEMMA CopyBeamInv ==
  ASSUME BuildInv, pc = "beams", NEW m \in Product(run.copy), CopyBeam(m)
  PROVE  BuildInv'
  <1>1. /\ UNCHANGED <<pc, run, wrote, complete>>
        /\ out' = [out EXCEPT !["beam"] = @ \cup {m}]
    BY DEF CopyBeam
  <1>2. out' = [out EXCEPT !["beam"] = out["beam"] \cup {m}]
    BY <1>1, FilesAre DEF BuildInv, BuildShape
  <1>3. BuildShape'
    BY <1>1, <1>2, OneFile, FilesAre DEF BuildInv, BuildShape
  <1>4. out["beam"] \cup {m} \subseteq Product(run.copy)
    BY DEF BuildInv, BuildInProgress
  <1> QED
    BY <1>1, <1>2, <1>3, <1>4, BeamFrame DEF BuildInv, BuildInProgress
LEMMA WriteProvenanceInv == BuildInv /\ WriteProvenance => BuildInv'
  <1> SUFFICES ASSUME BuildInv, WriteProvenance PROVE BuildInv'
    OBVIOUS
  <1>1. /\ pc = "beams" /\ complete' = complete
        /\ Product(run.copy) \subseteq out["beam"]
        /\ ~\E m \in out["beam"] : Importing(m)
        /\ HasRoot(run.copy)
        /\ Write("provenance", Provenance, "manifest")
        /\ wrote' = [[wrote EXCEPT !["beam"] = out["beam"]] EXCEPT !["provenance"] = Provenance]
    BY DEF WriteProvenance, BeamImportsPass, HasRoot
  <1>2. PICK v : /\ out' = [out EXCEPT !["provenance"] = v]
                 /\ \/ v = Provenance /\ pc' = "manifest"
                    \/ v = Torn /\ pc' = "idle"
                 /\ pc' # "idle" => run' = run
    BY <1>1, WriteCases
  <1>3. /\ DOMAIN out' = Files
        /\ out'["provenance"] = v
        /\ \A f \in Files : f # "provenance" => out'[f] = out[f]
    BY <1>2, OneFile, FilesAre
  <1>4. /\ out'["tar"] = None /\ out'["digests"] = None
        /\ out'["manifest"] = out["manifest"] /\ out'["report"] = out["report"]
        /\ out'["beam"] = out["beam"]
    BY <1>1, <1>3, FilesAre DEF BuildInv, BuildInProgress
  <1>5. out["beam"] = Product(run.copy) /\ out["beam"] # None
    <2>1. run.copy \in Sources /\ out["beam"] \subseteq Product(run.copy)
      BY <1>1 DEF BuildInv, BuildInProgress, BuildShape
    <2>2. out["beam"] = Product(run.copy)
      BY <1>1, <2>1
    <2>3. Product(run.copy) \in Products
      BY <2>1 DEF Products
    <2> QED
      BY <2>2, <2>3, NoneIsNoContent
  <1>6. /\ DOMAIN wrote' = Parts
        /\ wrote'["beam"] = out["beam"] /\ wrote'["provenance"] = Provenance
        /\ wrote'["report"] = wrote["report"]
        /\ wrote["report"] = ReportOf(run.source, run.policy)
    BY <1>1, FilesAre DEF BuildInv, BuildShape, BuildInProgress
  <1>7. /\ Provenance.source = run.source /\ Provenance.policy = run.policy
        /\ Provenance.build = out["beam"]
    BY DEF Provenance, BuildDigest
  <1>9. Fit(wrote)'
    BY <1>6, <1>7 DEF Fit
  <1>10. pc' \in {"manifest", "idle"} /\ v \in {Provenance, Torn}
    BY <1>2
  <1>11. BuildShape'
    BY <1>1, <1>2, <1>3, <1>6, <1>10 DEF BuildInv, BuildShape, Building
  <1>12. pc' = "manifest" => Provenance' = Provenance
    BY <1>2, <1>4 DEF Provenance, BuildDigest
  <1>13. BuildInProgress'
    <2>1. CASE pc' = "manifest"
      <3>1. run' = run /\ v = Provenance
        BY <1>2, <2>1
      <3> QED
        BY <1>1, <1>3, <1>4, <1>5, <1>6, <1>12, <2>1, <3>1 DEF BuildInv, BuildInProgress, HasRoot
    <2>2. CASE pc' = "idle"
      BY <2>2 DEF BuildInProgress
    <2> QED
      BY <1>10, <2>1, <2>2
  <1>14. LastWritten'
    BY <1>3, <1>4, <1>5, <1>6, <1>9, <1>10 DEF BuildInv, LastWritten
  <1>15. CompleteFits' /\ CompletePasses' /\ ManifestKnown(out["manifest"])'
    BY <1>1, <1>4 DEF BuildInv, CompleteFits, CompletePasses, Fit, ManifestKnown
  <1>16. ArchiveIsLast' /\ DigestsAgree'
    BY <1>4, <1>10 DEF ArchiveIsLast, DigestsAgree
  <1> QED
    BY <1>11, <1>13, <1>14, <1>15, <1>16 DEF BuildInv

LEMMA WriteManifestInv == BuildInv /\ WriteManifest => BuildInv'
  <1> SUFFICES ASSUME BuildInv, WriteManifest PROVE BuildInv'
    OBVIOUS
  <1> DEFINE new == [parts |-> wrote', copy |-> run.copy, edited |-> run.project # run.source]
  <1>1. /\ pc = "manifest"
        /\ Write("manifest", Manifest, "idle")
        /\ wrote' = [wrote EXCEPT !["manifest"] = Manifest]
        /\ complete' = IF out'["manifest"] = Torn THEN complete ELSE complete \cup {new}
    BY DEF WriteManifest
  <1>2. PICK v : /\ out' = [out EXCEPT !["manifest"] = v]
                 /\ v \in {Manifest, Torn} /\ pc' = "idle"
    BY <1>1, WriteCases
  <1>3. /\ DOMAIN out' = Files
        /\ out'["manifest"] = v
        /\ \A f \in Files : f # "manifest" => out'[f] = out[f]
    BY <1>2, OneFile, FilesAre
  <1>4. /\ out'["tar"] = None /\ out'["digests"] = None
        /\ out'["provenance"] = out["provenance"] /\ out'["report"] = out["report"]
        /\ out'["beam"] = out["beam"]
    BY <1>1, <1>3, FilesAre DEF BuildInv, BuildInProgress
  <1>5. /\ DOMAIN wrote' = Parts
        /\ wrote'["manifest"] = Manifest
        /\ wrote'["beam"] = wrote["beam"] /\ wrote'["provenance"] = wrote["provenance"]
        /\ wrote'["report"] = wrote["report"]
    BY <1>1, FilesAre DEF BuildInv, BuildShape
  <1>6. /\ new.parts = wrote' /\ new.copy = run.copy
        /\ ~new.edited => run.project = run.source
    OBVIOUS
  <1> HIDE DEF new
  <1>7. /\ wrote["report"] = ReportOf(run.source, run.policy)
        /\ out["beam"] = Product(run.copy) /\ wrote["beam"] = out["beam"]
        /\ wrote["provenance"] = Provenance /\ out["provenance"] = Provenance
        /\ ~Rejects(run.policy, run.copy)
        /\ ~\E m \in out["beam"] : Importing(m)
        /\ run.project = run.source => run.copy = run.source
        /\ Admits(run.policy, run.source) /\ HasRoot(run.copy)
    BY <1>1 DEF BuildInv, BuildInProgress
  <1>8. /\ Manifest.source = run.source /\ Manifest.build = out["beam"]
        /\ Manifest.provenance = out["provenance"] /\ Manifest.config = run.project
        /\ Manifest.profile = Profile(run.policy)
    BY DEF Manifest, BuildDigest
  <1>9. /\ Provenance.source = run.source /\ Provenance.policy = run.policy
        /\ Provenance.build = out["beam"]
    BY DEF Provenance, BuildDigest
  <1>10. wrote["report"].source = run.source /\ wrote["report"].profile = Profile(run.policy)
    BY <1>7 DEF ReportOf
  <1>11. Fit(wrote')
    BY <1>5, <1>7, <1>9 DEF Fit
  <1>12. CompleteFits'
    <2> SUFFICES ASSUME NEW c \in complete'
        PROVE  /\ Fit(c.parts)
               /\ c.parts["manifest"].source = c.parts["report"].source
               /\ c.parts["manifest"].build = c.parts["beam"]
               /\ c.parts["manifest"].provenance = c.parts["provenance"]
               /\ c.parts["beam"] = Product(c.copy)
               /\ ~Rejects(c.parts["provenance"].policy, c.copy)
               /\ ~\E m \in c.parts["beam"] : Importing(m)
               /\ ~c.edited => c.copy = c.parts["report"].source
                               /\ c.parts["manifest"].config = c.parts["report"].source
      BY DEF CompleteFits
    <2>1. CASE c \in complete
      BY <2>1 DEF BuildInv, CompleteFits
    <2>2. CASE c = new
      BY <1>5, <1>6, <1>7, <1>8, <1>9, <1>10, <1>11, <2>2
    <2> QED
      BY <1>1, <2>1, <2>2
  <1>17. CompletePasses'
    <2>1. /\ {run.source, run.copy, run.project} \subseteq Sources /\ run.policy \in Policies
          /\ run.builder \in Builders
      BY <1>1 DEF BuildInv, BuildShape, Building
    <2>2. wrote["report"] \in Reports /\ wrote["report"].admitted
          /\ wrote["report"].limits = Limits(run.policy, run.source)
      BY <1>7, <2>1, AnswersAreBoolean DEF ReportOf, Reports, Profiles, Settings
    <2>3. Provenance \in Provenances /\ Provenance.sdk = UsesSdk(run.copy)
      BY <1>7, <2>1, AnswersAreBoolean DEF Provenance, Provenances, Products, BuildDigest
    <2>4. Manifest \in Manifests /\ Manifest.limits = Limits(run.policy, run.project)
      BY <1>7, <2>1, <2>3
      DEF Manifest, Manifests, Products, BuildDigest, Profiles, Settings
    <2>5. /\ new.copy \in Sources /\ HasRoot(new.copy)
          /\ new.parts["report"] \in Reports /\ new.parts["report"].admitted
          /\ new.parts["provenance"] \in Provenances
          /\ new.parts["provenance"].sdk = UsesSdk(new.copy)
          /\ new.parts["manifest"] \in Manifests
          /\ new.parts["manifest"].profile = new.parts["report"].profile
          /\ ~new.edited => new.parts["manifest"].limits = new.parts["report"].limits
      BY <1>5, <1>6, <1>7, <1>8, <1>10, <2>1, <2>2, <2>3, <2>4
    <2>6. \A c \in complete' : c \in complete \/ c = new
      BY <1>1
    <2> QED
      BY <2>5, <2>6 DEF BuildInv, CompletePasses, HasRoot
  <1>13. ManifestKnown(out["manifest"])'
    <2>1. CASE v = Torn
      BY <1>3, <2>1 DEF ManifestKnown
    <2>2. CASE v # Torn
      <3>1. new \in complete' /\ v = new.parts["manifest"]
        BY <1>1, <1>2, <1>3, <1>5, <1>6, <2>2
      <3> QED
        BY <1>3, <3>1 DEF ManifestKnown
    <2> QED
      BY <2>1, <2>2
  <1>14. BuildShape' /\ BuildInProgress'
    BY <1>2, <1>3, <1>5 DEF BuildShape, Building, BuildInProgress
  <1>15. LastWritten'
    BY <1>4, <1>5, <1>11 DEF BuildInv, LastWritten
  <1>16. ArchiveIsLast' /\ DigestsAgree'
    BY <1>2, <1>4 DEF ArchiveIsLast, DigestsAgree
  <1> QED
    BY <1>12, <1>13, <1>14, <1>15, <1>16, <1>17 DEF BuildInv

-----------------------------------------------------------------------------
(* The packaging *)

\* A step that leaves report, modules, provenance and manifest as they are, and
\* makes no archive but of them.
LEMMA PackagingFrame ==
  ASSUME BuildInv, UNCHANGED <<wrote, complete>>, pc' \in {"idle", "tar", "zip", "digests"},
         NEW file \in Files \ Parts, NEW v, out' = [out EXCEPT ![file] = v],
         file = "tar" => v \in {Torn, Archive},
         DigestsAgree'
  PROVE  BuildInv'
  <1>1. /\ DOMAIN out' = Files
        /\ out'[file] = v
        /\ \A f \in Files : f # file => out'[f] = out[f]
    BY OneFile
  <1>2. \A part \in Parts : out'[part] = out[part]
    BY <1>1, FilesAre
  <1>3. BuildShape' /\ BuildInProgress'
    BY <1>1 DEF BuildInv, BuildShape, Building, BuildInProgress
  <1>4. LastWritten'
    BY <1>2, FilesAre DEF BuildInv, LastWritten, Fit
  <1>5. CompleteFits' /\ CompletePasses' /\ ManifestKnown(out["manifest"])'
    BY <1>2, FilesAre DEF BuildInv, CompleteFits, CompletePasses, Fit, ManifestKnown
  <1>6. ArchiveIsLast'
    <2>1. CASE out'["tar"] = out["tar"]
      BY <2>1 DEF BuildInv, ArchiveIsLast, ManifestKnown
    <2>2. CASE out'["tar"] = Archive
      <3>1. /\ Archive["report"] = out["report"]
            /\ Archive["provenance"] = out["provenance"]
            /\ Archive["manifest"] = out["manifest"]
            /\ out["beam"] # None => Archive["beam"] = out["beam"]
        BY FilesAre DEF Archive
      <3> QED
        BY <2>2, <3>1 DEF BuildInv, ArchiveIsLast, LastWritten, ManifestKnown
    <2>3. CASE out'["tar"] = Torn
      BY <2>3 DEF ArchiveIsLast
    <2> QED
      BY <1>1, <2>1, <2>2, <2>3, FilesAre
  <1> QED
    BY <1>3, <1>4, <1>5, <1>6 DEF BuildInv

LEMMA ArchiveFrame ==
  ASSUME \A part \in Signed : out'[part] = out[part]
  PROVE  Archive' = Archive
  BY FilesAre DEF Archive

LEMMA WriteTarInv == BuildInv /\ WriteTar => BuildInv'
  <1> SUFFICES ASSUME BuildInv, WriteTar PROVE BuildInv'
    OBVIOUS
  <1>1. UNCHANGED <<wrote, complete>>
    BY DEF WriteTar
  <1>2. PICK v : /\ out' = [out EXCEPT !["tar"] = v]
                 /\ v \in {Torn, Archive} /\ pc' \in {"zip", "idle"}
    BY WriteCases DEF WriteTar
  <1>3. /\ out'["tar"] = v
        /\ \A f \in Files : f # "tar" => out'[f] = out[f]
    BY <1>2, OneFile, FilesAre
  <1>4. Archive' = Archive
    BY <1>3, ArchiveFrame, FilesAre
  <1>5. DigestsAgree'
    BY <1>2, <1>3, <1>4, FilesAre DEF BuildInv, DigestsAgree
  <1> QED
    BY <1>1, <1>2, <1>5, PackagingFrame, FilesAre

LEMMA WriteZipInv == BuildInv /\ WriteZip => BuildInv'
  <1> SUFFICES ASSUME BuildInv, WriteZip PROVE BuildInv'
    OBVIOUS
  <1>1. UNCHANGED <<wrote, complete>> /\ pc = "zip"
    BY DEF WriteZip
  <1>2. PICK v : /\ out' = [out EXCEPT !["zip"] = v]
                 /\ \/ v = Archive /\ pc' = "digests"
                    \/ v = Torn /\ pc' = "idle"
    BY WriteCases DEF WriteZip
  <1>3. /\ out'["zip"] = v
        /\ \A f \in Files : f # "zip" => out'[f] = out[f]
    BY <1>2, OneFile, FilesAre
  <1>4. DigestsAgree'
    BY <1>1, <1>2, <1>3, FilesAre DEF BuildInv, DigestsAgree
  <1> QED
    BY <1>1, <1>2, <1>4, PackagingFrame, FilesAre

LEMMA WriteDigestsInv == BuildInv /\ WriteDigests => BuildInv'
  <1> SUFFICES ASSUME BuildInv, WriteDigests PROVE BuildInv'
    OBVIOUS
  <1> DEFINE digests == [tar |-> out["tar"], zip |-> out["zip"]]
  <1>1. UNCHANGED <<wrote, complete>> /\ pc = "digests"
    BY DEF WriteDigests
  <1>2. PICK v : /\ out' = [out EXCEPT !["digests"] = v]
                 /\ v \in {digests, Torn} /\ pc' = "idle"
    BY WriteCases DEF WriteDigests
  <1>3. digests.tar = out["tar"] /\ digests.zip = out["zip"]
    OBVIOUS
  <1> HIDE DEF digests
  <1>4. out'["digests"] = v
    BY <1>2, OneFile, FilesAre
  <1>5. DigestsAgree'
    BY <1>1, <1>2, <1>3, <1>4 DEF BuildInv, DigestsAgree
  <1> QED
    BY <1>1, <1>2, <1>5, PackagingFrame, FilesAre

LEMMA SignInv == BuildInv /\ Sign => BuildInv'
  <1> SUFFICES ASSUME BuildInv, Sign PROVE BuildInv'
    OBVIOUS
  <1>1. /\ UNCHANGED <<pc, wrote, complete>> /\ pc = "idle"
        /\ out' = [out EXCEPT !["attestation"] =
                             [manifest |-> out["manifest"], report |-> out["report"]]]
    BY DEF Sign
  <1>2. \A f \in Files : f # "attestation" => out'[f] = out[f]
    BY <1>1, OneFile, FilesAre
  <1>3. DigestsAgree'
    BY <1>1, <1>2, FilesAre DEF BuildInv, DigestsAgree
  <1> QED
    BY <1>1, <1>3, PackagingFrame, FilesAre

-----------------------------------------------------------------------------
(* Theorems *)

LEMMA BuildNextInv == BuildInv /\ [BuildNext]_buildVars => BuildInv'
  <1> SUFFICES ASSUME BuildInv, [BuildNext]_buildVars PROVE BuildInv'
    OBVIOUS
  <1>1. CASE \E s \in Sources :
               \/ Edit(s)
               \/ \E policy \in Policies, builder \in Builders : Begin(s, policy, builder)
    BY <1>1, EditInv, BeginInv
  <1>2. CASE pc = "beams" /\ \E m \in Product(run.copy) : CopyBeam(m)
    BY <1>2, CopyBeamInv
  <1>3. CASE RemoveStale \/ WriteReport \/ Compile \/ WriteProvenance \/ WriteManifest
    BY <1>3, RemoveStaleInv, WriteReportInv, CompileInv, WriteProvenanceInv, WriteManifestInv
  <1>4. CASE Stop \/ BeginPackage \/ WriteTar \/ WriteZip \/ WriteDigests \/ Sign
    BY <1>4, IdleInv, WriteTarInv, WriteZipInv, WriteDigestsInv, SignInv
  <1>5. CASE UNCHANGED buildVars
    <2>1. UNCHANGED <<out, wrote, complete, pc, run>>
      BY <1>5 DEF buildVars
    <2>2. BuildShape' /\ BuildInProgress' /\ DigestsAgree'
      BY <2>1 DEF BuildInv, BuildShape, BuildInProgress, DigestsAgree, Archive, Provenance, BuildDigest
    <2> QED
      BY <2>1, <2>2, OutFrame
  <1> QED
    BY <1>1, <1>2, <1>3, <1>4, <1>5 DEF BuildNext

\* The inductive invariant of the output directory (build_project,
\* package_project).
THEOREM BuildInvHolds == BuildSpec => []BuildInv
  BY InitBuild, BuildNextInv, PTL DEF BuildSpec

\* The build an acceptable package is of.
LEMMA AcceptableIsOf ==
  ASSUME BuildInv, Acceptable
  PROVE  /\ \A part \in Parts \ {"manifest"} : out["tar"][part] = wrote[part]
         /\ \E c \in complete : \A part \in Parts : out["tar"][part] = c.parts[part]
  <1> DEFINE tar == out["tar"]
  <1>1. tar \notin {None, Torn} /\ Verified(tar)
    BY DEF Acceptable
  <1>2. \A part \in Signed : tar[part] \notin {None, Torn}
    BY <1>1 DEF Verified
  <1>3. /\ tar["manifest"].provenance = tar["provenance"]
        /\ tar["manifest"].build = tar["beam"]
    BY <1>1 DEF Verified, VerifiedAdmission, VerifiedProvenance
  <1>4. /\ tar["report"] = wrote["report"]
        /\ tar["provenance"] = wrote["provenance"]
        /\ tar["beam"] = wrote["beam"]
        /\ ManifestKnown(tar["manifest"])
    BY <1>1, <1>2, FilesAre DEF BuildInv, ArchiveIsLast
  <1>5. Fit(wrote)
    BY <1>2, <1>4, FilesAre DEF BuildInv, LastWritten
  <1>6. PICK c \in complete : tar["manifest"] = c.parts["manifest"]
    BY <1>2, <1>4, FilesAre DEF ManifestKnown
  <1> HIDE DEF tar
  <1>7. /\ Fit(c.parts)
        /\ c.parts["manifest"].source = c.parts["report"].source
        /\ c.parts["manifest"].build = c.parts["beam"]
        /\ c.parts["manifest"].provenance = c.parts["provenance"]
    BY DEF BuildInv, CompleteFits
  <1>8. c.parts["provenance"] = tar["provenance"] /\ c.parts["beam"] = tar["beam"]
    BY <1>3, <1>6, <1>7
  <1>10. c.parts["report"] = tar["report"]
    BY <1>4, <1>5, <1>7, <1>8 DEF Fit
  <1> QED
    BY <1>4, <1>6, <1>8, <1>10, FilesAre DEF tar

\* No interruption, error or repetition leaves an acceptable mixture of two
\* builds (build_project, package_project).
THEOREM PackageIsOneBuildHolds == BuildSpec => []PackageIsOneBuild
  <1>1. BuildInv => PackageIsOneBuild
    BY AcceptableIsOf DEF PackageIsOneBuild
  <1> QED
    BY <1>1, BuildInvHolds, PTL

\* What is accepted is what the policy admitted (verify_generated_erlang,
\* copy_worker_beams, append_trusted_sdk_beams, verify_beam_imports).
THEOREM AcceptedWasAdmittedHolds == BuildSpec => []AcceptedWasAdmitted
  <1>1. ASSUME BuildInv, Acceptable
        PROVE  \E c \in complete :
                 /\ \A part \in Parts : out["tar"][part] = c.parts[part]
                 /\ out["tar"]["beam"] = Product(c.copy)
                 /\ ~Rejects(out["tar"]["provenance"].policy, c.copy)
                 /\ ~\E m \in out["tar"]["beam"] : Importing(m)
                 /\ ~c.edited => {c.copy, out["tar"]["manifest"].config}
                                   = {out["tar"]["report"].source}
    <2>1. PICK c \in complete : \A part \in Parts : out["tar"][part] = c.parts[part]
      BY <1>1, AcceptableIsOf
    <2>2. /\ c.parts["beam"] = Product(c.copy)
          /\ ~Rejects(c.parts["provenance"].policy, c.copy)
          /\ ~\E m \in c.parts["beam"] : Importing(m)
          /\ ~c.edited => c.copy = c.parts["report"].source
                          /\ c.parts["manifest"].config = c.parts["report"].source
      BY <1>1 DEF BuildInv, CompleteFits
    <2>3. /\ out["tar"]["beam"] = c.parts["beam"]
          /\ out["tar"]["report"] = c.parts["report"]
          /\ out["tar"]["provenance"] = c.parts["provenance"]
          /\ out["tar"]["manifest"] = c.parts["manifest"]
      BY <2>1, FilesAre
    <2> QED
      BY <2>1, <2>2, <2>3
  <1>2. BuildInv => AcceptedWasAdmitted
    BY <1>1 DEF AcceptedWasAdmitted
  <1> QED
    BY <1>2, BuildInvHolds, PTL

\* Digests that fit are those of two archives of one content, unless the first
\* is a short file (package_project).
THEOREM ArchivesAgreeHolds == BuildSpec => []ArchivesAgree
  <1>1. BuildInv => ArchivesAgree
    BY DEF BuildInv, DigestsAgree, ArchivesAgree, Published
  <1> QED
    BY <1>1, BuildInvHolds, PTL

\* What a build wrote to its end, signed: every file is a content, and all of
\* them agree; the rest is what it has to conform to (build_project,
\* bmscl_artifact:verify).
LEMMA CompleteVerifies ==
  ASSUME BuildInv, NEW c \in complete, ~c.edited
  PROVE  Verified(SignedBuild(c)) <=> Conforms(c)
  <1> DEFINE attestation == [manifest |-> c.parts["manifest"], report |-> c.parts["report"]]
             a == [part \in Signed |-> IF part \in Parts THEN c.parts[part] ELSE attestation]
  <1>1. /\ a["report"] = c.parts["report"] /\ a["beam"] = c.parts["beam"]
        /\ a["provenance"] = c.parts["provenance"] /\ a["manifest"] = c.parts["manifest"]
        /\ a["attestation"] = [manifest |-> a["manifest"], report |-> a["report"]]
    BY FilesAre
  <1> HIDE DEF a
  <1>2. /\ c.parts["manifest"].source = c.parts["report"].source
        /\ c.parts["provenance"].source = c.parts["report"].source
        /\ c.parts["provenance"].build = c.parts["beam"]
        /\ c.parts["manifest"].build = c.parts["beam"]
        /\ c.parts["manifest"].provenance = c.parts["provenance"]
        /\ c.parts["beam"] = Product(c.copy)
    <2>1. Fit(c.parts)
      BY DEF BuildInv, CompleteFits
    <2>2. c.parts["report"].source = c.parts["provenance"].source
      BY <2>1 DEF Fit, ReportOf
    <2> QED
      BY <2>1, <2>2 DEF BuildInv, CompleteFits, Fit
  <1>3. /\ c.copy \in Sources /\ HasRoot(c.copy)
        /\ c.parts["report"] \in Reports /\ c.parts["report"].admitted
        /\ c.parts["provenance"] \in Provenances
        /\ c.parts["provenance"].sdk = UsesSdk(c.copy)
        /\ c.parts["manifest"] \in Manifests
        /\ c.parts["manifest"].profile = c.parts["report"].profile
        /\ c.parts["manifest"].limits = c.parts["report"].limits
    BY DEF BuildInv, CompletePasses
  <1>4. \A part \in Signed : a[part] \notin {None, Torn}
    <2>1. a["attestation"] \in Attestations /\ a["beam"] \in Products
      BY <1>1, <1>2, <1>3 DEF Attestations, Products
    <2> QED
      BY <1>1, <1>3, <2>1, NoneIsNoContent, FilesAre
  <1>5. VerifiedAdmission(a) /\ a["manifest"].build = a["beam"]
    BY <1>1, <1>2, <1>3 DEF VerifiedAdmission
  <1>6. VerifiedProvenance(a) <=> /\ WellFormed(c.parts["provenance"].builder)
                                  /\ Trusts(c.parts["provenance"])
    BY <1>1, <1>2 DEF VerifiedProvenance
  <1>7. VerifiedSdk(a) <=>
          (~UsesSdk(c.copy) => ~\E m \in c.parts["beam"] : m.name \in SdkNames)
    <2>1. UsesSdk(c.copy) => \E m \in a["beam"] : m.name = "bmscl"
      BY <1>1, <1>2, <1>3 DEF HasRoot, Product
    <2>2. UsesSdk(c.copy) => \E m \in a["beam"] : m.name \in SdkNames
      BY <2>1, RootIsSdk
    <2>3. UsesSdk(c.copy) \in BOOLEAN
      BY <1>3, AnswersAreBoolean
    <2> QED
      BY <1>1, <1>3, <2>1, <2>2, <2>3 DEF VerifiedSdk
  <1>8. Verified(a) <=> Conforms(c)
    BY <1>1, <1>4, <1>5, <1>6, <1>7 DEF Verified, Conforms
  <1> QED
    BY <1>8 DEF a, SignedBuild

\* A build of a project nobody edits is accepted, once it is signed, if and only
\* if it conforms to what the compiler does not look at: no verification fails
\* for parts that do not fit each other (build_project, bmscl_artifact:verify).
THEOREM CompleteIsAcceptedHolds == BuildSpec => []CompleteIsAccepted
  <1>1. BuildInv => CompleteIsAccepted
    BY CompleteVerifies DEF CompleteIsAccepted
  <1> QED
    BY <1>1, BuildInvHolds, PTL

-----------------------------------------------------------------------------
(***************************************************************************)
(* The registry, for every set of accepted packages: what a guest has      *)
(* loaded is one of them, and a bundle read in peace is verified.          *)
(*                                                                         *)
(* For the first, only the attestation has to be followed from the         *)
(* publisher to the guest: it names the manifest and the report, the       *)
(* manifest the provenance and the modules.  For the second, a directory   *)
(* that has a record and is not being written holds one whole package.     *)
(***************************************************************************)

StoreShape ==
  /\ DOMAIN entry = Keys
  /\ \A k \in Keys : DOMAIN entry[k] = StoreFiles
  /\ DOMAIN reader = {"pc", "key", "record", "got", "calm"}
  /\ DOMAIN reader.got = Signed
  /\ reader.pc # "idle" => reader.key \in Keys

PublisherOk ==
  /\ published \subseteq Packages
  /\ publishing # None =>
       /\ publishing \in Publication
       /\ publishing.package \in published
       /\ publishing.left # {}

\* No attestation is anything but torn or that of a package.
AttestationKnown(a) == a \in {None, Torn} \/ \E p \in published : a = p["attestation"]

AttestationsAreOfPackages ==
  /\ \A k \in Keys : AttestationKnown(entry[k]["attestation"])
  /\ AttestationKnown(reader.got["attestation"])

\* What the publication in progress has written is still there.
WrittenStays ==
  publishing # None =>
    \A f \in StoreFiles \ publishing.left : entry[Key][f] = FileOf(publishing.package, f)

HoldsPackage(k) ==
  \E p \in published : \A part \in Signed : entry[k][part] = p[part]

DirectoriesAreWhole ==
  \A k \in Keys : entry[k]["record"] # None /\ (publishing = None \/ k # Key) => HoldsPackage(k)

\* What a reader has read in peace is still there.
CalmReader ==
  reader.calm /\ reader.pc # "idle" =>
    /\ publishing = None
    /\ reader.key \in Keys
    /\ entry[reader.key]["record"] # None
    /\ \A part \in Signed : reader.got[part] # None => reader.got[part] = entry[reader.key][part]
    /\ reader.pc = "bundle" => \A part \in Signed : reader.got[part] # None

StoreInv ==
  /\ StoreShape
  /\ PublisherOk
  /\ AttestationsAreOfPackages
  /\ WrittenStays
  /\ DirectoriesAreWhole
  /\ CalmReader
  /\ LoadedIsOneBuild
-----------------------------------------------------------------------------
(* The publisher *)

LEMMA InitStore == StoreInit => StoreInv
  <1> SUFFICES ASSUME StoreInit PROVE StoreInv
    OBVIOUS
  <1>1. DOMAIN entry = Keys /\ publishing = None /\ published = {}
    BY DEF StoreInit
  <1>2. \A k \in Keys : /\ DOMAIN entry[k] = StoreFiles
                        /\ \A f \in StoreFiles \ {"beam"} : entry[k][f] = None
    BY DEF StoreInit
  <1>3. /\ DOMAIN reader = {"pc", "key", "record", "got", "calm"}
        /\ reader.pc = "idle"
        /\ reader.got = [part \in Signed |-> None]
    BY DEF StoreInit, NoReader
  <1>4. \A k \in Keys : entry[k]["attestation"] = None /\ entry[k]["record"] = None
    BY <1>2 DEF StoreFiles, Signed, Parts
  <1>5. StoreShape
    BY <1>1, <1>2, <1>3 DEF StoreShape
  <1>6. PublisherOk /\ WrittenStays
    BY <1>1 DEF PublisherOk, WrittenStays
  <1>7. AttestationsAreOfPackages
    BY <1>3, <1>4 DEF AttestationsAreOfPackages, AttestationKnown, Signed, Parts
  <1>8. DirectoriesAreWhole
    BY <1>4 DEF DirectoriesAreWhole
  <1>9. CalmReader /\ LoadedIsOneBuild
    BY <1>3 DEF CalmReader, LoadedIsOneBuild
  <1> QED
    BY <1>5, <1>6, <1>7, <1>8, <1>9 DEF StoreInv

LEMMA BeginPublicationInv ==
  ASSUME StoreInv, NEW package \in Packages, BeginPublication(package)
  PROVE  StoreInv'
  <1> DEFINE new == [package |-> package, left |-> StoreFiles]
  <1>1. /\ publishing = None /\ publishing' = new
        /\ published' = published \cup {package}
        /\ reader' = [reader EXCEPT !.calm = FALSE]
        /\ entry' = entry
    BY DEF BeginPublication
  <1>2. new.package = package /\ new.left = StoreFiles
    OBVIOUS
  <1> HIDE DEF new
  <1>3. StoreShape /\ PublisherOk /\ AttestationsAreOfPackages /\ DirectoriesAreWhole /\ LoadedIsOneBuild
    BY DEF StoreInv
  <1>4. reader'.pc = reader.pc /\ reader'.got = reader.got /\ reader'.calm = FALSE
        /\ DOMAIN reader' = DOMAIN reader
    BY <1>1, <1>3 DEF StoreShape
  <1>5. StoreShape'
    BY <1>1, <1>3, <1>4 DEF StoreShape
  <1>6. PublisherOk' /\ WrittenStays'
    <2>1. new \in Publication
      BY DEF Publication, new
    <2>2. publishing' \in Publication /\ publishing' # None
      BY <1>1, <2>1, NoneIsNoPublication
    <2> QED
      BY <1>1, <1>2, <1>3, <2>2 DEF PublisherOk, WrittenStays, StoreFiles
  <1>7. AttestationsAreOfPackages'
    BY <1>1, <1>3, <1>4 DEF AttestationsAreOfPackages, AttestationKnown
  <1>8. DirectoriesAreWhole'
    BY <1>1, <1>3 DEF DirectoriesAreWhole, HoldsPackage
  <1>9. CalmReader' /\ LoadedIsOneBuild'
    BY <1>1, <1>3, <1>4 DEF CalmReader, LoadedIsOneBuild
  <1> QED
    BY <1>5, <1>6, <1>7, <1>8, <1>9 DEF StoreInv

\* The publication in progress goes to the directory of its own modules.
LEMMA KeyOfPublication ==
  ASSUME StoreInv, publishing # None
  PROVE  /\ publishing.package \in published
         /\ publishing.package \in Packages
         /\ Key \in Keys /\ Key = publishing.package["beam"]
  <1>1. publishing.package \in published /\ publishing.package \in Packages
    BY DEF StoreInv, PublisherOk
  <1>2. Verified(publishing.package)
    BY <1>1, PackagesAreVerified
  <1> QED
    BY <1>1, <1>2 DEF Verified, Key, Keys

\* What one step of a publication does to its directory: one file changes, to
\* something torn or whole, or one module is added.
LEMMA PublishFileInv ==
  ASSUME StoreInv, publishing # None, NEW f \in StoreFiles, PublishFile(f)
  PROVE  StoreInv'
  <1> DEFINE p == publishing.package
             k == Key
  <1>1. StoreShape /\ PublisherOk /\ AttestationsAreOfPackages /\ WrittenStays /\ DirectoriesAreWhole
        /\ CalmReader /\ LoadedIsOneBuild
    BY DEF StoreInv
  <1>2. p \in published /\ p \in Packages /\ k \in Keys /\ k = p["beam"]
    BY KeyOfPublication
  <1>3. f \in publishing.left /\ published' = published /\ reader' = reader
    BY DEF PublishFile
  <1>4. PICK v : entry' = [entry EXCEPT ![k][f] = v]
                 /\ \/ publishing' = publishing /\ (f # "beam" => v = Torn)
                    \/ /\ v = FileOf(p, f)
                       /\ publishing' = IF publishing.left = {f} THEN None
                                        ELSE [publishing EXCEPT !.left = @ \ {f}]
    <2>1. CASE f = "beam" /\ entry[k]["beam"] # k
      <3>1. PICK m \in k \ entry[k]["beam"] : entry' = [entry EXCEPT ![k]["beam"] = @ \cup {m}]
        BY <2>1 DEF PublishFile
      <3>2. entry' = [entry EXCEPT ![k]["beam"] = entry[k]["beam"] \cup {m}]
        BY <3>1, <1>1, <1>2 DEF StoreShape
      <3>3. publishing' = publishing
        BY <2>1 DEF PublishFile
      <3> QED
        BY <2>1, <3>2, <3>3
    <2>2. CASE f # "beam" /\ entry[k][f] # Torn
      BY <2>2 DEF PublishFile
    <2>3. CASE (f = "beam" => entry[k]["beam"] = k) /\ (f # "beam" => entry[k][f] = Torn)
      BY <2>3 DEF PublishFile
    <2> QED
      BY <2>1, <2>2, <2>3
  <1> HIDE DEF p, k
  <1>5. /\ DOMAIN entry' = Keys
        /\ \A j \in Keys : DOMAIN entry'[j] = StoreFiles
        /\ \A j \in Keys : j # k => entry'[j] = entry[j]
        /\ entry'[k][f] = v
        /\ \A g \in StoreFiles : g # f => entry'[k][g] = entry[k][g]
    BY <1>1, <1>2, <1>4 DEF StoreShape
  <1>6. StoreShape'
    BY <1>1, <1>3, <1>5 DEF StoreShape
  <1>7. f = "attestation" => v = Torn \/ v = p["attestation"]
    BY <1>4 DEF FileOf, Signed
  <1>8. AttestationsAreOfPackages'
    <2>1. AttestationKnown(reader.got["attestation"])'
      BY <1>1, <1>3 DEF AttestationsAreOfPackages, AttestationKnown
    <2>2. ASSUME NEW j \in Keys PROVE AttestationKnown(entry[j]["attestation"])'
      <3>1. AttestationKnown(entry[j]["attestation"])
        BY <1>1 DEF AttestationsAreOfPackages
      <3>2. CASE j = k /\ f = "attestation"
        BY <1>2, <1>3, <1>5, <1>7, <3>2 DEF AttestationKnown
      <3>3. CASE ~(j = k /\ f = "attestation")
        <4>1. entry'[j]["attestation"] = entry[j]["attestation"]
          BY <1>5, <3>3 DEF StoreFiles, Signed
        <4> QED
          BY <1>3, <3>1, <4>1 DEF AttestationKnown
      <3> QED
        BY <3>2, <3>3
    <2> QED
      BY <2>1, <2>2 DEF AttestationsAreOfPackages
  <1>9. CalmReader' /\ LoadedIsOneBuild'
    BY <1>1, <1>3 DEF CalmReader, LoadedIsOneBuild
  <1>10. \A j \in Keys : j # k /\ entry'[j]["record"] # None => HoldsPackage(j)'
    BY <1>1, <1>3, <1>5 DEF DirectoriesAreWhole, HoldsPackage, k
  <1>11. \A g \in StoreFiles \ publishing.left : entry'[k][g] = FileOf(p, g)
    BY <1>1, <1>3, <1>5 DEF WrittenStays, p, k
  <1>12. CASE publishing' = publishing
    <2>1. PublisherOk' /\ Key' = k
      BY <1>1, <1>3, <1>12 DEF PublisherOk, Key, k
    <2>2. WrittenStays'
      BY <1>11, <1>12, <2>1 DEF WrittenStays, p
    <2>3. DirectoriesAreWhole'
      BY <1>10, <1>12, <2>1 DEF DirectoriesAreWhole
    <2> QED
      BY <1>6, <1>8, <1>9, <2>1, <2>2, <2>3 DEF StoreInv
  <1>13. CASE v = FileOf(p, f) /\ publishing.left = {f} /\ publishing' = None
    <2>1. \A g \in StoreFiles : entry'[k][g] = FileOf(p, g)
      BY <1>5, <1>11, <1>13
    <2>2. \A part \in Signed : entry'[k][part] = p[part]
      BY <2>1 DEF StoreFiles, FileOf, Signed, Parts
    <2>3. DirectoriesAreWhole'
      <3> SUFFICES ASSUME NEW j \in Keys, entry'[j]["record"] # None PROVE HoldsPackage(j)'
        BY DEF DirectoriesAreWhole
      <3>1. CASE j = k
        BY <1>2, <1>3, <2>2, <3>1 DEF HoldsPackage
      <3>2. CASE j # k
        BY <1>10, <3>2
      <3> QED
        BY <3>1, <3>2
    <2>4. PublisherOk' /\ WrittenStays'
      BY <1>1, <1>3, <1>13 DEF PublisherOk, WrittenStays
    <2> QED
      BY <1>6, <1>8, <1>9, <2>3, <2>4 DEF StoreInv
  <1>14. CASE /\ v = FileOf(p, f) /\ publishing.left # {f}
              /\ publishing' = [publishing EXCEPT !.left = publishing.left \ {f}]
    <2>1. publishing \in Publication
      BY <1>1 DEF PublisherOk
    <2>2. /\ publishing'.package = p
          /\ publishing'.left = publishing.left \ {f}
          /\ publishing' \in Publication
      BY <1>14, <2>1 DEF Publication, p
    <2>3. publishing' # None
      BY <2>2, NoneIsNoPublication
    <2>4. Key' = k
      BY <2>2 DEF Key, k, p
    <2>5. PublisherOk'
      BY <1>1, <1>2, <1>3, <1>14, <2>2 DEF PublisherOk
    <2>6. WrittenStays'
      BY <1>5, <1>11, <1>14, <2>2, <2>4 DEF WrittenStays
    <2>7. DirectoriesAreWhole'
      BY <1>10, <2>3, <2>4 DEF DirectoriesAreWhole
    <2> QED
      BY <1>6, <1>8, <1>9, <2>5, <2>6, <2>7 DEF StoreInv
  <1> QED
    BY <1>4, <1>12, <1>13, <1>14

-----------------------------------------------------------------------------
(* The reader *)

\* What is left to show of a step of the reader.
LEMMA ReaderSteps ==
  ASSUME StoreInv, UNCHANGED <<entry, publishing, published>>,
         DOMAIN reader' = {"pc", "key", "record", "got", "calm"},
         DOMAIN reader'.got = Signed,
         reader'.pc # "idle" => reader'.key \in Keys,
         AttestationKnown(reader'.got["attestation"]),
         CalmReader', LoadedIsOneBuild'
  PROVE  StoreInv'
  <1>1. AttestationsAreOfPackages'
    BY DEF StoreInv, AttestationsAreOfPackages, AttestationKnown
  <1>2. WrittenStays' /\ DirectoriesAreWhole' /\ PublisherOk'
    BY DEF StoreInv, WrittenStays, DirectoriesAreWhole, PublisherOk, HoldsPackage, Key
  <1> QED
    BY <1>1, <1>2 DEF StoreInv, StoreShape

LEMMA NothingRead ==
  /\ DOMAIN NoReader = {"pc", "key", "record", "got", "calm"}
  /\ NoReader.pc = "idle" /\ NoReader.got = [part \in Signed |-> None]
  /\ DOMAIN NoReader.got = Signed
  /\ \A part \in Signed : NoReader.got[part] = None
  /\ AttestationKnown(NoReader.got["attestation"])
  BY DEF NoReader, AttestationKnown, Signed

LEMMA ActivateInv ==
  ASSUME StoreInv, NEW k \in Keys, Activate(k)
  PROVE  StoreInv'
  <1>1. UNCHANGED <<entry, publishing, published>> /\ entry[k]["record"] # None
    BY DEF Activate
  <1>2. reader' = [pc |-> "record", key |-> k, record |-> None,
                   got |-> NoReader.got, calm |-> publishing = None]
    BY DEF Activate
  <1>3. /\ DOMAIN reader' = {"pc", "key", "record", "got", "calm"}
        /\ reader'.pc = "record" /\ reader'.key = k /\ reader'.got = NoReader.got
    BY <1>2
  <1>4. reader'.calm => publishing = None
    BY <1>2
  <1>5. CalmReader' /\ LoadedIsOneBuild'
    BY <1>1, <1>3, <1>4, NothingRead DEF CalmReader, LoadedIsOneBuild
  <1> QED
    BY <1>1, <1>3, <1>5, NothingRead, ReaderSteps

LEMMA RefuseInv == StoreInv /\ Refuse => StoreInv'
  <1> SUFFICES ASSUME StoreInv, Refuse PROVE StoreInv'
    OBVIOUS
  <1>1. UNCHANGED <<entry, publishing, published>> /\ reader' = NoReader
    BY DEF Refuse
  <1>2. CalmReader' /\ LoadedIsOneBuild'
    BY <1>1, NothingRead DEF CalmReader, LoadedIsOneBuild
  <1> QED
    BY <1>1, <1>2, NothingRead, ReaderSteps

\* Steps that read nothing of what is sent.
LEMMA CheckInv == StoreInv /\ (ReadRecord \/ CheckArchive) => StoreInv'
  <1> SUFFICES ASSUME StoreInv, ReadRecord \/ CheckArchive PROVE StoreInv'
    OBVIOUS
  <1>1. /\ UNCHANGED <<entry, publishing, published>>
        /\ reader.pc \in {"record", "archive", "again"}
    BY DEF ReadRecord, CheckArchive
  <1>2. /\ DOMAIN reader' = {"pc", "key", "record", "got", "calm"}
        /\ reader'.pc \in {"archive", "members", "again"}
        /\ reader'.key = reader.key /\ reader'.got = reader.got /\ reader'.calm = reader.calm
    <2>1. CASE ReadRecord
      BY <2>1 DEF ReadRecord, StoreInv, StoreShape
    <2>2. CASE CheckArchive
      BY <2>2 DEF CheckArchive, StoreInv, StoreShape
    <2> QED
      BY <2>1, <2>2
  <1>3. CalmReader'
    BY <1>1, <1>2 DEF StoreInv, CalmReader
  <1>4. LoadedIsOneBuild'
    BY <1>2 DEF LoadedIsOneBuild
  <1> QED
    BY <1>1, <1>2, <1>3, <1>4, ReaderSteps DEF StoreInv, StoreShape, AttestationsAreOfPackages

LEMMA MetadataAreSigned ==
  /\ \A i \in DOMAIN AdmittedMetadata : AdmittedMetadata[i] \in Signed \ {"beam"}
  /\ \A part \in Signed \ {"beam"} : \E i \in DOMAIN AdmittedMetadata : AdmittedMetadata[i] = part
  BY DEF AdmittedMetadata, Signed, Parts

LEMMA ReadMetadataInv ==
  ASSUME StoreInv, NEW i \in DOMAIN AdmittedMetadata, ReadMetadata(i)
  PROVE  StoreInv'
  <1> DEFINE part == AdmittedMetadata[i]
  <1>1. part \in Signed
    BY MetadataAreSigned
  <1>2. UNCHANGED <<entry, publishing, published>> /\ reader.pc = "members"
    BY DEF ReadMetadata
  <1>3. reader' = [reader EXCEPT !.got[part] = entry[reader.key][part]]
    BY DEF ReadMetadata, RegularMember
  <1> HIDE DEF part
  <1>4. /\ DOMAIN reader' = {"pc", "key", "record", "got", "calm"}
        /\ reader'.pc = "members"
        /\ reader'.key = reader.key /\ reader'.calm = reader.calm
        /\ DOMAIN reader'.got = Signed
        /\ \A other \in Signed : reader'.got[other] =
               IF other = part THEN entry[reader.key][part] ELSE reader.got[other]
    BY <1>1, <1>2, <1>3 DEF StoreInv, StoreShape
  <1>5. CalmReader' /\ LoadedIsOneBuild'
    BY <1>2, <1>4 DEF StoreInv, CalmReader, LoadedIsOneBuild
  <1>6. reader.key \in Keys
    BY <1>2 DEF StoreInv, StoreShape
  <1>7. AttestationKnown(reader'.got["attestation"])
    BY <1>4, <1>6 DEF StoreInv, AttestationsAreOfPackages, Signed
  <1> QED
    BY <1>2, <1>4, <1>5, <1>6, <1>7, ReaderSteps

LEMMA ReadBeamsInv == StoreInv /\ ReadBeams => StoreInv'
  <1> SUFFICES ASSUME StoreInv, ReadBeams PROVE StoreInv'
    OBVIOUS
  <1>1. UNCHANGED <<entry, publishing, published>> /\ reader.pc = "members"
    BY DEF ReadBeams
  <1>2. /\ entry[reader.key]["beam"] # None
        /\ reader' = [[reader EXCEPT !.got["beam"] = entry[reader.key]["beam"]] EXCEPT !.pc = "bundle"]
    BY DEF ReadBeams, RegularMember
  <1>3. "beam" \in Signed /\ "attestation" \in Signed
    BY DEF Signed, Parts
  <1>4. /\ DOMAIN reader' = {"pc", "key", "record", "got", "calm"}
        /\ reader'.pc = "bundle"
        /\ reader'.key = reader.key /\ reader'.calm = reader.calm
        /\ DOMAIN reader'.got = Signed
        /\ \A other \in Signed : reader'.got[other] =
               IF other = "beam" THEN entry[reader.key]["beam"] ELSE reader.got[other]
    BY <1>1, <1>2, <1>3 DEF StoreInv, StoreShape
  <1>5. \A part \in Signed \ {"beam"} : reader.got[part] # None
    BY MetadataAreSigned DEF ReadBeams
  <1>6. CalmReader' /\ LoadedIsOneBuild'
    BY <1>1, <1>2, <1>4, <1>5 DEF StoreInv, CalmReader, LoadedIsOneBuild
  <1>7. AttestationKnown(reader'.got["attestation"])
    BY <1>3, <1>4 DEF StoreInv, AttestationsAreOfPackages
  <1>8. reader.key \in Keys
    BY <1>1 DEF StoreInv, StoreShape
  <1> QED
    BY <1>1, <1>4, <1>6, <1>7, <1>8, ReaderSteps

\* Two verified artifacts with the same attestation are the same.
LEMMA AttestationNamesAll ==
  ASSUME NEW a, NEW b, Verified(a), Verified(b), a["attestation"] = b["attestation"]
  PROVE  \A part \in Signed : a[part] = b[part]
  <1>1. a["manifest"] = b["manifest"] /\ a["report"] = b["report"]
    <2>1. [manifest |-> a["manifest"], report |-> a["report"]]
            = [manifest |-> b["manifest"], report |-> b["report"]]
      BY DEF Verified
    <2> QED
      BY <2>1
  <1>2. a["provenance"] = b["provenance"] /\ a["beam"] = b["beam"]
    BY <1>1 DEF Verified, VerifiedProvenance
  <1> QED
    BY <1>1, <1>2 DEF Signed, Parts

LEMMA LoadInv == StoreInv /\ Load => StoreInv'
  <1> SUFFICES ASSUME StoreInv, Load PROVE StoreInv'
    OBVIOUS
  <1>1. /\ UNCHANGED <<entry, publishing, published>>
        /\ reader.pc = "bundle" /\ Verified(reader.got)
        /\ reader' = [reader EXCEPT !.pc = "loaded"]
    BY DEF Load
  <1>2. /\ DOMAIN reader' = {"pc", "key", "record", "got", "calm"}
        /\ reader'.pc = "loaded" /\ reader'.got = reader.got
        /\ reader'.key = reader.key /\ reader'.calm = reader.calm
    BY <1>1 DEF StoreInv, StoreShape
  <1>3. AttestationKnown(reader.got["attestation"])
    BY DEF StoreInv, AttestationsAreOfPackages
  <1>4. PICK p \in published : reader.got["attestation"] = p["attestation"]
    BY <1>1, <1>3 DEF AttestationKnown, Verified, Signed
  <1>5. Verified(p)
    BY PackagesAreVerified DEF StoreInv, PublisherOk
  <1>6. LoadedIsOneBuild'
    BY <1>1, <1>2, <1>4, <1>5, AttestationNamesAll DEF LoadedIsOneBuild
  <1>7. CalmReader'
    BY <1>1, <1>2 DEF StoreInv, CalmReader
  <1> QED
    BY <1>1, <1>2, <1>3, <1>6, <1>7, ReaderSteps DEF StoreInv, StoreShape

-----------------------------------------------------------------------------
(* Theorems *)

LEMMA StoreNextInv == StoreInv /\ [StoreNext]_storeVars => StoreInv'
  <1> SUFFICES ASSUME StoreInv, [StoreNext]_storeVars PROVE StoreInv'
    OBVIOUS
  <1>1. CASE \E package \in Packages : BeginPublication(package)
    BY <1>1, BeginPublicationInv
  <1>2. CASE publishing # None /\ \E f \in StoreFiles : PublishFile(f)
    BY <1>2, PublishFileInv
  <1>3. CASE \E k \in Keys : Activate(k)
    BY <1>3, ActivateInv
  <1>4. CASE ReadRecord \/ CheckArchive
    BY <1>4, CheckInv
  <1>5. CASE ReadBeams \/ Load \/ Refuse
    BY <1>5, ReadBeamsInv, LoadInv, RefuseInv
  <1>6. CASE \E i \in DOMAIN AdmittedMetadata : ReadMetadata(i)
    BY <1>6, ReadMetadataInv
  <1>7. CASE UNCHANGED storeVars
    <2>1. UNCHANGED <<entry, publishing, published>> /\ reader' = reader
      BY <1>7 DEF storeVars
    <2>2. CalmReader' /\ LoadedIsOneBuild'
      BY <2>1 DEF StoreInv, CalmReader, LoadedIsOneBuild
    <2> QED
      BY <2>1, <2>2, ReaderSteps DEF StoreInv, StoreShape, AttestationsAreOfPackages
  <1> QED
    BY <1>1, <1>2, <1>3, <1>4, <1>5, <1>6, <1>7 DEF StoreNext

\* The inductive invariant of the registry directory and its reader
\* (resolve_admitted_bundle).
THEOREM StoreInvHolds == StoreSpec => []StoreInv
  BY InitStore, StoreNextInv, PTL DEF StoreSpec

\* Whatever is published while a directory is read, what a guest loads is one
\* accepted package (resolve_admitted_bundle, bmscl_artifact:verify).
THEOREM LoadedIsOneBuildHolds == StoreSpec => []LoadedIsOneBuild
  <1>1. StoreInv => LoadedIsOneBuild
    BY DEF StoreInv
  <1> QED
    BY <1>1, StoreInvHolds, PTL

\* What the store sends of a directory nobody writes to is accepted
\* (resolve_admitted_bundle).
THEOREM CalmReadIsAcceptedHolds == StoreSpec => []CalmReadIsAccepted
  <1>1. ASSUME StoreInv, reader.pc = "bundle", reader.calm PROVE Verified(reader.got)
    <2>1. /\ publishing = None /\ reader.key \in Keys
          /\ entry[reader.key]["record"] # None
          /\ \A part \in Signed : reader.got[part] = entry[reader.key][part]
      BY <1>1 DEF StoreInv, CalmReader
    <2>2. PICK p \in published : \A part \in Signed : entry[reader.key][part] = p[part]
      BY <1>1, <2>1 DEF StoreInv, DirectoriesAreWhole, HoldsPackage
    <2>3. Verified(p)
      BY <1>1, PackagesAreVerified DEF StoreInv, PublisherOk
    <2>4. \A part \in Signed : reader.got[part] = p[part]
      BY <2>1, <2>2
    <2> QED
      BY <2>3, <2>4 DEF Verified, VerifiedAdmission, VerifiedProvenance, VerifiedSdk, VerifiedModules,
         HasWorker, Signed, Parts
  <1>2. StoreInv => CalmReadIsAccepted
    BY <1>1 DEF CalmReadIsAccepted
  <1> QED
    BY <1>2, StoreInvHolds, PTL
=============================================================================
