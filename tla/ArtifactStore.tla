----------------------------- MODULE ArtifactStore -----------------------------
(***************************************************************************)
(* The way of a package from the registry to a guest.  A publisher, outside *)
(* the program, writes accepted packages to the registry directory named by *)
(* the build digest, file by file, over whatever an earlier publication of *)
(* the same modules has left there: a source with another comment, or the  *)
(* same source under another policy, compiles to the same modules.         *)
(* The artifact store (artifact_store.rs) reads that directory for an      *)
(* activation, file by file and without a lock, and packs what it has read *)
(* for the guest, which verifies it and loads it.                          *)
(***************************************************************************)
EXTENDS Artifact

CONSTANTS Packages   \* the packages that were accepted

\* The admission verifies what it publishes; the digest of the modules is the key.
Keys == {p["beam"] : p \in Packages}
ASSUME PackagesAreVerified == \A p \in Packages : Verified(p) /\ p["beam"] # {}

VARIABLES entry,      \* the registry: [Keys -> the files of a directory]
          publishing, \* the publication in progress: [package, left]
          published,  \* history: the packages published so far, each at most once
          reader      \* resolve_admitted_bundle: [pc, key, record, got, calm]

storeVars == <<entry, publishing, published, reader>>

\* Mutant: the attestation is not sent.
UnsignedMetadata == <<"manifest", "report", "provenance">>

\* What resolve_admitted_bundle reads beside beam/, in its order.  The receipt
\* of the admission comes last; nothing is said of what is in it.
AdmittedMetadata == <<"manifest", "report", "provenance", "attestation">>

StoreFiles == Signed \cup {"record", "archive"}

Publication == [package : Packages, left : SUBSET StoreFiles]
ASSUME NoneIsNoPublication == None \notin Publication

NoReader == [pc |-> "idle", key |-> None, record |-> None,
             got |-> [part \in Signed |-> None], calm |-> TRUE]

StoreInit ==
  /\ entry = [k \in Keys |-> [f \in StoreFiles |-> IF f = "beam" THEN {} ELSE None]]
  /\ publishing = None
  /\ published = {}
  /\ reader = NoReader

-----------------------------------------------------------------------------
(* The publisher *)

\* What a publication writes: the parts, the archive and the record.
FileOf(package, f) ==
  CASE f \in Signed -> package[f]
    [] f = "record" -> [build |-> package["manifest"].build, archive |-> package]
    [] f = "archive" -> package

BeginPublication(package) ==
  /\ publishing = None
  /\ package \notin published
  /\ publishing' = [package |-> package, left |-> StoreFiles]
  /\ published' = published \cup {package}
  /\ reader' = [reader EXCEPT !.calm = FALSE]
  /\ UNCHANGED entry

\* The key and the content of a file of the publication in progress.
Key == publishing.package["manifest"].build

\* A module of beam/ is there or not; another file is torn before it is whole.
PublishFile(f) ==
  /\ f \in publishing.left
  /\ IF f = "beam" /\ entry[Key]["beam"] # Key
     THEN /\ \E m \in Key \ entry[Key]["beam"] :
               entry' = [entry EXCEPT ![Key]["beam"] = @ \cup {m}]
          /\ UNCHANGED publishing
     ELSE IF f # "beam" /\ entry[Key][f] # Torn
     THEN /\ entry' = [entry EXCEPT ![Key][f] = Torn]
          /\ UNCHANGED publishing
     ELSE /\ entry' = [entry EXCEPT ![Key][f] = FileOf(publishing.package, f)]
          /\ publishing' = IF publishing.left = {f} THEN None
                           ELSE [publishing EXCEPT !.left = @ \ {f}]
  /\ UNCHANGED <<published, reader>>

-----------------------------------------------------------------------------
(* resolve_admitted_bundle *)

\* Without a record there is nothing to read: the activation fails at once.
Activate(k) ==
  /\ reader.pc \in {"idle", "loaded"}
  /\ entry[k]["record"] # None
  /\ reader' = [pc |-> "record", key |-> k, record |-> None,
                 got |-> NoReader.got, calm |-> publishing = None]
  /\ UNCHANGED <<entry, publishing, published>>

\* validate_record
ValidRecord(record, key) == record # Torn /\ record.build = key

\* resolve_directory, the first and the second time: the record of this key.
ReadRecord ==
  /\ reader.pc \in {"record", "again"}
  /\ ValidRecord(entry[reader.key]["record"], reader.key)
  /\ reader' = [[reader EXCEPT !.record = entry[reader.key]["record"]]
                  EXCEPT !.pc = IF @ = "record" THEN "archive" ELSE "members"]
  /\ UNCHANGED <<entry, publishing, published>>

\* resolve: size and digest of the archive are those of the record it has read.
CheckArchive ==
  /\ reader.pc = "archive"
  /\ entry[reader.key]["archive"] = reader.record.archive
  /\ reader' = [reader EXCEPT !.pc = "again"]
  /\ UNCHANGED <<entry, publishing, published>>

\* read_regular_member: what is there, if it is there.
RegularMember(part) == {entry[reader.key][part]} \ {None}

ReadMetadata(i) ==
  LET part == AdmittedMetadata[i]
  IN /\ reader.pc = "members"
     /\ reader.got[part] = None
     /\ \A j \in 1 .. i - 1 : reader.got[AdmittedMetadata[j]] # None
     /\ \E content \in RegularMember(part) :
          reader' = [reader EXCEPT !.got[part] = content]
     /\ UNCHANGED <<entry, publishing, published>>

\* The modules of beam/ only grow: to read them one by one gives no set that is
\* not there at some time.
ReadBeams ==
  /\ reader.pc = "members"
  /\ \A i \in DOMAIN AdmittedMetadata : reader.got[AdmittedMetadata[i]] # None
  /\ \E content \in RegularMember("beam") :
       /\ HasWorker(content)
       /\ reader' = [[reader EXCEPT !.got["beam"] = content] EXCEPT !.pc = "bundle"]
  /\ UNCHANGED <<entry, publishing, published>>

\* The guest verifies what it is sent and activates it under its build digest,
\* which the host compares with the one it has asked for.
Load ==
  /\ reader.pc = "bundle"
  /\ Verified(reader.got)
  /\ reader.got["manifest"].build = reader.key
  /\ reader' = [reader EXCEPT !.pc = "loaded"]
  /\ UNCHANGED <<entry, publishing, published>>

\* Any check above that fails, and any error of the file system.
Refuse ==
  /\ reader.pc \notin {"idle", "loaded"}
  /\ reader' = NoReader
  /\ UNCHANGED <<entry, publishing, published>>

StoreNext ==
  \/ \E package \in Packages : BeginPublication(package)
  \/ publishing # None /\ \E f \in StoreFiles : PublishFile(f)
  \/ \E k \in Keys : Activate(k)
  \/ ReadRecord \/ CheckArchive \/ ReadBeams \/ Load \/ Refuse
  \/ \E i \in DOMAIN AdmittedMetadata : ReadMetadata(i)

StoreSpec == StoreInit /\ [][StoreNext]_storeVars

-----------------------------------------------------------------------------
(* What the artifact store and the guest promise together *)

\* What a guest has loaded is in all its signed parts one package that was
\* accepted, also when the directory was published again while it was read: the
\* store does not notice, the verification in the guest has to
\* (resolve_admitted_bundle, bmscl_artifact:verify).
LoadedIsOneBuild ==
  reader.pc = "loaded" =>
    \E p \in published : \A part \in Signed : reader.got[part] = p[part]

\* A bundle is verified by the guest if nobody wrote to its directory while it
\* was read: the store sends everything that the guest asks for, whatever earlier
\* publications have left (resolve_admitted_bundle).
CalmReadIsAccepted ==
  reader.pc = "bundle" /\ reader.calm =>
    Verified(reader.got)
=============================================================================
