-------------------------- MODULE IdentityPublication --------------------------
(***************************************************************************)
(* The publication of the identity of one runtime: a file that is created  *)
(* once, and that later writers of the same identity accept as their own.  *)
(*                                                                         *)
(* Source: infra-runtime-host/src/bin/bmscl-runtime-identity-writer.rs,    *)
(* publish_identity_idempotently.  The runtime host starts a writer for    *)
(* every boot of an epoch (publish_runtime_identity in lib.rs) and does    *)
(* not kill it when the boot is dropped, so writers of one file may run    *)
(* side by side.  The file is written in several write calls and synced at *)
(* the end; a writer may be killed and the machine may lose power at any   *)
(* time.  The identity root is on a disk that keeps what is synced; on the *)
(* default /run, in memory, an outage leaves nothing, which starts over.   *)
(* Only the writer's publication is modelled: the path, the owner and the  *)
(* mode of what it finds are taken to be those a writer has given it.      *)
(***************************************************************************)
EXTENDS Naturals

CONSTANTS
  Writers,     \* writer processes
  Identities,  \* {user, tenant, deployment, invocation} of the runtime
  None,
  MaxOutages   \* bound on power failures

ASSUME PublicationAssumption ==
  /\ None \notin [identity : Identities, whole : BOOLEAN]
  /\ MaxOutages \in Nat

VARIABLES
  file,     \* what a reader finds: None, or [identity, whole]
  disk,     \* what is on the disk for certain
  named,    \* whether the directory entry is on the disk for certain
  writer,   \* [identity, step] of each writer
  outages   \* power failures so far

vars == <<file, disk, named, writer, outages>>

Contents == [identity : Identities, whole : BOOLEAN] \cup {None}

Init ==
  /\ file = None
  /\ disk = None
  /\ named = FALSE
  /\ writer \in [Writers -> [identity : Identities, step : {"begin"}]]
  /\ outages = 0

To(w, step) ==
  writer' = [writer EXCEPT ![w] = [identity |-> @.identity, step |-> step]]

Running(w) == writer[w].step \in {"begin", "write", "sync", "name", "read"}

-----------------------------------------------------------------------------
\* Mutant: open without create_new, which truncates what is there.
CreatesAnyway == TRUE

\* O_CREAT | O_EXCL.
Creates == file = None

Create(w) ==
  /\ writer[w].step = "begin"
  /\ Creates
  /\ file' = [identity |-> writer[w].identity, whole |-> FALSE]
  /\ To(w, "write")
  /\ UNCHANGED <<disk, named, outages>>

\* The rest of the document and the newline are written.
Write(w) ==
  /\ writer[w].step = "write"
  /\ file' = [identity |-> writer[w].identity, whole |-> TRUE]
  /\ To(w, "sync")
  /\ UNCHANGED <<disk, named, outages>>

\* Mutant: the file is not synced before success is reported.
SyncedLater == UNCHANGED disk

Synced == disk' = file

Sync(w) ==
  /\ writer[w].step = "sync"
  /\ Synced
  /\ To(w, "name")
  /\ UNCHANGED <<file, named, outages>>

\* The directory is synced, and success reported.
SyncDirectory(w) ==
  /\ writer[w].step = "name"
  /\ named' = TRUE
  /\ To(w, "published")
  /\ UNCHANGED <<file, disk, outages>>

AlreadyExists(w) ==
  /\ writer[w].step = "begin"
  /\ file # None
  /\ To(w, "read")
  /\ UNCHANGED <<file, disk, named, outages>>

\* Mutant: an incomplete file is taken for the writer's own.
MatchesAnyPart(w) == file.identity = writer[w].identity

\* identity_bytes_match: the document parses and is equal.
Matches(w) == file = [identity |-> writer[w].identity, whole |-> TRUE]

\* A writer never removes the file, so it is there to be read.
Read(w) ==
  /\ writer[w].step = "read"
  /\ file # None
  /\ To(w, IF Matches(w) THEN "accepted" ELSE "refused")
  /\ UNCHANGED <<file, disk, named, outages>>

\* A writer is killed, or a write or a sync fails; what it wrote stays.
Fails(w) ==
  /\ Running(w)
  /\ To(w, "failed")
  /\ UNCHANGED <<file, disk, named, outages>>

\* The runtime is booted again, with the identity of its caller.
Again(w, i) ==
  /\ ~Running(w)
  /\ writer' = [writer EXCEPT ![w] = [identity |-> i, step |-> "begin"]]
  /\ UNCHANGED <<file, disk, named, outages>>

\* Without power the writers end, and of what was not synced any part is left.
Outage ==
  /\ outages < MaxOutages
  /\ outages' = outages + 1
  /\ file' \in IF file = None THEN {None}
               ELSE (IF disk = file THEN {file}
                     ELSE {file, [file EXCEPT !.whole = FALSE]})
                    \cup (IF named THEN {} ELSE {None})
  /\ disk' = file'
  /\ named' = (file' # None)
  /\ writer' = [w \in Writers |->
       IF Running(w) THEN [writer[w] EXCEPT !.step = "failed"] ELSE writer[w]]

Next ==
  \/ \E w \in Writers :
       \/ Create(w) \/ Write(w) \/ Sync(w) \/ SyncDirectory(w)
       \/ AlreadyExists(w) \/ Read(w) \/ Fails(w)
       \/ \E i \in Identities : Again(w, i)
  \/ Outage

Spec == Init /\ [][Next]_vars

-----------------------------------------------------------------------------
\* The types of the file, the disk and the writers.
TypeOK ==
  /\ file \in Contents
  /\ disk \in Contents
  /\ named \in BOOLEAN
  /\ writer \in [Writers ->
       [identity : Identities,
        step : {"begin", "write", "sync", "name", "read", "published",
                "accepted", "refused", "failed"}]]
  /\ outages \in 0..MaxOutages

\* There is one author at a time, the file is what its author wrote so far, and
\* what is synced is what is there: with the types, the inductive invariant of
\* the publication.
PublicationInv ==
  /\ TypeOK
  /\ \A w \in Writers : writer[w].step \in {"write", "sync", "name"} =>
       /\ file = [identity |-> writer[w].identity, whole |-> writer[w].step # "write"]
       /\ \A u \in Writers \ {w} : writer[u].step \notin {"write", "sync", "name"}
       /\ disk = IF writer[w].step = "name" THEN file ELSE None
  /\ disk # None => disk = file
  /\ named => disk # None

\* The identity of a runtime is immutable: while the machine is up a file that
\* is there keeps its identity, and one that is complete stays as it is.
IdentityIsImmutable ==
  [][file # None /\ outages' = outages =>
       /\ file' # None
       /\ file'.identity = file.identity
       /\ file.whole => file' = file]_vars

\* What the file's creator has reported as published is never lost, not even with
\* the power.  (A writer that accepted the file has no such guarantee: it may
\* have read it before its author synced it.)
PublishedIsDurable ==
  [][(\E w \in Writers : writer[w].step = "published") => file' = file]_vars

\* Success is reported for the identity of the file, and it is complete, until
\* power is lost: two callers with different identities cannot both succeed.
SuccessAgrees ==
  outages = 0 => \A w \in Writers : writer[w].step \in {"published", "accepted"} =>
    file = [identity |-> writer[w].identity, whole |-> TRUE]
=============================================================================
