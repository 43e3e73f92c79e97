----------------------- MODULE IdentityPublicationProofs -----------------------
(***************************************************************************)
(* What holds of the publication of a runtime's identity for every number  *)
(* of writers, identities and outages.                                     *)
(*                                                                         *)
(* PublicationInv is inductive: only the writer that created the file is   *)
(* in one of the steps of an author, so it alone changes the file, and     *)
(* after it has ended nothing but an outage does.                          *)
(***************************************************************************)
EXTENDS IdentityPublication, TLAPS

Author == {"write", "sync", "name"}

\* Once an author has reported success the file and its name are on the disk.
PublishedIsNamed ==
  (\E w \in Writers : writer[w].step = "published") => named

\* A step of one writer leaves the records of the others alone.
LEMMA ToOthers ==
  ASSUME TypeOK, NEW w \in Writers, NEW step, To(w, step)
  PROVE  /\ \A u \in Writers \ {w} : writer'[u] = writer[u]
         /\ writer'[w].step = step
         /\ writer'[w].identity = writer[w].identity
  <1>1. DOMAIN writer = Writers
    BY DEF TypeOK
  <1>2. writer' = [u \in Writers |->
          IF u = w THEN [identity |-> writer[w].identity, step |-> step] ELSE writer[u]]
    BY <1>1 DEF To
  <1>3. w \in DOMAIN writer' /\ \A u \in Writers : u \in DOMAIN writer'
    BY <1>2
  <1> QED
    BY <1>2, <1>3

-----------------------------------------------------------------------------
LEMMA SomethingIsNotNone ==
  ASSUME NEW i \in Identities, NEW b \in BOOLEAN
  PROVE  [identity |-> i, whole |-> b] # None
  BY PublicationAssumption

\* What an author has written is a file.
LEMMA WrittenIsThere ==
  ASSUME PublicationInv, NEW w \in Writers, writer[w].step \in Author
  PROVE  file # None
  <1>1. writer[w].identity \in Identities
    BY DEF PublicationInv, TypeOK
  <1>2. \A b \in BOOLEAN : [identity |-> writer[w].identity, whole |-> b] # None
    BY <1>1, PublicationAssumption
  <1>3. file = [identity |-> writer[w].identity, whole |-> writer[w].step # "write"]
    BY DEF PublicationInv, Author
  <1>4. CASE writer[w].step = "write"
    <2>1. file = [identity |-> writer[w].identity, whole |-> FALSE]
      BY <1>3, <1>4
    <2> QED
      BY <1>2, <2>1
  <1>5. CASE writer[w].step # "write"
    <2>1. file = [identity |-> writer[w].identity, whole |-> TRUE]
      BY <1>3, <1>5
    <2> QED
      BY <1>2, <2>1
  <1> QED
    BY <1>4, <1>5

LEMMA PublicationInitInv == Init => PublicationInv
  <1> SUFFICES ASSUME Init
               PROVE  PublicationInv
    OBVIOUS
  <1>1. TypeOK
    <2>1. writer \in [Writers -> [identity : Identities, step : {"begin"}]]
      BY DEF Init
    <2>2. writer \in [Writers ->
            [identity : Identities,
             step : {"begin", "write", "sync", "name", "read", "published",
                     "accepted", "refused", "failed"}]]
      BY <2>1
    <2>3. outages \in 0..MaxOutages
      BY PublicationAssumption DEF Init
    <2>4. file \in Contents /\ disk \in Contents
      BY DEF Init, Contents
    <2>5. named \in BOOLEAN
      BY DEF Init
    <2> QED
      BY <2>2, <2>3, <2>4, <2>5 DEF TypeOK
  <1>2. \A w \in Writers : writer[w].step \notin {"write", "sync", "name"}
    BY DEF Init
  <1>3. disk = None /\ ~named
    BY DEF Init
  <1> QED
    BY <1>1, <1>2, <1>3 DEF PublicationInv

LEMMA TypesStep ==
  ASSUME TypeOK, [Next]_vars
  PROVE  TypeOK'
  <1> USE PublicationAssumption
  <1> DEFINE Steps == {"begin", "write", "sync", "name", "read", "published",
                       "accepted", "refused", "failed"}
  <1>1. ASSUME NEW w \in Writers, NEW step \in Steps, To(w, step)
        PROVE  writer' \in [Writers -> [identity : Identities, step : Steps]]
    BY <1>1 DEF TypeOK, To
  <1>2. ASSUME NEW w \in Writers, Create(w)
        PROVE  TypeOK'
    BY <1>1, <1>2 DEF Create, TypeOK, Contents
  <1>3. ASSUME NEW w \in Writers, Write(w)
        PROVE  TypeOK'
    BY <1>1, <1>3 DEF Write, TypeOK, Contents
  <1>4. ASSUME NEW w \in Writers, Sync(w) \/ SyncDirectory(w)
        PROVE  TypeOK'
    BY <1>1, <1>4 DEF Sync, Synced, SyncDirectory, TypeOK
  <1>5. ASSUME NEW w \in Writers, AlreadyExists(w) \/ Read(w) \/ Fails(w)
        PROVE  TypeOK'
    BY <1>1, <1>5 DEF AlreadyExists, Read, Fails, TypeOK
  <1>6. ASSUME NEW w \in Writers, NEW i \in Identities, Again(w, i)
        PROVE  TypeOK'
    BY <1>6 DEF Again, TypeOK
  <1>7. ASSUME Outage
        PROVE  TypeOK'
    <2>1. file' \in Contents
      BY <1>7 DEF Outage, TypeOK, Contents
    <2>2. writer' \in [Writers -> [identity : Identities, step : Steps]]
      BY <1>7 DEF Outage, TypeOK
    <2> QED
      BY <1>7, <2>1, <2>2 DEF Outage, TypeOK
  <1>8. ASSUME UNCHANGED vars
        PROVE  TypeOK'
    BY <1>8 DEF vars, TypeOK
  <1> QED
    BY <1>2, <1>3, <1>4, <1>5, <1>6, <1>7, <1>8 DEF Next

\* The author is alone.
LEMMA PublicationNextInv ==
  ASSUME PublicationInv, [Next]_vars
  PROVE  PublicationInv'
  <1> USE PublicationAssumption
  <1>0. TypeOK /\ TypeOK'
    BY TypesStep DEF PublicationInv
  <1>1. ASSUME NEW w \in Writers, Create(w)
        PROVE  PublicationInv'
    <2>1. /\ \A u \in Writers \ {w} : writer'[u] = writer[u]
          /\ writer'[w].step = "write"
          /\ writer'[w].identity = writer[w].identity
      BY <1>0, <1>1, ToOthers DEF Create
    <2>2. \A u \in Writers : writer[u].step \notin Author
      BY <1>1, WrittenIsThere DEF Create, Creates
    <2>3. disk = None /\ ~named
      BY <1>1 DEF Create, Creates, PublicationInv
    <2> QED
      BY <1>0, <1>1, <2>1, <2>2, <2>3 DEF Create, PublicationInv, Author
  <1>2. ASSUME NEW w \in Writers, Write(w) \/ Sync(w) \/ SyncDirectory(w)
        PROVE  PublicationInv'
    <2>1. /\ \A u \in Writers \ {w} : writer'[u] = writer[u]
          /\ writer'[w].identity = writer[w].identity
      BY <1>0, <1>2, ToOthers DEF Write, Sync, SyncDirectory
    <2>2. /\ Write(w) => writer'[w].step = "sync"
          /\ Sync(w) => writer'[w].step = "name"
          /\ SyncDirectory(w) => writer'[w].step = "published"
      BY <1>0, ToOthers DEF Write, Sync, SyncDirectory
    <2>3. \A u \in Writers \ {w} : writer[u].step \notin Author
      BY <1>2 DEF Write, Sync, SyncDirectory, PublicationInv, Author
    <2>4. file = [identity |-> writer[w].identity, whole |-> writer[w].step # "write"]
      BY <1>2 DEF Write, Sync, SyncDirectory, PublicationInv
    <2>5. CASE Write(w)
      <3>1. disk = None
        BY <2>4, <2>5 DEF Write, PublicationInv
      <3> QED
        BY <1>0, <2>1, <2>2, <2>3, <2>5, <3>1 DEF Write, PublicationInv, Author
    <2>6. CASE Sync(w)
      BY <1>0, <2>1, <2>2, <2>3, <2>4, <2>6 DEF Sync, Synced, PublicationInv, Author
    <2>7. CASE SyncDirectory(w)
      <3>1. disk = file /\ file # None
        BY <2>7, WrittenIsThere DEF SyncDirectory, PublicationInv, Author
      <3> QED
        BY <1>0, <2>1, <2>2, <2>3, <2>7, <3>1 DEF SyncDirectory, PublicationInv, Author
    <2> QED
      BY <1>2, <2>5, <2>6, <2>7
  <1>3. ASSUME NEW w \in Writers, AlreadyExists(w) \/ Read(w) \/ Fails(w)
        PROVE  PublicationInv'
    <2>1. /\ \A u \in Writers \ {w} : writer'[u] = writer[u]
          /\ writer'[w].step \notin Author
      BY <1>0, <1>3, ToOthers DEF AlreadyExists, Read, Fails, Author
    <2> QED
      BY <1>0, <1>3, <2>1 DEF AlreadyExists, Read, Fails, PublicationInv, Author
  <1>4. ASSUME NEW w \in Writers, NEW i \in Identities, Again(w, i)
        PROVE  PublicationInv'
    <2>1. /\ \A u \in Writers \ {w} : writer'[u] = writer[u]
          /\ writer'[w].step \notin Author
      BY <1>0, <1>4 DEF Again, TypeOK, Author
    <2> QED
      BY <1>0, <1>4, <2>1 DEF Again, PublicationInv, Author
  <1>5. ASSUME Outage
        PROVE  PublicationInv'
    <2>1. \A u \in Writers : writer'[u].step \notin Author
      BY <1>0, <1>5 DEF Outage, TypeOK, Running, Author
    <2> QED
      BY <1>0, <1>5, <2>1 DEF Outage, PublicationInv, Author
  <1>6. ASSUME UNCHANGED vars
        PROVE  PublicationInv'
    BY <1>0, <1>6 DEF vars, PublicationInv
  <1> QED
    BY <1>1, <1>2, <1>3, <1>4, <1>5, <1>6 DEF Next

-----------------------------------------------------------------------------
\* The author is alone, the file is what it wrote, and what is synced is there.
THEOREM PublicationInvHolds == Spec => []PublicationInv
  <1>1. Init => PublicationInv
    BY PublicationInitInv
  <1>2. PublicationInv /\ [Next]_vars => PublicationInv'
    BY PublicationNextInv
  <1> QED
    BY <1>1, <1>2, PTL DEF Spec

LEMMA PublishedIsNamedStep ==
  ASSUME PublicationInv, PublishedIsNamed, [Next]_vars
  PROVE  PublishedIsNamed'
  <1>0. TypeOK
    BY DEF PublicationInv
  <1>1. ASSUME NEW w \in Writers, NEW step, To(w, step), step # "published",
               named' = named
        PROVE  PublishedIsNamed'
    BY <1>0, <1>1, ToOthers DEF PublishedIsNamed
  <1>2. ASSUME NEW w \in Writers,
               Create(w) \/ Write(w) \/ Sync(w) \/ AlreadyExists(w) \/ Read(w) \/ Fails(w)
        PROVE  PublishedIsNamed'
    BY <1>1, <1>2 DEF Create, Write, Sync, AlreadyExists, Read, Fails
  <1>3. ASSUME NEW w \in Writers, SyncDirectory(w)
        PROVE  PublishedIsNamed'
    BY <1>3 DEF SyncDirectory, PublishedIsNamed
  <1>4. ASSUME NEW w \in Writers, NEW i \in Identities, Again(w, i)
        PROVE  PublishedIsNamed'
    BY <1>0, <1>4 DEF Again, TypeOK, PublishedIsNamed
  <1>5. ASSUME Outage
        PROVE  PublishedIsNamed'
    <2> SUFFICES ASSUME NEW w \in Writers, writer'[w].step = "published"
                 PROVE  named'
      BY DEF PublishedIsNamed
    <2>1. writer[w].step = "published"
      BY <1>0, <1>5 DEF Outage, TypeOK
    <2>2. named /\ disk = file /\ file # None
      BY <2>1 DEF PublishedIsNamed, PublicationInv
    <2> QED
      BY <1>5, <2>2 DEF Outage
  <1>6. ASSUME UNCHANGED vars
        PROVE  PublishedIsNamed'
    BY <1>6 DEF vars, PublishedIsNamed
  <1> QED
    BY <1>2, <1>3, <1>4, <1>5, <1>6 DEF Next

LEMMA PublishedIsNamedHolds == Spec => []PublishedIsNamed
  <1>1. Init => PublishedIsNamed
    BY DEF Init, PublishedIsNamed
  <1>2. PublicationInv /\ PublishedIsNamed /\ [Next]_vars => PublishedIsNamed'
    BY PublishedIsNamedStep
  <1> QED
    BY <1>1, <1>2, PublicationInvHolds, PTL DEF Spec

\* What its author has reported as published is never lost, not even in an
\* outage: it is on the disk with its name, and no one writes it any more.
THEOREM PublishedIsDurableHolds == Spec => PublishedIsDurable
  <1>1. ASSUME PublicationInv, PublishedIsNamed, [Next]_vars
        PROVE  [(\E w \in Writers : writer[w].step = "published") => file' = file]_vars
    <2> SUFFICES ASSUME Next, NEW w \in Writers, writer[w].step = "published"
                 PROVE  file' = file
      BY <1>1
    <2>1. named /\ disk = file /\ file # None
      BY <1>1 DEF PublishedIsNamed, PublicationInv
    <2>2. ASSUME NEW u \in Writers, Create(u)
          PROVE  FALSE
      BY <2>1, <2>2 DEF Create, Creates
    <2>3. ASSUME NEW u \in Writers, Write(u)
          PROVE  FALSE
      <3>1. disk = None
        BY <1>1, <2>3 DEF Write, PublicationInv
      <3> QED
        BY <2>1, <3>1
    <2>4. ASSUME Outage
          PROVE  file' = file
      BY <2>1, <2>4 DEF Outage
    <2> QED
      BY <2>2, <2>3, <2>4
      DEF Next, Sync, SyncDirectory, AlreadyExists, Read, Fails, Again
  <1> QED
    BY <1>1, PublicationInvHolds, PublishedIsNamedHolds, PTL
    DEF Spec, PublishedIsDurable

\* While the machine is up a file keeps its identity, and a complete one stays
\* as it is.
THEOREM IdentityIsImmutableHolds == Spec => IdentityIsImmutable
  <1> DEFINE Kept == file # None /\ outages' = outages =>
                       /\ file' # None
                       /\ file'.identity = file.identity
                       /\ file.whole => file' = file
  <1>1. ASSUME PublicationInv, [Next]_vars
        PROVE  [Kept]_vars
    <2> SUFFICES ASSUME Next, file # None, outages' = outages
                 PROVE  /\ file' # None
                        /\ file'.identity = file.identity
                        /\ file.whole => file' = file
      BY <1>1
    <2>1. ASSUME NEW w \in Writers, Create(w)
          PROVE  FALSE
      BY <2>1 DEF Create, Creates
    <2>2. ASSUME NEW w \in Writers, Write(w)
          PROVE  /\ file' # None
                 /\ file'.identity = file.identity
                 /\ ~file.whole
      <3>1. file = [identity |-> writer[w].identity, whole |-> FALSE]
        BY <1>1, <2>2 DEF Write, PublicationInv
      <3>2. writer[w].identity \in Identities
        BY <1>1 DEF PublicationInv, TypeOK
      <3>3. [identity |-> writer[w].identity, whole |-> TRUE] # None
        BY <3>2, SomethingIsNotNone
      <3> QED
        BY <2>2, <3>1, <3>3 DEF Write
    <2>3. ASSUME Outage
          PROVE  FALSE
      <3>1. outages \in Nat
        BY <1>1, PublicationAssumption DEF PublicationInv, TypeOK
      <3> QED
        BY <2>3, <3>1 DEF Outage
    <2>4. ASSUME NEW w \in Writers,
                 \/ Sync(w) \/ SyncDirectory(w) \/ AlreadyExists(w) \/ Read(w)
                 \/ Fails(w) \/ \E i \in Identities : Again(w, i)
          PROVE  file' = file
      BY <2>4 DEF Sync, SyncDirectory, AlreadyExists, Read, Fails, Again
    <2>5. CASE \E w \in Writers : Write(w)
      BY <2>2, <2>5
    <2>6. CASE file' = file
      BY <2>6
    <2> QED
      BY <2>1, <2>3, <2>4, <2>5, <2>6 DEF Next
  <1> QED
    BY <1>1, PublicationInvHolds, PTL DEF Spec, IdentityIsImmutable

-----------------------------------------------------------------------------
\* Every success is the complete file's, as long as the machine is up.
LEMMA SuccessAgreesStep ==
  ASSUME PublicationInv, SuccessAgrees, [Next]_vars
  PROVE  SuccessAgrees'
  <1> DEFINE Whole(w) == [identity |-> writer[w].identity, whole |-> TRUE]
  <1>0. TypeOK /\ TypeOK' /\ outages \in Nat /\ outages' \in Nat
    BY TypesStep, PublicationAssumption DEF PublicationInv, TypeOK
  <1> SUFFICES ASSUME outages' = 0, NEW w \in Writers,
                      writer'[w].step \in {"published", "accepted"}
               PROVE  file' = [identity |-> writer'[w].identity, whole |-> TRUE]
    BY DEF SuccessAgrees
  <1>1. ASSUME writer'[w] = writer[w], outages = 0
        PROVE  file' = Whole(w)
    <2>1. file = Whole(w)
      BY <1>1 DEF SuccessAgrees
    <2>2. file # None
      <3>1. writer[w].identity \in Identities
        BY <1>0 DEF TypeOK
      <3> QED
        BY <2>1, <3>1, SomethingIsNotNone
    <2>3. ASSUME NEW u \in Writers, Create(u)
          PROVE  FALSE
      BY <2>2, <2>3 DEF Create, Creates
    <2>4. ASSUME NEW u \in Writers, Write(u)
          PROVE  FALSE
      <3>1. file = [identity |-> writer[u].identity, whole |-> FALSE]
        BY <2>4 DEF Write, PublicationInv
      <3> QED
        BY <2>1, <3>1
    <2>5. ~Outage
      BY <1>1 DEF Outage
    <2>6. file' = file
      BY <2>3, <2>4, <2>5
      DEF Next, vars, Sync, SyncDirectory, AlreadyExists, Read, Fails, Again
    <2> QED
      BY <2>1, <2>6
  <1>2. ASSUME NEW u \in Writers, NEW step, To(u, step), outages' = outages,
               step \notin {"published", "accepted"}
        PROVE  writer'[w] = writer[w] /\ outages = 0
    BY <1>0, <1>2, ToOthers
  <1>3. ASSUME NEW u \in Writers,
               Create(u) \/ Write(u) \/ Sync(u) \/ AlreadyExists(u) \/ Fails(u)
        PROVE  writer'[w] = writer[w] /\ outages = 0
    BY <1>2, <1>3 DEF Create, Write, Sync, AlreadyExists, Fails
  <1>4. ASSUME NEW u \in Writers, SyncDirectory(u) \/ Read(u)
        PROVE  file' = [identity |-> writer'[w].identity, whole |-> TRUE]
    <2>1. CASE u # w
      <3>1. writer'[w] = writer[w] /\ outages = 0
        BY <1>0, <1>4, <2>1, ToOthers DEF SyncDirectory, Read
      <3> QED
        BY <1>1, <3>1
    <2>2. CASE u = w /\ SyncDirectory(w)
      <3>1. file = Whole(w)
        BY <2>2 DEF SyncDirectory, PublicationInv
      <3> QED
        BY <1>0, <2>2, <3>1, ToOthers DEF SyncDirectory
    <2>3. CASE u = w /\ Read(w)
      <3>1. writer'[w].identity = writer[w].identity /\ Matches(w)
        BY <1>0, <2>3, ToOthers DEF Read
      <3> QED
        BY <2>3, <3>1 DEF Read, Matches
    <2> QED
      BY <1>4, <2>1, <2>2, <2>3
  <1>5. ASSUME NEW u \in Writers, NEW i \in Identities, Again(u, i)
        PROVE  writer'[w] = writer[w] /\ outages = 0
    BY <1>0, <1>5 DEF Again, TypeOK
  <1>6. ~Outage
    BY <1>0 DEF Outage
  <1>7. ASSUME UNCHANGED vars
        PROVE  writer'[w] = writer[w] /\ outages = 0
    BY <1>7 DEF vars
  <1> QED
    BY <1>1, <1>3, <1>4, <1>5, <1>6, <1>7 DEF Next

\* Two callers with different identities cannot both have been told success.
THEOREM SuccessAgreesHolds == Spec => []SuccessAgrees
  <1>1. Init => SuccessAgrees
    BY DEF Init, SuccessAgrees
  <1>2. PublicationInv /\ SuccessAgrees /\ [Next]_vars => SuccessAgrees'
    BY SuccessAgreesStep
  <1> QED
    BY <1>1, <1>2, PublicationInvHolds, PTL DEF Spec
=============================================================================
