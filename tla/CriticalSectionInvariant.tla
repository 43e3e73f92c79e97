----------------------- MODULE CriticalSectionInvariant -----------------------
(***************************************************************************)
(* The inductive invariant behind the safety properties of                 *)
(* CriticalSection, as named parts.  TLC checks it; CriticalSectionProofs  *)
(* proves it.                                                              *)
(***************************************************************************)
EXTENDS CriticalSection

Up(p) == actors[p].status # "down"

\* The actor has loaded the record.
Loaded(p) == actors[p].status \notin {"down", "claimed"}

\* An owner epoch belongs to one actor.
OwnersDistinct ==
  /\ \A p \in Actors : Up(p) => /\ actors[p].owner_epoch \in 1..owner
                               /\ actors[p].runtime_epoch \in RuntimeEpochs
  /\ \A p, q \in Actors :
       Up(p) /\ Up(q) /\ actors[p].owner_epoch = actors[q].owner_epoch => p = q

VersionsBehind ==
  \A p \in Actors : Loaded(p) =>
    /\ actors[p].version <= object.version
    /\ actors[p].status = "applied" => actors[p].version < object.version

\* A commit the store would accept is a mint over an available lease, or the
\* renewal or release of a lease that the current owner minted.
Legal(lease) ==
  \/ /\ lease.sequence = object.lease.sequence + 1
     /\ lease.holder \in Holders
     /\ Available(object.lease)
  \/ /\ lease.sequence = object.lease.sequence
     /\ object.lease.holder # None
     /\ minted[object.lease.sequence].owner_epoch = owner
     /\ \/ lease = Free(lease.sequence)
        \/ /\ lease.holder = object.lease.holder
           /\ lease.request_id = object.lease.request_id

SafeCommit(commit) ==
  /\ commit.owner_epoch \in 1..owner
  /\ commit.version <= object.version
  /\ commit.version < MaxVersion
  /\ Accepts(commit) => Legal(commit.lease)

CommitsSafe ==
  /\ \A p \in Actors :
       actors[p].status = "committing" => SafeCommit(RequestOf(actors[p]))
  /\ \A commit \in late : SafeCommit(commit)

\* An abandoned commit of a living actor is not ahead of it.
LateBehind ==
  \A commit \in late :
    /\ commit.lease.sequence \in lost
    /\ \A p \in Actors :
         Loaded(p) /\ actors[p].owner_epoch = commit.owner_epoch
           => commit.version <= actors[p].version

\* The durable lease is the one its sequence was minted for.
DurableMinted ==
  object.lease.holder # None =>
    /\ object.lease.sequence > 0
    /\ minted[object.lease.sequence].holder = object.lease.holder
    /\ minted[object.lease.sequence].request_id = object.lease.request_id

\* A candidate the store applied stands until its expiry.
AppliedStands ==
  \A p \in Actors : actors[p].status = "applied" =>
    LET a == actors[p] IN
    /\ a.candidate.sequence \in 1..object.lease.sequence
    /\ minted[a.candidate.sequence].owner_epoch = a.owner_epoch
    /\ a.candidate.holder # None =>
         /\ minted[a.candidate.sequence] = Mint(a.owner_epoch, a.candidate)
         /\ object.lease = a.candidate \/ a.candidate.expires_at <= clock
    /\ a.owner_epoch = owner =>
         /\ object.lease = a.candidate
         /\ object.version = a.version + 1

\* A live lease that an actor may replay, renew or release is one it minted
\* itself and one whose expiry it told its holder.
Serves(a) ==
  /\ a.lease.holder # None
  /\ ~a.inherited
  /\ a.lease.expires_at > clock

CachedGrant ==
  \A p \in Actors : Loaded(p) /\ Serves(actors[p]) =>
    LET a == actors[p] IN
    /\ a.lease.sequence \in 1..object.lease.sequence
    /\ minted[a.lease.sequence] = Mint(a.owner_epoch, a.lease)
    /\ told[a.lease.sequence] = a.lease.expires_at
    /\ [token |-> TokenOf(a), holder |-> a.lease.holder,
        request_id |-> a.lease.request_id] \in issued

IssuedMinted ==
  \A g \in issued :
    /\ g.token.sequence <= object.lease.sequence
    /\ minted[g.token.sequence] = Mint(g.token.owner_epoch, g)

ToldBelow == \A n \in Sequences : told[n] # 0 => n <= object.lease.sequence

\* The induction hypothesis of every safety theorem: cache, store, requests in
\* flight and replies tell one story.  It fails as soon as an actor takes an
\* uncommitted candidate for its state, or a store write skips a fence.
CriticalSectionInv ==
  /\ TypeOK
  /\ OwnersDistinct
  /\ VersionsBehind
  /\ CommitsSafe
  /\ LateBehind
  /\ DurableMinted
  /\ AppliedStands
  /\ CachedGrant
  /\ CurrentCacheAgrees
  /\ IssuedMinted
  /\ ToldBelow
  /\ LiveGrantIsDurable

\* Refinement: the actors of a scope claim its owner epochs, and hold one each
\* for as long as they run.  The processes of CriticalSectionRegistry do the same
\* for every key, so that what is shown here of the actors of one scope is about
\* the processes which the registries of its machines start.
EpochOf(p) == IF Up(p) THEN actors[p].owner_epoch ELSE 0

Claims == INSTANCE OwnerEpochs WITH
            Claimants <- Actors, latest <- owner,
            held <- [p \in Actors |-> EpochOf(p)]

ImplementsOwnerEpochs == Claims!ClaimsSpec
=============================================================================
