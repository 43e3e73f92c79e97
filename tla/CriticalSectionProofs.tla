------------------------ MODULE CriticalSectionProofs ------------------------
(***************************************************************************)
(* The theorems about CriticalSection, for every number of actors,         *)
(* holders, requests, leases, and every bound: the invariant is inductive, *)
(* the safety properties follow from it, the durable record refines        *)
(* FencedLease and the actors refine OwnerEpochs.  First every action keeps *)
(* the invariant, then the theorems.                                       *)
(***************************************************************************)
EXTENDS CriticalSectionInvariant, TLAPS

LEMMA FreeType == ASSUME NEW n \in 0..MaxSequence PROVE Free(n) \in Lease
  BY DEF Free, Lease

LEMMA DownType == Down \in Actor
  <1>1. Free(0) \in Lease
    BY FreeType, CriticalSectionAssumption
  <1> QED
    BY <1>1, CriticalSectionAssumption
    DEF Down, Actor, NoCandidate, Statuses

LEMMA ExpireType ==
  ASSUME NEW a \in Actor, clock \in Nat PROVE Expire(a) \in Actor
  <1>1. a.lease.sequence \in 0..MaxSequence
    BY DEF Actor, Lease
  <1>2. Free(a.lease.sequence) \in Lease
    BY <1>1, FreeType
  <1> QED
    BY <1>2 DEF Expire, Actor

\* What a call leaves of the calling actor when it replies at once.
LEMMA KeepType ==
  ASSUME TypeOK, NEW p \in Actors,
         Become(p, Expire(actors[p]))
  PROVE  actors' \in [Actors -> Actor]
  BY ExpireType DEF TypeOK, Become

LEMMA PersistType ==
  ASSUME TypeOK, NEW p \in Actors, NEW candidate \in Lease,
         Persist(p, candidate)
  PROVE  actors' \in [Actors -> Actor]
  <1> DEFINE a == [actors[p] EXCEPT !.status = "committing", !.candidate = candidate]
  <1>1. actors[p] \in Actor
    BY DEF TypeOK
  <1>2. a \in Actor
    BY <1>1 DEF Actor, Statuses
  <1>3. Become(p, a)
    BY DEF Persist
  <1> HIDE DEF a
  <1> QED
    BY <1>2, <1>3 DEF TypeOK, Become

LEMMA GrantType ==
  ASSUME TypeOK, NEW a \in Actor, NEW lease \in Lease,
         a.owner_epoch \in 1..MaxOwner, a.runtime_epoch \in RuntimeEpochs,
         lease.sequence \in Sequences, lease.holder # None, Grant(a, lease)
  PROVE  /\ issued' \subseteq Grants
         /\ told' \in [Sequences -> Nat]
  <1>1. [TokenOf(a) EXCEPT !.sequence = lease.sequence] \in Token
    BY DEF Token, TokenOf
  <1>2. lease.holder \in Holders /\ lease.request_id \in Requests \cup {None}
        /\ lease.expires_at \in Nat
    BY DEF Lease
  <1>3. issued \subseteq Grants /\ told \in [Sequences -> Nat]
    BY DEF TypeOK
  <1>4. issued' \subseteq Grants
    BY <1>1, <1>2, <1>3 DEF Grant, Grants
  <1>5. told' \in [Sequences -> Nat]
    BY <1>2, <1>3 DEF Grant
  <1> QED
    BY <1>4, <1>5

-----------------------------------------------------------------------------
(* A call that replies without a commit: refusals, status, and replays.    *)

LEMMA ExpireFacts ==
  ASSUME NEW a \in Actor, clock \in Nat
  PROVE  LET b == Expire(a) IN
         /\ b.status = a.status /\ b.owner_epoch = a.owner_epoch
         /\ b.runtime_epoch = a.runtime_epoch /\ b.version = a.version
         /\ b.candidate = a.candidate
         /\ b.lease.sequence = a.lease.sequence
         /\ \/ b.lease = a.lease /\ b.inherited = a.inherited
            \/ b.lease = Free(a.lease.sequence) /\ Available(a.lease)
         /\ Serves(b) => Serves(a) /\ b.lease = a.lease /\ b.inherited = a.inherited
         /\ b.lease.holder # None => b.lease.expires_at > clock
  <1> DEFINE b == Expire(a)
  <1>1. CASE a.lease.holder # None /\ Available(a.lease)
    <2>1. b = [a EXCEPT !.lease = Free(a.lease.sequence), !.inherited = FALSE]
      BY <1>1 DEF Expire
    <2>2. /\ b.status = a.status /\ b.owner_epoch = a.owner_epoch
          /\ b.runtime_epoch = a.runtime_epoch /\ b.version = a.version
          /\ b.candidate = a.candidate /\ b.lease = Free(a.lease.sequence)
      BY <2>1 DEF Actor
    <2> HIDE DEF b
    <2> QED
      BY <2>2, <1>1 DEF Free, Serves, b
  <1>2. CASE ~(a.lease.holder # None /\ Available(a.lease))
    <2>1. b = a
      BY <1>2 DEF Expire
    <2>2. a.lease.expires_at \in Nat
      BY DEF Actor, Lease
    <2>3. a.lease.holder # None => a.lease.expires_at > clock
      BY <2>2, <1>2 DEF Available
    <2> HIDE DEF b
    <2> QED
      BY <2>1, <2>3 DEF b
  <1> QED
    BY <1>1, <1>2

LEMMA KeepInv ==
  ASSUME CriticalSectionInv, NEW p \in Actors, actors[p].status = "ready",
         Become(p, Expire(actors[p])),
         UNCHANGED <<clock, storeVars, late, lost, clientVars>>
  PROVE  CriticalSectionInv'
  <1> DEFINE a == actors[p]
             b == Expire(actors[p])
  <1>1. /\ UNCHANGED <<clock, owner, object, minted, late, lost, issued, told>>
        /\ clock \in Nat
    BY DEF storeVars, clientVars, CriticalSectionInv, TypeOK
  <1>2. a \in Actor /\ b \in Actor /\ a.status = "ready"
    BY <1>1, ExpireType DEF CriticalSectionInv, TypeOK
  <1>3. actors'[p] = b /\ \A q \in Actors \ {p} : actors'[q] = actors[q]
    BY DEF Become, CriticalSectionInv, TypeOK
  <1>4. /\ b.status = "ready" /\ b.owner_epoch = a.owner_epoch
        /\ b.runtime_epoch = a.runtime_epoch /\ b.version = a.version
        /\ b.lease.sequence = a.lease.sequence
        /\ \/ b.lease = a.lease /\ b.inherited = a.inherited
           \/ b.lease = Free(a.lease.sequence) /\ Available(a.lease)
        /\ Serves(b) => Serves(a) /\ b.lease = a.lease /\ b.inherited = a.inherited
    BY <1>1, <1>2, ExpireFacts
  <1> HIDE DEF a, b
  <1>5. TypeOK'
    BY <1>1, KeepType DEF CriticalSectionInv, TypeOK
  <1>6. OwnersDistinct'
    BY <1>1, <1>2, <1>3, <1>4 DEF CriticalSectionInv, OwnersDistinct, Up, a
  <1>7. VersionsBehind'
    BY <1>1, <1>2, <1>3, <1>4 DEF CriticalSectionInv, VersionsBehind, Loaded, a
  <1>8. CommitsSafe'
    BY <1>1, <1>2, <1>3, <1>4
    DEF CriticalSectionInv, CommitsSafe, SafeCommit, Accepts, Legal,
        Available, RequestOf
  <1>9. LateBehind'
    BY <1>1, <1>2, <1>3, <1>4 DEF CriticalSectionInv, LateBehind, Loaded, a
  <1>10. DurableMinted' /\ IssuedMinted' /\ ToldBelow'
    BY <1>1 DEF CriticalSectionInv, DurableMinted, IssuedMinted, ToldBelow
  <1>11. AppliedStands'
    BY <1>1, <1>2, <1>3, <1>4 DEF CriticalSectionInv, AppliedStands
  <1>12. CachedGrant'
    BY <1>1, <1>2, <1>3, <1>4
    DEF CriticalSectionInv, CachedGrant, Loaded, Serves, TokenOf, Mint, a
  <1>13. CurrentCacheAgrees'
    BY <1>1, <1>2, <1>3, <1>4
    DEF CriticalSectionInv, CurrentCacheAgrees, Current, Agrees, Available,
        Free, a
  <1>14. LiveGrantIsDurable'
    BY <1>1, <1>2, <1>3, <1>4
    DEF CriticalSectionInv, LiveGrantIsDurable, Live, InDoubt
  <1> QED
    BY <1>5, <1>6, <1>7, <1>8, <1>9, <1>10, <1>11, <1>12, <1>13, <1>14
    DEF CriticalSectionInv

-----------------------------------------------------------------------------
(* A call that sends a commit, and the calls themselves.                   *)

LEMMA PersistInv ==
  ASSUME CriticalSectionInv, NEW p \in Actors, actors[p].status = "ready",
         NEW candidate \in Lease, Persist(p, candidate),
         Current(actors[p]) => Legal(candidate),
         UNCHANGED <<clock, storeVars, late, lost>>
  PROVE  CriticalSectionInv'
  <1> DEFINE a == actors[p]
             b == [a EXCEPT !.status = "committing", !.candidate = candidate]
  <1>1. UNCHANGED <<clock, owner, object, minted, late, lost, issued, told>>
    BY DEF storeVars, clientVars, Persist
  <1>2. a \in Actor /\ a.status = "ready" /\ a.version < MaxVersion
    BY DEF CriticalSectionInv, TypeOK, Persist
  <1>3. /\ actors'[p] = b
        /\ \A q \in Actors \ {p} : actors'[q] = actors[q]
    BY DEF Become, Persist, CriticalSectionInv, TypeOK
  <1>4. /\ b.status = "committing" /\ b.candidate = candidate
        /\ b.owner_epoch = a.owner_epoch /\ b.runtime_epoch = a.runtime_epoch
        /\ b.version = a.version /\ b.lease = a.lease
        /\ b.inherited = a.inherited
    BY <1>2 DEF Actor
  <1> HIDE DEF a, b
  <1>5. TypeOK'
    BY <1>1, PersistType DEF CriticalSectionInv, TypeOK
  <1>6. OwnersDistinct'
    BY <1>1, <1>2, <1>3, <1>4 DEF CriticalSectionInv, OwnersDistinct, Up, a
  <1>7. VersionsBehind'
    BY <1>1, <1>2, <1>3, <1>4 DEF CriticalSectionInv, VersionsBehind, Loaded, a
  <1>8. CommitsSafe'
    <2>1. a.owner_epoch \in 1..owner /\ a.version <= object.version
      BY <1>2 DEF CriticalSectionInv, OwnersDistinct, VersionsBehind, Up, Loaded, a
    <2>2. SafeCommit(RequestOf(actors[p]))'
      BY <1>1, <1>2, <1>3, <1>4, <2>1
      DEF SafeCommit, RequestOf, Accepts, Current, Legal, Available, a
    <2>3. \A q \in Actors : actors'[q].status = "committing"
            => SafeCommit(RequestOf(actors[q]))' \/ q = p
      BY <1>1, <1>3
      DEF CriticalSectionInv, CommitsSafe, SafeCommit, Accepts, Legal,
          Available, RequestOf
    <2>4. \A commit \in late : SafeCommit(commit)'
      BY <1>1
      DEF CriticalSectionInv, CommitsSafe, SafeCommit, Accepts, Legal,
          Available
    <2> QED
      BY <1>1, <2>2, <2>3, <2>4 DEF CommitsSafe
  <1>9. LateBehind'
    BY <1>1, <1>2, <1>3, <1>4 DEF CriticalSectionInv, LateBehind, Loaded, a
  <1>10. DurableMinted' /\ IssuedMinted' /\ ToldBelow'
    BY <1>1 DEF CriticalSectionInv, DurableMinted, IssuedMinted, ToldBelow
  <1>11. AppliedStands'
    BY <1>1, <1>2, <1>3, <1>4 DEF CriticalSectionInv, AppliedStands, a
  <1>12. CachedGrant'
    BY <1>1, <1>2, <1>3, <1>4
    DEF CriticalSectionInv, CachedGrant, Loaded, Serves, TokenOf, Mint, a
  <1>13. CurrentCacheAgrees'
    BY <1>1, <1>2, <1>3, <1>4
    DEF CriticalSectionInv, CurrentCacheAgrees, Current, Agrees, Available, a
  <1>14. LiveGrantIsDurable'
    BY <1>1, <1>2, <1>3, <1>4
    DEF CriticalSectionInv, LiveGrantIsDurable, Live, InDoubt, a
  <1> QED
    BY <1>5, <1>6, <1>7, <1>8, <1>9, <1>10, <1>11, <1>12, <1>13, <1>14
    DEF CriticalSectionInv

\* A replay repeats a grant the holder already has.
LEMMA ReplayRepeats ==
  ASSUME CriticalSectionInv, NEW p \in Actors, actors[p].status = "ready",
         NEW h, NEW r, Replays(Expire(actors[p]), h, r),
         Expire(actors[p]).lease.holder # None,
         Grant(Expire(actors[p]), Expire(actors[p]).lease)
  PROVE  UNCHANGED clientVars
  <1> DEFINE a == Expire(actors[p])
  <1>1. actors[p] \in Actor /\ clock \in Nat
    BY DEF CriticalSectionInv, TypeOK
  <1> HIDE DEF a
  <1>2. Serves(a) /\ Serves(actors[p]) /\ a.lease = actors[p].lease
        /\ a.owner_epoch = actors[p].owner_epoch
        /\ a.runtime_epoch = actors[p].runtime_epoch
    BY <1>1, ExpireFacts DEF Serves, Replays, a
  <1>3. /\ told[a.lease.sequence] = a.lease.expires_at
        /\ [token |-> TokenOf(a), holder |-> a.lease.holder,
            request_id |-> a.lease.request_id] \in issued
    BY <1>2 DEF CriticalSectionInv, CachedGrant, Loaded, TokenOf
  <1>4. [TokenOf(a) EXCEPT !.sequence = a.lease.sequence] = TokenOf(a)
    BY DEF TokenOf
  <1>5. told \in [Sequences -> Nat]
    BY DEF CriticalSectionInv, TypeOK
  <1> QED
    BY <1>3, <1>4, <1>5 DEF Grant, clientVars, a

LEMMA AcquireInv ==
  ASSUME CriticalSectionInv, NEW p \in Actors, NEW h \in Holders,
         NEW r \in Requests \cup {None}, NEW d \in Leases, Acquire(p, h, r, d)
  PROVE  CriticalSectionInv'
  <1> DEFINE a == Expire(actors[p])
             candidate == [sequence |-> a.lease.sequence + 1, holder |-> h,
                           request_id |-> r, expires_at |-> clock + d]
  <1>1. /\ actors[p].status = "ready" /\ actors[p] \in Actor /\ clock \in Nat
        /\ UNCHANGED <<clock, storeVars, late, lost>>
    BY DEF Acquire, CriticalSectionInv, TypeOK
  <1>2. a \in Actor /\ a.lease.sequence \in 0..MaxSequence
    BY <1>1, ExpireType DEF Actor, Lease
  <1> HIDE DEF a
  <1>3. CASE AcquireFree(p, h, r, d)
    <2>1. CASE a.lease.sequence = MaxSequence
      <3>1. Keep(p, a)
        BY <1>3, <2>1 DEF AcquireFree, a
      <3> QED
        BY <3>1, <1>1, KeepInv DEF Keep, a
    <2>2. CASE a.lease.sequence # MaxSequence
      <3>1. Persist(p, candidate) /\ a.lease.holder = None
        BY <1>3, <2>2 DEF AcquireFree, a
      <3>2. candidate \in Lease
        BY <1>1, <1>2, <2>2, CriticalSectionAssumption DEF Lease
      <3>3. Current(actors[p]) => Legal(candidate)
        <4>1. HAVE Current(actors[p])
        <4>2. Agrees(actors[p])
          BY <1>1, <4>1 DEF CriticalSectionInv, CurrentCacheAgrees
        <4>3. /\ a.lease.sequence = actors[p].lease.sequence
              /\ \/ a.lease = actors[p].lease
                 \/ Available(actors[p].lease)
          BY <1>1, ExpireFacts DEF a
        <4>4. Available(object.lease)
          BY <4>2, <4>3, <3>1 DEF Agrees, Available
        <4> QED
          BY <4>2, <4>3, <4>4 DEF Legal, Agrees
      <3> HIDE DEF candidate
      <3> QED
        BY <3>1, <3>2, <3>3, <1>1, PersistInv
    <2> QED
      BY <2>1, <2>2
  <1>4. CASE AcquireHeld(p, h, r)
    <2>1. CASE Replays(a, h, r)
      <3>1. Become(p, a) /\ Grant(a, a.lease) /\ a.lease.holder # None
        BY <1>4, <2>1 DEF AcquireHeld, a
      <3>2. UNCHANGED clientVars
        BY <1>1, <2>1, <3>1, ReplayRepeats DEF a
      <3> QED
        BY <3>1, <3>2, <1>1, KeepInv DEF a
    <2>2. CASE ~Replays(a, h, r)
      <3>1. Keep(p, a)
        BY <1>4, <2>2 DEF AcquireHeld, a
      <3> QED
        BY <3>1, <1>1, KeepInv DEF Keep, a
    <2> QED
      BY <2>1, <2>2
  <1> QED
    BY <1>3, <1>4 DEF Acquire

\* What Owns knows about the durable lease when the caller is current.
LEMMA OwnsFacts ==
  ASSUME CriticalSectionInv, NEW p \in Actors, actors[p].status = "ready",
         NEW h \in Holders, NEW token, Owns(Expire(actors[p]), h, token)
  PROVE  LET a == Expire(actors[p]) IN
         /\ a \in Actor
         /\ a.lease = actors[p].lease
         /\ Current(actors[p]) =>
              /\ a.lease = object.lease
              /\ object.lease.holder # None
              /\ minted[object.lease.sequence].owner_epoch = owner
  <1> DEFINE a == Expire(actors[p])
  <1>1. actors[p] \in Actor /\ clock \in Nat
    BY DEF CriticalSectionInv, TypeOK
  <1>2. a \in Actor /\ a.lease.holder = h /\ h # None
    BY <1>1, ExpireType, CriticalSectionAssumption DEF Owns
  <1>3. Serves(a)
    BY <1>2 DEF Owns, Serves
  <1>4. Serves(actors[p]) /\ a.lease = actors[p].lease
    BY <1>1, <1>3, ExpireFacts
  <1> HIDE DEF a
  <1>5. ASSUME Current(actors[p])
        PROVE  /\ a.lease = object.lease
               /\ object.lease.holder # None
               /\ minted[object.lease.sequence].owner_epoch = owner
    <2>1. Agrees(actors[p])
      BY <1>5 DEF CriticalSectionInv, CurrentCacheAgrees
    <2>2. actors[p].lease = object.lease
      BY <2>1, <1>4 DEF Agrees, Free, Serves
    <2>3. minted[actors[p].lease.sequence]
            = Mint(actors[p].owner_epoch, actors[p].lease)
      BY <1>4 DEF CriticalSectionInv, CachedGrant, Loaded
    <2> QED
      BY <1>5, <1>4, <2>2, <2>3 DEF Mint, Current, Serves
  <1> QED
    BY <1>2, <1>4, <1>5 DEF a

LEMMA RenewInv ==
  ASSUME CriticalSectionInv, NEW p \in Actors, NEW h \in Holders,
         NEW token, NEW d \in Leases, Renew(p, h, token, d)
  PROVE  CriticalSectionInv'
  <1> DEFINE a == Expire(actors[p])
             candidate == [a.lease EXCEPT !.expires_at = clock + d]
  <1>1. /\ actors[p].status = "ready" /\ clock \in Nat
        /\ UNCHANGED <<clock, storeVars, late, lost>>
    BY DEF Renew, CriticalSectionInv, TypeOK
  <1>2. CASE Owns(a, h, token)
    <2>1. Persist(p, candidate)
      BY <1>2 DEF Renew
    <2>2. /\ a \in Actor
          /\ Current(actors[p]) =>
              /\ a.lease = object.lease
              /\ object.lease.holder # None
              /\ minted[object.lease.sequence].owner_epoch = owner
      BY <1>1, <1>2, OwnsFacts
    <2> HIDE DEF a
    <2>3. candidate \in Lease
      BY <1>1, <2>2, CriticalSectionAssumption DEF Actor, Lease
    <2>4. Current(actors[p]) => Legal(candidate)
      BY <2>2 DEF Legal, Actor, Lease
    <2> HIDE DEF candidate
    <2> QED
      BY <1>1, <2>1, <2>3, <2>4, PersistInv
  <1>3. CASE ~Owns(a, h, token)
    <2>1. Keep(p, a)
      BY <1>3 DEF Renew
    <2> QED
      BY <2>1, <1>1, KeepInv DEF Keep
  <1> QED
    BY <1>2, <1>3

LEMMA ReleaseInv ==
  ASSUME CriticalSectionInv, NEW p \in Actors, NEW h \in Holders,
         NEW token, Release(p, h, token)
  PROVE  CriticalSectionInv'
  <1> DEFINE a == Expire(actors[p])
             candidate == Free(a.lease.sequence)
  <1>1. /\ actors[p].status = "ready"
        /\ UNCHANGED <<clock, storeVars, late, lost>>
    BY DEF Release
  <1>2. CASE Owns(a, h, token)
    <2>1. Persist(p, candidate)
      BY <1>2 DEF Release
    <2>2. /\ a \in Actor
          /\ Current(actors[p]) =>
              /\ a.lease = object.lease
              /\ object.lease.holder # None
              /\ minted[object.lease.sequence].owner_epoch = owner
      BY <1>1, <1>2, OwnsFacts
    <2> HIDE DEF a
    <2>3. candidate \in Lease
      BY <2>2, FreeType DEF Actor, Lease
    <2>4. Current(actors[p]) => Legal(candidate)
      BY <2>2 DEF Legal, Free
    <2> HIDE DEF candidate
    <2> QED
      BY <1>1, <2>1, <2>3, <2>4, PersistInv
  <1>3. CASE ~Owns(a, h, token)
    <2>1. Keep(p, a)
      BY <1>3 DEF Release
    <2> QED
      BY <2>1, <1>1, KeepInv DEF Keep
  <1> QED
    BY <1>2, <1>3

LEMMA StatusInv ==
  ASSUME CriticalSectionInv, NEW p \in Actors, Status(p)
  PROVE  CriticalSectionInv'
  BY KeepInv DEF Status, Keep

-----------------------------------------------------------------------------
(* Starting an actor.                                                      *)

LEMMA ClaimOwnerInv ==
  ASSUME CriticalSectionInv, NEW p \in Actors, NEW e \in RuntimeEpochs,
         ClaimOwner(p, e)
  PROVE  CriticalSectionInv'
  <1> DEFINE b == [Down EXCEPT !.status = "claimed", !.runtime_epoch = e,
                               !.owner_epoch = owner + 1]
  <1>1. /\ UNCHANGED <<clock, object, minted, late, lost, issued, told>>
        /\ owner' = owner + 1 /\ owner \in Nat /\ owner' \in 0..MaxOwner
        /\ actors[p].status = "down"
    BY CriticalSectionAssumption
    DEF ClaimOwner, clientVars, CriticalSectionInv, TypeOK
  <1>2. /\ b.status = "claimed" /\ b.owner_epoch = owner'
        /\ b.runtime_epoch = e
    BY <1>1, DownType DEF Actor
  <1>3. actors'[p] = b /\ \A q \in Actors \ {p} : actors'[q] = actors[q]
    BY DEF ClaimOwner, Become, CriticalSectionInv, TypeOK
  <1>4. b \in Actor
    BY <1>1, DownType, CriticalSectionAssumption DEF Actor, Statuses
  <1>5. TypeOK'
    BY <1>1, <1>4 DEF CriticalSectionInv, TypeOK, ClaimOwner, Become
  <1> HIDE DEF b
  <1>6. \A q \in Actors : Up(q) => actors[q].owner_epoch \in 1..owner
    BY DEF CriticalSectionInv, OwnersDistinct
  <1>7. OwnersDistinct'
    BY <1>1, <1>2, <1>3, <1>6 DEF CriticalSectionInv, OwnersDistinct, Up
  <1>8. VersionsBehind'
    BY <1>1, <1>2, <1>3 DEF CriticalSectionInv, VersionsBehind, Loaded
  <1>9. CommitsSafe'
    BY <1>1, <1>2, <1>3
    DEF CriticalSectionInv, CommitsSafe, SafeCommit, Accepts, RequestOf
  <1>10. LateBehind'
    BY <1>1, <1>2, <1>3 DEF CriticalSectionInv, LateBehind, Loaded
  <1>11. DurableMinted' /\ IssuedMinted' /\ ToldBelow'
    BY <1>1 DEF CriticalSectionInv, DurableMinted, IssuedMinted, ToldBelow
  <1>12. AppliedStands'
    BY <1>1, <1>2, <1>3, <1>6 DEF CriticalSectionInv, AppliedStands, Up
  <1>13. CachedGrant'
    BY <1>1, <1>2, <1>3
    DEF CriticalSectionInv, CachedGrant, Loaded, Serves, TokenOf, Mint
  <1>14. CurrentCacheAgrees'
    BY <1>1, <1>2, <1>3, <1>6
    DEF CriticalSectionInv, CurrentCacheAgrees, Current, Up
  <1>15. LiveGrantIsDurable'
    BY <1>1, <1>2, <1>3
    DEF CriticalSectionInv, LiveGrantIsDurable, Live, InDoubt
  <1> QED
    BY <1>5, <1>7, <1>8, <1>9, <1>10, <1>11, <1>12, <1>13, <1>14, <1>15
    DEF CriticalSectionInv

LEMMA LoadInv ==
  ASSUME CriticalSectionInv, NEW p \in Actors, Load(p)
  PROVE  CriticalSectionInv'
  <1> DEFINE a == actors[p]
             b == [a EXCEPT !.status = "ready", !.version = object.version,
                            !.lease = object.lease,
                            !.inherited = ~Available(object.lease)]
  <1>1. UNCHANGED <<clock, owner, object, minted, late, lost, issued, told>>
    BY DEF Load, storeVars, clientVars
  <1>2. /\ a \in Actor /\ a.status = "claimed" /\ clock \in Nat
        /\ object.version \in 0..MaxVersion /\ object.lease \in Lease
    BY DEF Load, CriticalSectionInv, TypeOK
  <1>3. actors'[p] = b /\ \A q \in Actors \ {p} : actors'[q] = actors[q]
    BY DEF Load, Become, CriticalSectionInv, TypeOK
  <1>4. /\ b.status = "ready" /\ b.version = object.version
        /\ b.lease = object.lease /\ b.inherited = ~Available(object.lease)
        /\ b.owner_epoch = a.owner_epoch /\ b.runtime_epoch = a.runtime_epoch
    BY <1>2 DEF Actor
  <1>5. b \in Actor
    <2>1. (~Available(object.lease)) \in BOOLEAN
      BY DEF Available
    <2> QED
      BY <1>2, <2>1 DEF Actor, Statuses
  <1>6. TypeOK'
    BY <1>1, <1>5 DEF CriticalSectionInv, TypeOK, Load, Become
  <1> HIDE DEF a, b
  <1>7. ~Serves(b)
    <2>1. Serves(b) => ~Available(object.lease)
      BY <1>2, <1>4 DEF Serves, Available, Lease
    <2>2. Serves(b) => Available(object.lease)
      BY <1>4, Zenon DEF Serves
    <2> QED
      BY <2>1, <2>2
  <1>8. OwnersDistinct'
    BY <1>1, <1>2, <1>3, <1>4 DEF CriticalSectionInv, OwnersDistinct, Up, a
  <1>9. VersionsBehind'
    BY <1>1, <1>2, <1>3, <1>4 DEF CriticalSectionInv, VersionsBehind, Loaded
  <1>10. CommitsSafe'
    BY <1>1, <1>2, <1>3, <1>4
    DEF CriticalSectionInv, CommitsSafe, SafeCommit, Accepts, Legal,
        Available, RequestOf
  <1>11. LateBehind'
    BY <1>1, <1>2, <1>3, <1>4
    DEF CriticalSectionInv, LateBehind, CommitsSafe, SafeCommit, Loaded
  <1>12. DurableMinted' /\ IssuedMinted' /\ ToldBelow'
    BY <1>1 DEF CriticalSectionInv, DurableMinted, IssuedMinted, ToldBelow
  <1>13. AppliedStands'
    BY <1>1, <1>2, <1>3, <1>4 DEF CriticalSectionInv, AppliedStands
  <1>14. CachedGrant'
    BY <1>1, <1>2, <1>3, <1>4, <1>7
    DEF CriticalSectionInv, CachedGrant, Loaded, Serves, TokenOf, Mint
  <1>15. CurrentCacheAgrees'
    BY <1>1, <1>2, <1>3, <1>4
    DEF CriticalSectionInv, CurrentCacheAgrees, Current, Agrees, Available
  <1>16. LiveGrantIsDurable'
    <2>1. \A n : InDoubt(n) => InDoubt(n)'
      BY <1>1, <1>2, <1>3, <1>4 DEF InDoubt, a
    <2> QED
      BY <1>1, <2>1 DEF CriticalSectionInv, LiveGrantIsDurable, Live
  <1> QED
    BY <1>6, <1>8, <1>9, <1>10, <1>11, <1>12, <1>13, <1>14, <1>15, <1>16
    DEF CriticalSectionInv

-----------------------------------------------------------------------------
(* A pending commit that is refused, whose outcome is lost, or whose actor *)
(* ends: the store is not touched and the cache is that of before.         *)

LEMMA LeaveInv ==
  ASSUME CriticalSectionInv, NEW p \in Actors, NEW b \in Actor,
         Become(p, b), b.status \in {"down", "ready", "refused"},
         Loaded(p) \/ b.status = "down",
         b.status # "down" =>
           /\ b.owner_epoch = actors[p].owner_epoch
           /\ b.runtime_epoch = actors[p].runtime_epoch
           /\ b.version = actors[p].version
           /\ b.lease = actors[p].lease
           /\ b.inherited = actors[p].inherited,
         actors[p].status = "applied" => actors[p].candidate.sequence \in lost',
         lost \subseteq lost', lost' \subseteq 0..MaxSequence,
         \/ late' = late
         \/ /\ actors[p].status = "committing"
            /\ actors[p].candidate.sequence \in lost'
            /\ late' = late \cup {RequestOf(actors[p])},
         UNCHANGED <<clock, storeVars, clientVars>>
  PROVE  CriticalSectionInv'
  <1>1. UNCHANGED <<clock, owner, object, minted, issued, told>>
    BY DEF storeVars, clientVars
  <1>2. actors[p] \in Actor
    BY DEF CriticalSectionInv, TypeOK
  <1>3. actors'[p] = b /\ \A q \in Actors \ {p} : actors'[q] = actors[q]
    BY DEF Become, CriticalSectionInv, TypeOK
  <1>4. RequestOf(actors[p]) \in Commit
    BY <1>2 DEF RequestOf, Actor, Commit
  <1>5. TypeOK'
    BY <1>1, <1>4 DEF CriticalSectionInv, TypeOK, Become
  <1>6. OwnersDistinct'
    BY <1>1, <1>2, <1>3 DEF CriticalSectionInv, OwnersDistinct, Up, Loaded
  <1>7. VersionsBehind'
    BY <1>1, <1>2, <1>3 DEF CriticalSectionInv, VersionsBehind, Loaded
  <1>8. CommitsSafe'
    <2>1. \A commit \in late' : SafeCommit(commit)
      BY DEF CriticalSectionInv, CommitsSafe
    <2>2. \A commit \in late' : SafeCommit(commit)'
      BY <1>1, <2>1 DEF SafeCommit, Accepts, Legal, Available
    <2>3. \A q \in Actors : actors'[q].status = "committing"
            => SafeCommit(RequestOf(actors[q]))'
      BY <1>1, <1>3
      DEF CriticalSectionInv, CommitsSafe, SafeCommit, Accepts, Legal,
          Available, RequestOf
    <2> QED
      BY <2>2, <2>3 DEF CommitsSafe
  <1>9. LateBehind'
    <2>1. RequestOf(actors[p]).version = actors[p].version
          /\ RequestOf(actors[p]).lease = actors[p].candidate
          /\ RequestOf(actors[p]).owner_epoch = actors[p].owner_epoch
      BY DEF RequestOf
    <2>2. \A q \in Actors : Loaded(q)' => Loaded(q)
             /\ actors'[q].owner_epoch = actors[q].owner_epoch
             /\ actors'[q].version = actors[q].version
      BY <1>3 DEF Loaded
    <2>3. \A q \in Actors : Loaded(q) /\ actors[p].status = "committing"
             /\ actors[q].owner_epoch = actors[p].owner_epoch => q = p
      BY DEF CriticalSectionInv, OwnersDistinct, Up, Loaded
    <2>4. actors[p].version \in Nat
      BY <1>2, CriticalSectionAssumption DEF Actor
    <2>5. ASSUME NEW commit \in late'
          PROVE  /\ commit.lease.sequence \in lost'
                 /\ \A q \in Actors :
                      Loaded(q)' /\ actors'[q].owner_epoch = commit.owner_epoch
                        => commit.version <= actors'[q].version
      <3>1. CASE commit \in late
        BY <3>1, <2>2 DEF CriticalSectionInv, LateBehind
      <3>2. CASE /\ commit = RequestOf(actors[p])
                 /\ actors[p].status = "committing"
                 /\ actors[p].candidate.sequence \in lost'
        BY <3>2, <2>1, <2>2, <2>3, <2>4
      <3> QED
        BY <3>1, <3>2
    <2> QED
      BY <2>5 DEF LateBehind
  <1>10. DurableMinted' /\ IssuedMinted' /\ ToldBelow'
    BY <1>1 DEF CriticalSectionInv, DurableMinted, IssuedMinted, ToldBelow
  <1>11. AppliedStands'
    BY <1>1, <1>2, <1>3 DEF CriticalSectionInv, AppliedStands
  <1>12. CachedGrant'
    BY <1>1, <1>2, <1>3
    DEF CriticalSectionInv, CachedGrant, Loaded, Serves, TokenOf, Mint
  <1>13. CurrentCacheAgrees'
    BY <1>1, <1>2, <1>3
    DEF CriticalSectionInv, CurrentCacheAgrees, Current, Agrees, Available,
        Loaded
  <1>14. LiveGrantIsDurable'
    <2>1. \A n : InDoubt(n) => InDoubt(n)'
      BY <1>1, <1>2, <1>3 DEF InDoubt
    <2> QED
      BY <1>1, <2>1 DEF CriticalSectionInv, LiveGrantIsDurable, Live
  <1> QED
    BY <1>5, <1>6, <1>7, <1>8, <1>9, <1>10, <1>11, <1>12, <1>13, <1>14
    DEF CriticalSectionInv

LEMMA CommitFailsInv ==
  ASSUME CriticalSectionInv, NEW p \in Actors, CommitFails(p)
  PROVE  CriticalSectionInv'
  <1> DEFINE b == [actors[p] EXCEPT !.status = "ready",
                                    !.candidate = NoCandidate]
  <1>1. actors[p] \in Actor /\ NoCandidate \in Lease
    BY FreeType, CriticalSectionAssumption
    DEF CriticalSectionInv, TypeOK, NoCandidate
  <1>2. /\ b \in Actor /\ b.status = "ready"
        /\ b.owner_epoch = actors[p].owner_epoch
        /\ b.runtime_epoch = actors[p].runtime_epoch
        /\ b.version = actors[p].version
        /\ b.lease = actors[p].lease
        /\ b.inherited = actors[p].inherited
    BY <1>1 DEF Actor, Statuses
  <1>3. /\ Become(p, b) /\ actors[p].status = "refused" /\ late' = late
        /\ lost' = lost /\ lost \subseteq 0..MaxSequence
        /\ UNCHANGED <<clock, storeVars, clientVars>>
    BY DEF CommitFails, CriticalSectionInv, TypeOK
  <1> HIDE DEF b
  <1> QED
    BY <1>2, <1>3, LeaveInv DEF Loaded

\* What Abandon may change, in the terms of LeaveInv.
LEMMA AbandonFacts ==
  ASSUME CriticalSectionInv, NEW p \in Actors, Abandon(p)
  PROVE  /\ actors[p].candidate.sequence \in lost'
         /\ lost \subseteq lost' /\ lost' \subseteq 0..MaxSequence
         /\ \/ late' = late
            \/ /\ actors[p].status = "committing"
               /\ late' = late \cup {RequestOf(actors[p])}
  <1>1. actors[p].candidate.sequence \in 0..MaxSequence
    BY DEF CriticalSectionInv, TypeOK, Actor, Lease
  <1> QED
    BY <1>1 DEF Abandon, CriticalSectionInv, TypeOK

LEMMA CommitOutcomeLostInv ==
  ASSUME CriticalSectionInv, NEW p \in Actors, CommitOutcomeLost(p)
  PROVE  CriticalSectionInv'
  <1> DEFINE b == [actors[p] EXCEPT !.status = "ready",
                                    !.candidate = NoCandidate]
  <1>1. actors[p] \in Actor /\ NoCandidate \in Lease
    BY FreeType, CriticalSectionAssumption
    DEF CriticalSectionInv, TypeOK, NoCandidate
  <1>2. /\ b \in Actor /\ b.status = "ready"
        /\ b.owner_epoch = actors[p].owner_epoch
        /\ b.runtime_epoch = actors[p].runtime_epoch
        /\ b.version = actors[p].version
        /\ b.lease = actors[p].lease
        /\ b.inherited = actors[p].inherited
    BY <1>1 DEF Actor, Statuses
  <1>3. /\ Become(p, b) /\ actors[p].status \in {"committing", "applied"}
        /\ Abandon(p) /\ UNCHANGED <<clock, storeVars, clientVars>>
    BY DEF CommitOutcomeLost
  <1> HIDE DEF b
  <1> QED
    BY <1>2, <1>3, AbandonFacts, LeaveInv DEF Loaded

LEMMA StopInv ==
  ASSUME CriticalSectionInv, NEW p \in Actors, Stop(p)
  PROVE  CriticalSectionInv'
  <1>1. /\ Become(p, Down) /\ UNCHANGED <<clock, storeVars, clientVars>>
        /\ Down \in Actor /\ Down.status = "down"
        /\ lost \subseteq 0..MaxSequence
    BY DownType DEF Stop, Down, CriticalSectionInv, TypeOK
  <1>2. CASE actors[p].status \in {"committing", "applied"}
    BY <1>1, <1>2, AbandonFacts, LeaveInv DEF Stop, Loaded
  <1>3. CASE actors[p].status \notin {"committing", "applied"}
    <2>1. late' = late /\ lost' = lost
      BY <1>3 DEF Stop
    <2> QED
      BY <1>1, <1>3, <2>1, LeaveInv
  <1> QED
    BY <1>2, <1>3

-----------------------------------------------------------------------------
(* The store applies a commit: sent by a waiting actor, or abandoned.      *)

LEMMA WriteInv ==
  ASSUME CriticalSectionInv, NEW c \in Commit, SafeCommit(c), Accepts(c),
         Write(c), late' \subseteq late, actors' \in [Actors -> Actor],
         \A q \in Actors :
           \/ actors'[q] = actors[q]
           \/ /\ actors[q].status = "committing"
              /\ actors'[q] = [actors[q] EXCEPT !.status = "applied"]
              /\ c = RequestOf(actors[q]),
         \/ c \in late
         \/ \E p \in Actors : /\ actors[p].status = "committing"
                              /\ actors'[p].status = "applied"
                              /\ c = RequestOf(actors[p]),
         UNCHANGED <<clock, owner, clientVars, lost>>
  PROVE  CriticalSectionInv'
  <1>1. /\ UNCHANGED <<clock, owner, issued, told, lost>>
        /\ clock \in Nat /\ owner \in 0..MaxOwner
        /\ object \in [version : 0..MaxVersion, lease : Lease]
        /\ minted \in [0..MaxSequence -> [owner_epoch : 0..MaxOwner,
                                          holder : Holders \cup {None},
                                          request_id : Requests \cup {None}]]
        /\ actors \in [Actors -> Actor]
    BY CriticalSectionAssumption DEF clientVars, CriticalSectionInv, TypeOK
  <1>2. /\ c.owner_epoch = owner /\ c.version = object.version
        /\ c.version < MaxVersion /\ Legal(c.lease) /\ c.lease \in Lease
        /\ c.owner_epoch \in 1..owner
    BY DEF SafeCommit, Accepts, Commit
  <1>3. /\ object'.version = object.version + 1 /\ object'.lease = c.lease
        /\ object' \in [version : 0..MaxVersion, lease : Lease]
    BY <1>1, <1>2, CriticalSectionAssumption DEF Write
  <1>4. /\ c.lease.sequence \in 1..MaxSequence
        /\ object.lease.sequence \in 0..MaxSequence
        /\ c.lease.sequence \in
             {object.lease.sequence, object.lease.sequence + 1}
    BY <1>1, <1>2, CriticalSectionAssumption
    DEF Legal, Lease, CriticalSectionInv, DurableMinted
  <1>5. \A n \in 0..object.lease.sequence : minted'[n] = minted[n]
    BY <1>1, <1>2, <1>4 DEF Write
  <1>6. minted' \in [0..MaxSequence -> [owner_epoch : 0..MaxOwner,
                                        holder : Holders \cup {None},
                                        request_id : Requests \cup {None}]]
    <2>1. Mint(c.owner_epoch, c.lease) \in
            [owner_epoch : 0..MaxOwner, holder : Holders \cup {None},
             request_id : Requests \cup {None}]
      BY <1>1, <1>2 DEF Mint, Lease
    <2> QED
      BY <1>1, <1>2, <2>1 DEF Write
  <1>7. /\ minted'[c.lease.sequence].owner_epoch = owner
        /\ c.lease.holder # None =>
             minted'[c.lease.sequence] = Mint(c.owner_epoch, c.lease)
    <2>1. CASE c.lease.sequence = object.lease.sequence
      <3>1. /\ object.lease.holder # None
            /\ minted[object.lease.sequence].owner_epoch = owner
            /\ \/ c.lease = Free(c.lease.sequence)
               \/ /\ c.lease.holder = object.lease.holder
                  /\ c.lease.request_id = object.lease.request_id
        BY <1>2, <1>4, <2>1 DEF Legal
      <3>2. minted' = minted
        BY <2>1 DEF Write
      <3>3. c.lease.holder # None =>
              /\ c.lease.holder = minted[c.lease.sequence].holder
              /\ c.lease.request_id = minted[c.lease.sequence].request_id
        BY <2>1, <3>1 DEF CriticalSectionInv, DurableMinted, Free
      <3>4. minted[c.lease.sequence] \in
              [owner_epoch : 0..MaxOwner, holder : Holders \cup {None},
               request_id : Requests \cup {None}]
        BY <1>1, <1>4
      <3> QED
        BY <1>2, <2>1, <3>1, <3>2, <3>3, <3>4 DEF Mint
    <2>2. CASE c.lease.sequence # object.lease.sequence
      <3>1. minted' = [minted EXCEPT ![c.lease.sequence] =
                         Mint(c.owner_epoch, c.lease)]
        BY <2>2 DEF Write
      <3>2. minted'[c.lease.sequence] = Mint(c.owner_epoch, c.lease)
        BY <3>1, <1>1, <1>4
      <3> QED
        BY <3>2, <1>2 DEF Mint
    <2> QED
      BY <2>1, <2>2
  <1>8. object.lease.holder # None /\ object.lease.expires_at > clock =>
          /\ c.lease.sequence = object.lease.sequence
          /\ minted[object.lease.sequence].owner_epoch = owner
    BY <1>1, <1>2 DEF Legal, Available, Lease
  <1>9. \A q \in Actors :
          /\ actors'[q].owner_epoch = actors[q].owner_epoch
          /\ actors'[q].runtime_epoch = actors[q].runtime_epoch
          /\ actors'[q].version = actors[q].version
          /\ actors'[q].lease = actors[q].lease
          /\ actors'[q].inherited = actors[q].inherited
          /\ actors'[q].candidate = actors[q].candidate
          /\ Up(q)' <=> Up(q)
          /\ Loaded(q)' <=> Loaded(q)
          /\ actors[q].status = "applied" => actors'[q].status = "applied"
          /\ actors'[q].status = "committing" => actors[q].status = "committing"
          /\ actors'[q].status = "applied" =>
               \/ actors[q].status = "applied"
               \/ /\ c = RequestOf(actors[q])
                  /\ actors[q].status = "committing"
    BY <1>1 DEF Actor, Up, Loaded
  \* No actor of the current owner epoch has another commit to hear of.
  <1>10. \A q \in Actors :
           actors[q].status = "applied" => actors[q].owner_epoch # owner
    <2> SUFFICES ASSUME NEW q \in Actors, actors[q].status = "applied",
                        actors[q].owner_epoch = owner
                 PROVE  FALSE
      OBVIOUS
    <2>1. object.version = actors[q].version + 1 /\ actors[q].version \in Nat
      BY <1>1, CriticalSectionAssumption
      DEF CriticalSectionInv, AppliedStands, Actor
    <2>2. CASE c \in late
      <3>1. c.version <= actors[q].version
        BY <1>2, <2>2 DEF CriticalSectionInv, LateBehind, Loaded
      <3> QED
        BY <1>2, <2>1, <3>1
    <2>3. ASSUME NEW p \in Actors, actors[p].status = "committing",
                 c = RequestOf(actors[p])
          PROVE  FALSE
      <3>1. actors[p].owner_epoch = actors[q].owner_epoch
        BY <1>2, <2>3 DEF RequestOf
      <3>2. p = q
        BY <2>3, <3>1 DEF CriticalSectionInv, OwnersDistinct, Up
      <3> QED
        BY <2>3, <3>2
    <2> QED
      BY <2>2, <2>3
  <1>11. TypeOK'
    BY <1>1, <1>3, <1>6 DEF CriticalSectionInv, TypeOK
  <1>12. OwnersDistinct'
    BY <1>1, <1>9 DEF CriticalSectionInv, OwnersDistinct
  <1>13. VersionsBehind'
    <2>1. \A q \in Actors : Loaded(q) => actors[q].version < object'.version
      BY <1>1, <1>3, CriticalSectionAssumption
      DEF CriticalSectionInv, VersionsBehind, Actor
    <2> QED
      BY <1>1, <1>3, <1>9, <2>1, CriticalSectionAssumption
      DEF VersionsBehind, Actor
  <1>14. CommitsSafe'
    <2>1. ASSUME NEW d, SafeCommit(d), d.version \in Nat PROVE SafeCommit(d)'
      BY <1>1, <1>3, <2>1 DEF SafeCommit, Accepts
    <2>2. \A d \in late' : d.version \in Nat /\ SafeCommit(d)
      BY CriticalSectionAssumption
      DEF CriticalSectionInv, CommitsSafe, TypeOK, Commit
    <2>3. \A q \in Actors : actors'[q].status = "committing" =>
            /\ RequestOf(actors[q]).version \in Nat
            /\ SafeCommit(RequestOf(actors[q]))
            /\ RequestOf(actors[q])' = RequestOf(actors[q])
      BY <1>1, <1>9, CriticalSectionAssumption
      DEF CriticalSectionInv, CommitsSafe, RequestOf, Actor
    <2>4. \A q \in Actors : actors'[q].status = "committing" =>
            SafeCommit(RequestOf(actors[q]))'
      BY <1>1, <1>3, <2>3 DEF SafeCommit, Accepts
    <2>5. \A d \in late' : SafeCommit(d)'
      BY <2>1, <2>2
    <2> QED
      BY <2>4, <2>5 DEF CommitsSafe
  <1>15. LateBehind'
    BY <1>1, <1>9 DEF CriticalSectionInv, LateBehind
  <1>16. DurableMinted'
    BY <1>3, <1>4, <1>7 DEF DurableMinted, Mint
  <1>17. AppliedStands'
    <2> SUFFICES ASSUME NEW q \in Actors, actors'[q].status = "applied"
                 PROVE  /\ actors'[q].candidate.sequence \in 1..object'.lease.sequence
                        /\ minted'[actors'[q].candidate.sequence].owner_epoch
                             = actors'[q].owner_epoch
                        /\ actors'[q].candidate.holder # None =>
                             /\ minted'[actors'[q].candidate.sequence]
                                  = Mint(actors'[q].owner_epoch, actors'[q].candidate)
                             /\ \/ object'.lease = actors'[q].candidate
                                \/ actors'[q].candidate.expires_at <= clock'
                        /\ actors'[q].owner_epoch = owner' =>
                             /\ object'.lease = actors'[q].candidate
                             /\ object'.version = actors'[q].version + 1
      BY DEF AppliedStands
    <2>1. CASE c = RequestOf(actors[q])
      <3>1. /\ c.lease = actors'[q].candidate
            /\ c.owner_epoch = actors'[q].owner_epoch
            /\ c.version = actors'[q].version
        BY <1>9, <2>1 DEF RequestOf
      <3> QED
        BY <3>1, <1>1, <1>2, <1>3, <1>4, <1>7
    <2>2. CASE actors[q].status = "applied"
      <3> DEFINE a == actors[q]
      <3>1. /\ a.candidate.sequence \in 1..object.lease.sequence
            /\ minted[a.candidate.sequence].owner_epoch = a.owner_epoch
            /\ a.candidate.holder # None =>
                 /\ minted[a.candidate.sequence] = Mint(a.owner_epoch, a.candidate)
                 /\ object.lease = a.candidate \/ a.candidate.expires_at <= clock
        BY <2>2 DEF CriticalSectionInv, AppliedStands
      <3>2. a.owner_epoch # owner /\ a.candidate \in Lease
        BY <1>1, <1>10, <2>2 DEF Actor
      <3>3. minted'[a.candidate.sequence] = minted[a.candidate.sequence]
        BY <1>4, <1>5, <3>1
      <3>4. a.candidate.sequence \in 1..object'.lease.sequence
        BY <1>3, <1>4, <3>1
      <3>5. a.candidate.holder # None => a.candidate.expires_at <= clock
        BY <1>1, <1>8, <3>1, <3>2 DEF Lease
      <3> HIDE DEF a
      <3> QED
        BY <1>1, <1>9, <3>1, <3>2, <3>3, <3>4, <3>5 DEF a
    <2> QED
      BY <1>9, <2>1, <2>2
  <1>18. CachedGrant'
    <2> SUFFICES ASSUME NEW q \in Actors, Loaded(q)', Serves(actors[q])'
                 PROVE  /\ actors'[q].lease.sequence \in 1..object'.lease.sequence
                        /\ minted'[actors'[q].lease.sequence]
                             = Mint(actors'[q].owner_epoch, actors'[q].lease)
                        /\ told'[actors'[q].lease.sequence]
                             = actors'[q].lease.expires_at
                        /\ [token |-> TokenOf(actors'[q]),
                            holder |-> actors'[q].lease.holder,
                            request_id |-> actors'[q].lease.request_id] \in issued'
      BY DEF CachedGrant, Mint, TokenOf
    <2>1. Loaded(q) /\ Serves(actors[q])
      BY <1>1, <1>9 DEF Serves
    <2>2. /\ actors[q].lease.sequence \in 1..object.lease.sequence
          /\ minted[actors[q].lease.sequence]
               = Mint(actors[q].owner_epoch, actors[q].lease)
          /\ told[actors[q].lease.sequence] = actors[q].lease.expires_at
          /\ [token |-> TokenOf(actors[q]), holder |-> actors[q].lease.holder,
              request_id |-> actors[q].lease.request_id] \in issued
      BY <2>1 DEF CriticalSectionInv, CachedGrant
    <2>3. minted'[actors[q].lease.sequence] = minted[actors[q].lease.sequence]
      BY <1>4, <1>5, <2>2
    <2>4. actors[q].lease.sequence \in 1..object'.lease.sequence
      BY <1>3, <1>4, <2>2
    <2>5. TokenOf(actors'[q]) = TokenOf(actors[q])
      BY <1>9 DEF TokenOf
    <2> QED
      BY <1>1, <1>9, <2>2, <2>3, <2>4, <2>5
  <1>19. CurrentCacheAgrees'
    <2>1. \A q \in Actors : Loaded(q)' => actors'[q].version # object'.version
      BY <1>1, <1>3, <1>9, CriticalSectionAssumption
      DEF CriticalSectionInv, VersionsBehind, Actor
    <2> QED
      BY <2>1 DEF CurrentCacheAgrees, Current, Loaded
  <1>20. IssuedMinted' /\ ToldBelow'
    <2>1. \A g \in issued : g.token.sequence \in 0..object.lease.sequence
      BY <1>4 DEF CriticalSectionInv, IssuedMinted, TypeOK, Grants, Token,
                  Sequences
    <2>2. IssuedMinted'
      <3> SUFFICES ASSUME NEW g \in issued
                   PROVE  /\ g.token.sequence <= object'.lease.sequence
                          /\ minted'[g.token.sequence]
                               = Mint(g.token.owner_epoch, g)
        BY <1>1 DEF IssuedMinted, Mint
      <3>1. /\ g.token.sequence <= object.lease.sequence
            /\ minted[g.token.sequence] = Mint(g.token.owner_epoch, g)
        BY DEF CriticalSectionInv, IssuedMinted
      <3>2. minted'[g.token.sequence] = minted[g.token.sequence]
        BY <1>5, <2>1
      <3>3. /\ g.token.sequence \in Nat
            /\ object.lease.sequence \in Nat
            /\ object'.lease.sequence \in Nat
            /\ object.lease.sequence <= object'.lease.sequence
        BY <1>3, <1>4, <2>1
      <3> QED
        BY <3>1, <3>2, <3>3
    <2>3. ToldBelow'
      BY <1>1, <1>3, <1>4 DEF CriticalSectionInv, ToldBelow, Sequences
    <2> QED
      BY <2>2, <2>3
  <1>21. LiveGrantIsDurable'
    <2> SUFFICES ASSUME NEW n \in Sequences, Live(n)' PROVE FALSE
      BY DEF LiveGrantIsDurable
    <2>1. Live(n)
      BY <1>1, <1>9 DEF Live, InDoubt
    <2>2. c.lease.sequence = n
      BY <1>8, <2>1 DEF CriticalSectionInv, LiveGrantIsDurable, Live
    <2>3. CASE c \in late
      BY <1>1, <2>2, <2>3
      DEF CriticalSectionInv, LateBehind, Live, InDoubt
    <2>4. ASSUME NEW p \in Actors, actors'[p].status = "applied",
                 c = RequestOf(actors[p])
          PROVE  FALSE
      <3>1. actors'[p].candidate.sequence = n
        BY <1>9, <2>2, <2>4 DEF RequestOf
      <3> QED
        BY <3>1, <2>4 DEF Live, InDoubt
    <2> QED
      BY <2>3, <2>4
  <1> QED
    BY <1>11, <1>12, <1>13, <1>14, <1>15, <1>16, <1>17, <1>18, <1>19, <1>20,
       <1>21
    DEF CriticalSectionInv
LEMMA StoreCommitInv ==
  ASSUME CriticalSectionInv, NEW p \in Actors, StoreCommit(p)
  PROVE  CriticalSectionInv'
  <1> DEFINE c == RequestOf(actors[p])
  <1>1. /\ actors[p] \in Actor /\ actors[p].status = "committing"
        /\ actors \in [Actors -> Actor] /\ lost \subseteq 0..MaxSequence
        /\ UNCHANGED <<clock, owner, late, clientVars, lost>>
    BY DEF StoreCommit, CriticalSectionInv, TypeOK
  <1>2. CASE Accepts(c)
    <2> DEFINE b == [actors[p] EXCEPT !.status = "applied"]
    <2>1. Write(c) /\ Become(p, b)
      BY <1>2 DEF StoreCommit
    <2>2. c \in Commit /\ SafeCommit(c)
      BY <1>1 DEF RequestOf, Actor, Commit, CriticalSectionInv, CommitsSafe
    <2>3. b \in Actor /\ b.status = "applied"
      BY <1>1 DEF Actor, Statuses
    <2> HIDE DEF c
    <2>4. /\ actors' \in [Actors -> Actor] /\ actors'[p] = b
          /\ \A q \in Actors \ {p} : actors'[q] = actors[q]
      BY <1>1, <2>1, <2>3 DEF Become
    <2>5. \E q \in Actors : /\ actors[q].status = "committing"
                            /\ actors'[q].status = "applied"
                            /\ c = RequestOf(actors[q])
      BY <1>1, <2>3, <2>4 DEF c
    <2>6. \A q \in Actors :
            \/ actors'[q] = actors[q]
            \/ /\ actors[q].status = "committing"
               /\ actors'[q] = [actors[q] EXCEPT !.status = "applied"]
               /\ c = RequestOf(actors[q])
      BY <1>1, <2>4 DEF c
    <2> HIDE DEF b
    <2> QED
      BY <1>1, <1>2, <2>1, <2>2, <2>4, <2>5, <2>6, WriteInv
  <1>3. CASE ~Accepts(c)
    <2> DEFINE b == [actors[p] EXCEPT !.status = "refused"]
    <2>1. Become(p, b) /\ UNCHANGED storeVars
      BY <1>1, <1>3 DEF StoreCommit, storeVars
    <2>2. /\ b \in Actor /\ b.status = "refused"
          /\ b.owner_epoch = actors[p].owner_epoch
          /\ b.runtime_epoch = actors[p].runtime_epoch
          /\ b.version = actors[p].version
          /\ b.lease = actors[p].lease
          /\ b.inherited = actors[p].inherited
      BY <1>1 DEF Actor, Statuses
    <2> HIDE DEF b, c
    <2> QED
      BY <1>1, <2>1, <2>2, LeaveInv DEF Loaded
  <1> QED
    BY <1>2, <1>3

LEMMA LateCommitInv ==
  ASSUME CriticalSectionInv, NEW c \in late, LateCommit(c)
  PROVE  CriticalSectionInv'
  <1>1. /\ late' = late \ {c} /\ c \in Commit /\ SafeCommit(c)
        /\ actors \in [Actors -> Actor]
        /\ UNCHANGED <<clock, owner, actors, clientVars, lost>>
    BY DEF LateCommit, CriticalSectionInv, TypeOK, CommitsSafe
  <1>2. CASE Accepts(c)
    <2>1. Write(c)
      BY <1>2 DEF LateCommit
    <2> QED
      BY <1>1, <1>2, <2>1, WriteInv
  <1>3. CASE ~Accepts(c)
    <2>1. /\ UNCHANGED <<clock, owner, object, actors, minted, issued, told,
                         lost>>
          /\ late' \subseteq late
      BY <1>1, <1>3 DEF LateCommit, clientVars
    <2>2. TypeOK' /\ OwnersDistinct' /\ VersionsBehind' /\ LateBehind'
      BY <2>1
      DEF CriticalSectionInv, TypeOK, OwnersDistinct, Up, VersionsBehind,
          LateBehind, Loaded
    <2>3. CommitsSafe'
      BY <2>1
      DEF CriticalSectionInv, CommitsSafe, SafeCommit, Accepts, Legal,
          Available, RequestOf
    <2>4. DurableMinted' /\ AppliedStands' /\ IssuedMinted' /\ ToldBelow'
      BY <2>1
      DEF CriticalSectionInv, DurableMinted, AppliedStands, IssuedMinted,
          ToldBelow
    <2>5. CachedGrant'
      BY <2>1
      DEF CriticalSectionInv, CachedGrant, Loaded, Serves, TokenOf, Mint
    <2>6. CurrentCacheAgrees'
      BY <2>1
      DEF CriticalSectionInv, CurrentCacheAgrees, Current, Agrees, Available
    <2>7. LiveGrantIsDurable'
      BY <2>1 DEF CriticalSectionInv, LiveGrantIsDurable, Live, InDoubt
    <2> QED
      BY <2>2, <2>3, <2>4, <2>5, <2>6, <2>7 DEF CriticalSectionInv
  <1> QED
    BY <1>2, <1>3

-----------------------------------------------------------------------------
(* The answer {ok, NextVersion} reaches the actor, and its caller.         *)

LEMMA CommitSucceedsInv ==
  ASSUME CriticalSectionInv, NEW p \in Actors, CommitSucceeds(p)
  PROVE  CriticalSectionInv'
  <1> DEFINE a == actors[p]
             n == a.candidate.sequence
             b == [a EXCEPT !.status = "ready", !.version = a.version + 1,
                            !.lease = a.candidate, !.inherited = FALSE,
                            !.candidate = NoCandidate]
             g == [token |-> [TokenOf(a) EXCEPT !.sequence = n],
                   holder |-> a.candidate.holder,
                   request_id |-> a.candidate.request_id]
  <1>1. /\ UNCHANGED <<clock, owner, object, minted, late, lost>>
        /\ a \in Actor /\ a.status = "applied" /\ clock \in Nat
        /\ issued \subseteq Grants /\ told \in [Sequences -> Nat]
    BY DEF CommitSucceeds, storeVars, CriticalSectionInv, TypeOK
  <1>2. /\ actors'[p] = b /\ \A q \in Actors \ {p} : actors'[q] = actors[q]
        /\ actors' = [actors EXCEPT ![p] = b]
    BY DEF CommitSucceeds, Become, CriticalSectionInv, TypeOK
  <1>3. /\ n \in 1..object.lease.sequence
        /\ minted[n].owner_epoch = a.owner_epoch
        /\ a.candidate.holder # None =>
             /\ minted[n] = Mint(a.owner_epoch, a.candidate)
             /\ object.lease = a.candidate \/ a.candidate.expires_at <= clock
        /\ a.owner_epoch = owner =>
             /\ object.lease = a.candidate
             /\ object.version = a.version + 1
    BY <1>1 DEF CriticalSectionInv, AppliedStands
  <1>4. /\ a.version + 1 <= object.version /\ a.version \in Nat
        /\ a.version + 1 \in 0..MaxVersion
        /\ object.lease \in Lease
        /\ n \in Sequences /\ a.candidate \in Lease
        /\ a.owner_epoch \in 1..owner /\ a.owner_epoch \in 1..MaxOwner
        /\ a.runtime_epoch \in RuntimeEpochs
    <2>1. /\ object.version \in 0..MaxVersion /\ object.lease \in Lease
          /\ owner \in 0..MaxOwner
      BY DEF CriticalSectionInv, TypeOK
    <2>2. /\ a.version \in 0..MaxVersion /\ a.candidate \in Lease
          /\ object.lease.sequence \in 0..MaxSequence
      BY <1>1, <2>1 DEF Actor, Lease
    <2>3. /\ a.version < object.version
          /\ a.owner_epoch \in 1..owner /\ a.runtime_epoch \in RuntimeEpochs
      BY <1>1
      DEF CriticalSectionInv, VersionsBehind, OwnersDistinct, Up, Loaded
    <2> HIDE DEF a, n
    <2> QED
      BY <1>3, <2>1, <2>2, <2>3, CriticalSectionAssumption DEF Sequences
  <1>5. NoCandidate \in Lease
    BY FreeType, CriticalSectionAssumption DEF NoCandidate
  <1>6. /\ b \in Actor /\ b.status = "ready" /\ b.version = a.version + 1
        /\ b.lease = a.candidate /\ b.inherited = FALSE
        /\ b.owner_epoch = a.owner_epoch /\ b.runtime_epoch = a.runtime_epoch
    BY <1>1, <1>4, <1>5 DEF Actor, Statuses
  <1>7. IF a.candidate.holder = None
        THEN told' = [told EXCEPT ![n] = 0] /\ issued' = issued
        ELSE Grant(a, a.candidate)
    BY DEF CommitSucceeds
  <1>8. TokenOf(b) = [TokenOf(a) EXCEPT !.sequence = n]
    BY <1>6 DEF TokenOf
  <1> HIDE DEF a, n, b, g
  <1>9. /\ issued' \subseteq Grants /\ told' \in [Sequences -> Nat]
    <2>1. CASE a.candidate.holder = None
      BY <1>1, <1>7, <2>1
    <2>2. CASE a.candidate.holder # None
      <3>1. a.candidate.sequence \in Sequences
        BY <1>4 DEF n
      <3>2. TypeOK
        BY DEF CriticalSectionInv
      <3> QED
        BY <1>1, <1>4, <1>7, <2>2, <3>1, <3>2, GrantType
    <2> QED
      BY <2>1, <2>2
  <1>10. /\ issued' = issued \/ (issued' = issued \cup {g} /\ a.candidate.holder # None)
         /\ a.candidate.holder # None =>
              g \in issued' /\ told'[n] = a.candidate.expires_at
         /\ a.candidate.holder = None => told'[n] = 0
         /\ issued \subseteq issued'
         /\ \A m \in Sequences \ {n} : told'[m] = told[m]
    BY <1>1, <1>4, <1>7 DEF Grant, g, n
  <1>11. TypeOK'
    BY <1>1, <1>2, <1>6, <1>9 DEF CriticalSectionInv, TypeOK
  <1>12. OwnersDistinct'
    BY <1>1, <1>2, <1>6 DEF CriticalSectionInv, OwnersDistinct, Up, a
  <1>13. VersionsBehind'
    BY <1>1, <1>2, <1>4, <1>6 DEF CriticalSectionInv, VersionsBehind, Loaded
  <1>14. CommitsSafe'
    BY <1>1, <1>2, <1>6
    DEF CriticalSectionInv, CommitsSafe, SafeCommit, Accepts, Legal,
        Available, RequestOf
  <1>15. LateBehind'
    <2>1. Loaded(p)
      BY <1>1 DEF Loaded, a
    <2>2. \A c \in late : c.version \in Nat
      BY CriticalSectionAssumption DEF CriticalSectionInv, TypeOK, Commit
    <2>3. \A c \in late : a.owner_epoch = c.owner_epoch
            => c.version <= a.version
      BY <2>1 DEF CriticalSectionInv, LateBehind, a
    <2>4. \A c \in late : a.owner_epoch = c.owner_epoch
            => c.version <= a.version + 1
      BY <1>4, <2>2, <2>3
    <2> QED
      BY <1>1, <1>2, <1>6, <2>4 DEF CriticalSectionInv, LateBehind, Loaded
  <1>16. DurableMinted'
    BY <1>1 DEF CriticalSectionInv, DurableMinted
  <1>17. AppliedStands'
    BY <1>1, <1>2, <1>6 DEF CriticalSectionInv, AppliedStands
  <1>18. CachedGrant'
    <2> SUFFICES ASSUME NEW q \in Actors, Loaded(q)', Serves(actors[q])'
                 PROVE  /\ actors'[q].lease.sequence \in 1..object.lease.sequence
                        /\ minted[actors'[q].lease.sequence]
                             = Mint(actors'[q].owner_epoch, actors'[q].lease)
                        /\ told'[actors'[q].lease.sequence]
                             = actors'[q].lease.expires_at
                        /\ [token |-> TokenOf(actors'[q]),
                            holder |-> actors'[q].lease.holder,
                            request_id |-> actors'[q].lease.request_id] \in issued'
      BY <1>1 DEF CachedGrant, Mint, TokenOf
    <2>1. CASE q = p
      <3>1. a.candidate.holder # None
        BY <1>2, <1>6, <2>1 DEF Serves
      <3> QED
        BY <1>2, <1>3, <1>6, <1>8, <1>10, <2>1, <3>1 DEF g, n, Mint
    <2>2. CASE q # p
      <3>1. actors'[q] = actors[q] /\ Loaded(q) /\ Serves(actors[q])
        BY <1>1, <1>2, <2>2 DEF Serves, Loaded
      <3>2. /\ actors[q].lease.sequence \in 1..object.lease.sequence
            /\ minted[actors[q].lease.sequence]
                 = Mint(actors[q].owner_epoch, actors[q].lease)
            /\ told[actors[q].lease.sequence] = actors[q].lease.expires_at
            /\ [token |-> TokenOf(actors[q]), holder |-> actors[q].lease.holder,
                request_id |-> actors[q].lease.request_id] \in issued
        BY <3>1 DEF CriticalSectionInv, CachedGrant
      <3>3. actors[q].lease.sequence # n
        <4>1. actors[q].owner_epoch # a.owner_epoch
          BY <1>1, <2>2, <3>1
          DEF CriticalSectionInv, OwnersDistinct, Up, Loaded, a
        <4> QED
          BY <1>3, <3>2, <4>1 DEF Mint
      <3>4. actors[q].lease.sequence \in Sequences
        BY <1>4, <3>2, CriticalSectionAssumption DEF Sequences, Lease
      <3> QED
        BY <1>10, <3>1, <3>2, <3>3, <3>4
    <2> QED
      BY <2>1, <2>2
  <1>19. CurrentCacheAgrees'
    <2>1. a.owner_epoch = owner => object.lease = a.candidate
      BY <1>3
    <2> QED
      BY <1>1, <1>2, <1>6, <2>1
      DEF CriticalSectionInv, CurrentCacheAgrees, Current, Agrees, Available
  <1>20. IssuedMinted'
    <2>1. a.candidate.holder # None =>
            /\ g.token.sequence <= object.lease.sequence
            /\ minted[g.token.sequence] = Mint(g.token.owner_epoch, g)
      <3>1. /\ g.token.sequence = n /\ g.token.owner_epoch = a.owner_epoch
            /\ g.holder = a.candidate.holder
            /\ g.request_id = a.candidate.request_id
        BY DEF g, TokenOf
      <3> QED
        BY <1>3, <3>1 DEF Mint
    <2> QED
      BY <1>1, <1>10, <2>1 DEF CriticalSectionInv, IssuedMinted, Mint
  <1>21. ToldBelow'
    BY <1>1, <1>3, <1>10 DEF CriticalSectionInv, ToldBelow
  <1>22. LiveGrantIsDurable'
    <2> SUFFICES ASSUME NEW m \in Sequences, Live(m)'
                 PROVE  /\ object.lease.sequence = m
                        /\ object.lease.holder # None
                        /\ object.lease.expires_at = told'[m]
      BY <1>1 DEF LiveGrantIsDurable
    <2>1. CASE m = n
      <3>1. a.candidate.holder # None /\ a.candidate.expires_at > clock
        BY <1>1, <1>10, <2>1 DEF Live
      <3>2. object.lease = a.candidate
        BY <1>1, <1>3, <1>4, <3>1 DEF Lease
      <3> QED
        BY <1>10, <2>1, <3>1, <3>2 DEF n
    <2>2. CASE m # n
      <3>1. InDoubt(m) => InDoubt(m)'
        BY <1>1, <1>2, <1>6, <2>2 DEF InDoubt, a, n
      <3>2. Live(m)
        BY <1>1, <1>10, <2>2, <3>1 DEF Live
      <3> QED
        BY <1>10, <2>2, <3>2 DEF CriticalSectionInv, LiveGrantIsDurable
    <2> QED
      BY <2>1, <2>2
  <1> QED
    BY <1>11, <1>12, <1>13, <1>14, <1>15, <1>16, <1>17, <1>18, <1>19, <1>20,
       <1>21, <1>22
    DEF CriticalSectionInv

-----------------------------------------------------------------------------
(* Time.                                                                   *)

LEMMA TickInv ==
  ASSUME CriticalSectionInv, Tick
  PROVE  CriticalSectionInv'
  <1>1. /\ UNCHANGED <<owner, object, minted, actors, late, issued, told, lost>>
        /\ clock' = clock + 1 /\ clock \in Nat /\ clock' \in 0..MaxTime
    BY CriticalSectionAssumption
    DEF Tick, storeVars, clientVars, CriticalSectionInv, TypeOK
  <1>2. \A l \in Lease : l.expires_at <= clock => l.expires_at <= clock'
    BY <1>1 DEF Lease
  <1>3. object.lease \in Lease /\ \A q \in Actors : actors[q] \in Actor
    BY DEF CriticalSectionInv, TypeOK
  <1>4. Available(object.lease) => Available(object.lease)'
    BY <1>1, <1>2, <1>3 DEF Available
  <1>5. TypeOK' /\ OwnersDistinct' /\ VersionsBehind' /\ LateBehind'
    BY <1>1
    DEF CriticalSectionInv, TypeOK, OwnersDistinct, Up, VersionsBehind,
        LateBehind, Loaded
  <1>6. CommitsSafe'
    BY <1>1, <1>4
    DEF CriticalSectionInv, CommitsSafe, SafeCommit, Accepts, Legal, RequestOf
  <1>7. DurableMinted' /\ IssuedMinted' /\ ToldBelow'
    BY <1>1 DEF CriticalSectionInv, DurableMinted, IssuedMinted, ToldBelow
  <1>8. AppliedStands'
    <2>1. \A q \in Actors : actors[q].candidate.expires_at <= clock
            => actors[q].candidate.expires_at <= clock'
      BY <1>2, <1>3 DEF Actor
    <2> QED
      BY <1>1, <2>1 DEF CriticalSectionInv, AppliedStands
  <1>9. CachedGrant'
    <2>1. \A q \in Actors : Serves(actors[q])' => Serves(actors[q])
      BY <1>1, <1>3 DEF Serves, Actor, Lease
    <2> QED
      BY <1>1, <2>1 DEF CriticalSectionInv, CachedGrant, Loaded, TokenOf, Mint
  <1>10. CurrentCacheAgrees'
    BY <1>1, <1>4 DEF CriticalSectionInv, CurrentCacheAgrees, Current, Agrees
  <1>11. LiveGrantIsDurable'
    <2>1. \A m \in Sequences : told[m] > clock' => told[m] > clock
      BY <1>1 DEF CriticalSectionInv, TypeOK
    <2> QED
      BY <1>1, <2>1 DEF CriticalSectionInv, LiveGrantIsDurable, Live, InDoubt
  <1> QED
    BY <1>5, <1>6, <1>7, <1>8, <1>9, <1>10, <1>11 DEF CriticalSectionInv

-----------------------------------------------------------------------------
LEMMA InitInv == Init => CriticalSectionInv
  <1> SUFFICES ASSUME Init PROVE CriticalSectionInv
    OBVIOUS
  <1>1. Free(0) \in Lease /\ Down \in Actor /\ \A q \in Actors : actors[q] = Down
    BY FreeType, DownType, CriticalSectionAssumption DEF Init
  <1>2. Mint(0, Free(0)) \in [owner_epoch : 0..MaxOwner,
                              holder : Holders \cup {None},
                              request_id : Requests \cup {None}]
    BY CriticalSectionAssumption DEF Mint, Free
  <1>3. TypeOK
    BY <1>1, <1>2, CriticalSectionAssumption DEF Init, TypeOK
  <1>4. \A q \in Actors : actors[q].status = "down"
    BY <1>1 DEF Down
  <1>5. /\ OwnersDistinct /\ VersionsBehind /\ CommitsSafe /\ LateBehind
        /\ AppliedStands /\ CachedGrant /\ CurrentCacheAgrees
    BY <1>4
    DEF Init, OwnersDistinct, VersionsBehind, CommitsSafe, LateBehind,
        AppliedStands, CachedGrant, CurrentCacheAgrees, Up, Loaded
  <1>6. DurableMinted /\ IssuedMinted /\ ToldBelow /\ LiveGrantIsDurable
    BY DEF Init, DurableMinted, IssuedMinted, ToldBelow, LiveGrantIsDurable,
           Live, Free
  <1> QED
    BY <1>3, <1>5, <1>6 DEF CriticalSectionInv

LEMMA CallInv ==
  ASSUME CriticalSectionInv, NEW p \in Actors, Call(p)
  PROVE  CriticalSectionInv'
  BY AcquireInv, RenewInv, ReleaseInv, StatusInv DEF Call

LEMMA NextInv ==
  ASSUME CriticalSectionInv, [Next]_vars
  PROVE  CriticalSectionInv'
  <1>1. ASSUME NEW p \in Actors, Step(p) PROVE CriticalSectionInv'
    BY <1>1, ClaimOwnerInv, LoadInv, CallInv, StoreCommitInv,
       CommitSucceedsInv, CommitFailsInv, CommitOutcomeLostInv, StopInv
    DEF Step
  <1>2. ASSUME NEW commit \in late, LateCommit(commit)
        PROVE  CriticalSectionInv'
    BY <1>2, LateCommitInv
  <1>3. CASE Tick
    BY <1>3, TickInv
  <1>4. CASE UNCHANGED vars
    <2>1. UNCHANGED <<clock, owner, object, actors, late, minted, issued, told,
                      lost>>
      BY <1>4 DEF vars
    <2>2. TypeOK' /\ OwnersDistinct' /\ VersionsBehind' /\ LateBehind'
      BY <2>1
      DEF CriticalSectionInv, TypeOK, OwnersDistinct, Up, VersionsBehind,
          LateBehind, Loaded
    <2>3. CommitsSafe' /\ DurableMinted' /\ AppliedStands'
      BY <2>1
      DEF CriticalSectionInv, CommitsSafe, SafeCommit, Accepts, Legal,
          Available, RequestOf, DurableMinted, AppliedStands
    <2>4. CachedGrant' /\ CurrentCacheAgrees'
      BY <2>1
      DEF CriticalSectionInv, CachedGrant, Loaded, Serves, TokenOf, Mint,
          CurrentCacheAgrees, Current, Agrees, Available
    <2>5. IssuedMinted' /\ ToldBelow' /\ LiveGrantIsDurable'
      BY <2>1
      DEF CriticalSectionInv, IssuedMinted, ToldBelow, LiveGrantIsDurable,
          Live, InDoubt
    <2> QED
      BY <2>2, <2>3, <2>4, <2>5 DEF CriticalSectionInv
  <1> QED
    BY <1>1, <1>2, <1>3, <1>4 DEF Next

\* Caches, requests in flight, the durable record and the replies always tell
\* one story, whatever interleaving of actors, store and lost answers occurs.
THEOREM InvariantHolds == Spec => []CriticalSectionInv
  <1>1. Init => CriticalSectionInv
    BY InitInv
  <1>2. CriticalSectionInv /\ [Next]_vars => CriticalSectionInv'
    BY NextInv
  <1> QED
    BY <1>1, <1>2, PTL DEF Spec

\* Every variable keeps its type: the fence never passes MAX_FENCING_SEQUENCE.
THEOREM TypesHold == Spec => []TypeOK
  <1>1. CriticalSectionInv => TypeOK
    BY DEF CriticalSectionInv
  <1> QED
    BY <1>1, InvariantHolds, PTL

\* Two grants with one fencing sequence are the same lease of the same owner.
THEOREM FencesAreUnique == Spec => []OneLeasePerSequence
  <1>1. CriticalSectionInv => OneLeasePerSequence
    <2> SUFFICES ASSUME CriticalSectionInv, NEW g \in issued, NEW h \in issued,
                        g.token.sequence = h.token.sequence
                 PROVE  /\ g.holder = h.holder
                        /\ g.request_id = h.request_id
                        /\ g.token.owner_epoch = h.token.owner_epoch
      BY DEF OneLeasePerSequence
    <2>1. Mint(g.token.owner_epoch, g) = Mint(h.token.owner_epoch, h)
      BY DEF CriticalSectionInv, IssuedMinted
    <2> QED
      BY <2>1 DEF Mint
  <1> QED
    BY <1>1, InvariantHolds, PTL

\* A live lease that is not in doubt is the durable lease.
THEOREM LiveGrantsAreDurable == Spec => []LiveGrantIsDurable
  <1>1. CriticalSectionInv => LiveGrantIsDurable
    BY DEF CriticalSectionInv
  <1> QED
    BY <1>1, InvariantHolds, PTL

\* An actor with the current owner epoch and version caches the record.
THEOREM CachesAgree == Spec => []CurrentCacheAgrees
  <1>1. CriticalSectionInv => CurrentCacheAgrees
    BY DEF CriticalSectionInv
  <1> QED
    BY <1>1, InvariantHolds, PTL

\* Mutual exclusion of lease holders, save for the outcome nobody learned.
THEOREM MutualExclusion == Spec => []ExclusiveUnlessInDoubt
  <1>1. CriticalSectionInv => ExclusiveUnlessInDoubt
    <2> SUFFICES ASSUME CriticalSectionInv,
                        NEW m \in Sequences, NEW n \in Sequences,
                        Live(m), told[n] > clock, m < n
                 PROVE  FALSE
      BY DEF ExclusiveUnlessInDoubt
    <2>1. object.lease.sequence = m
      BY DEF CriticalSectionInv, LiveGrantIsDurable
    <2>2. told[n] # 0
      BY DEF CriticalSectionInv, TypeOK
    <2>3. n <= object.lease.sequence
      BY <2>2 DEF CriticalSectionInv, ToldBelow
    <2> QED
      BY <2>1, <2>3 DEF Sequences
  <1> QED
    BY <1>1, InvariantHolds, PTL

-----------------------------------------------------------------------------
(* Replay.                                                                 *)

LEMMA AcquireReplies ==
  ASSUME CriticalSectionInv, NEW p \in Actors, NEW h, NEW r, NEW d,
         Acquire(p, h, r, d)
  PROVE  UNCHANGED clientVars
  <1>1. CASE AcquireFree(p, h, r, d)
    BY <1>1 DEF AcquireFree, Keep, Persist
  <1>2. CASE AcquireHeld(p, h, r)
    BY <1>2, ReplayRepeats DEF Acquire, AcquireHeld, Keep
  <1> QED
    BY <1>1, <1>2 DEF Acquire

\* What the holders know changes with the answer to a commit and in no other
\* step: a replay repeats a grant with its fence and its expiry.
THEOREM ReplayIsIdempotent == Spec => ReplayAddsNothing
  <1> DEFINE Answered == \E p \in Actors : /\ actors[p].status = "applied"
                                           /\ actors'[p].status = "ready"
  <1>1. ASSUME CriticalSectionInv, [Next]_vars
        PROVE  [clientVars' # clientVars => Answered]_vars
    <2>1. ASSUME NEW p \in Actors, Step(p)
          PROVE  clientVars' # clientVars => Answered
      <3>1. CASE CommitSucceeds(p)
        <4>1. actors[p] \in Actor /\ actors \in [Actors -> Actor]
          BY <1>1 DEF CriticalSectionInv, TypeOK
        <4>2. actors[p].status = "applied" /\ actors'[p].status = "ready"
          BY <3>1, <4>1 DEF CommitSucceeds, Become, Actor
        <4> QED
          BY <4>2
      <3>2. CASE Call(p)
        BY <1>1, <3>2, AcquireReplies
        DEF Call, Renew, Release, Status, Keep, Persist
      <3>3. CASE ~CommitSucceeds(p) /\ ~Call(p)
        BY <2>1, <3>3
        DEF Step, ClaimOwner, Load, StoreCommit, CommitFails,
            CommitOutcomeLost, Stop
      <3> QED
        BY <3>1, <3>2, <3>3
    <2>2. CASE \E commit \in late : LateCommit(commit)
      BY <2>2 DEF LateCommit
    <2>3. CASE Tick
      BY <2>3 DEF Tick
    <2> QED
      BY <1>1, <2>1, <2>2, <2>3 DEF Next
  <1> QED
    BY <1>1, InvariantHolds, PTL DEF Spec, ReplayAddsNothing

-----------------------------------------------------------------------------
(* Refinement: the durable record implements FencedLease.                  *)

\* A commit the store applies is a Mint, an Extend or a GiveUp.
LEMMA WriteRefines ==
  ASSUME CriticalSectionInv, NEW c \in Commit, SafeCommit(c), Accepts(c),
         Write(c), UNCHANGED <<clock, owner>>
  PROVE  Durable!LeaseNext
  <1>1. /\ c.owner_epoch = owner /\ c.lease \in Lease /\ Legal(c.lease)
        /\ object'.lease = c.lease
        /\ object.lease \in Lease
    BY DEF SafeCommit, Accepts, Write, Commit, CriticalSectionInv, TypeOK
  <1>2. CASE /\ c.lease.sequence = object.lease.sequence + 1
             /\ c.lease.holder \in Holders
             /\ Available(object.lease)
    <2>1. /\ object.lease.sequence \in Nat
          /\ object.lease.sequence + 1 \in 0..MaxSequence
          /\ c.lease.sequence # object.lease.sequence
      BY <1>1, <1>2, CriticalSectionAssumption DEF Lease
    <2>2. minted'[c.lease.sequence] = Mint(owner, c.lease)
      BY <1>1, <2>1, <1>2
      DEF Write, CriticalSectionInv, TypeOK
    <2>3. minted'[object'.lease.sequence].owner_epoch = owner
      BY <1>1, <2>2 DEF Mint
    <2>4. object'.lease \in [sequence : {object.lease.sequence + 1},
                             holder : Holders,
                             request_id : Requests \cup {None},
                             expires_at : Nat]
      BY <1>1, <1>2 DEF Lease
    <2>5. object.lease.sequence < MaxSequence
      BY <2>1, CriticalSectionAssumption
    <2>6. Durable!Mint
      BY <1>2, <2>3, <2>4, <2>5 DEF Durable!Mint, Available
    <2> QED
      BY <2>6 DEF Durable!LeaseNext
  <1>3. CASE /\ c.lease.sequence = object.lease.sequence
             /\ object.lease.holder # None
             /\ minted[object.lease.sequence].owner_epoch = owner
             /\ \/ c.lease = Free(c.lease.sequence)
                \/ /\ c.lease.holder = object.lease.holder
                   /\ c.lease.request_id = object.lease.request_id
    <2>1. minted' = minted
      BY <1>3 DEF Write
    <2>2. UNCHANGED minted[object.lease.sequence].owner_epoch
      BY <1>1, <1>3, <2>1
    <2>3. CASE c.lease = Free(c.lease.sequence)
      <3>1. object'.lease = Durable!Unheld(object.lease.sequence)
        BY <1>1, <1>3, <2>3 DEF Free, Durable!Unheld
      <3> QED
        BY <1>3, <2>2, <3>1 DEF Durable!GiveUp, Durable!LeaseNext
    <2>4. CASE /\ c.lease.holder = object.lease.holder
               /\ c.lease.request_id = object.lease.request_id
      <3>1. object'.lease \in [sequence : {object.lease.sequence},
                               holder : {object.lease.holder},
                               request_id : {object.lease.request_id},
                               expires_at : Nat]
        BY <1>1, <1>3, <2>4 DEF Lease
      <3> QED
        BY <1>3, <2>2, <3>1 DEF Durable!Extend, Durable!LeaseNext
    <2> QED
      BY <1>3, <2>3, <2>4
  <1> QED
    BY <1>1, <1>2, <1>3 DEF Legal

LEMMA NextRefines ==
  ASSUME CriticalSectionInv, [Next]_vars
  PROVE  [Durable!LeaseNext]_(Durable!leaseVars)
  <1>1. ASSUME NEW p \in Actors, Step(p)
        PROVE  [Durable!LeaseNext]_(Durable!leaseVars)
    <2>1. CASE \E epoch \in RuntimeEpochs : ClaimOwner(p, epoch)
      <3>1. Durable!Failover
        BY <2>1 DEF ClaimOwner, Durable!Failover
      <3> QED
        BY <3>1 DEF Durable!LeaseNext
    <2>2. CASE StoreCommit(p) /\ Accepts(RequestOf(actors[p]))
      <3>1. actors[p] \in Actor /\ actors[p].status = "committing"
        BY <2>2 DEF StoreCommit, CriticalSectionInv, TypeOK
      <3>2. RequestOf(actors[p]) \in Commit /\ SafeCommit(RequestOf(actors[p]))
        BY <3>1 DEF RequestOf, Actor, Commit, CriticalSectionInv, CommitsSafe
      <3>3. Write(RequestOf(actors[p])) /\ UNCHANGED <<clock, owner>>
        BY <2>2 DEF StoreCommit
      <3>4. Durable!LeaseNext
        BY <2>2, <3>2, <3>3, WriteRefines
      <3> QED
        BY <3>4
    <2>3. CASE \/ Load(p) \/ Call(p) \/ CommitSucceeds(p) \/ CommitFails(p)
               \/ CommitOutcomeLost(p) \/ Stop(p)
               \/ StoreCommit(p) /\ ~Accepts(RequestOf(actors[p]))
      <3>1. UNCHANGED <<clock, owner, object, minted>>
        BY <2>3
        DEF Load, Call, Acquire, Renew, Release, Status, CommitSucceeds,
            CommitFails, CommitOutcomeLost, Stop, StoreCommit, storeVars
      <3> QED
        BY <3>1 DEF Durable!leaseVars
    <2> QED
      BY <1>1, <2>1, <2>2, <2>3 DEF Step
  <1>2. ASSUME NEW c \in late, LateCommit(c)
        PROVE  [Durable!LeaseNext]_(Durable!leaseVars)
    <2>1. c \in Commit /\ SafeCommit(c)
      BY DEF CriticalSectionInv, TypeOK, CommitsSafe
    <2>2. CASE Accepts(c)
      <3>1. Durable!LeaseNext
        BY <1>2, <2>1, <2>2, WriteRefines DEF LateCommit
      <3> QED
        BY <3>1
    <2>3. CASE ~Accepts(c)
      BY <1>2, <2>3 DEF LateCommit, Durable!leaseVars
    <2> QED
      BY <2>2, <2>3
  <1>3. CASE Tick
    <2>1. /\ UNCHANGED <<owner, object, minted>> /\ clock \in Nat
          /\ clock' = clock + 1
      BY <1>3 DEF Tick, storeVars, CriticalSectionInv, TypeOK
    <2>2. Durable!TimePasses
      BY <2>1 DEF Durable!TimePasses
    <2> QED
      BY <2>2 DEF Durable!LeaseNext
  <1>4. CASE UNCHANGED vars
    BY <1>4 DEF vars, Durable!leaseVars
  <1> QED
    BY <1>1, <1>2, <1>3, <1>4 DEF Next

\* The durable record behaves like one fenced lease: whatever the actors do,
\* every change of it is a mint over an available lease, an extension or a
\* release by the owner epoch that minted it, or a failover.
THEOREM RecordRefinesFencedLease == Spec => ImplementsFencedLease
  <1>1. Init => Durable!LeaseInit
    BY CriticalSectionAssumption
    DEF Init, Durable!LeaseInit, Durable!Unheld, Free, Mint
  <1>2. CriticalSectionInv /\ [Next]_vars
          => [Durable!LeaseNext]_(Durable!leaseVars)
    BY NextRefines
  <1> QED
    BY <1>1, <1>2, InvariantHolds, PTL
    DEF Spec, ImplementsFencedLease, Durable!LeaseSpec

-----------------------------------------------------------------------------
(* The actors claim owner epochs.                                          *)

\* An actor that runs on keeps its epoch, one that ends gives it up.
LEMMA KeepsEpochs ==
  ASSUME CriticalSectionInv, owner' = owner,
         \A q \in Actors : EpochOf(q)' \in {EpochOf(q), 0}
  PROVE  Claims!ClaimsNext
  <1>1. \A q \in Actors : EpochOf(q) \in 0..owner /\ owner \in Nat
    BY CriticalSectionAssumption
    DEF EpochOf, CriticalSectionInv, OwnersDistinct, TypeOK
  <1>2. \A q \in Actors : EpochOf(q)' # owner + 1
    BY <1>1
  <1> QED
    BY <1>2 DEF Claims!ClaimsNext

LEMMA BecomeKeepsEpochs ==
  ASSUME CriticalSectionInv, owner' = owner, NEW p \in Actors, NEW a, Become(p, a),
         a.status = "down" \/ (Up(p) /\ a.owner_epoch = actors[p].owner_epoch)
  PROVE  Claims!ClaimsNext
  <1>1. actors'[p] = a /\ \A q \in Actors \ {p} : actors'[q] = actors[q]
    BY DEF Become, CriticalSectionInv, TypeOK
  <1>2. \A q \in Actors : EpochOf(q)' \in {EpochOf(q), 0}
    BY <1>1 DEF EpochOf, Up
  <1> QED
    BY <1>2, KeepsEpochs

\* No reply and no commit changes the owner epoch of an actor.
LEMMA CallKeepsEpochs ==
  ASSUME CriticalSectionInv, NEW p \in Actors, Call(p)
  PROVE  Claims!ClaimsNext
  <1>1. /\ actors[p] \in Actor /\ clock \in Nat
        /\ Up(p) /\ owner' = owner
    <2>1. actors[p] \in Actor /\ clock \in Nat
      BY CriticalSectionAssumption DEF CriticalSectionInv, TypeOK
    <2>2. actors[p].status = "ready" /\ owner' = owner
      BY DEF Call, Acquire, Renew, Release, Status, storeVars
    <2> QED
      BY <2>1, <2>2 DEF Up
  <1>2. Expire(actors[p]).owner_epoch = actors[p].owner_epoch
    BY <1>1, ExpireFacts
  <1>3. CASE Become(p, Expire(actors[p]))
    BY <1>1, <1>2, <1>3, BecomeKeepsEpochs
  <1>4. ASSUME NEW candidate, Persist(p, candidate)
        PROVE  Claims!ClaimsNext
    <2> DEFINE a == [actors[p] EXCEPT !.status = "committing", !.candidate = candidate]
    <2>1. a.owner_epoch = actors[p].owner_epoch /\ Become(p, a)
      BY <1>1, <1>4 DEF Persist, Actor
    <2> QED
      BY <1>1, <2>1, BecomeKeepsEpochs
  <1> QED
    BY <1>3, <1>4
    DEF Call, Acquire, AcquireFree, AcquireHeld, Renew, Release, Status, Keep

LEMMA StepClaims ==
  ASSUME CriticalSectionInv, NEW p \in Actors, Step(p)
  PROVE  Claims!ClaimsNext
  <1>1. actors[p] \in Actor /\ owner \in Nat /\ actors \in [Actors -> Actor]
    BY CriticalSectionAssumption DEF CriticalSectionInv, TypeOK
  <1>2. ASSUME NEW epoch \in RuntimeEpochs, ClaimOwner(p, epoch)
        PROVE  Claims!ClaimsNext
    <2>1. /\ EpochOf(p) = 0 /\ EpochOf(p)' = owner + 1 /\ owner' = owner + 1
          /\ \A q \in Actors \ {p} : EpochOf(q)' = EpochOf(q)
      BY <1>1, <1>2 DEF ClaimOwner, Become, Down, EpochOf, Up
    <2>2. \A q \in Actors \ {p} : EpochOf(q)' # owner + 1
      BY <1>1, <2>1 DEF EpochOf, CriticalSectionInv, OwnersDistinct
    <2> QED
      BY <2>1, <2>2 DEF Claims!ClaimsNext
  <1>3. CASE Call(p)
    BY <1>3, CallKeepsEpochs
  <1>4. CASE Stop(p)
    BY <1>4, BecomeKeepsEpochs DEF Stop, Down, storeVars
  <1>5. CASE Load(p)
    <2>1. [actors[p] EXCEPT !.status = "ready", !.version = object.version,
             !.lease = object.lease,
             !.inherited = ~Available(object.lease)].owner_epoch = actors[p].owner_epoch
      BY <1>1 DEF Actor
    <2> QED
      BY <1>5, <2>1, BecomeKeepsEpochs DEF Load, storeVars, Up
  <1>6. CASE StoreCommit(p)
    <2>1. \A s : [actors[p] EXCEPT !.status = s].owner_epoch = actors[p].owner_epoch
      BY <1>1 DEF Actor
    <2>2. owner' = owner /\ Up(p)
      BY <1>6 DEF StoreCommit, Up
    <2>3. PICK s \in {"applied", "refused"} : Become(p, [actors[p] EXCEPT !.status = s])
      BY <1>6 DEF StoreCommit
    <2> QED
      BY <2>1, <2>2, <2>3, BecomeKeepsEpochs
  <1>7. CASE CommitSucceeds(p)
    <2>1. [actors[p] EXCEPT !.status = "ready", !.version = actors[p].version + 1,
             !.lease = actors[p].candidate, !.inherited = FALSE,
             !.candidate = NoCandidate].owner_epoch = actors[p].owner_epoch
      BY <1>1 DEF Actor
    <2> QED
      BY <1>7, <2>1, BecomeKeepsEpochs DEF CommitSucceeds, storeVars, Up
  <1>8. CASE CommitFails(p) \/ CommitOutcomeLost(p)
    <2>1. [actors[p] EXCEPT !.status = "ready",
             !.candidate = NoCandidate].owner_epoch = actors[p].owner_epoch
      BY <1>1 DEF Actor
    <2> QED
      BY <1>8, <2>1, BecomeKeepsEpochs DEF CommitFails, CommitOutcomeLost, storeVars, Up
  <1> QED
    BY <1>2, <1>3, <1>4, <1>5, <1>6, <1>7, <1>8 DEF Step

\* The actors of one scope implement the allocation of its owner epochs, as the
\* processes of a registry do for each of its keys.
THEOREM ActorsClaimEpochs == Spec => ImplementsOwnerEpochs
  <1>1. Init => Claims!ClaimsInit
    BY DEF Init, Claims!ClaimsInit, EpochOf, Up, Down
  <1>2. CriticalSectionInv /\ [Next]_vars
          => [Claims!ClaimsNext]_<<owner, [p \in Actors |-> EpochOf(p)]>>
    <2> SUFFICES ASSUME CriticalSectionInv, Next \/ UNCHANGED vars
                 PROVE  Claims!ClaimsNext
      OBVIOUS
    <2>1. CASE (\E commit \in late : LateCommit(commit)) \/ Tick \/ UNCHANGED vars
      BY <2>1, KeepsEpochs DEF LateCommit, Tick, storeVars, vars, EpochOf, Up
    <2> QED
      BY <2>1, StepClaims DEF Next
  <1> QED
    BY <1>1, <1>2, InvariantHolds, PTL DEF Spec, ImplementsOwnerEpochs, Claims!ClaimsSpec
=============================================================================
