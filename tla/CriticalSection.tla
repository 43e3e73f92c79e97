--------------------------- MODULE CriticalSection ---------------------------
(***************************************************************************)
(* One BeamScale critical section: the durable record of its lease, the    *)
(* owner epoch that fences writers of that record, and the actor processes *)
(* that claim ownership, cache the record and serve acquire, renew and     *)
(* release.  Several actors may be alive at once: one per virtual machine  *)
(* that still runs, and the orphans a crashed registry leaves behind.      *)
(*                                                                         *)
(* Sources: supervisor/src/bmscl_critical_section_actor.erl and            *)
(* bmscl_critical_section_store.erl; the store behind the behaviour of     *)
(* bmscl_durable_store.erl is the contract that file states.               *)
(*                                                                         *)
(* A commit is three steps: the actor sends it, the store decides it, the  *)
(* actor reads the answer.  The answer can be lost, and a request its      *)
(* caller gave up on can still reach the store later.                      *)
(***************************************************************************)
EXTENDS Naturals, FiniteSets

CONSTANTS
  Actors,         \* process identifiers an actor can run under
  Holders,        \* lease holders
  Requests,       \* acquire request ids; None stands for undefined
  RuntimeEpochs,  \* runtime epochs an actor can be started with
  Leases,         \* lease durations a caller can ask for
  None,           \* undefined
  MaxSequence,    \* MAX_FENCING_SEQUENCE
  MaxTime,        \* bound on the wall clock
  MaxOwner,       \* bound on owner epochs
  MaxVersion,     \* bound on versions of the durable record
  MaxLate         \* bound on abandoned commits still in flight

ASSUME CriticalSectionAssumption ==
  /\ None \notin Holders
  /\ None \notin Requests
  /\ RuntimeEpochs \subseteq Nat \ {0}
  /\ Leases \subseteq Nat \ {0}
  /\ MaxSequence \in Nat \ {0}
  /\ MaxTime \in Nat
  /\ MaxOwner \in Nat
  /\ MaxVersion \in Nat
  /\ MaxLate \in Nat

VARIABLES
  clock,       \* erlang:system_time(millisecond), shared by every node
  owner,       \* current owner epoch of the scope, in the durable store
  object,      \* durable object: its version and the encoded lease
  actors,      \* the actor processes
  late,        \* commits whose caller gave up, not yet seen by the store
  minted,      \* history: owner epoch, holder and request of each sequence
  issued,      \* history: leases some reply granted
  told,        \* history: expiry last told to the holder of each sequence
  lost         \* history: sequences with a commit of unknown outcome

storeVars == <<owner, object, minted>>
clientVars == <<issued, told>>
vars == <<clock, owner, object, actors, late, minted, issued, told, lost>>

Sequences == 1..MaxSequence

Lease == [sequence : 0..MaxSequence, holder : Holders \cup {None},
          request_id : Requests \cup {None}, expires_at : Nat]

Free(sequence) == [sequence |-> sequence, holder |-> None,
                   request_id |-> None, expires_at |-> 0]

\* The lease is held by nobody at the current time.
Available(lease) == lease.holder = None \/ lease.expires_at <= clock

Statuses == {"down", "claimed", "ready", "committing", "applied",
             "refused"}

Actor == [status : Statuses, runtime_epoch : Nat, owner_epoch : 0..MaxOwner,
          version : 0..MaxVersion, lease : Lease, inherited : BOOLEAN,
          candidate : Lease]

\* The candidate of an actor that is not committing.
NoCandidate == Free(0)

Down == [status |-> "down", runtime_epoch |-> 0, owner_epoch |-> 0,
         version |-> 0, lease |-> Free(0), inherited |-> FALSE,
         candidate |-> NoCandidate]

\* A commit request as the store receives it.
Commit == [owner_epoch : 0..MaxOwner, version : 0..MaxVersion, lease : Lease]

Token == [runtime_epoch : RuntimeEpochs, owner_epoch : 1..MaxOwner,
          sequence : Sequences]

\* A granted lease, as its holder knows it.
Grants == [token : Token, holder : Holders, request_id : Requests \cup {None}]

\* What the history remembers of a mint.
Mint(epoch, lease) == [owner_epoch |-> epoch, holder |-> lease.holder,
                       request_id |-> lease.request_id]

Init ==
  /\ clock = 0
  /\ owner = 0
  /\ object = [version |-> 0, lease |-> Free(0)]
  /\ actors = [p \in Actors |-> Down]
  /\ late = {}
  /\ minted = [n \in 0..MaxSequence |-> Mint(0, Free(0))]
  /\ issued = {}
  /\ told = [n \in Sequences |-> 0]
  /\ lost = {}

-----------------------------------------------------------------------------
(* Starting an actor: claim the owner epoch, then load the record.          *)

\* Process p goes on with state a.
Become(p, a) == actors' = [actors EXCEPT ![p] = a]

ClaimOwner(p, epoch) ==
  /\ actors[p].status = "down"
  /\ owner < MaxOwner
  /\ owner' = owner + 1
  /\ Become(p, [Down EXCEPT !.status = "claimed",
                            !.runtime_epoch = epoch,
                            !.owner_epoch = owner + 1])
  /\ UNCHANGED <<clock, object, late, minted, clientVars, lost>>

\* Mutant: the new actor starts free instead of inheriting the lease.
LoadForgettingLease(p) ==
  /\ actors[p].status = "claimed"
  /\ Become(p, [actors[p] EXCEPT !.status = "ready",
                               !.version = object.version,
                               !.lease = Free(object.lease.sequence)])
  /\ UNCHANGED <<clock, storeVars, late, clientVars, lost>>

\* Loading, decoding and init/1 of the process; nothing of the new actor is
\* visible between them.  The owner epoch and inheritance are never persisted.
Load(p) ==
  /\ actors[p].status = "claimed"
  /\ Become(p, [actors[p] EXCEPT !.status = "ready",
                               !.version = object.version,
                               !.lease = object.lease,
                               !.inherited = ~Available(object.lease)])
  /\ UNCHANGED <<clock, storeVars, late, clientVars, lost>>

-----------------------------------------------------------------------------
(* The calls of a running actor.                                           *)

\* Mutant: a lease counts as expired one tick too early.
ExpireEarly(a) ==
  IF a.lease.holder # None /\ a.lease.expires_at <= clock + 1
  THEN [a EXCEPT !.lease = Free(a.lease.sequence), !.inherited = FALSE]
  ELSE a

Expire(a) ==
  IF a.lease.holder # None /\ Available(a.lease)
  THEN [a EXCEPT !.lease = Free(a.lease.sequence), !.inherited = FALSE]
  ELSE a

TokenOf(a) == [runtime_epoch |-> a.runtime_epoch,
               owner_epoch |-> a.owner_epoch,
               sequence |-> a.lease.sequence]

Owns(a, holder, token) ==
  /\ a.lease.holder = holder
  /\ TokenOf(a) = token
  /\ ~a.inherited
  /\ a.lease.expires_at > clock

\* The reply {ok, grant(State)} reaches the caller.
Grant(a, lease) ==
  /\ issued' = issued \cup {[token |-> [TokenOf(a) EXCEPT
                                         !.sequence = lease.sequence],
                             holder |-> lease.holder,
                             request_id |-> lease.request_id]}
  /\ told' = [told EXCEPT ![lease.sequence] = lease.expires_at]

\* persist(Candidate): the state before expire stays until the store answers.
Persist(p, candidate) ==
  /\ actors[p].version < MaxVersion
  /\ Become(p, [actors[p] EXCEPT !.status = "committing",
                               !.candidate = candidate])
  /\ UNCHANGED clientVars

\* A reply that grants nothing keeps the expired state.
Keep(p, a) ==
  /\ Become(p, a)
  /\ UNCHANGED clientVars

AcquireFree(p, holder, request, duration) ==
  LET a == Expire(actors[p]) IN
  /\ a.lease.holder = None
  /\ IF a.lease.sequence = MaxSequence
     THEN Keep(p, a)
     ELSE Persist(p, [sequence |-> a.lease.sequence + 1, holder |-> holder,
                      request_id |-> request, expires_at |-> clock + duration])

\* Mutant: an inherited lease is replayed under the new owner epoch.
ReplaysInherited(a, holder, request) ==
  /\ a.lease.holder = holder
  /\ request # None
  /\ a.lease.request_id = request

Replays(a, holder, request) ==
  /\ a.lease.holder = holder
  /\ request # None
  /\ a.lease.request_id = request
  /\ ~a.inherited

AcquireHeld(p, holder, request) ==
  LET a == Expire(actors[p]) IN
  /\ a.lease.holder # None
  /\ IF Replays(a, holder, request)
     THEN /\ Become(p, a)
          /\ Grant(a, a.lease)
     ELSE Keep(p, a)

Acquire(p, holder, request, duration) ==
  /\ actors[p].status = "ready"
  /\ \/ AcquireFree(p, holder, request, duration)
     \/ AcquireHeld(p, holder, request)
  /\ UNCHANGED <<clock, storeVars, late, lost>>

Renew(p, holder, token, duration) ==
  /\ actors[p].status = "ready"
  /\ LET a == Expire(actors[p]) IN
     IF Owns(a, holder, token)
     THEN Persist(p, [a.lease EXCEPT !.expires_at = clock + duration])
     ELSE Keep(p, a)
  /\ UNCHANGED <<clock, storeVars, late, lost>>

Release(p, holder, token) ==
  /\ actors[p].status = "ready"
  /\ LET a == Expire(actors[p]) IN
     IF Owns(a, holder, token)
     THEN Persist(p, Free(a.lease.sequence))
     ELSE Keep(p, a)
  /\ UNCHANGED <<clock, storeVars, late, lost>>

Status(p) ==
  /\ actors[p].status = "ready"
  /\ Keep(p, Expire(actors[p]))
  /\ UNCHANGED <<clock, storeVars, late, lost>>

-----------------------------------------------------------------------------
(* The durable store and the answers it gives.                             *)

RequestOf(a) == [owner_epoch |-> a.owner_epoch, version |-> a.version,
                 lease |-> a.candidate]

\* Mutant: the owner epoch of the scope is not compared.
AcceptsAnyOwner(commit) == commit.version = object.version

\* commit/5 of the behaviour: both comparisons and the write are one step.
Accepts(commit) ==
  /\ commit.owner_epoch = owner
  /\ commit.version = object.version

Write(commit) ==
  /\ object' = [version |-> object.version + 1, lease |-> commit.lease]
  /\ minted' = IF commit.lease.sequence = object.lease.sequence
               THEN minted
               ELSE [minted EXCEPT ![commit.lease.sequence] =
                       Mint(commit.owner_epoch, commit.lease)]

StoreCommit(p) ==
  /\ actors[p].status = "committing"
  /\ LET commit == RequestOf(actors[p]) IN
     IF Accepts(commit)
     THEN /\ Write(commit)
          /\ Become(p, [actors[p] EXCEPT !.status = "applied"])
     ELSE /\ Become(p, [actors[p] EXCEPT !.status = "refused"])
          /\ UNCHANGED <<object, minted>>
  /\ UNCHANGED <<clock, owner, late, clientVars, lost>>

\* {ok, NextVersion}: the candidate becomes the state and is granted.
CommitSucceeds(p) ==
  LET a == actors[p] IN
  /\ a.status = "applied"
  /\ Become(p, [actors[p] EXCEPT !.status = "ready",
                               !.version = a.version + 1,
                               !.lease = a.candidate,
                               !.inherited = FALSE,
                               !.candidate = NoCandidate])
  /\ IF a.candidate.holder = None
     THEN /\ told' = [told EXCEPT ![a.candidate.sequence] = 0]
          /\ UNCHANGED issued
     ELSE Grant(a, a.candidate)
  /\ UNCHANGED <<clock, storeVars, late, lost>>

\* {error, Reason}: the caller reads durable_commit_failed, State0 stays.
CommitFails(p) ==
  /\ actors[p].status = "refused"
  /\ Become(p, [actors[p] EXCEPT !.status = "ready",
                               !.candidate = NoCandidate])
  /\ UNCHANGED <<clock, storeVars, late, clientVars, lost>>

\* The outcome of the pending commit of p will never be known to its caller;
\* an undecided request may still be on its way to the store.
Abandon(p) ==
  LET a == actors[p] IN
  /\ lost' = lost \cup {a.candidate.sequence}
  /\ \/ UNCHANGED late
     \/ /\ a.status = "committing"
        /\ Cardinality(late) < MaxLate
        /\ late' = late \cup {RequestOf(a)}

\* Mutant: after an error the actor goes on with Candidate, not with State0.
CommitOutcomeAssumed(p) ==
  /\ actors[p].status \in {"committing", "applied"}
  /\ Abandon(p)
  /\ Become(p, [actors[p] EXCEPT !.status = "ready",
                               !.lease = actors[p].candidate,
                               !.candidate = NoCandidate])
  /\ UNCHANGED <<clock, storeVars, clientVars>>

\* safe_call/3 turns an exception of the store client into {error, _}.
CommitOutcomeLost(p) ==
  /\ actors[p].status \in {"committing", "applied"}
  /\ Abandon(p)
  /\ Become(p, [actors[p] EXCEPT !.status = "ready",
                               !.candidate = NoCandidate])
  /\ UNCHANGED <<clock, storeVars, clientVars>>

LateCommit(commit) ==
  /\ late' = late \ {commit}
  /\ IF Accepts(commit) THEN Write(commit)
                        ELSE UNCHANGED <<object, minted>>
  /\ UNCHANGED <<clock, owner, actors, clientVars, lost>>

-----------------------------------------------------------------------------
(* The actor ends: stopped, killed, or its start failed after the claim.   *)
Stop(p) ==
  /\ actors[p].status # "down"
  /\ IF actors[p].status \in {"committing", "applied"}
     THEN Abandon(p)
     ELSE UNCHANGED <<late, lost>>
  /\ Become(p, Down)
  /\ UNCHANGED <<clock, storeVars, clientVars>>

Tick ==
  /\ clock < MaxTime
  /\ clock' = clock + 1
  /\ UNCHANGED <<storeVars, actors, late, clientVars, lost>>

\* The tokens a caller can present are those some reply handed out.
Tokens == {g.token : g \in issued}

Call(p) ==
  \/ \E holder \in Holders, request \in Requests \cup {None},
        duration \in Leases : Acquire(p, holder, request, duration)
  \/ \E holder \in Holders, token \in Tokens, duration \in Leases :
        Renew(p, holder, token, duration)
  \/ \E holder \in Holders, token \in Tokens : Release(p, holder, token)
  \/ Status(p)

Step(p) ==
  \/ \E epoch \in RuntimeEpochs : ClaimOwner(p, epoch)
  \/ Load(p)
  \/ Call(p)
  \/ StoreCommit(p)
  \/ CommitSucceeds(p)
  \/ CommitFails(p)
  \/ CommitOutcomeLost(p)
  \/ Stop(p)

Next ==
  \/ \E p \in Actors : Step(p)
  \/ \E commit \in late : LateCommit(commit)
  \/ Tick

Spec == Init /\ [][Next]_vars

-----------------------------------------------------------------------------
\* Types of every variable: what the store, the actors and the replies hold.
TypeOK ==
  /\ clock \in 0..MaxTime
  /\ owner \in 0..MaxOwner
  /\ object \in [version : 0..MaxVersion, lease : Lease]
  /\ actors \in [Actors -> Actor]
  /\ late \subseteq Commit
  /\ minted \in [0..MaxSequence -> [owner_epoch : 0..MaxOwner,
                                    holder : Holders \cup {None},
                                    request_id : Requests \cup {None}]]
  /\ issued \subseteq Grants
  /\ told \in [Sequences -> Nat]
  /\ lost \subseteq 0..MaxSequence

\* A fencing sequence names one lease for ever: no two grants, by any actors
\* in any owner epochs, carry the same sequence for another holder, request or
\* owner (acquire, replay and renew of bmscl_critical_section_actor).
OneLeasePerSequence ==
  \A g, h \in issued : g.token.sequence = h.token.sequence =>
    /\ g.holder = h.holder
    /\ g.request_id = h.request_id
    /\ g.token.owner_epoch = h.token.owner_epoch

\* The store applied a commit about the sequence whose answer is still on its
\* way, or some commit about it had an outcome that was never learned.
InDoubt(n) ==
  \/ n \in lost
  \/ \E p \in Actors : /\ actors[p].status = "applied"
                       /\ actors[p].candidate.sequence = n

Live(n) == told[n] > clock /\ ~InDoubt(n)

\* A holder that was told its lease is live, and lost no answer about it, holds
\* exactly the durable lease until that expiry: grants are never announced
\* before the commit, and no other owner replaces or shortens them.
LiveGrantIsDurable ==
  \A n \in Sequences : Live(n) =>
    /\ object.lease.sequence = n
    /\ object.lease.holder # None
    /\ object.lease.expires_at = told[n]

\* Mutual exclusion: two unexpired leases are in two hands only when a commit
\* about the older one had an outcome that its caller never learned.
ExclusiveUnlessInDoubt ==
  \A m, n \in Sequences : Live(m) /\ told[n] > clock /\ m < n => FALSE

\* An actor whose owner epoch and version are current caches what the store
\* holds, up to an expiry it noticed by itself.  It is why the version check
\* of commit/5 is enough for an actor that never reads the store again.
Agrees(a) ==
  /\ a.lease.sequence = object.lease.sequence
  /\ \/ a.lease = object.lease
     \/ /\ Available(object.lease)
        /\ a.lease = Free(object.lease.sequence)

Current(a) == a.owner_epoch = owner /\ a.version = object.version

CurrentCacheAgrees ==
  \A p \in Actors :
    actors[p].status \notin {"down", "claimed"} /\ Current(actors[p])
      => Agrees(actors[p])

\* Refinement: the durable record behaves like the abstract fenced lease.
Durable == INSTANCE FencedLease WITH
             now <- clock, epoch <- owner, lease <- object.lease,
             minter <- minted[object.lease.sequence].owner_epoch

ImplementsFencedLease == Durable!LeaseSpec

\* Idempotent replay: what holders have been granted changes only with the
\* answer to a commit; an acquire answered from the cache repeats a grant that
\* some reply already carried, with its fence and its expiry.
ReplayAddsNothing ==
  [][clientVars' # clientVars =>
       \E p \in Actors : /\ actors[p].status = "applied"
                         /\ actors'[p].status = "ready"]_vars
=============================================================================
