------------------------ MODULE CriticalSectionRegistry ------------------------
(***************************************************************************)
(* The registry of one tenant's virtual machine: it routes a request for a *)
(* key to the actor of the key, starts that actor by claiming the owner    *)
(* epoch of the key, and replaces it for a newer runtime epoch.            *)
(*                                                                         *)
(* Source: supervisor/src/bmscl_critical_section_registry.erl.  The        *)
(* registry is one process and handles one call at a time, but the actors  *)
(* die on their own, their DOWN messages wait in its mailbox, and its      *)
(* calls to an actor have the default time limit of gen_server:call/2:     *)
(* when an actor is slower, or dead, the call exits and the registry       *)
(* crashes.  A supervisor outside this repository starts it again.         *)
(*                                                                         *)
(* What an actor does with a request is the module CriticalSection; here   *)
(* an actor is a process with an owner epoch.                              *)
(***************************************************************************)
EXTENDS Naturals

CONSTANTS
  Tenants, Keys, TenantOf,  \* a key is {Tenant, Namespace, ObjectKey}
  RuntimeEpochs,
  Pids,                     \* processes ever started; each is also the
                            \* name of the monitor on it
  None,
  MaxOwner                  \* bound on owner epochs

ASSUME RegistryAssumption ==
  /\ TenantOf \in [Keys -> Tenants]
  /\ None \notin Tenants \cup Keys \cup Pids
  /\ RuntimeEpochs \subseteq Nat \ {0}
  /\ MaxOwner \in Nat
  /\ None \notin [pid : Pids, runtime_epoch : RuntimeEpochs,
                  owner_epoch : 1..MaxOwner]

VARIABLES
  tenant,    \* #state.tenant_id
  actors,    \* #state.actors: the entry of each key, or None
  monitors,  \* #state.monitors: the key of each monitor, or None
  downs,     \* monitors whose DOWN message is in the mailbox
  calling,   \* the actor the registry waits for, and the actors map its
             \* handler was entered with; or None
  process,   \* the actor processes
  owner,     \* the owner epoch of each key in the durable store
  leaked     \* history: actors of which a crash lost track

vars == <<tenant, actors, monitors, downs, calling, process, owner, leaked>>

Entry == [pid : Pids, runtime_epoch : RuntimeEpochs, owner_epoch : 1..MaxOwner]

Process == [status : {"unborn", "alive", "leaving", "dead"},
            key : Keys \cup {None}, owner_epoch : 0..MaxOwner]

Unborn == [status |-> "unborn", key |-> None, owner_epoch |-> 0]

Alive(p) == process[p].status = "alive"

Init ==
  /\ tenant = None
  /\ actors = [k \in Keys |-> None]
  /\ monitors = [p \in Pids |-> None]
  /\ downs = {}
  /\ calling = None
  /\ process = [p \in Pids |-> Unborn]
  /\ owner = [k \in Keys |-> 0]
  /\ leaked = {}

-----------------------------------------------------------------------------
(* Handling one request.                                                   *)

\* Mutant: the registry serves whatever tenant a request names.
BindAnyTenant(k) ==
  /\ calling = None
  /\ tenant' = TenantOf[k]

\* with_actor/6 up to ensure_actor/3: a request of another tenant is refused.
BindTenant(k) ==
  /\ calling = None
  /\ tenant \in {None, TenantOf[k]}
  /\ tenant' = TenantOf[k]

\* Mutant: the store hands the current epoch out again.
ClaimedAgain(k) == IF owner[k] = 0 THEN 1 ELSE owner[k]

\* The owner epoch claim_owner/1 allocates.
Claimed(k) == owner[k] + 1

\* claim_and_load/3 failed, before or after the owner epoch was claimed.
StartFails(k) ==
  /\ actors' = [actors EXCEPT ![k] = None]
  /\ \/ UNCHANGED owner
     \/ /\ owner[k] < MaxOwner
        /\ owner' = [owner EXCEPT ![k] = Claimed(k)]
  /\ UNCHANGED <<calling, leaked>>

\* The new process is monitored, registered, and called at once.
StartSucceeds(k, epoch, p) ==
  /\ process[p].status = "unborn"
  /\ owner[k] < MaxOwner
  /\ owner' = [owner EXCEPT ![k] = Claimed(k)]
  /\ actors' = [actors EXCEPT ![k] = [pid |-> p, runtime_epoch |-> epoch,
                                      owner_epoch |-> Claimed(k)]]
  /\ calling' = [pid |-> p, entry |-> actors]
  /\ UNCHANGED leaked

Spawned(k) == [status |-> "alive", key |-> k, owner_epoch |-> Claimed(k)]

\* No actor is registered for the key.
StartFirst(k, epoch) ==
  /\ BindTenant(k)
  /\ actors[k] = None
  /\ UNCHANGED downs
  /\ \/ /\ StartFails(k)
        /\ UNCHANGED <<monitors, process>>
     \/ \E p \in Pids :
          /\ StartSucceeds(k, epoch, p)
          /\ monitors' = [monitors EXCEPT ![p] = k]
          /\ process' = [process EXCEPT ![p] = Spawned(k)]

\* Mutant: a request of an older runtime epoch replaces the actor.
SupersededByAny(k, epoch) ==
  \/ ~Alive(actors[k].pid)
  \/ epoch # actors[k].runtime_epoch

\* The registered actor is dead, or of an older runtime epoch.
Superseded(k, epoch) ==
  \/ ~Alive(actors[k].pid)
  \/ epoch > actors[k].runtime_epoch

\* Mutant: only the entry of the replaced actor is removed.
RemovedEntryOnly(p) == [monitors |-> monitors, downs |-> downs]

\* remove_actor/3: the monitor is forgotten and its message flushed.
Removed(p) == [monitors |-> [monitors EXCEPT ![p] = None],
               downs |-> downs \ {p}]

\* Mutant: the replaced actor is not stopped.
StopNothing(p) == process

\* gen_server:stop/3; an actor is busy only while the registry waits for it.
Stopped(p) == [process EXCEPT ![p].status = "dead"]

Replace(k, epoch) ==
  /\ BindTenant(k)
  /\ actors[k] # None
  /\ Superseded(k, epoch)
  /\ LET old == actors[k].pid IN
     /\ downs' = Removed(old).downs
     /\ \/ /\ StartFails(k)
           /\ monitors' = Removed(old).monitors
           /\ process' = Stopped(old)
        \/ \E p \in Pids :
             /\ StartSucceeds(k, epoch, p)
             /\ monitors' = [Removed(old).monitors EXCEPT ![p] = k]
             /\ process' = [Stopped(old) EXCEPT ![p] = Spawned(k)]

\* The registered actor serves the runtime epoch of the request.
UseActor(k, epoch) ==
  /\ BindTenant(k)
  /\ actors[k] # None
  /\ Alive(actors[k].pid)
  /\ epoch = actors[k].runtime_epoch
  /\ calling' = [pid |-> actors[k].pid, entry |-> actors]
  /\ UNCHANGED <<actors, monitors, downs, process, owner, leaked>>

\* The actor answers in time.
Reply ==
  /\ calling # None
  /\ Alive(calling.pid)
  /\ calling' = None
  /\ UNCHANGED <<tenant, actors, monitors, downs, process, owner, leaked>>

\* The call exits: the actor is dead, or slower than the time limit.  The
\* handler's new state is lost; terminate/2 stops the actors of the state the
\* handler was entered with, and a busy one ends after its call.  The next
\* registry starts with an empty state.
Crash ==
  /\ calling # None
  /\ LET known == {calling.entry[k].pid : k \in {k \in Keys :
                                                   calling.entry[k] # None}}
         busy == calling.pid IN
     /\ process' = [p \in Pids |->
          IF p \in known /\ Alive(p)
          THEN [process[p] EXCEPT !.status = IF p = busy THEN "leaving"
                                                         ELSE "dead"]
          ELSE process[p]]
     /\ leaked' = IF busy \notin known THEN leaked \cup {busy} ELSE leaked
  /\ tenant' = None
  /\ actors' = [k \in Keys |-> None]
  /\ monitors' = [p \in Pids |-> None]
  /\ downs' = {}
  /\ calling' = None
  /\ UNCHANGED owner

-----------------------------------------------------------------------------
(* What happens around the registry.                                       *)

\* A process ends; the monitor on it, if any, puts DOWN in the mailbox.
Dies(p) ==
  /\ process[p].status \in {"alive", "leaving"}
  /\ process' = [process EXCEPT ![p].status = "dead"]
  /\ downs' = IF monitors[p] # None THEN downs \cup {p} ELSE downs
  /\ UNCHANGED <<tenant, actors, monitors, calling, owner, leaked>>

\* handle_info({'DOWN', ...}).
Down(p) ==
  /\ calling = None
  /\ p \in downs
  /\ downs' = downs \ {p}
  /\ IF monitors[p] = None
     THEN UNCHANGED <<monitors, actors>>
     ELSE /\ monitors' = [monitors EXCEPT ![p] = None]
          /\ actors' = [actors EXCEPT ![monitors[p]] = None]
  /\ UNCHANGED <<tenant, calling, process, owner, leaked>>

\* Another virtual machine claims the owner epoch of the key.
ClaimedElsewhere(k) ==
  /\ owner[k] < MaxOwner
  /\ owner' = [owner EXCEPT ![k] = Claimed(k)]
  /\ UNCHANGED <<tenant, actors, monitors, downs, calling, process, leaked>>

Next ==
  \/ \E k \in Keys, epoch \in RuntimeEpochs :
       StartFirst(k, epoch) \/ Replace(k, epoch) \/ UseActor(k, epoch)
  \/ Reply
  \/ Crash
  \/ \E p \in Pids : Dies(p) \/ Down(p)
  \/ \E k \in Keys : ClaimedElsewhere(k)

Spec == Init /\ [][Next]_vars

-----------------------------------------------------------------------------
\* The types of the registry's state and of the processes around it.
TypeOK ==
  /\ tenant \in Tenants \cup {None}
  /\ actors \in [Keys -> Entry \cup {None}]
  /\ monitors \in [Pids -> Keys \cup {None}]
  /\ downs \subseteq Pids
  /\ calling \in [pid : Pids, entry : [Keys -> Entry \cup {None}]] \cup {None}
  /\ process \in [Pids -> Process]
  /\ owner \in [Keys -> 0..MaxOwner]
  /\ leaked \subseteq Pids

\* The two maps of #state mirror each other: an entry's monitor leads back to
\* its key, and no monitor is left behind by a replaced or removed actor.
MapsMirror ==
  /\ \A k \in Keys : actors[k] # None => monitors[actors[k].pid] = k
  /\ \A p \in Pids : monitors[p] # None =>
       /\ actors[monitors[p]] # None
       /\ actors[monitors[p]].pid = p

\* An entry names the process that was started for its key, and that process
\* has the newest owner epoch any process of this machine has for the key, so
\* the store refuses the commits of all the others.
RegisteredIsNewest ==
  \A k \in Keys : actors[k] # None =>
    /\ process[actors[k].pid].key = k
    /\ process[actors[k].pid].owner_epoch = actors[k].owner_epoch
    /\ \A p \in Pids \ {actors[k].pid} : process[p].key = k =>
         process[p].owner_epoch < actors[k].owner_epoch

\* A late DOWN message never removes an actor that took the place of the dead
\* one: entries vanish for a dead process or with a crash of the registry.
DownRemovesTheDead ==
  [][\A k \in Keys : actors[k] # None /\ actors'[k] = None =>
       \/ process'[actors[k].pid].status = "dead"
       \/ calling # None]_vars

\* A registry process, once bound to a tenant, has actors of that tenant only.
OneTenant == \A k \in Keys : actors[k] # None => TenantOf[k] = tenant

\* While an actor is alive and registered, no request of an older runtime epoch
\* takes its place ({stale_runtime_epoch, ...}).
NoRegression ==
  [][\A k \in Keys :
       actors[k] # None /\ actors'[k] # None /\ Alive(actors[k].pid) =>
         actors'[k].runtime_epoch >= actors[k].runtime_epoch]_vars

\* Every process that still serves a key is registered, except those that were
\* started by the very call whose failure crashed the registry.
OnlyCrashesLeak ==
  \A p \in Pids : Alive(p) /\ p \notin leaked => monitors[p] # None

\* A DOWN message in the mailbox is about a dead process still registered.
DownsAreDue == \A p \in downs : process[p].status = "dead" /\ monitors[p] # None

\* Process identifiers are fresh, and an owner epoch has one claimant.
ProcessesDistinct ==
  /\ \A p \in Pids : process[p].status = "unborn" =>
       process[p] = Unborn /\ monitors[p] = None
  /\ \A p \in Pids, k \in Keys : process[p].key = k =>
       process[p].owner_epoch \in 1..owner[k]
  /\ \A p, q \in Pids :
       /\ process[p].key # None
       /\ process[p].key = process[q].key
       /\ process[p].owner_epoch = process[q].owner_epoch
       => p = q

\* All that a call in progress may have added to the map is the actor it waits
\* for, and the handler of a call to a new actor knew nothing of it.
CallAddsOne ==
  calling # None => \A k \in Keys :
    actors[k] # None /\ actors[k].pid # calling.pid => calling.entry[k] = actors[k]

\* The induction hypothesis: maps, mailbox, processes and store fit together.
RegistryInv ==
  /\ TypeOK
  /\ MapsMirror
  /\ RegisteredIsNewest
  /\ OneTenant
  /\ OnlyCrashesLeak
  /\ DownsAreDue
  /\ ProcessesDistinct
  /\ CallAddsOne

\* Refinement: the processes started for a key claim its owner epochs.
Held(k) == [p \in Pids |-> IF /\ process[p].key = k
                              /\ process[p].status \in {"alive", "leaving"}
                           THEN process[p].owner_epoch ELSE 0]

Claims(k) == INSTANCE OwnerEpochs WITH
               Claimants <- Pids, latest <- owner[k], held <- Held(k)

ImplementsOwnerEpochs ==
  /\ \A k \in Keys : Claims(k)!ClaimsInit
  /\ [][\A k \in Keys : Claims(k)!ClaimsNext]_vars
=============================================================================
