--------------------- MODULE CriticalSectionRegistryProofs ---------------------
(***************************************************************************)
(* Proofs about CriticalSectionRegistry for every number of tenants, keys, *)
(* processes and runtime epochs: the maps, the mailbox and the processes   *)
(* fit together (RegistryInv), entries go only for a reason and never back *)
(* to an older runtime epoch, and what the processes of a key do is an     *)
(* allocation of its owner epochs (OwnerEpochs).                           *)
(***************************************************************************)
EXTENDS CriticalSectionRegistry, TLAPS

\* The process an entry names, if any.
Registered(k) == IF actors[k] = None THEN {} ELSE {actors[k].pid}

\* Types of what the lemmas below look at most.
LEMMA RegistryFacts ==
  ASSUME RegistryInv, NEW k \in Keys, actors[k] # None
  PROVE  /\ actors[k].pid \in Pids
         /\ actors[k] \in Entry
         /\ monitors[actors[k].pid] = k
         /\ process[actors[k].pid].key = k
         /\ process[actors[k].pid].status # "unborn"
         /\ process[actors[k].pid].owner_epoch = actors[k].owner_epoch
         /\ actors[k].owner_epoch \in 1..owner[k]
  <1>1. actors[k] \in Entry /\ actors[k].pid \in Pids
    BY DEF RegistryInv, TypeOK, Entry
  <1>2. monitors[actors[k].pid] = k
    BY DEF RegistryInv, MapsMirror
  <1>3. /\ process[actors[k].pid].key = k
        /\ process[actors[k].pid].owner_epoch = actors[k].owner_epoch
    BY DEF RegistryInv, RegisteredIsNewest
  <1>4. k # None
    BY RegistryAssumption
  <1> QED
    BY <1>1, <1>2, <1>3, <1>4 DEF RegistryInv, ProcessesDistinct

-----------------------------------------------------------------------------
(* A request that starts an actor.                                         *)

LEMMA SpawnInv ==
  ASSUME RegistryInv, NEW k \in Keys, NEW epoch \in RuntimeEpochs,
         NEW p \in Pids, BindTenant(k), StartSucceeds(k, epoch, p),
         downs' = downs \ Registered(k),
         monitors' = [q \in Pids |-> IF q = p THEN k
                                     ELSE IF q \in Registered(k) THEN None
                                     ELSE monitors[q]],
         process' = [q \in Pids |-> IF q = p THEN Spawned(k)
                                    ELSE IF q \in Registered(k)
                                    THEN [process[q] EXCEPT !.status = "dead"]
                                    ELSE process[q]]
  PROVE  RegistryInv'
  <1> DEFINE new == [pid |-> p, runtime_epoch |-> epoch,
                     owner_epoch |-> owner[k] + 1]
  <1>1. /\ calling = None /\ tenant \in {None, TenantOf[k]}
        /\ tenant' = TenantOf[k] /\ leaked' = leaked
        /\ process[p].status = "unborn" /\ owner[k] + 1 \in 1..MaxOwner
        /\ owner' = [owner EXCEPT ![k] = owner[k] + 1]
        /\ actors' = [actors EXCEPT ![k] = new]
        /\ calling' = [pid |-> p, entry |-> actors]
    BY RegistryAssumption
    DEF BindTenant, StartSucceeds, Claimed, RegistryInv, TypeOK
  <1>2. /\ actors \in [Keys -> Entry \cup {None}] /\ owner \in [Keys -> 0..MaxOwner]
        /\ monitors \in [Pids -> Keys \cup {None}] /\ downs \subseteq Pids
        /\ process \in [Pids -> Process] /\ leaked \subseteq Pids
        /\ TenantOf[k] \in Tenants
    BY RegistryAssumption DEF RegistryInv, TypeOK
  <1>3. process[p] = Unborn /\ monitors[p] = None /\ p \notin downs
    BY <1>1 DEF RegistryInv, ProcessesDistinct, DownsAreDue
  <1>4. \A j \in Keys : actors[j] # None => actors[j].pid # p
    BY <1>1, RegistryFacts
  <1>5. /\ new \in Entry /\ new # None /\ new.pid = p
        /\ new.owner_epoch = owner[k] + 1
    <2>1. new \in Entry /\ new.pid = p /\ new.owner_epoch = owner[k] + 1
      BY <1>1 DEF Entry
    <2>2. new # None
      BY <2>1, RegistryAssumption DEF Entry
    <2> QED
      BY <2>1, <2>2
  <1>6. /\ actors'[k] = new
        /\ \A j \in Keys \ {k} : actors'[j] = actors[j]
        /\ monitors'[p] = k
        /\ \A q \in Pids \ {p} :
             /\ q \in Registered(k) => monitors'[q] = None
             /\ q \notin Registered(k) => monitors'[q] = monitors[q]
        /\ owner'[k] = owner[k] + 1
        /\ \A j \in Keys \ {k} : owner'[j] = owner[j]
    BY <1>1, <1>2
  <1>7. /\ process'[p].status = "alive" /\ process'[p].key = k
        /\ process'[p].owner_epoch = owner[k] + 1
        /\ \A q \in Pids \ {p} :
             /\ process'[q].key = process[q].key
             /\ process'[q].owner_epoch = process[q].owner_epoch
             /\ q \in Registered(k) => process'[q].status = "dead"
             /\ q \notin Registered(k) => process'[q] = process[q]
    BY <1>2 DEF Spawned, Claimed, Process
  <1> HIDE DEF new
  <1>8. /\ \A q \in Registered(k) : q \in Pids /\ monitors[q] = k /\ q # p
                                    /\ process[q].status # "unborn"
        /\ \A j \in Keys \ {k} : actors[j] # None =>
             actors[j].pid \notin Registered(k)
    BY <1>4, RegistryFacts DEF Registered
  <1>9. k # None /\ \A j \in Keys : owner[j] \in Nat
    BY <1>2, RegistryAssumption
  <1>10. TypeOK'
    <2>1. Spawned(k) \in Process
      BY <1>1 DEF Spawned, Claimed, Process
    <2>2. \A q \in Pids : [process[q] EXCEPT !.status = "dead"] \in Process
      BY <1>2 DEF Process
    <2>3. process' \in [Pids -> Process]
      BY <1>2, <2>1, <2>2
    <2> QED
      BY <1>1, <1>2, <1>5, <2>3 DEF TypeOK
  <1>11. MapsMirror'
    <2>1. \A j \in Keys : actors'[j] # None => monitors'[actors'[j].pid] = j
      BY <1>2, <1>4, <1>5, <1>6, <1>8, RegistryFacts
    <2>2. \A q \in Pids : monitors'[q] # None =>
            actors'[monitors'[q]] # None /\ actors'[monitors'[q]].pid = q
      BY <1>2, <1>5, <1>6, <1>8 DEF RegistryInv, MapsMirror, Registered
    <2> QED
      BY <2>1, <2>2 DEF MapsMirror
  <1>12. RegisteredIsNewest'
    <2> SUFFICES ASSUME NEW j \in Keys, actors'[j] # None
                 PROVE  /\ process'[actors'[j].pid].key = j
                        /\ process'[actors'[j].pid].owner_epoch
                             = actors'[j].owner_epoch
                        /\ \A q \in Pids \ {actors'[j].pid} :
                             process'[q].key = j =>
                               process'[q].owner_epoch < actors'[j].owner_epoch
      BY DEF RegisteredIsNewest
    <2>1. CASE j = k
      <3>1. \A q \in Pids \ {p} : process'[q].key = k =>
              process'[q].owner_epoch < owner[k] + 1
        BY <1>7, <1>9 DEF RegistryInv, ProcessesDistinct
      <3> QED
        BY <2>1, <3>1, <1>5, <1>6, <1>7
    <2>2. CASE j # k
      <3>1. actors'[j] = actors[j] /\ actors[j].pid \in Pids \ {p}
        BY <2>2, <1>4, <1>6, RegistryFacts
      <3> QED
        BY <2>2, <3>1, <1>7 DEF RegistryInv, RegisteredIsNewest
    <2> QED
      BY <2>1, <2>2
  <1>13. OneTenant'
    BY <1>1, <1>6, RegistryAssumption DEF RegistryInv, OneTenant
  <1>14. OnlyCrashesLeak'
    BY <1>1, <1>6, <1>7, <1>9
    DEF RegistryInv, OnlyCrashesLeak, Alive
  <1>15. DownsAreDue'
    BY <1>2, <1>3, <1>6, <1>7 DEF RegistryInv, DownsAreDue
  <1>16. ProcessesDistinct'
    <2>1. \A q \in Pids : process'[q].status = "unborn" =>
            process'[q] = Unborn /\ monitors'[q] = None
      BY <1>6, <1>7 DEF RegistryInv, ProcessesDistinct
    <2>2. \A q \in Pids, j \in Keys : process'[q].key = j =>
            process'[q].owner_epoch \in 1..owner'[j]
      <3>1. \A q \in Pids, j \in Keys : process[q].key = j =>
              process[q].owner_epoch \in 1..owner[j]
        BY DEF RegistryInv, ProcessesDistinct
      <3>2. \A j \in Keys : owner[j] <= owner'[j] /\ owner'[j] \in Nat
        BY <1>6, <1>9
      <3>3. \A q \in Pids \ {p}, j \in Keys : process'[q].key = j =>
              process'[q].owner_epoch \in 1..owner'[j]
        BY <3>1, <3>2, <1>7, <1>9
      <3> QED
        BY <3>3, <1>6, <1>7, <1>9
    <2>3. \A q \in Pids \ {p} : process'[q].key = k =>
            process'[q].owner_epoch # owner[k] + 1
      BY <1>7, <1>9 DEF RegistryInv, ProcessesDistinct
    <2>4. \A q, r \in Pids :
            /\ process'[q].key # None
            /\ process'[q].key = process'[r].key
            /\ process'[q].owner_epoch = process'[r].owner_epoch
            => q = r
      BY <1>7, <2>3 DEF RegistryInv, ProcessesDistinct
    <2> QED
      BY <2>1, <2>2, <2>4 DEF ProcessesDistinct
  <1>17. CallAddsOne'
    BY <1>1, <1>5, <1>6 DEF CallAddsOne
  <1> QED
    BY <1>10, <1>11, <1>12, <1>13, <1>14, <1>15, <1>16, <1>17
    DEF RegistryInv

\* The old actor is gone, the new one did not start.
LEMMA NoSpawnInv ==
  ASSUME RegistryInv, NEW k \in Keys, BindTenant(k), StartFails(k),
         downs' = downs \ Registered(k),
         monitors' = [q \in Pids |-> IF q \in Registered(k) THEN None
                                     ELSE monitors[q]],
         process' = [q \in Pids |-> IF q \in Registered(k)
                                    THEN [process[q] EXCEPT !.status = "dead"]
                                    ELSE process[q]]
  PROVE  RegistryInv'
  <1>1. /\ calling = None /\ calling' = None
        /\ tenant \in {None, TenantOf[k]}
        /\ tenant' = TenantOf[k] /\ leaked' = leaked
        /\ actors' = [actors EXCEPT ![k] = None]
    BY DEF BindTenant, StartFails
  <1>2. /\ actors \in [Keys -> Entry \cup {None}] /\ owner \in [Keys -> 0..MaxOwner]
        /\ monitors \in [Pids -> Keys \cup {None}] /\ downs \subseteq Pids
        /\ process \in [Pids -> Process] /\ leaked \subseteq Pids
        /\ TenantOf[k] \in Tenants
    BY RegistryAssumption DEF RegistryInv, TypeOK
  <1>3. /\ owner' \in [Keys -> 0..MaxOwner]
        /\ \A j \in Keys : owner[j] <= owner'[j]
    BY <1>2, RegistryAssumption DEF StartFails, Claimed
  <1>4. /\ actors'[k] = None
        /\ \A j \in Keys \ {k} : actors'[j] = actors[j]
        /\ \A q \in Pids :
             /\ q \in Registered(k) => monitors'[q] = None
             /\ q \notin Registered(k) => monitors'[q] = monitors[q]
    BY <1>1, <1>2
  <1>5. \A q \in Pids :
          /\ process'[q].key = process[q].key
          /\ process'[q].owner_epoch = process[q].owner_epoch
          /\ q \in Registered(k) => process'[q].status = "dead"
          /\ q \notin Registered(k) => process'[q] = process[q]
    BY <1>2 DEF Process
  <1>6. /\ \A q \in Registered(k) : q \in Pids /\ monitors[q] = k
        /\ \A j \in Keys \ {k} : actors[j] # None =>
             actors[j].pid \notin Registered(k)
    BY RegistryFacts DEF Registered
  <1>7. TypeOK'
    <2>1. \A q \in Pids : [process[q] EXCEPT !.status = "dead"] \in Process
      BY <1>2 DEF Process
    <2>2. process' \in [Pids -> Process]
      BY <1>2, <2>1
    <2> QED
      BY <1>1, <1>2, <1>3, <2>2 DEF TypeOK
  <1>8. MapsMirror'
    <2>1. \A j \in Keys : actors'[j] # None => monitors'[actors'[j].pid] = j
      BY <1>4, <1>6, RegistryFacts
    <2>2. \A q \in Pids : monitors'[q] # None =>
            actors'[monitors'[q]] # None /\ actors'[monitors'[q]].pid = q
      BY <1>2, <1>4, <1>6 DEF RegistryInv, MapsMirror, Registered
    <2> QED
      BY <2>1, <2>2 DEF MapsMirror
  <1>9. RegisteredIsNewest'
    <2>1. \A j \in Keys : actors'[j] # None =>
            /\ j # k /\ actors'[j] = actors[j] /\ actors[j].pid \in Pids
      BY <1>4, RegistryFacts
    <2> QED
      BY <2>1, <1>5 DEF RegistryInv, RegisteredIsNewest
  <1>10. OneTenant'
    BY <1>1, <1>4, RegistryAssumption DEF RegistryInv, OneTenant
  <1>11. OnlyCrashesLeak'
    BY <1>1, <1>4, <1>5 DEF RegistryInv, OnlyCrashesLeak, Alive
  <1>12. DownsAreDue'
    BY <1>2, <1>4, <1>5 DEF RegistryInv, DownsAreDue
  <1>13. ProcessesDistinct'
    <2>1. \A q \in Pids : process'[q].status = "unborn" =>
            process'[q] = Unborn /\ monitors'[q] = None
      BY <1>4, <1>5 DEF RegistryInv, ProcessesDistinct
    <2>2. \A q \in Pids, j \in Keys : process'[q].key = j =>
            process'[q].owner_epoch \in 1..owner'[j]
      <3>1. \A q \in Pids, j \in Keys : process[q].key = j =>
              process[q].owner_epoch \in 1..owner[j]
        BY DEF RegistryInv, ProcessesDistinct
      <3> QED
        BY <3>1, <1>2, <1>3, <1>5, RegistryAssumption
    <2>3. \A q, r \in Pids :
            /\ process'[q].key # None
            /\ process'[q].key = process'[r].key
            /\ process'[q].owner_epoch = process'[r].owner_epoch
            => q = r
      BY <1>5 DEF RegistryInv, ProcessesDistinct
    <2> QED
      BY <2>1, <2>2, <2>3 DEF ProcessesDistinct
  <1>14. CallAddsOne'
    BY <1>1 DEF CallAddsOne
  <1> QED
    BY <1>7, <1>8, <1>9, <1>10, <1>11, <1>12, <1>13, <1>14 DEF RegistryInv

LEMMA StartFirstInv ==
  ASSUME RegistryInv, NEW k \in Keys, NEW epoch \in RuntimeEpochs,
         StartFirst(k, epoch)
  PROVE  RegistryInv'
  <1>1. /\ BindTenant(k) /\ Registered(k) = {} /\ downs' = downs \ Registered(k)
        /\ monitors \in [Pids -> Keys \cup {None}]
        /\ process \in [Pids -> Process]
    BY DEF StartFirst, Registered, RegistryInv, TypeOK
  <1>2. CASE StartFails(k) /\ UNCHANGED <<monitors, process>>
    <2>1. /\ monitors' = [q \in Pids |-> IF q \in Registered(k) THEN None
                                         ELSE monitors[q]]
          /\ process' = [q \in Pids |-> IF q \in Registered(k)
                                        THEN [process[q] EXCEPT !.status = "dead"]
                                        ELSE process[q]]
      BY <1>1, <1>2
    <2> QED
      BY <1>1, <1>2, <2>1, NoSpawnInv
  <1>3. ASSUME NEW p \in Pids, StartSucceeds(k, epoch, p),
               monitors' = [monitors EXCEPT ![p] = k],
               process' = [process EXCEPT ![p] = Spawned(k)]
        PROVE  RegistryInv'
    <2>1. /\ monitors' = [q \in Pids |-> IF q = p THEN k
                                         ELSE IF q \in Registered(k) THEN None
                                         ELSE monitors[q]]
          /\ process' = [q \in Pids |-> IF q = p THEN Spawned(k)
                                        ELSE IF q \in Registered(k)
                                        THEN [process[q] EXCEPT !.status = "dead"]
                                        ELSE process[q]]
      BY <1>1, <1>3
    <2> QED
      BY <1>1, <1>3, <2>1, SpawnInv
  <1> QED
    BY <1>2, <1>3 DEF StartFirst

LEMMA ReplaceInv ==
  ASSUME RegistryInv, NEW k \in Keys, NEW epoch \in RuntimeEpochs,
         Replace(k, epoch)
  PROVE  RegistryInv'
  <1> DEFINE old == actors[k].pid
  <1>1. /\ BindTenant(k) /\ Registered(k) = {old} /\ old \in Pids
        /\ downs' = downs \ Registered(k)
        /\ monitors \in [Pids -> Keys \cup {None}]
        /\ process \in [Pids -> Process]
        /\ process[old].status # "unborn"
    BY RegistryFacts DEF Replace, Registered, Removed, RegistryInv, TypeOK
  <1>2. /\ Removed(old).monitors = [monitors EXCEPT ![old] = None]
        /\ Stopped(old) = [process EXCEPT ![old].status = "dead"]
    BY DEF Removed, Stopped
  <1> HIDE DEF old
  <1>3. CASE /\ StartFails(k)
             /\ monitors' = Removed(old).monitors
             /\ process' = Stopped(old)
    <2>1. /\ monitors' = [q \in Pids |-> IF q \in Registered(k) THEN None
                                         ELSE monitors[q]]
          /\ process' = [q \in Pids |-> IF q \in Registered(k)
                                        THEN [process[q] EXCEPT !.status = "dead"]
                                        ELSE process[q]]
      BY <1>1, <1>2, <1>3
    <2> QED
      BY <1>1, <1>3, <2>1, NoSpawnInv
  <1>4. ASSUME NEW p \in Pids, StartSucceeds(k, epoch, p),
               monitors' = [Removed(old).monitors EXCEPT ![p] = k],
               process' = [Stopped(old) EXCEPT ![p] = Spawned(k)]
        PROVE  RegistryInv'
    <2>1. p # old
      BY <1>1, <1>4 DEF StartSucceeds
    <2>2. /\ monitors' = [q \in Pids |-> IF q = p THEN k
                                         ELSE IF q \in Registered(k) THEN None
                                         ELSE monitors[q]]
          /\ process' = [q \in Pids |-> IF q = p THEN Spawned(k)
                                        ELSE IF q \in Registered(k)
                                        THEN [process[q] EXCEPT !.status = "dead"]
                                        ELSE process[q]]
      BY <1>1, <1>2, <1>4, <2>1
    <2> QED
      BY <1>1, <1>4, <2>2, SpawnInv
  <1> QED
    BY <1>3, <1>4 DEF Replace, old

-----------------------------------------------------------------------------
(* The other steps.                                                        *)

LEMMA UseActorInv ==
  ASSUME RegistryInv, NEW k \in Keys, NEW epoch \in RuntimeEpochs,
         UseActor(k, epoch)
  PROVE  RegistryInv'
  <1>1. /\ UNCHANGED <<actors, monitors, downs, process, owner, leaked>>
        /\ tenant' = TenantOf[k] /\ tenant \in {None, TenantOf[k]}
        /\ TenantOf[k] \in Tenants
        /\ calling' = [pid |-> actors[k].pid, entry |-> actors]
        /\ actors[k].pid \in Pids
    BY RegistryAssumption, RegistryFacts DEF UseActor, BindTenant
  <1>2. TypeOK' /\ CallAddsOne'
    BY <1>1 DEF RegistryInv, TypeOK, CallAddsOne
  <1>3. OneTenant'
    BY <1>1, RegistryAssumption DEF RegistryInv, OneTenant
  <1> QED
    BY <1>1, <1>2, <1>3
    DEF RegistryInv, MapsMirror, RegisteredIsNewest, OnlyCrashesLeak,
        DownsAreDue, ProcessesDistinct, Alive

LEMMA ReplyInv ==
  ASSUME RegistryInv, Reply
  PROVE  RegistryInv'
  BY DEF RegistryInv, Reply, TypeOK, MapsMirror, RegisteredIsNewest, OneTenant,
         OnlyCrashesLeak, DownsAreDue, ProcessesDistinct, CallAddsOne, Alive

LEMMA CrashInv ==
  ASSUME RegistryInv, Crash
  PROVE  RegistryInv'
  <1> DEFINE known == {calling.entry[k].pid : k \in {k \in Keys :
                                                   calling.entry[k] # None}}
  <1>1. /\ calling # None /\ calling.pid \in Pids
        /\ tenant' = None /\ actors' = [k \in Keys |-> None]
        /\ monitors' = [p \in Pids |-> None] /\ downs' = {}
        /\ calling' = None /\ owner' = owner
        /\ process \in [Pids -> Process] /\ leaked \subseteq Pids
    BY DEF Crash, RegistryInv, TypeOK
  <1>2. /\ process' = [p \in Pids |->
             IF p \in known /\ Alive(p)
             THEN [process[p] EXCEPT !.status = IF p = calling.pid
                                                THEN "leaving" ELSE "dead"]
             ELSE process[p]]
        /\ leaked' = IF calling.pid \notin known
                     THEN leaked \cup {calling.pid} ELSE leaked
    BY DEF Crash
  <1>3. \A p \in Pids : Alive(p) /\ p \notin leaked /\ p # calling.pid
          => p \in known
    <2> SUFFICES ASSUME NEW p \in Pids, Alive(p), p \notin leaked,
                        p # calling.pid
                 PROVE  p \in known
      OBVIOUS
    <2>1. /\ monitors[p] \in Keys /\ actors[monitors[p]] # None
          /\ actors[monitors[p]].pid = p
      BY DEF RegistryInv, OnlyCrashesLeak, MapsMirror, TypeOK
    <2>2. calling.entry[monitors[p]] = actors[monitors[p]]
      BY <1>1, <2>1 DEF RegistryInv, CallAddsOne
    <2> QED
      BY <2>1, <2>2
  <1> HIDE DEF known
  <1>4. /\ process' \in [Pids -> Process]
        /\ \A p \in Pids :
             /\ process'[p].key = process[p].key
             /\ process'[p].owner_epoch = process[p].owner_epoch
             /\ process'[p].status = "unborn" => process'[p] = process[p]
             /\ Alive(p) /\ p \in known =>
                  process'[p].status \in {"leaving", "dead"}
             /\ ~Alive(p) => process'[p] = process[p]
    <2>1. \A p \in Pids, s \in {"leaving", "dead"} :
            LET a == [process[p] EXCEPT !.status = s] IN
            /\ a \in Process /\ a.status = s /\ a.key = process[p].key
            /\ a.owner_epoch = process[p].owner_epoch
      BY <1>1 DEF Process
    <2> QED
      BY <1>1, <1>2, <2>1
  <1>5. TypeOK'
    BY <1>1, <1>2, <1>4 DEF RegistryInv, TypeOK
  <1>6. MapsMirror' /\ RegisteredIsNewest' /\ OneTenant' /\ DownsAreDue'
        /\ CallAddsOne'
    BY <1>1
    DEF MapsMirror, RegisteredIsNewest, OneTenant, DownsAreDue, CallAddsOne
  <1>7. OnlyCrashesLeak'
    <2>1. \A p \in Pids : Alive(p)' => Alive(p) /\ p \notin known
      BY <1>4 DEF Alive
    <2>2. \A p \in Pids : Alive(p)' => p \in leaked'
      BY <1>2, <1>3, <2>1
    <2> QED
      BY <2>2 DEF OnlyCrashesLeak
  <1>8. ProcessesDistinct'
    <2>1. \A p \in Pids : process'[p].status = "unborn" =>
            process'[p] = Unborn /\ monitors'[p] = None
      BY <1>1, <1>4 DEF RegistryInv, ProcessesDistinct
    <2> QED
      BY <2>1, <1>1, <1>4 DEF RegistryInv, ProcessesDistinct
  <1> QED
    BY <1>5, <1>6, <1>7, <1>8 DEF RegistryInv

LEMMA DiesInv ==
  ASSUME RegistryInv, NEW p \in Pids, Dies(p)
  PROVE  RegistryInv'
  <1>1. /\ UNCHANGED <<tenant, actors, monitors, calling, owner, leaked>>
        /\ process[p].status \in {"alive", "leaving"}
        /\ downs' = IF monitors[p] # None THEN downs \cup {p} ELSE downs
        /\ process \in [Pids -> Process] /\ downs \subseteq Pids
        /\ process' = [process EXCEPT ![p].status = "dead"]
    BY DEF Dies, RegistryInv, TypeOK
  <1>2. /\ process'[p].status = "dead" /\ process'[p].key = process[p].key
        /\ process'[p].owner_epoch = process[p].owner_epoch
        /\ \A q \in Pids \ {p} : process'[q] = process[q]
        /\ process' \in [Pids -> Process]
    BY <1>1 DEF Process
  <1>3. TypeOK'
    BY <1>1, <1>2 DEF RegistryInv, TypeOK
  <1>4. MapsMirror' /\ OneTenant' /\ CallAddsOne'
    BY <1>1 DEF RegistryInv, MapsMirror, OneTenant, CallAddsOne
  <1>5. RegisteredIsNewest'
    BY <1>1, <1>2, RegistryFacts DEF RegistryInv, RegisteredIsNewest
  <1>6. OnlyCrashesLeak' /\ DownsAreDue'
    BY <1>1, <1>2 DEF RegistryInv, OnlyCrashesLeak, DownsAreDue, Alive
  <1>7. ProcessesDistinct'
    BY <1>1, <1>2 DEF RegistryInv, ProcessesDistinct
  <1> QED
    BY <1>3, <1>4, <1>5, <1>6, <1>7 DEF RegistryInv

LEMMA DownInv ==
  ASSUME RegistryInv, NEW p \in Pids, Down(p)
  PROVE  RegistryInv'
  <1> DEFINE k == monitors[p]
  <1>1. /\ UNCHANGED <<tenant, calling, process, owner, leaked>>
        /\ calling = None /\ p \in downs /\ downs' = downs \ {p}
        /\ process[p].status = "dead" /\ k \in Keys
        /\ actors[k] # None /\ actors[k].pid = p
        /\ actors \in [Keys -> Entry \cup {None}]
        /\ monitors \in [Pids -> Keys \cup {None}]
    BY RegistryAssumption
    DEF Down, RegistryInv, TypeOK, DownsAreDue, MapsMirror
  <1>2. /\ monitors' = [monitors EXCEPT ![p] = None]
        /\ actors' = [actors EXCEPT ![k] = None]
    BY <1>1 DEF Down, RegistryInv, DownsAreDue
  <1> HIDE DEF k
  <1>3. TypeOK'
    BY <1>1, <1>2 DEF RegistryInv, TypeOK
  <1>4. MapsMirror'
    <2>1. \A j \in Keys : actors'[j] # None => monitors'[actors'[j].pid] = j
      BY <1>1, <1>2, RegistryFacts DEF k
    <2>2. \A q \in Pids : monitors'[q] # None =>
            actors'[monitors'[q]] # None /\ actors'[monitors'[q]].pid = q
      BY <1>1, <1>2 DEF RegistryInv, MapsMirror
    <2> QED
      BY <2>1, <2>2 DEF MapsMirror
  <1>5. RegisteredIsNewest' /\ OneTenant' /\ CallAddsOne'
    BY <1>1, <1>2 DEF RegistryInv, RegisteredIsNewest, OneTenant, CallAddsOne
  <1>6. OnlyCrashesLeak' /\ DownsAreDue' /\ ProcessesDistinct'
    BY <1>1, <1>2
    DEF RegistryInv, OnlyCrashesLeak, DownsAreDue, ProcessesDistinct, Alive
  <1> QED
    BY <1>3, <1>4, <1>5, <1>6 DEF RegistryInv

LEMMA ClaimedElsewhereInv ==
  ASSUME RegistryInv, NEW k \in Keys, ClaimedElsewhere(k)
  PROVE  RegistryInv'
  <1>1. /\ UNCHANGED <<tenant, actors, monitors, downs, calling, process, leaked>>
        /\ owner \in [Keys -> 0..MaxOwner] /\ owner' \in [Keys -> 0..MaxOwner]
        /\ \A j \in Keys : owner[j] <= owner'[j]
    BY RegistryAssumption DEF ClaimedElsewhere, Claimed, RegistryInv, TypeOK
  <1>2. ProcessesDistinct'
    <2>1. \A q \in Pids, j \in Keys : process[q].key = j =>
            process[q].owner_epoch \in 1..owner[j]
      BY DEF RegistryInv, ProcessesDistinct
    <2>2. \A q \in Pids, j \in Keys : process[q].key = j =>
            process[q].owner_epoch \in 1..owner'[j]
      BY <2>1, <1>1, RegistryAssumption
    <2> QED
      BY <1>1, <2>2 DEF RegistryInv, ProcessesDistinct
  <1> QED
    BY <1>1, <1>2
    DEF RegistryInv, TypeOK, MapsMirror, RegisteredIsNewest, OneTenant,
        OnlyCrashesLeak, DownsAreDue, CallAddsOne, Alive

-----------------------------------------------------------------------------
(* The theorems.                                                           *)

LEMMA RegistryInitInv == Init => RegistryInv
  <1>1. Unborn \in Process
    BY RegistryAssumption DEF Unborn, Process
  <1>2. Init => \A p \in Pids : process[p] = Unborn /\ ~Alive(p)
    BY DEF Init, Unborn, Alive
  <1>3. Init => TypeOK
    BY <1>1, RegistryAssumption DEF Init, TypeOK
  <1>4. Init => ProcessesDistinct
    <2> SUFFICES ASSUME Init PROVE ProcessesDistinct
      OBVIOUS
    <2>1. \A p \in Pids : process[p] = Unborn /\ process[p].key = None
                          /\ monitors[p] = None
      BY <1>2 DEF Init, Unborn
    <2> QED
      BY <2>1, RegistryAssumption DEF ProcessesDistinct
  <1> QED
    BY <1>2, <1>3, <1>4
    DEF Init, RegistryInv, MapsMirror, RegisteredIsNewest, OneTenant,
        OnlyCrashesLeak, DownsAreDue, CallAddsOne

LEMMA RegistryNextInv ==
  ASSUME RegistryInv, [Next]_vars
  PROVE  RegistryInv'
  <1>1. CASE Next
    BY <1>1, StartFirstInv, ReplaceInv, UseActorInv, ReplyInv, CrashInv,
       DiesInv, DownInv, ClaimedElsewhereInv
    DEF Next
  <1>2. CASE UNCHANGED vars
    BY <1>2
    DEF vars, RegistryInv, TypeOK, MapsMirror, RegisteredIsNewest, OneTenant,
        OnlyCrashesLeak, DownsAreDue, ProcessesDistinct, CallAddsOne, Alive
  <1> QED
    BY <1>1, <1>2

\* Maps, mailbox, processes and store fit together in every state.
THEOREM RegistryInvHolds == Spec => []RegistryInv
  <1>1. Init => RegistryInv
    BY RegistryInitInv
  <1>2. RegistryInv /\ [Next]_vars => RegistryInv'
    BY RegistryNextInv
  <1> QED
    BY <1>1, <1>2, PTL DEF Spec

\* The registered actor has the newest owner epoch of its machine.
THEOREM RegisteredIsNewestHolds == Spec => []RegisteredIsNewest
  <1>1. RegistryInv => RegisteredIsNewest
    BY DEF RegistryInv
  <1> QED
    BY <1>1, RegistryInvHolds, PTL

\* Only a crash of the registry loses track of a living actor.
THEOREM OnlyCrashesLeakHolds == Spec => []OnlyCrashesLeak
  <1>1. RegistryInv => OnlyCrashesLeak
    BY DEF RegistryInv
  <1> QED
    BY <1>1, RegistryInvHolds, PTL

\* A DOWN message that comes late removes no living actor.
THEOREM DownRemovesTheDeadHolds == Spec => DownRemovesTheDead
  <1> DEFINE Due == \A k \in Keys : actors[k] # None /\ actors'[k] = None =>
                      \/ process'[actors[k].pid].status = "dead"
                      \/ calling # None
  <1>1. ASSUME RegistryInv, [Next]_vars
        PROVE  [Due]_vars
    <2> SUFFICES ASSUME Next, NEW j \in Keys,
                        actors[j] # None, actors'[j] = None, calling = None
                 PROVE  process'[actors[j].pid].status = "dead"
      BY <1>1
    <2>1. /\ actors[j].pid \in Pids /\ process \in [Pids -> Process]
          /\ actors \in [Keys -> Entry \cup {None}]
      BY <1>1, RegistryFacts DEF RegistryInv, TypeOK
    <2>2. ASSUME NEW k \in Keys, NEW epoch \in RuntimeEpochs, Replace(k, epoch)
          PROVE  process'[actors[j].pid].status = "dead"
      <3>1. CASE j = k
        <4>1. \A q \in Pids : Stopped(q)[q].status = "dead"
          BY <2>1 DEF Stopped, Process
        <4>2. process[actors[j].pid].status # "unborn"
          BY <1>1, RegistryFacts
        <4>3. ASSUME NEW p \in Pids, StartSucceeds(k, epoch, p)
              PROVE  FALSE
          BY <2>1, <3>1, <4>3, RegistryAssumption, <1>1
          DEF StartSucceeds, Entry, Claimed, RegistryInv, TypeOK
        <4> QED
          BY <2>1, <2>2, <3>1, <4>1, <4>3 DEF Replace
      <3>2. CASE j # k
        BY <2>1, <2>2, <3>2 DEF Replace, StartFails, StartSucceeds
      <3> QED
        BY <3>1, <3>2
    <2>3. ASSUME NEW k \in Keys, NEW epoch \in RuntimeEpochs,
                 StartFirst(k, epoch)
          PROVE  FALSE
      BY <2>1, <2>3 DEF StartFirst, StartFails, StartSucceeds
    <2>4. ASSUME NEW p \in Pids, Down(p)
          PROVE  process'[actors[j].pid].status = "dead"
      <3>1. CASE monitors[p] = j
        BY <1>1, <2>1, <2>4, <3>1
        DEF Down, RegistryInv, DownsAreDue, MapsMirror
      <3>2. CASE monitors[p] # j
        BY <2>1, <2>4, <3>2 DEF Down
      <3> QED
        BY <3>1, <3>2
    <2> QED
      BY <2>2, <2>3, <2>4
      DEF Next, UseActor, Reply, Crash, Dies, ClaimedElsewhere
  <1> QED
    BY <1>1, RegistryInvHolds, PTL DEF Spec, DownRemovesTheDead

\* A living actor is replaced only by one of a newer runtime epoch.
THEOREM NoRegressionHolds == Spec => NoRegression
  <1> DEFINE Newer == \A k \in Keys :
        actors[k] # None /\ actors'[k] # None /\ Alive(actors[k].pid) =>
          actors'[k].runtime_epoch >= actors[k].runtime_epoch
  <1>1. ASSUME RegistryInv, [Next]_vars
        PROVE  [Newer]_vars
    <2> SUFFICES ASSUME Next, NEW j \in Keys, actors[j] # None, actors'[j] # None,
                        Alive(actors[j].pid)
                 PROVE  actors'[j].runtime_epoch >= actors[j].runtime_epoch
      BY <1>1
    <2>1. /\ actors[j].runtime_epoch \in Nat
          /\ actors \in [Keys -> Entry \cup {None}]
      BY <1>1, RegistryAssumption, RegistryFacts DEF Entry, RegistryInv, TypeOK
    <2>2. ASSUME NEW k \in Keys, NEW epoch \in RuntimeEpochs,
                 StartFirst(k, epoch) \/ Replace(k, epoch)
          PROVE  actors'[j].runtime_epoch >= actors[j].runtime_epoch
      <3>1. CASE j = k
        <4>1. Replace(k, epoch) /\ epoch > actors[j].runtime_epoch
          BY <2>2, <3>1 DEF StartFirst, Replace, Superseded
        <4>2. actors'[j].runtime_epoch = epoch
          BY <2>1, <3>1, <4>1 DEF Replace, StartFails, StartSucceeds
        <4> QED
          BY <2>1, <4>1, <4>2, RegistryAssumption
      <3>2. CASE j # k
        BY <2>1, <2>2, <3>2 DEF StartFirst, Replace, StartFails, StartSucceeds
      <3> QED
        BY <3>1, <3>2
    <2>3. CASE UNCHANGED actors
      BY <2>1, <2>3
    <2>4. ASSUME NEW p \in Pids, Down(p)
          PROVE  actors'[j].runtime_epoch >= actors[j].runtime_epoch
      BY <2>1, <2>4 DEF Down
    <2> QED
      BY <2>2, <2>3, <2>4 DEF Next, UseActor, Reply, Crash, Dies, ClaimedElsewhere
  <1> QED
    BY <1>1, RegistryInvHolds, PTL DEF Spec, NoRegression

-----------------------------------------------------------------------------
(* The processes of a key claim its owner epochs.                          *)

\* What a process holds of a key's epochs is at most the latest.
LEMMA HeldIsClaimed ==
  ASSUME RegistryInv, NEW k \in Keys, NEW p \in Pids
  PROVE  Held(k)[p] \in 0..owner[k] /\ owner[k] \in Nat
  BY RegistryAssumption DEF Held, RegistryInv, TypeOK, ProcessesDistinct

\* A process that lives on keeps what it holds, one that dies gives it up.
LEMMA KeepsClaims ==
  ASSUME RegistryInv, NEW k \in Keys, owner'[k] \in {owner[k], owner[k] + 1},
         \A p \in Pids : Held(k)'[p] \in {Held(k)[p], 0}
  PROVE  Claims(k)!ClaimsNext
  <1>1. \A p \in Pids : Held(k)'[p] # owner[k] + 1
    BY HeldIsClaimed
  <1> QED
    BY <1>1 DEF Claims!ClaimsNext

\* The step of a request: the replaced actor gives up its epoch, and the new one,
\* if there is one, claims the next.
LEMMA StartClaims ==
  ASSUME RegistryInv, NEW k \in Keys, NEW epoch \in RuntimeEpochs, NEW j \in Keys,
         StartFirst(k, epoch) \/ Replace(k, epoch)
  PROVE  Claims(j)!ClaimsNext
  <1>1. /\ process \in [Pids -> Process] /\ owner \in [Keys -> 0..MaxOwner]
        /\ monitors \in [Pids -> Keys \cup {None}]
        /\ actors[k] # None =>
             actors[k].pid \in Pids /\ process[actors[k].pid].status # "unborn"
    BY RegistryFacts DEF RegistryInv, TypeOK
  <1>2. \A q \in Pids : LET d == [process[q] EXCEPT !.status = "dead"] IN d.status = "dead"
    BY <1>1 DEF Process
  <1>3. CASE StartFails(k) /\ (process' = process \/ process' = Stopped(actors[k].pid))
    <2>1. owner'[j] \in {owner[j], owner[j] + 1}
      BY <1>1, <1>3 DEF StartFails, Claimed
    <2>2. \A q \in Pids : process'[q] = process[q] \/ process'[q].status = "dead"
      BY <1>1, <1>2, <1>3 DEF Stopped
    <2> QED
      BY <2>1, <2>2, KeepsClaims DEF Held
  <1>4. ASSUME NEW p \in Pids, StartSucceeds(k, epoch, p),
               \/ process' = [process EXCEPT ![p] = Spawned(k)]
               \/ /\ actors[k] # None
                  /\ process' = [Stopped(actors[k].pid) EXCEPT ![p] = Spawned(k)]
        PROVE  Claims(j)!ClaimsNext
    <2>1. /\ process'[p] = Spawned(k) /\ process[p] = Unborn
          /\ \A q \in Pids \ {p} : process'[q] = process[q] \/ process'[q].status = "dead"
      BY <1>1, <1>2, <1>4 DEF Stopped, StartSucceeds, RegistryInv, ProcessesDistinct
    <2>2. /\ owner'[k] = owner[k] + 1
          /\ \A i \in Keys \ {k} : owner'[i] = owner[i]
      BY <1>1, <1>4 DEF StartSucceeds, Claimed
    <2>3. \A q \in Pids \ {p} : Held(j)'[q] \in {Held(j)[q], 0}
      BY <2>1 DEF Held
    <2>4. CASE j # k
      <3>1. Held(j)'[p] = 0
        BY <2>1, <2>4 DEF Held, Spawned
      <3> QED
        BY <2>2, <2>3, <2>4, <3>1, KeepsClaims
    <2>5. CASE j = k
      <3>1. Held(j)'[p] = owner[k] + 1 /\ Held(j)[p] = 0
        BY <2>1, <2>5 DEF Held, Spawned, Unborn, Claimed
      <3>2. \A q \in Pids \ {p} : Held(j)'[q] # owner[k] + 1
        BY <2>3, <2>5, HeldIsClaimed
      <3> QED
        BY <2>2, <2>3, <2>5, <3>1, <3>2 DEF Claims!ClaimsNext
    <2> QED
      BY <2>4, <2>5
  <1>5. CASE StartFirst(k, epoch)
    <2>1. CASE StartFails(k) /\ process' = process
      BY <1>3, <2>1
    <2>2. ASSUME NEW p \in Pids, StartSucceeds(k, epoch, p),
                 process' = [process EXCEPT ![p] = Spawned(k)]
          PROVE  Claims(j)!ClaimsNext
      BY <1>4, <2>2
    <2> QED
      BY <1>5, <2>1, <2>2 DEF StartFirst
  <1>6. CASE Replace(k, epoch)
    <2>1. CASE StartFails(k) /\ process' = Stopped(actors[k].pid)
      BY <1>3, <2>1
    <2>2. ASSUME NEW p \in Pids, StartSucceeds(k, epoch, p), actors[k] # None,
                 process' = [Stopped(actors[k].pid) EXCEPT ![p] = Spawned(k)]
          PROVE  Claims(j)!ClaimsNext
      BY <1>4, <2>2
    <2> QED
      BY <1>6, <2>1, <2>2 DEF Replace
  <1> QED
    BY <1>5, <1>6

\* What happens to the processes in every other step.
LEMMA OtherClaims ==
  ASSUME RegistryInv, NEW j \in Keys,
         \/ \E k \in Keys, epoch \in RuntimeEpochs : UseActor(k, epoch)
         \/ Reply \/ Crash \/ UNCHANGED vars
         \/ \E p \in Pids : Dies(p) \/ Down(p)
         \/ \E k \in Keys : ClaimedElsewhere(k)
  PROVE  Claims(j)!ClaimsNext
  <1>1. process \in [Pids -> Process] /\ owner \in [Keys -> 0..MaxOwner]
    BY DEF RegistryInv, TypeOK
  <1>2. owner'[j] \in {owner[j], owner[j] + 1}
    BY <1>1 DEF UseActor, Reply, Crash, Dies, Down, ClaimedElsewhere, Claimed, vars
  <1>3. \A q \in Pids, s \in {"leaving", "dead"} :
          LET a == [process[q] EXCEPT !.status = s] IN
          a.status = s /\ a.key = process[q].key /\ a.owner_epoch = process[q].owner_epoch
    BY <1>1 DEF Process
  <1>4. \A q \in Pids :
          \/ process'[q] = process[q]
          \/ process'[q].status = "dead"
          \/ /\ process'[q].status = "leaving" /\ process[q].status = "alive"
             /\ process'[q].key = process[q].key
             /\ process'[q].owner_epoch = process[q].owner_epoch
    <2>1. CASE process' = process
      BY <2>1
    <2>2. ASSUME NEW p \in Pids, Dies(p)
          PROVE  \A q \in Pids : process'[q] = process[q] \/ process'[q].status = "dead"
      BY <1>1, <1>3, <2>2 DEF Dies
    <2>3. CASE Crash
      BY <1>1, <1>3, <2>3 DEF Crash, Alive
    <2> QED
      BY <2>1, <2>2, <2>3 DEF UseActor, Reply, Down, ClaimedElsewhere, vars
  <1>5. \A q \in Pids : Held(j)'[q] \in {Held(j)[q], 0}
    BY <1>4 DEF Held
  <1> QED
    BY <1>2, <1>5, KeepsClaims

\* The processes started for a key implement the allocation of its owner epochs:
\* each claims an epoch above all earlier ones, and none shares one, through
\* replacements, crashes of the registry and claims of other machines.
THEOREM ImplementsOwnerEpochsHolds == Spec => ImplementsOwnerEpochs
  <1> DEFINE Step == \A k \in Keys : Claims(k)!ClaimsNext
  <1>1. Init => \A k \in Keys : Claims(k)!ClaimsInit
    <2> SUFFICES ASSUME Init, NEW k \in Keys
                 PROVE  owner[k] = 0 /\ Held(k) = [p \in Pids |-> 0]
      BY DEF Claims!ClaimsInit
    <2> QED
      BY DEF Init, Held, Unborn
  <1>2. RegistryInv /\ [Next]_vars => [Step]_vars
    BY StartClaims, OtherClaims DEF Next
  <1> QED
    BY <1>1, <1>2, RegistryInvHolds, PTL DEF Spec, ImplementsOwnerEpochs
=============================================================================
