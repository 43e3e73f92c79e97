------------------------------ MODULE RuntimeApi -------------------------------
(***************************************************************************)
(* The HTTP service around RuntimeHost: which operations of one shard may  *)
(* run side by side, what the service remembers of activations, and the    *)
(* calls it forwards to the guest.                                         *)
(*                                                                         *)
(* Source: infra-runtime-host/src/main.rs.  A handler holds the lifecycle  *)
(* barrier for reading and the gate of its shard; the sweeper holds the    *)
(* barrier for writing.  For one shard the two are one lock, `gate', which *)
(* the sweeper takes like a handler.  A call to the guest (invoke,         *)
(* critical_section) holds it only while it is admitted.  When a client    *)
(* goes away the future of its handler is dropped: it releases what it     *)
(* holds and does nothing more.                                            *)
(*                                                                         *)
(* Requests are authorised and well formed.  Clients of /v1/shards/touch   *)
(* are taken to report the end of what they reported the begin of, once.   *)
(***************************************************************************)
EXTENDS RuntimeHost, FiniteSets

CONSTANTS
  Handlers, Sweeper,
  MaxAbandoned       \* bound on dropped calls

ASSUME ApiAssumption ==
  /\ Tasks = Handlers \cup {Sweeper}
  /\ Sweeper \notin Handlers
  /\ MaxAbandoned \in Nat

VARIABLES
  gate,      \* the task that holds the gate and the barrier, or None
  observed,  \* observed_activation: the loaded deployments of each epoch, or None
  abandoned  \* history: calls of each epoch whose handler was dropped

vars == <<hostVars, gate, observed, abandoned>>

NothingObserved == [e \in Epochs |-> None]

Init ==
  /\ HostInit
  /\ gate = None
  /\ observed = NothingObserved
  /\ abandoned = [e \in Epochs |-> 0]

\* Mutant: handlers of one shard, and the sweeper, do not exclude each other.
Unguarded(t) == task[t] = Idle

\* The task is free, and takes the gate and the barrier.
Free(t) == task[t] = Idle /\ gate = None

Enter(t) == Free(t) /\ gate' = t

Leave(t) == gate' = IF gate = t THEN None ELSE gate

-----------------------------------------------------------------------------
(* Handlers that complete without waiting for a process.                   *)

\* Mutant: a live shard may be given another deployment in the same epoch.
RetargetableAlways(e, d) == TRUE

\* ensure(): another deployment in the same epoch needs a stopped shard.
Retargetable(e, d) ==
  AtEpoch(e) /\ d # shard.digest => shard.state \in {"cold", "terminated"}

EnsureShard(t, e, d, s) ==
  /\ Free(t)
  /\ Retargetable(e, d)
  /\ Ensure(e, d, s)
  /\ observed' = IF shard = None \/ ~AtEpoch(e) \/ d # shard.digest
                 THEN NothingObserved ELSE observed
  /\ UNCHANGED <<gate, abandoned>>

WarmIdle(t, e) ==
  /\ Free(t)
  /\ MarkWarmIdle(e)
  /\ UNCHANGED <<task, gate, observed, abandoned>>

-----------------------------------------------------------------------------
(* Calls to the guest, and activity that clients report.                   *)

\* deployment_allowed(): what was observed of this epoch, or the placement.
Allowed(d) ==
  IF observed[shard.epoch] # None THEN d \in observed[shard.epoch]
                                  ELSE d = shard.digest

\* What critical_section() asks of the shard, and invoke() the same.
Admissible(e, d) ==
  /\ AtEpoch(e)
  /\ shard.state \in Runnable
  /\ Allowed(d)

\* invoke() or critical_section() admits a call.
Admit(t, e, d) ==
  /\ Free(t)
  /\ Admissible(e, d)
  /\ TouchUp
  /\ task' = [task EXCEPT ![t] = [Doing("call", "wait", e, shard.pid)
                                    EXCEPT !.digest = d]]
  /\ UNCHANGED <<vm, files, last, lost, gate, observed, abandoned>>

\* touch() with active_delta +1, in any state of the record.
Hold(t, e) ==
  /\ Free(t)
  /\ AtEpoch(e)
  /\ TouchUp
  /\ task' = [task EXCEPT ![t] = Doing("hold", "wait", e, None)]
  /\ UNCHANGED <<vm, files, last, lost, gate, observed, abandoned>>

\* Mutant: the end of a call is counted whatever the epoch of the record.
CountedAtAny(e) == shard # None

\* The end of a call of a replaced epoch is refused (StaleEpoch).
CountedAt(e) == AtEpoch(e)

\* The call's answer, error or timeout: touch() with -1, outside the gate.
EndCall(t) ==
  /\ task[t].op = "call"
  /\ IF CountedAt(task[t].epoch) THEN TouchDown ELSE UNCHANGED shard
  /\ Finish(t)
  /\ UNCHANGED <<vm, files, last, lost, gate, observed, abandoned>>

\* touch() with active_delta -1 is a request like others.
Release(t) ==
  /\ task[t].op = "hold"
  /\ gate = None
  /\ IF CountedAt(task[t].epoch) THEN TouchDown ELSE UNCHANGED shard
  /\ Finish(t)
  /\ UNCHANGED <<vm, files, last, lost, gate, observed, abandoned>>

\* The handler of a call is dropped, or a client does not return.
Abandon(t) ==
  /\ task[t].op \in {"call", "hold"}
  /\ abandoned[task[t].epoch] < MaxAbandoned
  /\ abandoned' = [abandoned EXCEPT ![task[t].epoch] = @ + 1]
  /\ Finish(t)
  /\ UNCHANGED <<shard, vm, files, last, lost, gate, observed>>

-----------------------------------------------------------------------------
(* Activation.                                                             *)

BeginActivate(t, e, d) ==
  /\ Enter(t)
  /\ AtEpoch(e)
  /\ shard.state \in Runnable
  /\ task' = [task EXCEPT ![t] = [Doing("activate", "wait", e, shard.pid)
                                    EXCEPT !.digest = d]]
  /\ UNCHANGED <<shard, vm, files, last, lost, observed, abandoned>>

\* The guest has loaded the artifact and says so.
ActivateSucceeds(t) ==
  /\ task[t].op = "activate"
  /\ vm[task[t].pid].status = "running"
  /\ vm' = [vm EXCEPT ![task[t].pid].loaded = @ \cup {task[t].digest}]
  /\ observed' = [observed EXCEPT ![task[t].epoch] =
       (IF @ = None THEN {} ELSE @) \cup {shard.digest, task[t].digest}]
  /\ Leave(t)
  /\ Finish(t)
  /\ UNCHANGED <<shard, files, last, lost, abandoned>>

\* Mutant: the activation is noted before the guest has confirmed it.
ActivateFailsNoted(t) ==
  /\ task[t].op = "activate"
  /\ observed' = [observed EXCEPT ![task[t].epoch] =
       (IF @ = None THEN {} ELSE @) \cup {task[t].digest}]
  /\ Leave(t)
  /\ Finish(t)
  /\ UNCHANGED <<shard, vm, files, last, lost, abandoned>>

\* An error, a timeout, or a dropped future; the guest may have loaded it.
ActivateFails(t) ==
  /\ task[t].op = "activate"
  /\ \/ UNCHANGED vm
     \/ /\ vm[task[t].pid].status = "running"
        /\ vm' = [vm EXCEPT ![task[t].pid].loaded = @ \cup {task[t].digest}]
  /\ Leave(t)
  /\ Finish(t)
  /\ UNCHANGED <<shard, files, last, lost, observed, abandoned>>

-----------------------------------------------------------------------------
(* Handlers and the sweeper around the long operations of the host.        *)

Start(t, e) ==
  /\ Enter(t)
  /\ BeginStart(t, e)
  /\ UNCHANGED <<observed, abandoned>>

Hibernate(t, e) ==
  /\ Enter(t)
  /\ BeginHibernate(t, e)
  /\ UNCHANGED <<observed, abandoned>>

\* Mutant: the handler leaves the check to the library, which has none.
UncheckedIdle == TRUE

\* terminate() refuses while invocations are active.
NoneActive == shard.active = 0

Terminate(t, e) ==
  /\ Enter(t)
  /\ AtEpoch(e)
  /\ NoneActive
  /\ BeginTerminate(t, e, "terminate")
  /\ UNCHANGED <<observed, abandoned>>

\* A second terminate() finds nothing to do but to forget what was observed.
TerminateAgain(t, e) ==
  /\ Free(t)
  /\ AtEpoch(e)
  /\ NoneActive
  /\ shard.state = "terminated"
  /\ observed' = NothingObserved
  /\ UNCHANGED <<hostVars, gate, abandoned>>

\* Mutant: the wrong state is looked for, and snapshots are kept for ever.
DestroyableWarm == shard.state = "warm_idle"

Destroyable == shard.state = "hibernated"

\* sweep_once() for this shard: its record has been idle for long enough.
Sweep ==
  /\ shard # None
  /\ shard.active = 0
  /\ \/ /\ shard.state = "hot"
        /\ WarmIdle(Sweeper, shard.epoch)
     \/ /\ shard.state = "warm_idle"
        /\ Hibernate(Sweeper, shard.epoch)
     \/ /\ Destroyable
        /\ Enter(Sweeper)
        /\ BeginTerminate(Sweeper, shard.epoch, "destroy")
        /\ UNCHANGED <<observed, abandoned>>

\* A step of a long operation that keeps the gate.
Step(t) ==
  /\ Spawn(t) \/ Stop(t) \/ Pause(t) \/ SnapshotAndKill(t) \/ CopyState(t)
     \/ CopyMem(t)
  /\ UNCHANGED <<gate, observed, abandoned>>

\* The end of a long operation, as intended or not.  Only a terminate()
\* request that succeeds forgets the observed activations.
EndStart(t) ==
  /\ StartSucceeds(t) \/ StartFails(t) \/ StartDropped(t)
  /\ Leave(t)
  /\ UNCHANGED <<observed, abandoned>>

EndStop(t) ==
  /\ EndTerminate(t)
  /\ Leave(t)
  /\ observed' = IF task[t].op = "terminate" THEN NothingObserved ELSE observed
  /\ UNCHANGED abandoned

EndSnapshot(t) ==
  /\ EndHibernate(t) \/ StopsEarly(t)
  /\ Leave(t)
  /\ UNCHANGED <<observed, abandoned>>

Exit(p) == Exits(p) /\ UNCHANGED <<gate, observed, abandoned>>

Next ==
  \/ \E t \in Handlers, e \in Epochs :
       \/ \E d \in Digests :
            \/ \E s \in SnapshotPolicies : EnsureShard(t, e, d, s)
            \/ Admit(t, e, d)
            \/ BeginActivate(t, e, d)
       \/ WarmIdle(t, e) \/ Hold(t, e) \/ Start(t, e) \/ Hibernate(t, e)
       \/ Terminate(t, e) \/ TerminateAgain(t, e)
  \/ \E t \in Handlers :
       EndCall(t) \/ Release(t) \/ Abandon(t) \/ ActivateSucceeds(t)
       \/ ActivateFails(t) \/ EndStart(t)
  \/ \E t \in Tasks : Step(t) \/ EndStop(t) \/ EndSnapshot(t)
  \/ Sweep
  \/ \E p \in Pids : Exit(p)

Spec == Init /\ [][Next]_vars

\* The sweeper's loop goes on for ever, an operation it has begun ends, and the
\* requests it repeats to a process that runs, and was not told to end, do not
\* fail every time.
SweeperFairness ==
  /\ WF_vars(Sweep)
  /\ WF_vars(Step(Sweeper) \/ EndStop(Sweeper) \/ EndSnapshot(Sweeper))
  /\ SF_vars(/\ Pause(Sweeper)
             /\ Runs(task[Sweeper].pid)
             /\ UNCHANGED <<gate, observed, abandoned>>)
  /\ SF_vars(/\ SnapshotAndKill(Sweeper)
             /\ Runs(task[Sweeper].pid)
             /\ UNCHANGED <<gate, observed, abandoned>>)

FairSpec == Spec /\ SweeperFairness

-----------------------------------------------------------------------------
Shard == [epoch : Epochs, digest : Digests, snapshots : SnapshotPolicies,
          state : States, active : Nat, pid : Pids \cup {None}]

\* The absence of a record is not a record.
ASSUME NoneAssumption == None \notin Shard /\ None \notin Digests

Process == [status : {"unborn", "running", "paused", "ending", "dead"},
            epoch : Epochs \cup {0}, loaded : SUBSET Digests,
            placed : Digests \cup {None}]

Task == [op : {"none", "call", "hold", "activate", "start", "hibernate",
               "terminate", "destroy"},
         step : {"none", "wait", "boot", "restore", "spawned", "stop",
                 "cleanup", "pause", "snapshot", "copy state", "copy mem",
                 "end"},
         epoch : Epochs \cup {0}, pid : Pids \cup {None},
         digest : Digests \cup {None}]

\* The types of the host's and the service's state.
TypeOK ==
  /\ shard \in Shard \cup {None}
  /\ vm \in [Pids -> Process]
  /\ files \in [Epochs -> [state : Pids \cup {None}, mem : Pids \cup {None}]]
  /\ task \in [Tasks -> Task]
  /\ last \in [Epochs -> Pids \cup {None}]
  /\ lost \subseteq Pids
  /\ gate \in Tasks \cup {None}
  /\ observed \in [Epochs -> (SUBSET Digests) \cup {None}]
  /\ abandoned \in [Epochs -> 0..MaxAbandoned]

Stopping == {"hibernate", "terminate", "destroy"}

FindsRecord(t) ==
  /\ task[t].op \in {"start", "activate"} \cup Stopping =>
       AtEpoch(task[t].epoch)
  /\ task[t].op = "start" => shard.state = "starting" /\ shard.pid = None
  /\ task[t].op = "activate" =>
       shard.state \in Runnable /\ shard.pid = task[t].pid
  /\ task[t].op = "hibernate" =>
       /\ shard.state \in Runnable
       /\ shard.active = 0
       /\ shard.pid = task[t].pid
  /\ task[t].op \in {"terminate", "destroy"} =>
       shard.state = "draining" /\ shard.pid = task[t].pid

\* What an operation does to the record after its second lock is right: the
\* record is of its epoch and in the state in which the operation left it, with
\* the process that it cloned.
RelockFindsRecord == \A t \in Tasks : FindsRecord(t)

\* A runnable shard has a process of its epoch, and a shard that is cold,
\* starting, hibernated or terminated has none.
HandlesFollowState ==
  shard # None =>
    /\ shard.state \in Runnable => shard.pid # None
    /\ shard.state \notin Runnable \cup {"draining"} => shard.pid = None
    /\ shard.pid # None =>
         vm[shard.pid].epoch = shard.epoch /\ vm[shard.pid].status # "unborn"

\* The host keeps hold of every process it has not told to end: it is the
\* record's or is being started for it, in the record's epoch.  The exceptions
\* are processes the host forgot: a start() that was dropped, or the failed kill
\* after a failed boot.  A process that was told to end may still be there when
\* its successor runs.
NoStrayProcess ==
  \A p \in Pids : Runs(p) /\ p \notin lost =>
    /\ AtEpoch(vm[p].epoch)
    /\ \/ shard.pid = p
       \/ \E t \in Tasks : At(t, "start", "spawned") /\ task[t].pid = p

\* The gate is with the task whose operation waits for a process or the guest.
GateIsHeld ==
  \A t \in Tasks : gate = t <=> task[t].op \in {"start", "activate"} \cup Stopping

KnowsProcess(t) ==
  /\ task[t].op = "none" <=> task[t] = Idle
  /\ task[t].op = "start" =>
       /\ task[t].step \in {"boot", "restore", "spawned"}
       /\ task[t].step = "restore" => files[task[t].epoch].mem # None
       /\ task[t].step = "spawned" =>
            /\ task[t].pid # None
            /\ vm[task[t].pid].status # "unborn"
            /\ vm[task[t].pid].epoch = task[t].epoch
  /\ task[t].op \in {"none", "call", "hold", "activate"} =>
       task[t].step \in {"none", "wait"}
  /\ task[t].op = "activate" => task[t].digest \in Digests
  /\ task[t].step \in {"cleanup", "copy state", "copy mem", "end"} =>
       task[t].pid = None \/ ~Runs(task[t].pid)

\* A process that an operation has at hand is one that was started, and past the
\* operation's kill it was told to end; a restore has a memory file.
TasksKnowProcesses == \A t \in Tasks : KnowsProcess(t)

\* The induction hypothesis: gate, operations, record and processes agree.
HostInv ==
  /\ TypeOK
  /\ GateIsHeld
  /\ TasksKnowProcesses
  /\ RelockFindsRecord
  /\ HandlesFollowState
  /\ NoStrayProcess

\* A hibernated shard can be restored: both snapshot files are there and are of
\* the process that served the epoch last.
RestoresTheLast ==
  shard # None /\ shard.state = "hibernated" =>
    /\ last[shard.epoch] # None
    /\ files[shard.epoch] = [state |-> last[shard.epoch], mem |-> last[shard.epoch]]

Counted(e) == {t \in Tasks : task[t].op \in {"call", "hold"} /\ task[t].epoch = e}

\* active_invocations is the number of calls in flight and of reported
\* activities, and of those nobody will ever take back.
ActiveCountsCalls ==
  shard # None =>
    shard.active = Cardinality(Counted(shard.epoch)) + abandoned[shard.epoch]

\* No operation stops a process while a call waits for its answer, unless the
\* shard has no snapshots and hibernate() turns into terminate().
NoStopUnderCall ==
  \A t, u \in Tasks :
    task[t].op = "call" /\ task[u].op \in Stopping /\ task[u].pid = task[t].pid =>
      task[u].op = "destroy" /\ ~shard.snapshots

\* The placement of a runnable shard is the one under which the memory of its
\* guest was booted, through restores, failed restores and same-epoch updates:
\* no guest is handed a placement that was not there when it began.
PlacementIsKept ==
  shard # None /\ shard.state \in Runnable => shard.digest = vm[shard.pid].placed

\* What the service lists as loaded is of the epoch of the record and has its
\* placement, which it lists unconfirmed; all else on the list a guest of that
\* epoch has loaded.
ObservedWasConfirmed ==
  \A e \in Epochs : observed[e] # None =>
    /\ AtEpoch(e)
    /\ shard.digest \in observed[e]
    /\ \A d \in observed[e] \ {shard.digest} :
         \E p \in Pids : vm[p].epoch = e /\ d \in vm[p].loaded

Names(p) == shard # None /\ shard.pid = p

\* Once there are no more requests the sweeper takes the shard down, unless its
\* process is gone or was told to end by a hibernation that failed after, a call
\* was abandoned, or an operation ended half way.
IdleIsReclaimed ==
  <>[](\A t \in Handlers : task[t] = Idle) =>
    <>[]( \/ shard = None
          \/ shard.state \in {"cold", "starting", "draining", "terminated"}
          \/ shard.active > 0
          \/ \E p \in Pids : Names(p) /\ ~Runs(p) )

-----------------------------------------------------------------------------
(* What the service says of itself, and does not do.                       *)

\* "deployment digest is not observed as loaded for this shard epoch": a call
\* that is admitted, for a deployment other than the placement, finds it loaded.
ObservedIsLoaded ==
  shard # None /\ shard.state \in Runnable /\ observed[shard.epoch] # None =>
    observed[shard.epoch] \ {shard.digest} \subseteq vm[shard.pid].loaded
=============================================================================
