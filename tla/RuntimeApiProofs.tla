---------------------------- MODULE RuntimeApiProofs ----------------------------
(***************************************************************************)
(* HostInv holds of the runtime host and its service for every number of   *)
(* handlers, epochs, deployments and processes.                            *)
(*                                                                         *)
(* HostInv is inductive.  Between the two locks of an operation only its   *)
(* task holds the gate (GateIsHeld), so what the second lock finds is what *)
(* the first left (RelockFindsRecord), but for the end of a call, which is *)
(* counted without the gate: it changes neither epoch nor process, and not *)
(* the state of a record whose counter is zero (CallEndKeeps).  That every *)
(* process is named by the record or an operation (NoStrayProcess) needs   *)
(* that an operation which clears the name has told the process to end     *)
(* first (TasksKnowProcesses).                                             *)
(*                                                                         *)
(* First types, then the requests that hold no gate (QuickInv), those that *)
(* take it (EnterInv), the steps under it (StepInv), the ends (EndInv).    *)
(*                                                                         *)
(* Four invariants stand on HostInv, each with a strengthening of its own: *)
(* RestoreInv, CountInv, StopInv and PlacementInv.                         *)
(***************************************************************************)
EXTENDS RuntimeApi, TLAPS, FiniteSetTheorems

\* Updates of a record's fields give a record.
LEMMA RecordsStayRecords ==
  ASSUME shard \in Shard
  PROVE  /\ \A st \in States, p \in Pids \cup {None} : Settled(st, p) \in Shard
         /\ \A n \in Nat : Active(n) \in Shard
         /\ \A st \in States : [shard EXCEPT !.state = st] \in Shard
         /\ \A d \in Digests, s \in SnapshotPolicies :
              [[shard EXCEPT !.digest = d] EXCEPT !.snapshots = s] \in Shard
  <1>1. \A st \in States, p \in Pids \cup {None} : Settled(st, p) \in Shard
    BY DEF Settled, Shard
  <1>2. \A n \in Nat : Active(n) \in Shard
    BY DEF Active, Shard, States
  <1>3. \A st \in States : [shard EXCEPT !.state = st] \in Shard
    BY DEF Shard
  <1>4. \A d \in Digests, s \in SnapshotPolicies :
              [[shard EXCEPT !.digest = d] EXCEPT !.snapshots = s] \in Shard
    BY DEF Shard
  <1> QED
    BY <1>1, <1>2, <1>3, <1>4

\* The fields of the record after a step.
LEMMA SettledIs ==
  ASSUME shard \in Shard, NEW st \in States, NEW p \in Pids \cup {None},
         shard' = Settled(st, p)
  PROVE  /\ shard' \in Shard /\ shard'.state = st /\ shard'.pid = p
         /\ shard'.epoch = shard.epoch /\ shard'.active = shard.active
         /\ shard'.snapshots = shard.snapshots
  BY DEF Settled, Shard

LEMMA StateIs ==
  ASSUME shard \in Shard, NEW st \in States, shard' = [shard EXCEPT !.state = st]
  PROVE  /\ shard' \in Shard /\ shard'.state = st
         /\ shard'.epoch = shard.epoch /\ shard'.pid = shard.pid
         /\ shard'.active = shard.active /\ shard'.snapshots = shard.snapshots
  BY DEF Shard

LEMMA ActiveIs ==
  ASSUME shard \in Shard, NEW n \in Nat, shard' = Active(n)
  PROVE  /\ shard' \in Shard /\ shard'.active = n
         /\ shard'.epoch = shard.epoch /\ shard'.pid = shard.pid
         /\ shard'.snapshots = shard.snapshots
         /\ shard'.state = IF n > 0 /\ shard.state = "warm_idle" THEN "hot"
                           ELSE shard.state
  BY DEF Active, Shard, States

LEMMA DoingIsTask ==
  ASSUME NEW op \in {"call", "hold", "activate", "start", "hibernate",
                     "terminate", "destroy"},
         NEW step \in {"wait", "boot", "restore", "spawned", "stop", "pause"},
         NEW e \in Epochs, NEW p \in Pids \cup {None}
  PROVE  /\ Doing(op, step, e, p) \in Task
         /\ \A d \in Digests : [Doing(op, step, e, p) EXCEPT !.digest = d] \in Task
  <1>1. Doing(op, step, e, p) \in Task
    BY DEF Doing, Task
  <1>2. ASSUME NEW d \in Digests
        PROVE  [Doing(op, step, e, p) EXCEPT !.digest = d] \in Task
    BY DEF Doing, Task
  <1> QED
    BY <1>1, <1>2

LEMMA IdleIsTask == Idle \in Task
  BY DEF Idle, Task

LEMMA HostInitInv ==
  ASSUME Init
  PROVE  HostInv
  <1>1. shard \in Shard \cup {None} /\ gate \in Tasks \cup {None} /\ lost \subseteq Pids
    BY DEF Init, HostInit
  <1>2. vm \in [Pids -> Process]
    BY DEF Init, HostInit, Unborn, Process
  <1>3. task \in [Tasks -> Task]
    BY IdleIsTask DEF Init, HostInit
  <1>4. /\ files \in [Epochs -> [state : Pids \cup {None}, mem : Pids \cup {None}]]
        /\ last \in [Epochs -> Pids \cup {None}]
    BY DEF Init, HostInit
  <1>5. /\ observed \in [Epochs -> (SUBSET Digests) \cup {None}]
        /\ abandoned \in [Epochs -> 0..MaxAbandoned]
    BY ApiAssumption DEF Init, NothingObserved
  <1>6. TypeOK
    BY <1>1, <1>2, <1>3, <1>4, <1>5 DEF TypeOK
  <1> QED
    BY <1>6, HostAssumption
    DEF Init, HostInit, HostInv, GateIsHeld, TasksKnowProcesses, KnowsProcess,
        RelockFindsRecord, FindsRecord, HandlesFollowState, NoStrayProcess, Idle, Unborn,
        Live, Runs, At, Stopping, AtEpoch

-----------------------------------------------------------------------------
LEMMA RequestTypes ==
  ASSUME HostInv, NEW t \in Tasks, NEW e \in Epochs, NEW d \in Digests,
         NEW s \in SnapshotPolicies,
         \/ EnsureShard(t, e, d, s) \/ Admit(t, e, d) \/ WarmIdle(t, e)
         \/ Hold(t, e) \/ TerminateAgain(t, e) \/ BeginActivate(t, e, d)
         \/ Start(t, e) \/ Hibernate(t, e) \/ Terminate(t, e)
         \/ (Enter(t) /\ BeginTerminate(t, e, "destroy") /\ UNCHANGED <<observed, abandoned>>)
  PROVE  TypeOK'
  <1>0. TypeOK /\ (shard # None => shard \in Shard)
    BY DEF HostInv, TypeOK
  <1> USE <1>0, HostAssumption DEF TypeOK
  <1>1. CASE EnsureShard(t, e, d, s)
    <2>1. NewShard(e, d, s) \in Shard
      BY DEF NewShard, Shard, States
    <2>2. shard' \in Shard
      <3>1. CASE shard' = NewShard(e, d, s)
        BY <2>1, <3>1
      <3>2. CASE AtEpoch(e) /\ shard' = [[shard EXCEPT !.digest = d] EXCEPT !.snapshots = s]
        BY <3>2, RecordsStayRecords DEF AtEpoch
      <3> QED
        BY <1>1, <3>1, <3>2 DEF EnsureShard, Ensure
    <2>3. observed' \in [Epochs -> (SUBSET Digests) \cup {None}]
      BY <1>1 DEF EnsureShard, NothingObserved
    <2> QED
      BY <1>1, <2>2, <2>3 DEF EnsureShard, Ensure
  <1>2. CASE Admit(t, e, d)
    <2>1. shard.pid \in Pids \cup {None} /\ shard.active + 1 \in Nat
      BY <1>2 DEF Admit, Admissible, AtEpoch, Shard
    <2> QED
      BY <1>2, <2>1, RecordsStayRecords, DoingIsTask DEF Admit, Admissible, TouchUp, AtEpoch
  <1>3. CASE WarmIdle(t, e)
    BY <1>3, RecordsStayRecords DEF WarmIdle, MarkWarmIdle, AtEpoch, States
  <1>4. CASE Hold(t, e)
    <2>1. shard.active + 1 \in Nat
      BY <1>4 DEF Hold, AtEpoch, Shard
    <2> QED
      BY <1>4, <2>1, RecordsStayRecords, DoingIsTask DEF Hold, TouchUp, AtEpoch
  <1>5. CASE TerminateAgain(t, e)
    BY <1>5 DEF TerminateAgain, NothingObserved, hostVars
  <1>6. CASE BeginActivate(t, e, d)
    <2>1. shard.pid \in Pids \cup {None}
      BY <1>6 DEF BeginActivate, AtEpoch, Shard
    <2> QED
      BY <1>6, <2>1, DoingIsTask DEF BeginActivate, Enter
  <1>7. CASE Start(t, e)
    BY <1>7, RecordsStayRecords, DoingIsTask DEF Start, Enter, BeginStart, AtEpoch, States
  <1>8. ASSUME NEW op \in {"terminate", "destroy"}, Enter(t),
               BeginTerminate(t, e, op), UNCHANGED <<observed, abandoned>>
        PROVE  TypeOK'
    <2>1. shard.pid \in Pids \cup {None}
      BY <1>8 DEF BeginTerminate, AtEpoch, Shard
    <2> QED
      BY <1>8, <2>1, RecordsStayRecords, DoingIsTask
      DEF BeginTerminate, Enter, AtEpoch, States
  <1>9. CASE Hibernate(t, e)
    <2>1. shard.pid \in Pids \cup {None}
      BY <1>9 DEF Hibernate, BeginHibernate, AtEpoch, Shard
    <2>2. CASE ~shard.snapshots
      BY <1>8, <1>9, <2>2 DEF Hibernate, BeginHibernate
    <2>3. CASE shard.snapshots
      <3>1. /\ task' = [task EXCEPT ![t] = Doing("hibernate", "pause", e, shard.pid)]
            /\ UNCHANGED <<shard, vm, files, last, lost, observed, abandoned>>
            /\ gate' = t
        BY <1>9, <2>3 DEF Hibernate, BeginHibernate, Enter
      <3>2. Doing("hibernate", "pause", e, shard.pid) \in Task
        BY <2>1, DoingIsTask
      <3> QED
        BY <3>1, <3>2
    <2> QED
      BY <2>2, <2>3
  <1> QED
    BY <1>1, <1>2, <1>3, <1>4, <1>5, <1>6, <1>7, <1>8, <1>9 DEF Terminate

\* A call and its end.
LEMMA CallTypes ==
  ASSUME HostInv, NEW t \in Tasks,
         EndCall(t) \/ Release(t) \/ Abandon(t) \/ ActivateSucceeds(t) \/ ActivateFails(t)
  PROVE  TypeOK'
  <1>0. TypeOK /\ (shard # None => shard \in Shard)
    BY DEF HostInv, TypeOK
  <1> USE <1>0, HostAssumption, ApiAssumption, IdleIsTask DEF TypeOK
  <1>1. CASE EndCall(t) \/ Release(t)
    <2>1. task' \in [Tasks -> Task]
      BY <1>1 DEF EndCall, Release, Finish
    <2>2. shard' \in Shard \cup {None}
      <3>1. CASE CountedAt(task[t].epoch) /\ TouchDown
        <4>1. shard \in Shard /\ shard.active \in Nat
          BY <3>1 DEF CountedAt, AtEpoch, Shard
        <4>2. (IF shard.active = 0 THEN 0 ELSE shard.active - 1) \in Nat
          BY <4>1
        <4> QED
          BY <3>1, <4>1, <4>2, RecordsStayRecords DEF TouchDown
      <3> QED
        BY <1>1, <3>1 DEF EndCall, Release
    <2> QED
      BY <1>1, <2>1, <2>2 DEF EndCall, Release
  <1>2. CASE Abandon(t)
    <2>1. abandoned' \in [Epochs -> 0..MaxAbandoned]
      <3>1. /\ abandoned' = [abandoned EXCEPT ![task[t].epoch] = @ + 1]
            /\ abandoned[task[t].epoch] < MaxAbandoned
        BY <1>2 DEF Abandon
      <3>2. ASSUME NEW e \in Epochs
            PROVE  abandoned'[e] \in 0..MaxAbandoned
        <4>1. abandoned[e] \in 0..MaxAbandoned
          OBVIOUS
        <4> QED
          BY <3>1, <4>1
      <3>3. abandoned' = [e \in Epochs |-> abandoned'[e]]
        BY <3>1
      <3> QED
        BY <3>2, <3>3
    <2> QED
      BY <1>2, <2>1 DEF Abandon, Finish
  <1>3. CASE ActivateSucceeds(t) \/ ActivateFails(t)
    <2>1. /\ task[t].digest \in Digests
          /\ shard \in Shard
      BY <1>3
      DEF ActivateSucceeds, ActivateFails, HostInv, TasksKnowProcesses, KnowsProcess,
          RelockFindsRecord, FindsRecord, AtEpoch
    <2>2. ASSUME NEW p \in Pids
          PROVE  [vm EXCEPT ![p].loaded = @ \cup {task[t].digest}] \in [Pids -> Process]
      BY <2>1 DEF Process
    <2>3. task[t].pid \in Pids
      <3>1. shard.pid = task[t].pid /\ shard.state \in Runnable
        BY <1>3 DEF ActivateSucceeds, ActivateFails, HostInv, RelockFindsRecord, FindsRecord
      <3>2. shard.pid # None /\ shard.pid \in Pids \cup {None}
        BY <2>1, <3>1, NoneAssumption DEF HostInv, HandlesFollowState, Shard
      <3> QED
        BY <3>1, <3>2
    <2>4. vm' \in [Pids -> Process]
      BY <1>3, <2>2, <2>3 DEF ActivateSucceeds, ActivateFails
    <2>5. observed' \in [Epochs -> (SUBSET Digests) \cup {None}]
      <3>1. shard.digest \in Digests
        BY <2>1 DEF Shard
      <3> QED
        BY <1>3, <2>1, <3>1 DEF ActivateSucceeds, ActivateFails
    <2> QED
      BY <1>3, <2>4, <2>5 DEF ActivateSucceeds, ActivateFails, Leave, Finish
  <1> QED
    BY <1>1, <1>2, <1>3

\* The process that an operation is about to change is one of the processes.
LEMMA HeldProcess ==
  ASSUME HostInv, NEW t \in Tasks, Live(task[t].pid),
         \/ At(t, "start", "spawned")
         \/ task[t].op \in Stopping /\ task[t].pid # None
         \/ task[t].op = "hibernate"
  PROVE  task[t].pid \in Pids
  <1>1. task[t].pid \in Pids \cup {None}
    BY DEF HostInv, TypeOK, Task
  <1> QED
    BY <1>1
    DEF HostInv, TasksKnowProcesses, KnowsProcess, RelockFindsRecord, FindsRecord, HandlesFollowState, At,
        Stopping, AtEpoch

LEMMA StatusTypes ==
  ASSUME TypeOK, NEW p \in Pids,
         NEW s \in {"unborn", "running", "paused", "ending", "dead"}
  PROVE  [vm EXCEPT ![p].status = s] \in [Pids -> Process]
  BY DEF TypeOK, Process

\* What Pause() leaves: a process that was told to end is not told otherwise.
LEMMA PausedIs ==
  ASSUME TypeOK, NEW t \in Tasks, Pause(t)
  PROVE  /\ Live(task[t].pid) /\ Proceed(t, "snapshot")
         /\ UNCHANGED <<shard, files, last, lost>>
         /\ \E s \in {"paused", "ending"} :
              /\ vm' = [vm EXCEPT ![task[t].pid].status = s]
              /\ s = "paused" => Runs(task[t].pid)
  <1> DEFINE p == task[t].pid
             s == IF vm[p].status = "running" THEN "paused" ELSE vm[p].status
  <1>1. Live(p) /\ Proceed(t, "snapshot") /\ UNCHANGED <<shard, files, last, lost>>
    BY DEF Pause
  <1>2. s \in {"paused", "ending"} /\ (s = "paused" => Runs(p))
    BY <1>1 DEF Live, Runs
  <1>3. vm' = [vm EXCEPT ![p].status = s]
    BY DEF Pause
  <1> QED
    BY <1>1, <1>2, <1>3

LEMMA ProceedTypes ==
  ASSUME TypeOK, NEW t \in Tasks,
         NEW step \in {"cleanup", "snapshot", "copy state", "copy mem", "end"},
         Proceed(t, step)
  PROVE  task' \in [Tasks -> Task]
  <1>1. task[t] \in Task
    BY DEF TypeOK
  <1>2. [task[t] EXCEPT !.step = step] \in Task
    BY <1>1 DEF Task
  <1>3. task' = [task EXCEPT ![t] = [task[t] EXCEPT !.step = step]]
    BY DEF Proceed
  <1> QED
    BY <1>2, <1>3 DEF TypeOK

LEMMA FileTypes ==
  ASSUME TypeOK, NEW e \in Epochs, NEW p \in Pids \cup {None}
  PROVE  /\ [files EXCEPT ![e].state = p] \in
              [Epochs -> [state : Pids \cup {None}, mem : Pids \cup {None}]]
         /\ [files EXCEPT ![e].mem = p] \in
              [Epochs -> [state : Pids \cup {None}, mem : Pids \cup {None}]]
  BY DEF TypeOK

\* What Spawn() leaves: a process that runs in the epoch of its task.
LEMMA SpawnedIs ==
  ASSUME HostInv, NEW t \in Tasks, Spawn(t)
  PROVE  \E step \in {"boot", "restore"}, p \in Pids :
           /\ At(t, "start", step)
           /\ vm[p].status = "unborn"
           /\ vm' \in [Pids -> Process]
           /\ vm'[p].status = "running" /\ vm'[p].epoch = task[t].epoch
           /\ vm'[p].placed = IF step = "restore"
                              THEN vm[files[task[t].epoch].mem].placed ELSE shard.digest
           /\ \A q \in Pids \ {p} : vm'[q] = vm[q]
           /\ task' = [task EXCEPT ![t] = Doing("start", "spawned", task[t].epoch, p)]
           /\ UNCHANGED <<shard, files, last, lost>>
  <1>1. PICK step \in {"boot", "restore"}, p \in Pids :
          /\ At(t, "start", step)
          /\ vm[p].status = "unborn"
          /\ vm' = [vm EXCEPT ![p] =
               [(IF step = "restore" THEN vm[files[task[t].epoch].mem]
                                     ELSE [Unborn EXCEPT !.placed = shard.digest])
                  EXCEPT !.status = "running", !.epoch = task[t].epoch]]
          /\ task' = [task EXCEPT ![t] = Doing("start", "spawned", task[t].epoch, p)]
          /\ UNCHANGED <<shard, files, last, lost>>
    BY DEF Spawn
  <1>2. shard \in Shard /\ shard.epoch = task[t].epoch /\ vm \in [Pids -> Process]
    BY <1>1 DEF At, HostInv, RelockFindsRecord, FindsRecord, AtEpoch, TypeOK
  <1>3. task[t].epoch \in Epochs /\ shard.digest \in Digests
    BY <1>2 DEF Shard
  <1>4. step = "restore" => files[task[t].epoch].mem \in Pids
    <2>1. step = "restore" => files[task[t].epoch].mem # None
      BY <1>1 DEF HostInv, TasksKnowProcesses, KnowsProcess, At
    <2>2. files[task[t].epoch].mem \in Pids \cup {None}
      BY <1>3 DEF HostInv, TypeOK
    <2> QED
      BY <2>1, <2>2
  <1> DEFINE from == IF step = "restore" THEN vm[files[task[t].epoch].mem]
                     ELSE [Unborn EXCEPT !.placed = shard.digest]
             new == [from EXCEPT !.status = "running", !.epoch = task[t].epoch]
  <1>5. from \in Process /\ (step # "restore" => from.placed = shard.digest)
    BY <1>1, <1>2, <1>3, <1>4 DEF Process, Unborn
  <1>6. /\ new \in Process /\ new.status = "running" /\ new.epoch = task[t].epoch
        /\ new.placed = from.placed
    <2> HIDE DEF from
    <2> QED
      BY <1>3, <1>5 DEF Process
  <1>7. vm' = [vm EXCEPT ![p] = new]
    BY <1>1
  <1>8. new.placed = IF step = "restore" THEN vm[files[task[t].epoch].mem].placed
                                         ELSE shard.digest
    BY <1>1, <1>5, <1>6
  <1> HIDE DEF new
  <1>9. vm'[p] = new /\ (\A q \in Pids \ {p} : vm'[q] = vm[q]) /\ vm' \in [Pids -> Process]
    BY <1>2, <1>6, <1>7
  <1> QED
    BY <1>1, <1>6, <1>8, <1>9

\* A step inside a long operation.
LEMMA StepTypes ==
  ASSUME HostInv, NEW t \in Tasks, Step(t)
  PROVE  TypeOK'
  <1>0. TypeOK
    BY DEF HostInv
  <1>1. UNCHANGED <<gate, observed, abandoned>>
    BY DEF Step
  <1>2. CASE Spawn(t)
    <2>1. PICK p \in Pids :
            /\ task[t].op = "start"
            /\ vm' \in [Pids -> Process]
            /\ task' = [task EXCEPT ![t] = Doing("start", "spawned", task[t].epoch, p)]
            /\ UNCHANGED <<shard, files, last, lost>>
      BY <1>2, SpawnedIs DEF At
    <2>2. task[t].epoch \in Epochs
      BY <1>0, <2>1 DEF HostInv, RelockFindsRecord, FindsRecord, AtEpoch, TypeOK, Shard
    <2> QED
      BY <1>0, <1>1, <2>1, <2>2, DoingIsTask DEF TypeOK
  <1>3. CASE Stop(t)
    <2>1. vm' \in [Pids -> Process]
      <3>1. CASE task[t].pid = None
        BY <1>0, <1>3, <3>1 DEF Stop, TypeOK
      <3>2. CASE task[t].pid # None
        <4>1. /\ Live(task[t].pid)
              /\ vm' = [vm EXCEPT ![task[t].pid].status = "ending"]
              /\ task[t].op \in Stopping
          BY <1>3, <3>2 DEF Stop, Killed, Stopping
        <4>2. task[t].pid \in Pids
          BY <3>2, <4>1, HeldProcess
        <4> QED
          BY <1>0, <4>1, <4>2, StatusTypes
      <3> QED
        BY <3>1, <3>2
    <2> QED
      BY <1>0, <1>1, <1>3, <2>1, ProceedTypes DEF Stop, TypeOK
  <1>4. CASE Pause(t) \/ SnapshotAndKill(t)
    <2>1. PICK s \in {"paused", "ending"}, step \in {"snapshot", "copy state"} :
            /\ Live(task[t].pid)
            /\ vm' = [vm EXCEPT ![task[t].pid].status = s]
            /\ Proceed(t, step)
            /\ UNCHANGED <<shard, files, last, lost>>
      BY <1>0, <1>4, PausedIs DEF Pause, SnapshotAndKill, Killed
    <2>2. task[t].pid \in Pids
      BY <1>4, <2>1, HeldProcess DEF Pause, SnapshotAndKill, At
    <2>3. vm' \in [Pids -> Process]
      BY <1>0, <2>1, <2>2, StatusTypes
    <2>4. task' \in [Tasks -> Task]
      BY <1>0, <2>1, ProceedTypes
    <2> QED
      BY <1>0, <1>1, <2>1, <2>3, <2>4 DEF TypeOK
  <1>5. CASE CopyState(t) \/ CopyMem(t)
    <2>1. task[t].epoch \in Epochs /\ task[t].pid \in Pids \cup {None}
      BY <1>0, <1>5
      DEF CopyState, CopyMem, At, HostInv, RelockFindsRecord, FindsRecord, AtEpoch, Stopping,
          TypeOK, Task, Shard
    <2>2. files' \in [Epochs -> [state : Pids \cup {None}, mem : Pids \cup {None}]]
      <3>1. CASE CopyState(t)
        BY <1>0, <2>1, <3>1 DEF CopyState, TypeOK
      <3>2. CASE CopyMem(t)
        BY <1>0, <2>1, <3>2 DEF CopyMem, MemCopied, TypeOK
      <3> QED
        BY <1>5, <3>1, <3>2
    <2>3. task' \in [Tasks -> Task]
      <3>1. Proceed(t, "copy mem") \/ Proceed(t, "end")
        BY <1>5 DEF CopyState, CopyMem
      <3> QED
        BY <1>0, <3>1, ProceedTypes
    <2>4. UNCHANGED <<shard, vm, last, lost>>
      BY <1>5 DEF CopyState, CopyMem
    <2> QED
      BY <1>0, <1>1, <2>2, <2>3, <2>4 DEF TypeOK
  <1> QED
    BY <1>2, <1>3, <1>4, <1>5 DEF Step

\* The end of a long operation.
LEMMA EndTypes ==
  ASSUME HostInv, NEW t \in Tasks, EndStart(t) \/ EndStop(t) \/ EndSnapshot(t)
  PROVE  TypeOK'
  <1>0. TypeOK
    BY DEF HostInv
  <1>1. /\ task' \in [Tasks -> Task]
        /\ gate' \in Tasks \cup {None}
        /\ observed' \in [Epochs -> (SUBSET Digests) \cup {None}]
        /\ abandoned' \in [Epochs -> 0..MaxAbandoned]
    <2>1. Finish(t) /\ Leave(t) /\ UNCHANGED abandoned
          /\ observed' \in {observed, NothingObserved}
      BY DEF EndStart, EndStop, EndSnapshot, StartSucceeds, StartFails,
             StartDropped, EndTerminate, EndHibernate, StopsEarly
    <2> QED
      BY <1>0, <2>1, IdleIsTask DEF Finish, Leave, NothingObserved, TypeOK
  <1>2. /\ task[t].op \in {"start"} \cup Stopping
        /\ shard \in Shard /\ shard.epoch = task[t].epoch
    BY <1>0
    DEF EndStart, EndStop, EndSnapshot, StartSucceeds, StartFails, StartDropped,
        EndTerminate, EndHibernate, StopsEarly, At, Stopping, HostInv,
        RelockFindsRecord, FindsRecord, AtEpoch, TypeOK
  <1>3. task[t].epoch \in Epochs /\ task[t].pid \in Pids \cup {None}
    BY <1>0, <1>2 DEF TypeOK, Shard, Task
  <1>4. CASE StartSucceeds(t)
    <2>1. shard' \in Shard
      BY <1>2, <1>3, <1>4, RecordsStayRecords DEF StartSucceeds, States
    <2> QED
      BY <1>0, <1>1, <1>3, <1>4, <2>1 DEF StartSucceeds, TypeOK
  <1>5. CASE StartFails(t)
    <2>1. shard' \in Shard
      BY <1>2, <1>5, RecordsStayRecords DEF StartFails, States
    <2>2. vm' \in [Pids -> Process] /\ lost' \subseteq Pids
      <3>1. CASE task[t].step = "spawned" /\ Live(task[t].pid)
        <4>1. task[t].pid \in Pids
          BY <1>5, <3>1, HeldProcess DEF StartFails, At
        <4>2. \/ vm' = vm /\ lost' = lost \cup {task[t].pid}
              \/ vm' = [vm EXCEPT ![task[t].pid].status = "ending"] /\ lost' = lost
          BY <1>5, <3>1 DEF StartFails, Undone
        <4>3. [vm EXCEPT ![task[t].pid].status = "ending"] \in [Pids -> Process]
          BY <1>0, <4>1, StatusTypes
        <4>4. vm \in [Pids -> Process] /\ lost \subseteq Pids
          BY <1>0 DEF TypeOK
        <4> QED
          BY <4>1, <4>2, <4>3, <4>4
      <3> QED
        BY <1>0, <1>5, <3>1 DEF StartFails, Undone, TypeOK
    <2> QED
      BY <1>0, <1>1, <1>5, <2>1, <2>2 DEF StartFails, TypeOK
  <1>6. CASE StartDropped(t)
    BY <1>0, <1>1, <1>6, HeldProcess DEF StartDropped, TypeOK, At
  <1>7. CASE EndTerminate(t) \/ EndHibernate(t)
    <2>1. shard' \in Shard
      BY <1>2, <1>7, RecordsStayRecords DEF EndTerminate, EndHibernate, States
    <2> QED
      BY <1>0, <1>1, <1>7, <2>1 DEF EndTerminate, EndHibernate, TypeOK
  <1>8. CASE StopsEarly(t)
    <2>1. files' \in [Epochs -> [state : Pids \cup {None}, mem : Pids \cup {None}]]
      <3>1. Torn(t) \in {files, [files EXCEPT ![task[t].epoch].state = None],
                         [files EXCEPT ![task[t].epoch].mem = None]}
        BY DEF Torn
      <3>2. files' \in {files, Torn(t)}
        BY <1>8 DEF StopsEarly
      <3> QED
        <4>1. files \in [Epochs -> [state : Pids \cup {None}, mem : Pids \cup {None}]]
          BY <1>0 DEF TypeOK
        <4> QED
          BY <1>0, <1>3, <3>1, <3>2, <4>1, FileTypes
    <2> QED
      BY <1>0, <1>1, <1>8, <2>1 DEF StopsEarly, TypeOK
  <1> QED
    BY <1>4, <1>5, <1>6, <1>7, <1>8 DEF EndStart, EndStop, EndSnapshot

LEMMA ExitTypes ==
  ASSUME HostInv, NEW p \in Pids, Exit(p)
  PROVE  TypeOK'
  BY StatusTypes DEF Exit, Exits, HostInv, TypeOK

-----------------------------------------------------------------------------
\* The operations that hold the gate.
Gated == {"start", "activate"} \cup Stopping

LEMMA NobodyGated ==
  ASSUME HostInv, gate = None
  PROVE  \A u \in Tasks : task[u].op \notin Gated
  BY HostAssumption DEF HostInv, GateIsHeld, Gated

\* The record is the same, or is still runnable with the same process.
RecordKept ==
  \/ UNCHANGED shard
  \/ /\ shard \in Shard /\ shard' \in Shard
     /\ shard'.epoch = shard.epoch
     /\ shard'.pid = shard.pid
     /\ \/ shard'.state = shard.state
        \/ shard.state \in Runnable /\ shard'.state \in Runnable

LEMMA KeptAgrees ==
  ASSUME HostInv, RecordKept, UNCHANGED lost,
         \A p \in Pids : vm'[p].status = vm[p].status /\ vm'[p].epoch = vm[p].epoch,
         \A u \in Tasks : task[u].op = "start" => task'[u] = task[u]
  PROVE  HandlesFollowState' /\ NoStrayProcess'
  <1>1. HandlesFollowState'
    <2>1. shard # None => shard.pid \in Pids \cup {None}
      BY DEF HostInv, TypeOK, Shard
    <2> QED
      BY <2>1, NoneAssumption DEF HostInv, HandlesFollowState, RecordKept, Runnable
  <1>2. ASSUME NEW p \in Pids, Runs(p)', p \notin lost'
        PROVE  /\ AtEpoch(vm[p].epoch)'
               /\ \/ shard'.pid = p
                  \/ \E u \in Tasks : At(u, "start", "spawned")' /\ task'[u].pid = p
    <2>1. /\ AtEpoch(vm[p].epoch)
          /\ \/ shard.pid = p
             \/ \E u \in Tasks : At(u, "start", "spawned") /\ task[u].pid = p
      BY <1>2 DEF HostInv, NoStrayProcess, Live, Runs
    <2>2. AtEpoch(vm[p].epoch)' /\ shard'.pid = shard.pid
      BY <2>1, NoneAssumption DEF RecordKept, AtEpoch
    <2> QED
      BY <2>1, <2>2 DEF At
  <1> QED
    BY <1>1, <1>2 DEF NoStrayProcess

\* Nobody holds the gate after the step.
LEMMA QuietInv ==
  ASSUME TypeOK', HandlesFollowState', NoStrayProcess', gate' = None,
         \A u \in Tasks :
           /\ task'[u].op \notin Gated
           /\ task'[u].step \in {"none", "wait"}
           /\ task'[u].op = "none" <=> task'[u] = Idle
  PROVE  HostInv'
  <1>1. GateIsHeld'
    BY HostAssumption DEF GateIsHeld, Gated
  <1>2. RelockFindsRecord' /\ TasksKnowProcesses'
    BY DEF RelockFindsRecord, FindsRecord, TasksKnowProcesses, KnowsProcess, At, Gated, Stopping
  <1> QED
    BY <1>1, <1>2 DEF HostInv

\* The tasks that do not hold the gate know of no process that they started.
LEMMA UngatedSteps ==
  ASSUME HostInv, NEW u \in Tasks, task[u].op \notin Gated
  PROVE  /\ task[u].step \in {"none", "wait"}
         /\ task[u].op = "none" <=> task[u] = Idle
  <1>1. task[u].op \in {"none", "call", "hold"}
    <2>1. task[u] \in Task
      BY DEF HostInv, TypeOK
    <2> QED
      BY <2>1 DEF Gated, Stopping, Task
  <1> QED
    BY <1>1 DEF HostInv, TasksKnowProcesses, KnowsProcess

\* The requests that do not take the gate leave the record runnable as it is,
\* or replace that of a terminated shard.
LEMMA QuickKeeps ==
  ASSUME HostInv, NEW t \in Tasks, NEW e \in Epochs, NEW d \in Digests,
         NEW s \in SnapshotPolicies,
         EnsureShard(t, e, d, s) \/ Admit(t, e, d) \/ WarmIdle(t, e)
         \/ Hold(t, e) \/ TerminateAgain(t, e)
  PROVE  \/ RecordKept
         \/ shard' = NewShard(e, d, s) /\ (shard # None => Replaceable)
  <1>0. shard \in Shard \cup {None}
    BY DEF HostInv, TypeOK
  <1>1. CASE EnsureShard(t, e, d, s)
    <2>1. CASE AtEpoch(e) /\ shard' = [[shard EXCEPT !.digest = d] EXCEPT !.snapshots = s]
      BY <1>0, <2>1, RecordsStayRecords DEF RecordKept, AtEpoch, Shard
    <2> QED
      BY <1>1, <2>1 DEF EnsureShard, Ensure
  <1>2. CASE Admit(t, e, d) \/ Hold(t, e)
    <2>1. shard \in Shard /\ shard' = Active(shard.active + 1) /\ shard.active + 1 \in Nat
      BY <1>0, <1>2 DEF Admit, Admissible, Hold, AtEpoch, TouchUp, Shard
    <2> QED
      BY <2>1, ActiveIs DEF RecordKept, Runnable
  <1>3. CASE WarmIdle(t, e)
    <2>1. /\ shard \in Shard /\ shard.state \in Runnable
          /\ shard' = [shard EXCEPT !.state = "warm_idle"]
      BY <1>0, <1>3 DEF WarmIdle, MarkWarmIdle, AtEpoch
    <2> QED
      BY <2>1, StateIs DEF RecordKept, Runnable, States
  <1>4. CASE TerminateAgain(t, e)
    BY <1>4 DEF TerminateAgain, hostVars, RecordKept
  <1> QED
    BY <1>1, <1>2, <1>3, <1>4

\* The requests that do not take the gate.
LEMMA QuickInv ==
  ASSUME HostInv, NEW t \in Tasks, NEW e \in Epochs, NEW d \in Digests,
         NEW s \in SnapshotPolicies,
         EnsureShard(t, e, d, s) \/ Admit(t, e, d) \/ WarmIdle(t, e)
         \/ Hold(t, e) \/ TerminateAgain(t, e)
  PROVE  HostInv'
  <1>1. TypeOK'
    BY RequestTypes
  <1>2. gate = None /\ gate' = None /\ UNCHANGED <<vm, lost>>
    BY DEF EnsureShard, Admit, Admissible, WarmIdle, Hold, TerminateAgain, Free, Ensure,
           MarkWarmIdle, hostVars
  <1>3. \A u \in Tasks :
           /\ task'[u].op \notin Gated
           /\ task'[u].step \in {"none", "wait"}
           /\ task'[u].op = "none" <=> task'[u] = Idle
    <2>1. \A u \in Tasks :
            /\ task[u].op \notin Gated
            /\ task[u].step \in {"none", "wait"}
            /\ task[u].op = "none" <=> task[u] = Idle
      BY <1>2, NobodyGated, UngatedSteps
    <2>2. CASE UNCHANGED task
      BY <2>1, <2>2
    <2>3. CASE Admit(t, e, d) \/ Hold(t, e)
      <3>1. PICK r : /\ task' = [task EXCEPT ![t] = r]
                     /\ r.op \in {"call", "hold"} /\ r.step = "wait"
        BY <2>3 DEF Admit, Admissible, Hold, Doing
      <3>2. r.op \notin Gated /\ r # Idle
        BY <3>1 DEF Gated, Stopping, Idle
      <3> QED
        BY <2>1, <3>1, <3>2 DEF HostInv, TypeOK
    <2> QED
      BY <2>2, <2>3 DEF EnsureShard, Ensure, WarmIdle, TerminateAgain, hostVars
  <1>4. HandlesFollowState' /\ NoStrayProcess'
    <2>1. \A u \in Tasks : task[u].op # "start"
      BY <1>2, NobodyGated DEF Gated
    <2>2. CASE RecordKept
      BY <1>2, <2>1, <2>2, KeptAgrees
    <2>3. CASE shard' = NewShard(e, d, s) /\ (shard # None => Replaceable)
      <3>1. shard'.state = "cold" /\ shard'.pid = None
        BY <2>3 DEF NewShard
      <3>2. \A p \in Pids : ~Runs(p) \/ p \in lost
        BY <2>1, <2>3, HostAssumption
        DEF HostInv, NoStrayProcess, HandlesFollowState, Replaceable, AtEpoch,
            Runnable, At
      <3> QED
        BY <1>2, <3>1, <3>2
        DEF HandlesFollowState, NoStrayProcess, Live, Runs, Runnable
    <2> QED
      BY <2>2, <2>3, QuickKeeps
  <1> QED
    BY <1>1, <1>2, <1>3, <1>4, QuietInv

-----------------------------------------------------------------------------
\* One task holds the gate after the step.
LEMMA HolderInv ==
  ASSUME TypeOK', HandlesFollowState', NoStrayProcess', NEW t \in Tasks,
         gate' = t, task'[t].op \in Gated, FindsRecord(t)', KnowsProcess(t)',
         \A u \in Tasks \ {t} :
           /\ task'[u].op \notin Gated
           /\ task'[u].step \in {"none", "wait"}
           /\ task'[u].op = "none" <=> task'[u] = Idle
  PROVE  HostInv'
  <1>1. GateIsHeld'
    BY DEF GateIsHeld, Gated
  <1>2. ASSUME NEW u \in Tasks
        PROVE  FindsRecord(u)' /\ KnowsProcess(u)'
    <2>1. CASE u = t
      BY <2>1
    <2>2. CASE u # t
      BY <2>2 DEF FindsRecord, KnowsProcess, Gated, Stopping
    <2> QED
      BY <2>1, <2>2
  <1> QED
    BY <1>1, <1>2 DEF HostInv, RelockFindsRecord, TasksKnowProcesses

\* While the gate is free the record names every process that runs.
LEMMA OnlyTheRecords ==
  ASSUME HostInv, gate = None, NEW p \in Pids, Runs(p), p \notin lost
  PROVE  AtEpoch(vm[p].epoch) /\ shard.pid = p
  BY NobodyGated DEF HostInv, NoStrayProcess, At, Gated

\* The requests, and the sweeper's, that take the gate.
LEMMA EnterInv ==
  ASSUME HostInv, NEW t \in Tasks, NEW e \in Epochs, NEW d \in Digests,
         NEW s \in SnapshotPolicies,
         \/ BeginActivate(t, e, d) \/ Start(t, e) \/ Hibernate(t, e)
         \/ Terminate(t, e)
         \/ /\ Enter(t) /\ BeginTerminate(t, e, "destroy")
            /\ UNCHANGED <<observed, abandoned>>
  PROVE  HostInv'
  <1>1. TypeOK'
    BY RequestTypes
  <1>2. gate = None /\ gate' = t /\ UNCHANGED <<vm, files, lost>>
    BY DEF BeginActivate, Start, Hibernate, Terminate, Enter, Free, BeginStart,
           BeginHibernate, BeginTerminate
  <1>3. /\ AtEpoch(e) /\ shard \in Shard
        /\ task \in [Tasks -> Task] /\ vm \in [Pids -> Process]
    BY DEF BeginActivate, Start, Hibernate, Terminate, BeginStart, AtEpoch,
           BeginHibernate, BeginTerminate, HostInv, TypeOK
  <1>4. \A u \in Tasks :
           /\ task[u].op \notin Gated
           /\ task[u].step \in {"none", "wait"}
           /\ task[u].op = "none" <=> task[u] = Idle
    BY <1>2, NobodyGated, UngatedSteps
  <1>5. shard.pid # None =>
          vm[shard.pid].epoch = shard.epoch /\ vm[shard.pid].status # "unborn"
    BY <1>3 DEF AtEpoch, HostInv, HandlesFollowState
  <1>6. ASSUME NEW r, task' = [task EXCEPT ![t] = r], r.op \in Gated,
               FindsRecord(t)', KnowsProcess(t)', HandlesFollowState', NoStrayProcess'
        PROVE  HostInv'
    <2>1. task'[t] = r /\ \A u \in Tasks \ {t} : task'[u] = task[u]
      BY <1>3, <1>6
    <2> QED
      BY <1>1, <1>2, <1>4, <1>6, <2>1, HolderInv
  <1>7. CASE BeginActivate(t, e, d)
    <2> DEFINE r == [Doing("activate", "wait", e, shard.pid) EXCEPT !.digest = d]
    <2>1. /\ task' = [task EXCEPT ![t] = r]
          /\ r.op = "activate" /\ r.step = "wait" /\ r.epoch = e
          /\ r.pid = shard.pid /\ r.digest = d
      BY <1>7 DEF BeginActivate, Doing
    <2> HIDE DEF r
    <2>2. task'[t] = r /\ UNCHANGED shard /\ shard.state \in Runnable
      BY <1>3, <1>7, <2>1 DEF BeginActivate
    <2>3. FindsRecord(t)' /\ KnowsProcess(t)'
      <3>1. FindsRecord(t)'
        BY <1>3, <2>1, <2>2 DEF FindsRecord, AtEpoch, Stopping
      <3>2. r # Idle
        BY <2>1 DEF Idle
      <3>3. KnowsProcess(t)'
        BY <1>3, <2>1, <2>2, <3>2 DEF KnowsProcess
      <3> QED
        BY <3>1, <3>3
    <2>4. HandlesFollowState' /\ NoStrayProcess'
      BY <1>2, <1>4, <2>2, KeptAgrees, <2>1, <1>3 DEF RecordKept, Gated
    <2> QED
      BY <1>6, <2>1, <2>3, <2>4 DEF Gated
  <1>8. CASE Start(t, e)
    <2> DEFINE r == Doing("start",
                      IF /\ shard.state = "hibernated"
                         /\ files[e].state # None
                         /\ files[e].mem # None
                      THEN "restore" ELSE "boot", e, None)
    <2>1. /\ task' = [task EXCEPT ![t] = r]
          /\ r.op = "start" /\ r.step \in {"boot", "restore"}
          /\ r.epoch = e
          /\ r.step = "restore" => files[e].mem # None
      BY <1>8 DEF Start, BeginStart, Doing
    <2> HIDE DEF r
    <2>2. /\ task'[t] = r /\ shard.pid = None /\ shard.epoch = e
          /\ shard' = [shard EXCEPT !.state = "starting"]
      BY <1>3, <1>8, <2>1, NoneAssumption
      DEF Start, BeginStart, Startable, HostInv, HandlesFollowState, Runnable,
          AtEpoch
    <2>3. /\ shard' \in Shard /\ shard'.state = "starting" /\ shard'.pid = None
          /\ shard'.epoch = e
      BY <1>3, <2>2, StateIs DEF States
    <2>4. FindsRecord(t)' /\ KnowsProcess(t)'
      <3>1. FindsRecord(t)'
        BY <2>1, <2>2, <2>3, NoneAssumption DEF FindsRecord, AtEpoch, Stopping
      <3>2. r # Idle
        BY <2>1 DEF Idle
      <3>3. KnowsProcess(t)'
        BY <1>2, <2>1, <2>2, <3>2 DEF KnowsProcess
      <3> QED
        BY <3>1, <3>3
    <2>5. HandlesFollowState'
      BY <2>3 DEF HandlesFollowState, Runnable
    <2>6. NoStrayProcess'
      BY <1>2, <2>2, OnlyTheRecords, HostAssumption DEF NoStrayProcess, Live, Runs
    <2> QED
      BY <1>6, <2>1, <2>4, <2>5, <2>6 DEF Gated
  <1>9. ASSUME NEW op \in {"terminate", "destroy"}, BeginTerminate(t, e, op)
        PROVE  HostInv'
    <2> DEFINE r == Doing(op, "stop", e, shard.pid)
    <2>1. /\ task' = [task EXCEPT ![t] = r]
          /\ r.op = op /\ r.step = "stop" /\ r.epoch = e
          /\ r.pid = shard.pid
      BY <1>9 DEF BeginTerminate, Doing
    <2> HIDE DEF r
    <2>2. task'[t] = r /\ shard' = [shard EXCEPT !.state = "draining"] /\ shard.epoch = e
      BY <1>3, <1>9, <2>1 DEF BeginTerminate, AtEpoch
    <2>3. /\ shard' \in Shard /\ shard'.state = "draining"
          /\ shard'.pid = shard.pid /\ shard'.epoch = e
      BY <1>3, <2>2, StateIs DEF States
    <2>4. FindsRecord(t)' /\ KnowsProcess(t)'
      <3>1. FindsRecord(t)'
        BY <2>1, <2>2, <2>3, NoneAssumption DEF FindsRecord, AtEpoch, Stopping
      <3>2. r # Idle
        BY <2>1 DEF Idle
      <3>3. KnowsProcess(t)'
        BY <1>2, <2>1, <2>2, <3>2 DEF KnowsProcess
      <3> QED
        BY <3>1, <3>3
    <2>5. HandlesFollowState'
      BY <1>2, <1>5, <2>2, <2>3 DEF HandlesFollowState, Runnable
    <2>6. NoStrayProcess'
      BY <1>2, <2>2, <2>3, OnlyTheRecords, NoneAssumption
      DEF NoStrayProcess, Live, Runs, AtEpoch
    <2> QED
      BY <1>6, <2>1, <2>4, <2>5, <2>6 DEF Gated, Stopping
  <1>10. CASE Hibernate(t, e) /\ shard.snapshots
    <2> DEFINE r == Doing("hibernate", "pause", e, shard.pid)
    <2>1. /\ task' = [task EXCEPT ![t] = r]
          /\ r.op = "hibernate" /\ r.step = "pause" /\ r.epoch = e
          /\ r.pid = shard.pid
      BY <1>10 DEF Hibernate, BeginHibernate, Doing
    <2> HIDE DEF r
    <2>2. /\ task'[t] = r /\ UNCHANGED shard
          /\ shard.active = 0 /\ shard.state \in Runnable
      BY <1>3, <1>10, <2>1 DEF Hibernate, BeginHibernate
    <2>3. FindsRecord(t)' /\ KnowsProcess(t)'
      <3>1. FindsRecord(t)'
        BY <1>3, <2>1, <2>2 DEF FindsRecord, AtEpoch, Stopping
      <3>2. r # Idle
        BY <2>1 DEF Idle
      <3>3. KnowsProcess(t)'
        BY <1>3, <2>1, <2>2, <3>2 DEF KnowsProcess
      <3> QED
        BY <3>1, <3>3
    <2>4. HandlesFollowState' /\ NoStrayProcess'
      BY <1>2, <1>4, <2>2, KeptAgrees, <2>1, <1>3 DEF RecordKept, Gated
    <2> QED
      BY <1>6, <2>1, <2>3, <2>4 DEF Gated, Stopping
  <1> QED
    BY <1>7, <1>8, <1>9, <1>10 DEF Terminate, Hibernate, BeginHibernate

-----------------------------------------------------------------------------
\* Only the task that holds the gate is inside a long operation.
LEMMA HolderIs ==
  ASSUME HostInv, NEW t \in Tasks, task[t].op \in Gated
  PROVE  /\ gate = t
         /\ FindsRecord(t) /\ KnowsProcess(t)
         /\ shard \in Shard /\ shard.epoch = task[t].epoch
         /\ task[t].epoch \in Epochs /\ task[t].pid \in Pids \cup {None}
         /\ \A u \in Tasks \ {t} :
              /\ task[u].op \notin Gated
              /\ task[u].step \in {"none", "wait"}
              /\ task[u].op = "none" <=> task[u] = Idle
  <1>1. gate = t /\ FindsRecord(t) /\ KnowsProcess(t)
    BY DEF HostInv, GateIsHeld, RelockFindsRecord, TasksKnowProcesses, Gated
  <1>2. shard \in Shard /\ shard.epoch = task[t].epoch
    BY <1>1 DEF FindsRecord, Gated, AtEpoch, HostInv, TypeOK
  <1>3. task[t].epoch \in Epochs /\ task[t].pid \in Pids \cup {None}
    <2>1. task[t] \in Task
      BY DEF HostInv, TypeOK
    <2> QED
      BY <1>2, <2>1 DEF Shard, Task
  <1>4. \A u \in Tasks \ {t} : task[u].op \notin Gated
    BY <1>1 DEF HostInv, GateIsHeld, Gated
  <1> QED
    BY <1>1, <1>2, <1>3, <1>4, UngatedSteps

\* A step that stops a process, or copies a file.
LEMMA StopStepInv ==
  ASSUME HostInv, NEW t \in Tasks, task[t].op \in Stopping, NEW step,
         task' = [task EXCEPT ![t].step = step],
         UNCHANGED <<shard, lost, gate>>, TypeOK',
         \A p \in Pids :
           /\ vm'[p].epoch = vm[p].epoch
           /\ vm[p].status # "unborn" => vm'[p].status # "unborn"
           /\ Runs(p)' => Runs(p),
         step \in {"cleanup", "copy state", "copy mem", "end"} =>
           \A p \in Pids : Runs(p)' => p # task[t].pid
  PROVE  HostInv'
  <1>1. task[t].op \in Gated
    BY DEF Gated
  <1>2. /\ task'[t].op = task[t].op /\ task'[t].step = step
        /\ task'[t].epoch = task[t].epoch /\ task'[t].pid = task[t].pid
        /\ \A u \in Tasks \ {t} : task'[u] = task[u]
    <2>1. task[t] \in Task /\ task \in [Tasks -> Task]
      BY DEF HostInv, TypeOK
    <2>2. task' = [task EXCEPT ![t] = [task[t] EXCEPT !.step = step]]
      OBVIOUS
    <2>3. task'[t] = [task[t] EXCEPT !.step = step]
      BY <2>1, <2>2
    <2> QED
      BY <2>1, <2>2, <2>3 DEF Task
  <1>3. FindsRecord(t)'
    BY <1>1, <1>2, HolderIs DEF FindsRecord, AtEpoch
  <1>4. KnowsProcess(t)'
    <2>1. task'[t] # Idle
      <3>1. task'[t].op # "none"
        BY <1>2 DEF Stopping
      <3>2. Idle.op = "none"
        BY DEF Idle
      <3> QED
        BY <3>1, <3>2
    <2>2. task'[t].pid \in Pids \cup {None}
      BY <1>1, <1>2, HolderIs
    <2> QED
      BY <1>2, <2>1, <2>2 DEF KnowsProcess, Stopping
  <1>5. HandlesFollowState'
    <2>1. shard # None => shard.pid \in Pids \cup {None}
      BY DEF HostInv, TypeOK, Shard
    <2> QED
      BY <2>1 DEF HostInv, HandlesFollowState
  <1>6. NoStrayProcess'
    <2>1. ASSUME NEW p \in Pids, Runs(p)', p \notin lost'
          PROVE  /\ AtEpoch(vm[p].epoch)'
                 /\ shard'.pid = p
      <3>1. Runs(p) /\ p \notin lost /\ vm'[p].epoch = vm[p].epoch
        BY <2>1
      <3>2. \A u \in Tasks : task[u].op # "start"
        BY <1>1, HolderIs DEF Gated, Stopping
      <3> QED
        BY <3>1, <3>2 DEF HostInv, NoStrayProcess, AtEpoch, At
    <2> QED
      BY <2>1 DEF NoStrayProcess
  <1>7. \A u \in Tasks \ {t} :
           /\ task'[u].op \notin Gated
           /\ task'[u].step \in {"none", "wait"}
           /\ task'[u].op = "none" <=> task'[u] = Idle
    BY <1>1, <1>2, HolderIs
  <1>8. gate' = t /\ task'[t].op \in Gated
    BY <1>1, <1>2, HolderIs
  <1> QED
    BY <1>3, <1>4, <1>5, <1>6, <1>7, <1>8, HolderInv

LEMMA StepInv ==
  ASSUME HostInv, NEW t \in Tasks, Step(t)
  PROVE  HostInv'
  <1>1. TypeOK'
    BY StepTypes
  <1>2. UNCHANGED <<gate, observed, abandoned>>
    BY DEF Step
  <1>3. vm \in [Pids -> Process] /\ task \in [Tasks -> Task]
    BY DEF HostInv, TypeOK
  <1>4. CASE Spawn(t)
    <2>1. PICK step \in {"boot", "restore"}, p \in Pids :
            /\ At(t, "start", step)
            /\ vm[p].status = "unborn"
            /\ vm'[p].status = "running" /\ vm'[p].epoch = task[t].epoch
            /\ \A q \in Pids \ {p} : vm'[q] = vm[q]
            /\ task' = [task EXCEPT ![t] = Doing("start", "spawned", task[t].epoch, p)]
            /\ UNCHANGED <<shard, files, last, lost>>
      BY <1>4, SpawnedIs
    <2>2. task[t].op \in Gated /\ task[t].op = "start"
      BY <2>1 DEF At, Gated
    <2>3. /\ vm'[p].status = "running" /\ vm'[p].epoch = task[t].epoch
          /\ \A q \in Pids \ {p} : vm'[q] = vm[q]
      BY <2>1
    <2>4. /\ task'[t].op = "start" /\ task'[t].step = "spawned"
          /\ task'[t].epoch = task[t].epoch /\ task'[t].pid = p
          /\ task'[t] # Idle
          /\ \A u \in Tasks \ {t} : task'[u] = task[u]
      <3>1. task'[t] = Doing("start", "spawned", task[t].epoch, p)
        BY <1>3, <2>1
      <3>2. task'[t].op = "start" /\ Idle.op = "none"
        BY <3>1 DEF Doing, Idle
      <3> QED
        BY <1>3, <2>1, <3>1, <3>2 DEF Doing
    <2>5. shard.pid = None /\ shard.state = "starting" /\ AtEpoch(task[t].epoch)
      BY <2>2, HolderIs DEF FindsRecord
    <2>6. FindsRecord(t)'
      BY <2>1, <2>4, <2>5 DEF FindsRecord, AtEpoch, Stopping
    <2>7. KnowsProcess(t)'
      BY <2>3, <2>4, HostAssumption DEF KnowsProcess
    <2>8. HandlesFollowState'
      BY <2>1, <2>5 DEF HandlesFollowState, Runnable
    <2>9. NoStrayProcess'
      <3>1. ASSUME NEW q \in Pids, Runs(q)', q \notin lost', q # p
            PROVE  FALSE
        <4>1. Runs(q) /\ q \notin lost
          BY <2>1, <2>3, <3>1 DEF Live, Runs
        <4>2. shard.pid # q
          BY <2>5, HostAssumption
        <4>3. PICK u \in Tasks : At(u, "start", "spawned")
          BY <4>1, <4>2 DEF HostInv, NoStrayProcess
        <4>4. u = t
          BY <2>2, <4>3, HolderIs DEF At, Gated
        <4> QED
          BY <2>1, <4>3, <4>4 DEF At
      <3>2. AtEpoch(vm[p].epoch)' /\ At(t, "start", "spawned")' /\ task'[t].pid = p
        BY <2>1, <2>3, <2>4, <2>5 DEF AtEpoch, At
      <3> QED
        BY <3>1, <3>2 DEF NoStrayProcess
    <2> QED
      BY <1>1, <1>2, <2>2, <2>4, <2>6, <2>7, <2>8, <2>9, HolderIs, HolderInv DEF Gated
  <1>5. ASSUME NEW step, NEW s \in {"paused", "ending"}, task[t].op \in Stopping,
               Live(task[t].pid), s = "paused" => Runs(task[t].pid),
               task[t].pid \in Pids, vm' = [vm EXCEPT ![task[t].pid].status = s],
               Proceed(t, step), UNCHANGED <<shard, lost>>,
               step \in {"cleanup", "copy state", "copy mem", "end"} => s = "ending"
        PROVE  HostInv'
    <2>1. \A p \in Pids :
           /\ vm'[p].epoch = vm[p].epoch
           /\ vm[p].status # "unborn" => vm'[p].status # "unborn"
           /\ Runs(p)' => Runs(p)
      BY <1>3, <1>5 DEF Live, Runs, Process
    <2>2. s = "ending" => \A p \in Pids : Runs(p)' => p # task[t].pid
      BY <1>3, <1>5 DEF Live, Runs, Process
    <2> QED
      BY <1>1, <1>2, <1>5, <2>1, <2>2, StopStepInv DEF Proceed
  <1>6. ASSUME NEW step, task[t].op \in Stopping,
               Proceed(t, step), UNCHANGED <<shard, vm, lost>>,
               step \in {"cleanup", "copy state", "copy mem", "end"} =>
                 task[t].pid = None \/ ~Runs(task[t].pid)
        PROVE  HostInv'
    <2>1. task' = [task EXCEPT ![t].step = step]
      BY <1>6 DEF Proceed
    <2>2. \A p \in Pids :
           /\ vm'[p].epoch = vm[p].epoch
           /\ vm[p].status # "unborn" => vm'[p].status # "unborn"
           /\ Runs(p)' => Runs(p)
      BY <1>6 DEF Live, Runs
    <2>3. step \in {"cleanup", "copy state", "copy mem", "end"} =>
            \A p \in Pids : Runs(p)' => p # task[t].pid
      BY <1>6, HostAssumption DEF Live, Runs
    <2> QED
      BY <1>1, <1>2, <1>6, <2>1, <2>2, <2>3, StopStepInv
  <1>7. CASE Stop(t)
    <2>1. CASE task[t].pid = None
      BY <1>6, <1>7, <2>1 DEF Stop, Stopping
    <2>2. CASE task[t].pid # None
      <3>1. /\ task[t].op \in Stopping /\ Live(task[t].pid)
            /\ vm' = [vm EXCEPT ![task[t].pid].status = "ending"]
            /\ Proceed(t, "cleanup") /\ UNCHANGED <<shard, lost>>
        BY <1>7, <2>2 DEF Stop, Killed, Stopping
      <3>2. task[t].pid \in Pids
        BY <2>2, <3>1, HeldProcess
      <3> QED
        BY <1>5, <3>1, <3>2
    <2> QED
      BY <2>1, <2>2
  <1>8. CASE Pause(t) \/ SnapshotAndKill(t)
    <2>1. task[t].op = "hibernate" /\ Live(task[t].pid)
      BY <1>8 DEF Pause, SnapshotAndKill, Killed, At
    <2>2. task[t].pid \in Pids /\ task[t].op \in Stopping
      BY <2>1, HeldProcess DEF Stopping
    <2>3. CASE Pause(t)
      <3>1. PICK s \in {"paused", "ending"} :
              /\ vm' = [vm EXCEPT ![task[t].pid].status = s]
              /\ s = "paused" => Runs(task[t].pid)
        BY <2>3, PausedIs DEF HostInv
      <3> QED
        BY <1>5, <2>1, <2>2, <2>3, <3>1 DEF Pause
    <2>4. CASE SnapshotAndKill(t)
      BY <1>5, <2>1, <2>2, <2>4 DEF SnapshotAndKill, Killed
    <2> QED
      BY <1>8, <2>3, <2>4
  <1>9. CASE CopyState(t) \/ CopyMem(t)
    <2>1. /\ task[t].op \in Stopping
          /\ task[t].step \in {"copy state", "copy mem"}
          /\ UNCHANGED <<shard, vm, lost>>
          /\ Proceed(t, "copy mem") \/ Proceed(t, "end")
      BY <1>9 DEF CopyState, CopyMem, At, Stopping
    <2>2. task[t].pid = None \/ ~Runs(task[t].pid)
      BY <2>1 DEF HostInv, TasksKnowProcesses, KnowsProcess
    <2> QED
      BY <1>6, <2>1, <2>2
  <1> QED
    BY <1>4, <1>7, <1>8, <1>9 DEF Step

-----------------------------------------------------------------------------
\* The holder gives the gate back and is idle.
LEMMA ReleaseInv ==
  ASSUME HostInv, NEW t \in Tasks, task[t].op \in Gated, Finish(t), Leave(t),
         TypeOK', HandlesFollowState', NoStrayProcess'
  PROVE  HostInv'
  <1>1. gate' = None
    BY HolderIs DEF Leave
  <1>2. task'[t] = Idle /\ \A u \in Tasks \ {t} : task'[u] = task[u]
    BY DEF Finish, HostInv, TypeOK
  <1>3. Idle.op = "none" /\ Idle.step = "none"
    BY DEF Idle
  <1>4. \A u \in Tasks :
           /\ task'[u].op \notin Gated
           /\ task'[u].step \in {"none", "wait"}
           /\ task'[u].op = "none" <=> task'[u] = Idle
    BY <1>2, <1>3, HolderIs DEF Gated, Stopping
  <1> QED
    BY <1>1, <1>4, QuietInv

\* While a task is in an operation that starts no process, or has not started
\* one, only the record's process runs.
LEMMA HolderStrays ==
  ASSUME HostInv, NEW t \in Tasks, task[t].op \in Gated,
         NEW p \in Pids, Runs(p), p \notin lost
  PROVE  /\ vm[p].epoch = task[t].epoch
         /\ shard.pid = p \/ (At(t, "start", "spawned") /\ task[t].pid = p)
  <1>1. /\ AtEpoch(vm[p].epoch)
        /\ \/ shard.pid = p
           \/ \E u \in Tasks : At(u, "start", "spawned") /\ task[u].pid = p
    BY DEF HostInv, NoStrayProcess
  <1>2. shard.epoch = task[t].epoch
    BY HolderIs
  <1>3. \A u \in Tasks : At(u, "start", "spawned") => u = t
    BY HolderIs DEF At, Gated
  <1> QED
    BY <1>1, <1>2, <1>3 DEF AtEpoch

LEMMA EndInv ==
  ASSUME HostInv, NEW t \in Tasks, EndStart(t) \/ EndStop(t) \/ EndSnapshot(t)
  PROVE  HostInv'
  <1>1. TypeOK'
    BY EndTypes
  <1>2. /\ task[t].op \in Gated /\ Finish(t) /\ Leave(t)
    BY DEF EndStart, EndStop, EndSnapshot, StartSucceeds, StartFails,
           StartDropped, EndTerminate, EndHibernate, StopsEarly, At, Gated,
           Stopping
  <1>3. /\ FindsRecord(t) /\ KnowsProcess(t)
        /\ shard \in Shard /\ shard.epoch = task[t].epoch
        /\ task[t].pid \in Pids \cup {None}
    BY <1>2, HolderIs
  <1>4. vm \in [Pids -> Process]
    BY DEF HostInv, TypeOK
  <1>5. SUFFICES HandlesFollowState' /\ NoStrayProcess'
    BY <1>1, <1>2, ReleaseInv
  <1>6. CASE StartSucceeds(t)
    <2>1. /\ shard' = Settled("hot", task[t].pid)
          /\ task[t].op = "start" /\ task[t].step = "spawned"
          /\ UNCHANGED <<vm, lost>>
      BY <1>6 DEF StartSucceeds, At
    <2>2. /\ shard' \in Shard /\ shard'.state = "hot"
          /\ shard'.pid = task[t].pid /\ shard'.epoch = task[t].epoch
      BY <1>3, <2>1, SettledIs DEF States
    <2>3. /\ task[t].pid \in Pids /\ vm[task[t].pid].status # "unborn"
          /\ vm[task[t].pid].epoch = task[t].epoch
      BY <1>3, <2>1 DEF KnowsProcess
    <2>4. HandlesFollowState'
      BY <2>1, <2>2, <2>3, HostAssumption DEF HandlesFollowState, Runnable
    <2>5. \A p \in Pids : Runs(p) /\ p \notin lost =>
            p = task[t].pid
      BY <1>2, <1>3, <2>1, HolderStrays, HostAssumption DEF FindsRecord
    <2>6. NoStrayProcess'
      BY <2>1, <2>2, <2>3, <2>5, NoneAssumption DEF NoStrayProcess, AtEpoch, Live, Runs
    <2> QED
      BY <2>4, <2>6
  <1>7. CASE StartFails(t) \/ StartDropped(t)
    <2>1. /\ task[t].op = "start" /\ shard.pid = None
      BY <1>3, <1>7 DEF StartFails, StartDropped, FindsRecord
    <2>2. /\ shard' \in Shard /\ shard'.state \in {"cold", "starting"}
          /\ shard'.pid = None
      BY <1>3, <1>7, <2>1, StateIs DEF StartFails, StartDropped, States, FindsRecord
    <2>3. HandlesFollowState'
      BY <2>2 DEF HandlesFollowState, Runnable
    <2>4. ASSUME NEW p \in Pids, Runs(p)'
          PROVE  p \in lost'
      <3>1. /\ Runs(p) /\ lost \subseteq lost'
        BY <1>4, <1>7, <2>4 DEF StartFails, StartDropped, Undone, Live, Runs, Process
      <3>2. CASE p \in lost
        BY <3>1, <3>2
      <3>3. CASE p \notin lost
        <4>1. task[t].step = "spawned" /\ task[t].pid = p
          BY <1>2, <2>1, <3>1, <3>3, HolderStrays, HostAssumption DEF At
        <4> QED
          BY <1>4, <1>7, <2>4, <3>1, <4>1
          DEF StartFails, StartDropped, Undone, Live, Runs, Process
      <3> QED
        BY <3>2, <3>3
    <2> QED
      BY <2>3, <2>4 DEF NoStrayProcess
  <1>8. CASE EndTerminate(t) \/ EndHibernate(t)
    <2>1. PICK st \in {"terminated", "hibernated"} : shard' = Settled(st, None)
      BY <1>8 DEF EndTerminate, EndHibernate
    <2>2. /\ shard' \in Shard /\ shard'.state = st /\ shard'.pid = None
      BY <1>3, <2>1, SettledIs DEF States
    <2>3. /\ task[t].op \in Stopping /\ shard.pid = task[t].pid
          /\ task[t].pid = None \/ ~Runs(task[t].pid)
          /\ UNCHANGED <<vm, lost>>
      BY <1>3, <1>8
      DEF EndTerminate, EndHibernate, At, Stopping, FindsRecord, KnowsProcess
    <2>4. \A p \in Pids : ~Runs(p) \/ p \in lost
      BY <1>2, <2>3, HolderStrays, HostAssumption DEF At, Stopping
    <2>5. HandlesFollowState'
      BY <2>2 DEF HandlesFollowState, Runnable
    <2>6. NoStrayProcess'
      BY <2>3, <2>4 DEF NoStrayProcess, Live, Runs
    <2> QED
      BY <2>5, <2>6
  <1>9. CASE StopsEarly(t)
    <2>1. task[t].op \in Stopping /\ UNCHANGED <<shard, vm, lost>>
      BY <1>9 DEF StopsEarly, Stopping
    <2>2. \A u \in Tasks : task[u].op # "start"
      BY <1>2, <2>1, HolderIs DEF Gated, Stopping
    <2> QED
      BY <2>1, <2>2, KeptAgrees DEF RecordKept
  <1> QED
    BY <1>6, <1>7, <1>8, <1>9 DEF EndStart, EndStop, EndSnapshot

-----------------------------------------------------------------------------
\* The end of a call leaves a runnable record runnable and an idle one idle.
LEMMA CallEndKeeps ==
  ASSUME HostInv, NEW t \in Tasks, EndCall(t) \/ Release(t) \/ Abandon(t)
  PROVE  /\ RecordKept
         /\ shard # None => /\ shard' # None /\ shard'.epoch = shard.epoch
                            /\ shard'.pid = shard.pid
                            /\ shard.active = 0 => shard'.active = 0
                            /\ shard.state \notin Runnable => shard'.state = shard.state
                            /\ shard.state \in Runnable => shard'.state \in Runnable
  <1>1. UNCHANGED shard \/ (TouchDown /\ AtEpoch(task[t].epoch))
    <2>1. CASE EndCall(t) \/ Release(t)
      <3>1. CASE CountedAt(task[t].epoch)
        BY <2>1, <3>1 DEF EndCall, Release, CountedAt
      <3>2. CASE ~CountedAt(task[t].epoch)
        BY <2>1, <3>2 DEF EndCall, Release
      <3> QED
        BY <3>1, <3>2
    <2>2. CASE Abandon(t)
      BY <2>2 DEF Abandon
    <2> QED
      BY <2>1, <2>2
  <1>2. CASE UNCHANGED shard
    BY <1>2 DEF RecordKept
  <1>3. CASE TouchDown /\ AtEpoch(task[t].epoch)
    <2>1. shard \in Shard
      BY <1>3 DEF AtEpoch, HostInv, TypeOK
    <2>2. PICK n \in Nat : /\ shard' = Active(n)
                           /\ shard.active = 0 => n = 0
      <3>1. (IF shard.active = 0 THEN 0 ELSE shard.active - 1) \in Nat
        BY <2>1 DEF Shard
      <3> QED
        BY <1>3, <3>1 DEF TouchDown
    <2>3. /\ shard' \in Shard /\ shard'.active = n
          /\ shard'.epoch = shard.epoch /\ shard'.pid = shard.pid
          /\ shard'.state = IF n > 0 /\ shard.state = "warm_idle" THEN "hot"
                            ELSE shard.state
      BY <2>1, <2>2, ActiveIs
    <2> QED
      BY <2>1, <2>2, <2>3, NoneAssumption DEF RecordKept, Runnable
  <1> QED
    BY <1>1, <1>2, <1>3

\* The end of a call is counted while another task may be inside an operation.
LEMMA CallEndInv ==
  ASSUME HostInv, NEW t \in Tasks, EndCall(t) \/ Release(t) \/ Abandon(t)
  PROVE  HostInv'
  <1>1. TypeOK'
    BY CallTypes
  <1>2. /\ task[t].op \in {"call", "hold"} /\ Finish(t)
        /\ UNCHANGED <<vm, files, lost, gate>>
    BY DEF EndCall, Release, Abandon
  <1>3. task'[t] = Idle /\ \A u \in Tasks \ {t} : task'[u] = task[u]
    BY <1>2 DEF Finish, HostInv, TypeOK
  <1>4. /\ Idle.op = "none" /\ Idle.step = "none"
        /\ task[t].op \notin Gated
    BY <1>2 DEF Idle, Gated, Stopping
  <1>5. /\ RecordKept
        /\ shard # None => /\ shard' # None /\ shard'.epoch = shard.epoch
                           /\ shard'.pid = shard.pid
                           /\ shard.active = 0 => shard'.active = 0
                           /\ shard.state \notin Runnable => shard'.state = shard.state
                           /\ shard.state \in Runnable => shard'.state \in Runnable
    BY CallEndKeeps
  <1>6. HandlesFollowState' /\ NoStrayProcess'
    <2>1. \A u \in Tasks : task[u].op = "start" => task'[u] = task[u]
      BY <1>2, <1>3
    <2> QED
      BY <1>2, <1>5, <2>1, KeptAgrees
  <1>7. GateIsHeld'
    BY <1>2, <1>3, <1>4 DEF HostInv, GateIsHeld, Gated, Stopping
  <1>8. ASSUME NEW u \in Tasks
        PROVE  FindsRecord(u)' /\ KnowsProcess(u)'
    <2>1. CASE u = t
      BY <1>3, <1>4, <2>1 DEF FindsRecord, KnowsProcess, Stopping
    <2>2. CASE u # t
      <3>1. task'[u] = task[u]
        BY <1>3, <2>2
      <3>2. FindsRecord(u) /\ KnowsProcess(u)
        BY DEF HostInv, RelockFindsRecord, TasksKnowProcesses
      <3>3. FindsRecord(u)'
        <4>1. CASE task[u].op \in {"none", "call", "hold"}
          BY <3>1, <4>1 DEF FindsRecord, Stopping
        <4>2. CASE AtEpoch(task[u].epoch)
          <5>1. AtEpoch(task[u].epoch)'
            BY <1>5, <3>1, <4>2 DEF AtEpoch
          <5> QED
            BY <1>5, <3>1, <3>2, <4>2, <5>1 DEF FindsRecord, AtEpoch, Runnable
        <4>3. task[u] \in Task
          BY DEF HostInv, TypeOK
        <4> QED
          BY <3>2, <4>1, <4>2, <4>3 DEF FindsRecord, Task, Stopping
      <3>4. KnowsProcess(u)'
        BY <1>2, <3>1, <3>2 DEF KnowsProcess, Live, Runs
      <3> QED
        BY <3>3, <3>4
    <2> QED
      BY <2>1, <2>2
  <1> QED
    BY <1>1, <1>6, <1>7, <1>8 DEF HostInv, RelockFindsRecord, TasksKnowProcesses

LEMMA ActivateInv ==
  ASSUME HostInv, NEW t \in Tasks, ActivateSucceeds(t) \/ ActivateFails(t)
  PROVE  HostInv'
  <1>1. TypeOK'
    BY CallTypes
  <1>2. /\ task[t].op = "activate" /\ Finish(t) /\ Leave(t)
        /\ UNCHANGED <<shard, lost>>
        /\ UNCHANGED vm \/ vm' = [vm EXCEPT ![task[t].pid].loaded = @ \cup {task[t].digest}]
    BY DEF ActivateSucceeds, ActivateFails
  <1>3. \A p \in Pids : vm'[p].status = vm[p].status /\ vm'[p].epoch = vm[p].epoch
    <2>1. vm \in [Pids -> Process]
      BY DEF HostInv, TypeOK
    <2> QED
      BY <1>2, <2>1 DEF Process
  <1>4. \A u \in Tasks : task[u].op = "start" => task'[u] = task[u]
    BY <1>2 DEF Finish, HostInv, TypeOK
  <1>5. HandlesFollowState' /\ NoStrayProcess'
    BY <1>2, <1>3, <1>4, KeptAgrees DEF RecordKept
  <1> QED
    BY <1>1, <1>2, <1>5, ReleaseInv DEF Gated

LEMMA ExitInv ==
  ASSUME HostInv, NEW q \in Pids, Exit(q)
  PROVE  HostInv'
  <1>1. TypeOK'
    BY ExitTypes
  <1>2. /\ UNCHANGED <<shard, files, task, lost, gate>>
        /\ \A p \in Pids :
             /\ vm'[p].epoch = vm[p].epoch
             /\ vm[p].status # "unborn" => vm'[p].status # "unborn"
             /\ Runs(p)' => Runs(p)
    <2>1. vm \in [Pids -> Process]
      BY DEF HostInv, TypeOK
    <2> QED
      BY <2>1 DEF Exit, Exits, Live, Runs, Process
  <1>3. GateIsHeld' /\ RelockFindsRecord'
    BY <1>2 DEF HostInv, GateIsHeld, RelockFindsRecord, FindsRecord, AtEpoch
  <1>4. HandlesFollowState'
    <2>1. shard # None => shard.pid \in Pids \cup {None}
      BY DEF HostInv, TypeOK, Shard
    <2> QED
      BY <1>2, <2>1 DEF HostInv, HandlesFollowState
  <1>5. NoStrayProcess'
    BY <1>2 DEF HostInv, NoStrayProcess, AtEpoch, At
  <1>6. TasksKnowProcesses'
    <2>1. \A u \in Tasks : task[u].pid \in Pids \cup {None}
      BY DEF HostInv, TypeOK, Task
    <2> QED
      BY <1>2, <2>1 DEF HostInv, TasksKnowProcesses, KnowsProcess
  <1> QED
    BY <1>1, <1>3, <1>4, <1>5, <1>6 DEF HostInv

LEMMA SweepInv ==
  ASSUME HostInv, Sweep
  PROVE  HostInv'
  <1>1. shard \in Shard /\ shard.epoch \in Epochs /\ Sweeper \in Tasks
    BY ApiAssumption DEF Sweep, HostInv, TypeOK, Shard
  <1>2. shard.digest \in Digests /\ shard.snapshots \in SnapshotPolicies
    BY <1>1 DEF Shard
  <1> QED
    BY <1>1, <1>2, QuickInv, EnterInv DEF Sweep

LEMMA StutterInv ==
  ASSUME HostInv, UNCHANGED vars
  PROVE  HostInv'
  <1>1. UNCHANGED <<shard, vm, files, task, last, lost, gate, observed, abandoned>>
    BY DEF vars, hostVars
  <1>2. TypeOK'
    BY <1>1 DEF HostInv, TypeOK
  <1>3. GateIsHeld' /\ RelockFindsRecord'
    BY <1>1 DEF HostInv, GateIsHeld, RelockFindsRecord, FindsRecord, AtEpoch
  <1>4. TasksKnowProcesses'
    BY <1>1 DEF HostInv, TasksKnowProcesses, KnowsProcess, Live, Runs
  <1>5. HandlesFollowState'
    BY <1>1 DEF HostInv, HandlesFollowState
  <1>6. NoStrayProcess'
    BY <1>1 DEF HostInv, NoStrayProcess, AtEpoch, At, Live, Runs
  <1> QED
    BY <1>2, <1>3, <1>4, <1>5, <1>6 DEF HostInv

LEMMA NextInv ==
  ASSUME HostInv, [Next]_vars
  PROVE  HostInv'
  <1>0. Handlers \subseteq Tasks
    BY ApiAssumption
  <1>1. ASSUME NEW t \in Handlers, NEW e \in Epochs, NEW d \in Digests,
               NEW s \in SnapshotPolicies, EnsureShard(t, e, d, s)
        PROVE  HostInv'
    BY <1>0, <1>1, QuickInv
  <1>2. ASSUME NEW t \in Handlers, NEW e \in Epochs,
               \/ \E d \in Digests : Admit(t, e, d) \/ BeginActivate(t, e, d)
               \/ WarmIdle(t, e) \/ Hold(t, e) \/ Start(t, e)
               \/ Hibernate(t, e) \/ Terminate(t, e) \/ TerminateAgain(t, e)
        PROVE  HostInv'
    <2>1. shard \in Shard
      BY <1>2
      DEF Admit, Admissible, BeginActivate, WarmIdle, Hold, Start, Hibernate, Terminate,
          TerminateAgain, MarkWarmIdle, BeginStart, BeginHibernate, AtEpoch,
          HostInv, TypeOK
    <2>2. shard.digest \in Digests /\ shard.snapshots \in SnapshotPolicies
      BY <2>1 DEF Shard
    <2> QED
      BY <1>0, <1>2, <2>2, QuickInv, EnterInv
  <1>3. ASSUME NEW t \in Handlers,
               \/ EndCall(t) \/ Release(t) \/ Abandon(t)
               \/ ActivateSucceeds(t) \/ ActivateFails(t) \/ EndStart(t)
        PROVE  HostInv'
    BY <1>0, <1>3, CallEndInv, ActivateInv, EndInv
  <1>4. ASSUME NEW t \in Tasks, Step(t) \/ EndStop(t) \/ EndSnapshot(t)
        PROVE  HostInv'
    BY <1>4, StepInv, EndInv
  <1>5. ASSUME NEW p \in Pids, Exit(p)
        PROVE  HostInv'
    BY <1>5, ExitInv
  <1> QED
    BY <1>1, <1>2, <1>3, <1>4, <1>5, SweepInv, StutterInv DEF Next

\* The gate, the operations in progress, the record and the processes agree:
\* every second lock of start(), hibernate() and terminate() finds the record as
\* the first left it, and every process that runs is known, but for those that
\* a dropped start() or a failed kill forgot.
THEOREM HostInvHolds == Spec => []HostInv
  <1>1. HostInv /\ [Next]_vars => HostInv'
    BY NextInv
  <1>2. Init => HostInv
    BY HostInitInv
  <1> QED
    BY <1>1, <1>2, PTL DEF Spec

-----------------------------------------------------------------------------
(***************************************************************************)
(* What follows from HostInv for every number of handlers, epochs and      *)
(* processes: a hibernated shard restores its last process, the counter of *)
(* active invocations is exact, and no process is stopped under a call.    *)
(*                                                                         *)
(* Each has an induction hypothesis of its own on top of HostInv: what a   *)
(* hibernation has copied so far (CopiesAreOfTheLast), that no call is     *)
(* counted for an epoch to come (NothingAhead), and that a call waits for  *)
(* a process of its epoch (CallsKnowProcess).  The last rests on the       *)
(* counter being exact: terminate() and hibernate() look at nothing else.  *)
(***************************************************************************)

\* What a hibernation has copied is of the process it holds, and that process
\* is the last that became hot.
CopiesAreOfTheLast ==
  /\ shard # None /\ shard.state \in Runnable => last[shard.epoch] = shard.pid
  /\ \A t \in Tasks :
       /\ At(t, "hibernate", "copy mem") =>
            files[task[t].epoch].state = task[t].pid
       /\ At(t, "hibernate", "end") =>
            /\ files[task[t].epoch].state = task[t].pid
            /\ files[task[t].epoch].mem = task[t].pid

RestoreInv == HostInv /\ RestoresTheLast /\ CopiesAreOfTheLast

Copying(u) == At(u, "hibernate", "copy mem") \/ At(u, "hibernate", "end")

LEMMA KeptRestores ==
  ASSUME RestoreInv, RecordKept, UNCHANGED <<files, last>>,
         \A u \in Tasks : Copying(u)' => task'[u] = task[u]
  PROVE  RestoresTheLast' /\ CopiesAreOfTheLast'
  <1>1. RestoresTheLast'
    BY NoneAssumption DEF RestoreInv, RestoresTheLast, RecordKept, Runnable
  <1>2. shard' # None /\ shard'.state \in Runnable => last'[shard'.epoch] = shard'.pid
    BY NoneAssumption
    DEF RestoreInv, CopiesAreOfTheLast, RecordKept, Runnable
  <1>3. ASSUME NEW u \in Tasks, Copying(u)'
        PROVE  task'[u] = task[u] /\ Copying(u)
    BY <1>3 DEF Copying, At
  <1>4. ASSUME NEW u \in Tasks
        PROVE  /\ At(u, "hibernate", "copy mem")' =>
                    files'[task'[u].epoch].state = task'[u].pid
               /\ At(u, "hibernate", "end")' =>
                    /\ files'[task'[u].epoch].state = task'[u].pid
                    /\ files'[task'[u].epoch].mem = task'[u].pid
    BY <1>3 DEF RestoreInv, CopiesAreOfTheLast, Copying, At
  <1> QED
    BY <1>1, <1>2, <1>4 DEF CopiesAreOfTheLast

\* A record that is neither runnable nor hibernated says nothing of the files.
LEMMA OtherStateRestores ==
  ASSUME RestoreInv,
         shard'.state \notin {"hot", "warm_idle", "hibernated"},
         \A u \in Tasks : ~Copying(u)'
  PROVE  RestoresTheLast' /\ CopiesAreOfTheLast'
  BY DEF RestoresTheLast, CopiesAreOfTheLast, Runnable, Copying

LEMMA NewShardIs ==
  ASSUME NEW e, NEW d, NEW s, shard' = NewShard(e, d, s)
  PROVE  shard'.epoch = e /\ shard'.state = "cold" /\ shard'.active = 0 /\ shard'.pid = None
  BY DEF NewShard

\* A free gate: nobody copies.
LEMMA NobodyCopies ==
  ASSUME HostInv, gate = None
  PROVE  \A u \in Tasks : ~Copying(u)
  BY NobodyGated DEF Copying, At, Gated, Stopping

LEMMA QuickRestores ==
  ASSUME RestoreInv, NEW t \in Tasks, NEW e \in Epochs, NEW d \in Digests,
         NEW s \in SnapshotPolicies,
         EnsureShard(t, e, d, s) \/ Admit(t, e, d) \/ WarmIdle(t, e)
         \/ Hold(t, e) \/ TerminateAgain(t, e)
  PROVE  RestoresTheLast' /\ CopiesAreOfTheLast'
  <1>1. HostInv /\ HostInv' /\ gate' = None
    BY QuickInv
    DEF RestoreInv, EnsureShard, Admit, Admissible, WarmIdle, Hold, TerminateAgain, Free
  <1>2. \A u \in Tasks : ~Copying(u)'
    BY <1>1, HostAssumption
    DEF HostInv, GateIsHeld, Copying, At, Stopping
  <1>3. UNCHANGED <<files, last>>
    BY DEF EnsureShard, Ensure, Admit, Admissible, WarmIdle, MarkWarmIdle, Hold,
           TerminateAgain, hostVars
  <1>4. CASE RecordKept
    BY <1>2, <1>3, <1>4, KeptRestores
  <1>5. CASE shard' = NewShard(e, d, s)
    BY <1>2, <1>5, NewShardIs, OtherStateRestores
  <1> QED
    BY <1>1, <1>4, <1>5, QuickKeeps

LEMMA EnterRestores ==
  ASSUME RestoreInv, NEW t \in Tasks, NEW e \in Epochs, NEW d \in Digests,
         NEW s \in SnapshotPolicies,
         \/ BeginActivate(t, e, d) \/ Start(t, e) \/ Hibernate(t, e)
         \/ Terminate(t, e)
         \/ /\ Enter(t) /\ BeginTerminate(t, e, "destroy")
            /\ UNCHANGED <<observed, abandoned>>
  PROVE  RestoresTheLast' /\ CopiesAreOfTheLast'
  <1>1. gate = None /\ UNCHANGED <<files, last>>
    BY DEF BeginActivate, Start, Hibernate, Terminate, Enter, Free, BeginStart,
           BeginHibernate, BeginTerminate
  <1>2. \A u \in Tasks : ~Copying(u)'
    <2>1. \A u \in Tasks : ~Copying(u)
      BY <1>1, NobodyCopies DEF RestoreInv
    <2>2. task \in [Tasks -> Task]
      BY DEF RestoreInv, HostInv, TypeOK
    <2>3. /\ task'[t].step \in {"wait", "boot", "restore", "stop", "pause"}
          /\ \A u \in Tasks \ {t} : task'[u] = task[u]
      <3>1. CASE BeginActivate(t, e, d)
        BY <2>2, <3>1 DEF BeginActivate, Doing
      <3>2. CASE Start(t, e)
        BY <2>2, <3>2 DEF Start, BeginStart, Doing
      <3>3. ASSUME NEW op, BeginTerminate(t, e, op)
            PROVE  /\ task'[t].step \in {"wait", "boot", "restore", "stop", "pause"}
                   /\ \A u \in Tasks \ {t} : task'[u] = task[u]
        BY <2>2, <3>3 DEF BeginTerminate, Doing
      <3>4. CASE Hibernate(t, e) /\ shard.snapshots
        BY <2>2, <3>4 DEF Hibernate, BeginHibernate, Doing
      <3> QED
        BY <3>1, <3>2, <3>3, <3>4 DEF Hibernate, BeginHibernate, Terminate
    <2> QED
      BY <2>1, <2>3 DEF Copying, At
  <1>3. CASE UNCHANGED shard
    BY <1>1, <1>2, <1>3, KeptRestores DEF RecordKept
  <1>4. CASE \E st \in {"starting", "draining"} : shard' = [shard EXCEPT !.state = st]
    <2>1. PICK st \in {"starting", "draining"} : shard' = [shard EXCEPT !.state = st]
      BY <1>4
    <2>2. shard \in Shard
      BY DEF BeginActivate, Start, Hibernate, Terminate, BeginStart, AtEpoch,
             BeginHibernate, BeginTerminate, RestoreInv, HostInv, TypeOK
    <2>3. shard'.state = st
      BY <2>1, <2>2, StateIs DEF States
    <2> QED
      BY <1>2, <2>3, OtherStateRestores
  <1> QED
    BY <1>3, <1>4
    DEF BeginActivate, Start, Hibernate, Terminate, BeginStart, BeginHibernate,
        BeginTerminate

LEMMA StepRestores ==
  ASSUME RestoreInv, NEW t \in Tasks, Step(t)
  PROVE  RestoresTheLast' /\ CopiesAreOfTheLast'
  <1>1. task[t].op \in Gated /\ UNCHANGED <<shard, last>>
    BY DEF Step, Spawn, Stop, Pause, SnapshotAndKill, CopyState, CopyMem, At,
           Gated, Stopping
  <1>2. /\ FindsRecord(t) /\ shard \in Shard /\ shard.epoch = task[t].epoch
        /\ task[t].epoch \in Epochs
        /\ \A u \in Tasks \ {t} : task[u].op \notin Gated
    BY <1>1, HolderIs DEF RestoreInv
  <1>3. /\ task \in [Tasks -> Task]
        /\ files \in [Epochs -> [state : Pids \cup {None}, mem : Pids \cup {None}]]
    BY DEF RestoreInv, HostInv, TypeOK
  <1>4. shard.state # "hibernated"
    BY <1>1, <1>2 DEF FindsRecord, Gated, Stopping, Runnable
  <1>5. RestoresTheLast'
    BY <1>1, <1>4 DEF RestoresTheLast
  <1>6. \A u \in Tasks \ {t} : task'[u] = task[u] /\ ~Copying(u)'
    <2>1. \A u \in Tasks \ {t} : task'[u] = task[u]
      BY <1>3 DEF Step, Spawn, Stop, Pause, SnapshotAndKill, CopyState, CopyMem,
                  Proceed
    <2> QED
      BY <1>2, <2>1 DEF Copying, At, Gated, Stopping
  <1>7. CASE ~Copying(t)'
    BY <1>1, <1>5, <1>6, <1>7 DEF RestoreInv, CopiesAreOfTheLast, Copying
  <1>8. ASSUME NEW step \in {"copy mem", "end"}, Proceed(t, step)
        PROVE  /\ task'[t].op = task[t].op /\ task'[t].step = step
               /\ task'[t].epoch = task[t].epoch /\ task'[t].pid = task[t].pid
    <2>1. task' = [task EXCEPT ![t] = [task[t] EXCEPT !.step = step]]
      BY <1>8 DEF Proceed
    <2>2. task'[t] = [task[t] EXCEPT !.step = step]
      BY <1>3, <2>1
    <2>3. task[t] \in Task
      BY <1>3
    <2> QED
      BY <2>2, <2>3 DEF Task
  <1>9. CASE CopyState(t)
    <2>1. files'[task[t].epoch].state = task[t].pid
      BY <1>2, <1>3, <1>9 DEF CopyState
    <2>2. /\ task'[t].step = "copy mem"
          /\ task'[t].epoch = task[t].epoch /\ task'[t].pid = task[t].pid
      BY <1>8, <1>9 DEF CopyState
    <2> QED
      BY <1>1, <1>5, <1>6, <2>1, <2>2
      DEF RestoreInv, CopiesAreOfTheLast, Copying, At
  <1>10. CASE CopyMem(t)
    <2>1. /\ files'[task[t].epoch].mem = task[t].pid
          /\ files'[task[t].epoch].state = files[task[t].epoch].state
      BY <1>2, <1>3, <1>10 DEF CopyMem, MemCopied
    <2>2. files[task[t].epoch].state = task[t].pid
      BY <1>10 DEF CopyMem, RestoreInv, CopiesAreOfTheLast
    <2>3. /\ task'[t].step = "end"
          /\ task'[t].epoch = task[t].epoch /\ task'[t].pid = task[t].pid
      BY <1>8, <1>10 DEF CopyMem
    <2> QED
      BY <1>1, <1>5, <1>6, <2>1, <2>2, <2>3
      DEF RestoreInv, CopiesAreOfTheLast, Copying, At
  <1>11. CASE Spawn(t) \/ Stop(t) \/ Pause(t) \/ SnapshotAndKill(t)
    <2>1. ~Copying(t)'
      <3>1. CASE Spawn(t)
        <4>1. PICK p \in Pids : task' = [task EXCEPT ![t] = Doing("start", "spawned", task[t].epoch, p)]
          BY <3>1 DEF Spawn
        <4>2. task'[t].op = "start"
          BY <1>3, <4>1 DEF Doing
        <4> QED
          BY <4>2 DEF Copying, At
      <3>2. CASE Stop(t) \/ Pause(t) \/ SnapshotAndKill(t)
        <4>1. PICK step \in {"cleanup", "snapshot", "copy state"} :
                task' = [task EXCEPT ![t] = [task[t] EXCEPT !.step = step]]
          BY <3>2 DEF Stop, Pause, SnapshotAndKill, Proceed
        <4>2. task'[t] = [task[t] EXCEPT !.step = step]
          BY <1>3, <4>1
        <4>3. task'[t].step = step
          BY <1>3, <4>2 DEF Task
        <4> QED
          BY <4>3 DEF Copying, At
      <3> QED
        BY <1>11, <3>1, <3>2
    <2> QED
      BY <1>5, <1>7, <2>1
  <1> QED
    BY <1>9, <1>10, <1>11 DEF Step

LEMMA EndRestores ==
  ASSUME RestoreInv, NEW t \in Tasks, EndStart(t) \/ EndStop(t) \/ EndSnapshot(t)
  PROVE  RestoresTheLast' /\ CopiesAreOfTheLast'
  <1>1. task[t].op \in Gated /\ Finish(t)
    BY DEF EndStart, EndStop, EndSnapshot, StartSucceeds, StartFails,
           StartDropped, EndTerminate, EndHibernate, StopsEarly, At, Gated,
           Stopping
  <1>2. /\ FindsRecord(t) /\ shard \in Shard /\ shard.epoch = task[t].epoch
        /\ task[t].epoch \in Epochs /\ task[t].pid \in Pids \cup {None}
        /\ \A u \in Tasks \ {t} : task[u].op \notin Gated
    BY <1>1, HolderIs DEF RestoreInv
  <1>3. /\ task \in [Tasks -> Task] /\ last \in [Epochs -> Pids \cup {None}]
        /\ files \in [Epochs -> [state : Pids \cup {None}, mem : Pids \cup {None}]]
    BY DEF RestoreInv, HostInv, TypeOK
  <1>4. \A u \in Tasks : ~Copying(u)'
    <2>1. task'[t] = Idle /\ \A u \in Tasks \ {t} : task'[u] = task[u]
      BY <1>1, <1>3 DEF Finish
    <2>2. Idle.op = "none"
      BY DEF Idle
    <2> QED
      BY <1>2, <2>1, <2>2 DEF Copying, At, Gated, Stopping
  <1>5. CASE StartSucceeds(t)
    <2>1. /\ shard' \in Shard /\ shard'.state = "hot"
          /\ shard'.pid = task[t].pid /\ shard'.epoch = task[t].epoch
      BY <1>2, <1>5, SettledIs DEF StartSucceeds, States
    <2>2. last'[task[t].epoch] = task[t].pid
      BY <1>2, <1>3, <1>5 DEF StartSucceeds
    <2> QED
      BY <1>4, <2>1, <2>2 DEF RestoresTheLast, CopiesAreOfTheLast, Copying
  <1>6. CASE StartFails(t) \/ StartDropped(t)
    <2>1. shard'.state \in {"cold", "starting"}
      BY <1>2, <1>6, StateIs DEF StartFails, StartDropped, States, FindsRecord
    <2> QED
      BY <1>4, <2>1, OtherStateRestores
  <1>7. CASE EndTerminate(t)
    <2>1. shard'.state = "terminated"
      BY <1>2, <1>7, SettledIs DEF EndTerminate, States
    <2> QED
      BY <1>4, <2>1, OtherStateRestores
  <1>8. CASE EndHibernate(t)
    <2>1. /\ shard' \in Shard /\ shard'.state = "hibernated"
          /\ shard'.epoch = task[t].epoch
          /\ UNCHANGED <<files, last>>
      BY <1>2, <1>8, SettledIs DEF EndHibernate, States
    <2>2. /\ shard.state \in Runnable /\ shard.pid = task[t].pid
          /\ shard.pid # None
      BY <1>2, <1>8, NoneAssumption
      DEF EndHibernate, At, FindsRecord, RestoreInv, HostInv, HandlesFollowState
    <2>3. last[task[t].epoch] = task[t].pid
      BY <1>2, <2>2, NoneAssumption DEF RestoreInv, CopiesAreOfTheLast
    <2>4. files[task[t].epoch] = [state |-> task[t].pid, mem |-> task[t].pid]
      <3>1. /\ files[task[t].epoch].state = task[t].pid
            /\ files[task[t].epoch].mem = task[t].pid
        BY <1>8 DEF EndHibernate, RestoreInv, CopiesAreOfTheLast
      <3>2. files[task[t].epoch] \in [state : Pids \cup {None}, mem : Pids \cup {None}]
        BY <1>2, <1>3
      <3> QED
        BY <3>1, <3>2
    <2> QED
      BY <1>4, <2>1, <2>2, <2>3, <2>4
      DEF RestoresTheLast, CopiesAreOfTheLast, Copying, Runnable
  <1>9. CASE StopsEarly(t)
    <2>1. /\ UNCHANGED <<shard, last>>
          /\ shard.state \in Runnable \cup {"draining"}
      BY <1>2, <1>9 DEF StopsEarly, FindsRecord
    <2> QED
      BY <1>4, <2>1
      DEF RestoreInv, RestoresTheLast, CopiesAreOfTheLast, Copying, Runnable
  <1> QED
    BY <1>5, <1>6, <1>7, <1>8, <1>9 DEF EndStart, EndStop, EndSnapshot

\* Steps that leave the files alone and start no copy.
LEMMA OtherRestores ==
  ASSUME RestoreInv,
         \/ \E t \in Tasks :
              \/ EndCall(t) \/ Release(t) \/ Abandon(t)
              \/ ActivateSucceeds(t) \/ ActivateFails(t)
         \/ \E p \in Pids : Exit(p)
         \/ UNCHANGED vars
  PROVE  RestoresTheLast' /\ CopiesAreOfTheLast'
  <1>1. UNCHANGED <<files, last>>
    BY DEF EndCall, Release, Abandon, ActivateSucceeds, ActivateFails, Exit,
           Exits, vars, hostVars
  <1>2. \A u \in Tasks : Copying(u)' => task'[u] = task[u]
    <2>1. CASE UNCHANGED task
      BY <2>1
    <2>2. ASSUME NEW t \in Tasks, Finish(t)
          PROVE  \A u \in Tasks : Copying(u)' => task'[u] = task[u]
      <3>1. task'[t] = Idle /\ \A u \in Tasks \ {t} : task'[u] = task[u]
        BY <2>2 DEF Finish, RestoreInv, HostInv, TypeOK
      <3>2. Idle.op = "none"
        BY DEF Idle
      <3> QED
        BY <3>1, <3>2 DEF Copying, At
    <2> QED
      BY <2>1, <2>2
      DEF EndCall, Release, Abandon, ActivateSucceeds, ActivateFails, Exit,
          Exits, vars, hostVars
  <1>3. RecordKept
    <2>1. ASSUME NEW t \in Tasks, EndCall(t) \/ Release(t) \/ Abandon(t)
          PROVE  RecordKept
      BY <2>1, CallEndKeeps DEF RestoreInv
    <2> QED
      BY <2>1
      DEF ActivateSucceeds, ActivateFails, Exit, Exits, vars, hostVars, RecordKept
  <1> QED
    BY <1>1, <1>2, <1>3, KeptRestores

LEMMA RestoreStep ==
  ASSUME RestoreInv, [Next]_vars
  PROVE  RestoreInv'
  <1>0. HostInv' /\ Handlers \subseteq Tasks /\ Sweeper \in Tasks
    BY NextInv, ApiAssumption DEF RestoreInv
  <1>2. ASSUME shard \in Shard
        PROVE  /\ shard.digest \in Digests /\ shard.snapshots \in SnapshotPolicies
               /\ shard.epoch \in Epochs
    BY <1>2 DEF Shard
  <1>3. ASSUME NEW t \in Handlers, NEW e \in Epochs,
               \/ \E d \in Digests : Admit(t, e, d) \/ BeginActivate(t, e, d)
               \/ WarmIdle(t, e) \/ Hold(t, e) \/ Start(t, e)
               \/ Hibernate(t, e) \/ Terminate(t, e) \/ TerminateAgain(t, e)
        PROVE  RestoresTheLast' /\ CopiesAreOfTheLast'
    <2>1. shard \in Shard
      BY <1>3
      DEF WarmIdle, Hold, Start, Hibernate, Terminate, TerminateAgain, Admit, Admissible,
          BeginActivate, MarkWarmIdle, BeginStart, BeginHibernate, AtEpoch,
          RestoreInv, HostInv, TypeOK
    <2>2. shard.digest \in Digests /\ shard.snapshots \in SnapshotPolicies
      BY <1>2, <2>1
    <2> QED
      BY <1>0, <1>3, <2>2, QuickRestores, EnterRestores
  <1>4. CASE Sweep
    <2>1. shard \in Shard
      BY <1>4 DEF Sweep, RestoreInv, HostInv, TypeOK
    <2>2. /\ shard.digest \in Digests /\ shard.snapshots \in SnapshotPolicies
          /\ shard.epoch \in Epochs
      BY <1>2, <2>1
    <2>3. RestoresTheLast' /\ CopiesAreOfTheLast'
      BY <1>0, <1>4, <2>2, QuickRestores, EnterRestores DEF Sweep
    <2> QED
      BY <1>0, <2>3 DEF RestoreInv
  <1> QED
    BY <1>0, <1>3, <1>4, QuickRestores, StepRestores, EndRestores, OtherRestores
    DEF Next, RestoreInv

\* A hibernated shard has both files, of the process that served its epoch last,
\* whatever copies were interrupted before.
THEOREM RestoresTheLastHolds == Spec => []RestoresTheLast
  <1>1. Init => RestoreInv
    <2>1. ASSUME Init
          PROVE  RestoresTheLast /\ CopiesAreOfTheLast
      BY <2>1
      DEF Init, HostInit, RestoresTheLast, CopiesAreOfTheLast, At, Idle
    <2> QED
      BY <2>1, HostInitInv DEF RestoreInv
  <1>2. RestoreInv /\ [Next]_vars => RestoreInv'
    BY RestoreStep
  <1>3. RestoreInv => RestoresTheLast
    BY DEF RestoreInv
  <1> QED
    BY <1>1, <1>2, <1>3, PTL DEF Spec

-----------------------------------------------------------------------------
(* Calls: which steps count one, and which leave them alone.               *)

Counting == {"call", "hold"}

CountKept ==
  \/ UNCHANGED shard
  \/ /\ shard \in Shard /\ shard' \in Shard
     /\ shard'.epoch = shard.epoch
     /\ shard'.active = shard.active
     /\ shard'.snapshots = shard.snapshots

CallsKept ==
  \A u \in Tasks :
    task[u].op \in Counting \/ task'[u].op \in Counting => task'[u] = task[u]

ProcessesKept ==
  \A p \in Pids : vm[p].status # "unborn" =>
    vm'[p].status # "unborn" /\ vm'[p].epoch = vm[p].epoch

Frame == CountKept /\ CallsKept /\ ProcessesKept /\ UNCHANGED abandoned

EnterFrames(t, e) ==
  \/ \E d \in Digests : BeginActivate(t, e, d)
  \/ Start(t, e) \/ Hibernate(t, e) \/ Terminate(t, e)
  \/ /\ Enter(t) /\ BeginTerminate(t, e, "destroy")
     /\ UNCHANGED <<observed, abandoned>>

LEMMA EnterFrame ==
  ASSUME HostInv, HostInv', NEW t \in Tasks, NEW e \in Epochs, EnterFrames(t, e)
  PROVE  Frame
  <1>1. /\ gate = None /\ gate' = t /\ task[t] = Idle
        /\ UNCHANGED <<vm, abandoned>>
    BY DEF EnterFrames, BeginActivate, Start, Hibernate, Terminate, Enter, Free,
           BeginStart, BeginHibernate, BeginTerminate
  <1>2. CallsKept
    <2>1. task \in [Tasks -> Task]
      BY DEF HostInv, TypeOK
    <2>2. \A u \in Tasks \ {t} : task'[u] = task[u]
      BY <2>1
      DEF EnterFrames, BeginActivate, Start, Hibernate, Terminate, BeginStart,
          BeginHibernate, BeginTerminate
    <2>3. task[t].op \notin Counting
      BY <1>1 DEF Idle, Counting
    <2>4. task'[t].op \notin Counting
      BY <1>1 DEF HostInv, GateIsHeld, Stopping, Counting
    <2> QED
      BY <2>2, <2>3, <2>4 DEF CallsKept
  <1>3. CountKept
    <2>1. shard \in Shard
      BY DEF EnterFrames, BeginActivate, Start, Hibernate, Terminate,
             BeginStart, BeginHibernate, BeginTerminate, AtEpoch, HostInv, TypeOK
    <2>2. \/ UNCHANGED shard
          \/ shard' = [shard EXCEPT !.state = "starting"]
          \/ shard' = [shard EXCEPT !.state = "draining"]
      BY DEF EnterFrames, BeginActivate, Start, Hibernate, Terminate,
             BeginStart, BeginHibernate, BeginTerminate
    <2> QED
      BY <2>1, <2>2, StateIs DEF CountKept, States
  <1> QED
    BY <1>1, <1>2, <1>3 DEF Frame, ProcessesKept

LEMMA StepFrame ==
  ASSUME HostInv, HostInv', NEW t \in Tasks, Step(t)
  PROVE  Frame
  <1>1. /\ task[t].op \in Gated /\ UNCHANGED <<shard, gate, abandoned>>
    BY DEF Step, Spawn, Stop, Pause, SnapshotAndKill, CopyState, CopyMem, At,
           Gated, Stopping
  <1>2. CallsKept
    <2>1. task \in [Tasks -> Task]
      BY DEF HostInv, TypeOK
    <2>2. \A u \in Tasks \ {t} : task'[u] = task[u]
      BY <2>1 DEF Step, Spawn, Stop, Pause, SnapshotAndKill, CopyState, CopyMem,
                  Proceed
    <2>3. task[t].op \notin Counting
      BY <1>1 DEF Gated, Stopping, Counting
    <2>4. task'[t].op \notin Counting
      BY <1>1, HolderIs DEF HostInv, GateIsHeld, Stopping, Counting
    <2> QED
      BY <2>2, <2>3, <2>4 DEF CallsKept
  <1>3. ProcessesKept
    <2>1. vm \in [Pids -> Process]
      BY DEF HostInv, TypeOK
    <2>2. CASE Spawn(t)
      <3>1. PICK p \in Pids : /\ vm[p].status = "unborn"
                              /\ \A q \in Pids \ {p} : vm'[q] = vm[q]
        BY <2>2, SpawnedIs
      <3> QED
        BY <3>1 DEF ProcessesKept
    <2>3. CASE Stop(t) \/ Pause(t) \/ SnapshotAndKill(t)
      <3>1. \/ UNCHANGED vm
            \/ vm' = [vm EXCEPT ![task[t].pid].status = "ending"]
            \/ vm' = [vm EXCEPT ![task[t].pid].status = "paused"]
        <4>1. CASE Pause(t)
          BY <4>1, PausedIs DEF HostInv
        <4> QED
          BY <2>3, <4>1 DEF Stop, Killed, SnapshotAndKill
      <3> QED
        BY <2>1, <3>1 DEF ProcessesKept, Process
    <2>4. CASE CopyState(t) \/ CopyMem(t)
      BY <2>4 DEF CopyState, CopyMem, ProcessesKept
    <2> QED
      BY <2>2, <2>3, <2>4 DEF Step
  <1> QED
    BY <1>1, <1>2, <1>3 DEF Frame, CountKept

LEMMA FinishFrame ==
  ASSUME HostInv, NEW t \in Tasks, task[t].op \notin Counting, Finish(t)
  PROVE  CallsKept
  <1>1. task'[t] = Idle /\ \A u \in Tasks \ {t} : task'[u] = task[u]
    BY DEF Finish, HostInv, TypeOK
  <1>2. Idle.op \notin Counting
    BY DEF Idle, Counting
  <1> QED
    BY <1>1, <1>2 DEF CallsKept

LEMMA EndFrame ==
  ASSUME HostInv, NEW t \in Tasks,
         \/ EndStart(t) \/ EndStop(t) \/ EndSnapshot(t)
         \/ ActivateSucceeds(t) \/ ActivateFails(t)
  PROVE  Frame
  <1>1. task[t].op \in Gated /\ Finish(t) /\ UNCHANGED abandoned
    BY DEF EndStart, EndStop, EndSnapshot, StartSucceeds, StartFails,
           StartDropped, EndTerminate, EndHibernate, StopsEarly, At, Gated,
           Stopping, ActivateSucceeds, ActivateFails
  <1>2. CallsKept
    BY <1>1, FinishFrame DEF Gated, Stopping, Counting
  <1>3. /\ shard \in Shard /\ task[t].pid \in Pids \cup {None}
        /\ vm \in [Pids -> Process]
    BY <1>1, HolderIs DEF HostInv, TypeOK
  <1>4. CountKept
    <2>1. \/ UNCHANGED shard
          \/ shard' = [shard EXCEPT !.state = "cold"]
          \/ \E st \in States, p \in Pids \cup {None} : shard' = Settled(st, p)
      BY <1>3
      DEF EndStart, EndStop, EndSnapshot, StartSucceeds, StartFails,
          StartDropped, EndTerminate, EndHibernate, StopsEarly,
          ActivateSucceeds, ActivateFails, States
    <2> QED
      BY <1>3, <2>1, StateIs, SettledIs DEF CountKept, States
  <1>5. ProcessesKept
    <2>1. \/ UNCHANGED vm
          \/ vm' = [vm EXCEPT ![task[t].pid].status = "ending"]
          \/ vm' = [vm EXCEPT ![task[t].pid].loaded = @ \cup {task[t].digest}]
      BY DEF EndStart, EndStop, EndSnapshot, StartSucceeds, StartFails, Undone,
             StartDropped, EndTerminate, EndHibernate, StopsEarly,
             ActivateSucceeds, ActivateFails
    <2> QED
      BY <1>3, <2>1 DEF ProcessesKept, Process
  <1> QED
    BY <1>1, <1>2, <1>4, <1>5 DEF Frame

LEMMA IdleFrame ==
  ASSUME HostInv,
         \/ \E t \in Tasks, e \in Epochs : WarmIdle(t, e) \/ TerminateAgain(t, e)
         \/ \E p \in Pids : Exit(p)
         \/ UNCHANGED vars
  PROVE  Frame
  <1>1. UNCHANGED <<task, abandoned>>
    BY DEF WarmIdle, TerminateAgain, Exit, Exits, vars, hostVars
  <1>2. CountKept
    <2>1. ASSUME NEW t \in Tasks, NEW e \in Epochs, WarmIdle(t, e)
          PROVE  CountKept
      <3>1. shard \in Shard /\ shard' = [shard EXCEPT !.state = "warm_idle"]
        BY <2>1 DEF WarmIdle, MarkWarmIdle, AtEpoch, HostInv, TypeOK
      <3> QED
        BY <3>1, StateIs DEF CountKept, States
    <2> QED
      BY <2>1 DEF TerminateAgain, Exit, Exits, vars, hostVars, CountKept
  <1>3. ProcessesKept
    <2>1. vm \in [Pids -> Process]
      BY DEF HostInv, TypeOK
    <2>2. UNCHANGED vm \/ \E p \in Pids : vm' = [vm EXCEPT ![p].status = "dead"]
      BY DEF WarmIdle, MarkWarmIdle, TerminateAgain, Exit, Exits, vars, hostVars
    <2> QED
      BY <2>1, <2>2 DEF ProcessesKept, Process
  <1> QED
    BY <1>1, <1>2, <1>3 DEF Frame, CallsKept

-----------------------------------------------------------------------------
(* ActiveCountsCalls.                                                      *)

\* Calls are counted for epochs that were, and only finitely many at a time.
NothingAhead ==
  \A e \in Epochs :
    /\ IsFiniteSet(Counted(e))
    /\ shard = None \/ e > shard.epoch => Counted(e) = {} /\ abandoned[e] = 0

CountInv == HostInv /\ ActiveCountsCalls /\ NothingAhead

\* What the counter is compared with.
InFlight(e) == Cardinality(Counted(e)) + abandoned[e]

LEMMA FrameCounts ==
  ASSUME CountInv, Frame
  PROVE  ActiveCountsCalls' /\ NothingAhead'
  <1>1. \A e : Counted(e)' = Counted(e)
    BY DEF Frame, CallsKept, Counted, Counting
  <1>2. /\ shard' # None <=> shard # None
        /\ shard # None => shard'.epoch = shard.epoch /\ shard'.active = shard.active
        /\ UNCHANGED abandoned
    BY NoneAssumption DEF Frame, CountKept
  <1>3. NothingAhead'
    BY <1>1, <1>2 DEF CountInv, NothingAhead
  <1>4. ActiveCountsCalls'
    BY <1>1, <1>2 DEF CountInv, ActiveCountsCalls
  <1> QED
    BY <1>3, <1>4

\* A task begins to count.
LEMMA OneMoreCounted ==
  ASSUME HostInv, NEW t \in Tasks, NEW r, task' = [task EXCEPT ![t] = r],
         r.op \in Counting, task[t].op \notin Counting
  PROVE  /\ Counted(r.epoch)' = Counted(r.epoch) \cup {t}
         /\ t \notin Counted(r.epoch)
         /\ \A e : e # r.epoch => Counted(e)' = Counted(e)
  <1>1. task'[t] = r /\ \A u \in Tasks \ {t} : task'[u] = task[u]
    BY DEF HostInv, TypeOK
  <1> QED
    BY <1>1 DEF Counted, Counting

\* A task counts no longer.
LEMMA OneLessCounted ==
  ASSUME HostInv, NEW t \in Tasks, NEW f, f = task[t].epoch, Finish(t),
         task[t].op \in Counting
  PROVE  /\ Counted(f)' = Counted(f) \ {t}
         /\ t \in Counted(f)
         /\ \A e : e # f => Counted(e)' = Counted(e)
  <1>1. /\ task'[t] = Idle /\ \A u \in Tasks \ {t} : task'[u] = task[u]
        /\ Idle.op = "none"
    BY DEF HostInv, TypeOK, Finish, Idle
  <1>2. t \in Counted(f)
    BY DEF Counted, Counting
  <1>3. ASSUME NEW e
        PROVE  Counted(e)' = Counted(e) \ {t}
    BY <1>1 DEF Counted
  <1>4. ASSUME NEW e, e # f
        PROVE  t \notin Counted(e)
    BY <1>4 DEF Counted
  <1>5. ASSUME NEW e, e # f
        PROVE  Counted(e)' = Counted(e)
    BY <1>3, <1>4, <1>5
  <1> QED
    BY <1>2, <1>3, <1>5

LEMMA EnsureCounts ==
  ASSUME CountInv, NEW t \in Tasks, NEW e \in Epochs, NEW d \in Digests,
         NEW s \in SnapshotPolicies, EnsureShard(t, e, d, s)
  PROVE  ActiveCountsCalls' /\ NothingAhead'
  <1>1. UNCHANGED <<task, abandoned>> /\ shard \in Shard \cup {None}
    BY DEF EnsureShard, Ensure, CountInv, HostInv, TypeOK
  <1>2. \A f : Counted(f)' = Counted(f)
    BY <1>1 DEF Counted
  <1>3. CASE AtEpoch(e) /\ shard' = [[shard EXCEPT !.digest = d] EXCEPT !.snapshots = s]
    <2>1. /\ shard # None /\ shard' # None
          /\ shard'.epoch = shard.epoch /\ shard'.active = shard.active
      BY <1>1, <1>3, RecordsStayRecords, NoneAssumption DEF AtEpoch, Shard
    <2> QED
      BY <1>1, <1>2, <2>1 DEF CountInv, ActiveCountsCalls, NothingAhead
  <1>4. CASE /\ shard = None \/ e > shard.epoch
             /\ shard' = NewShard(e, d, s)
    <2>1. shard'.epoch = e /\ shard'.active = 0
      BY <1>4, NewShardIs
    <2>2. \A f \in Epochs : f >= e => Counted(f) = {} /\ abandoned[f] = 0
      <3>1. shard # None => shard.epoch \in Nat
        BY <1>1, HostAssumption DEF Shard
      <3> QED
        BY <1>4, <3>1, HostAssumption DEF CountInv, NothingAhead
    <2>3. Counted(e) = {} /\ abandoned[e] = 0
      BY <2>2, HostAssumption
    <2>4. ActiveCountsCalls'
      <3>1. Cardinality(Counted(e)') = 0
        BY <1>2, <2>3, FS_EmptySet
      <3> QED
        BY <1>1, <1>2, <2>1, <2>3, <3>1 DEF ActiveCountsCalls
    <2>5. NothingAhead'
      <3>1. shard' # None
        BY <1>4, NoneAssumption DEF NewShard, Shard, States
      <3>2. \A f \in Epochs : f > e => f >= e
        BY HostAssumption
      <3> QED
        BY <1>1, <1>2, <2>1, <2>2, <3>1, <3>2 DEF CountInv, NothingAhead
    <2> QED
      BY <2>4, <2>5
  <1> QED
    BY <1>3, <1>4 DEF EnsureShard, Ensure

\* A call is admitted, or an activity reported.
LEMMA BeginCounts ==
  ASSUME CountInv, NEW t \in Tasks, NEW e \in Epochs,
         Hold(t, e) \/ \E d \in Digests : Admit(t, e, d)
  PROVE  ActiveCountsCalls' /\ NothingAhead'
  <1>1. /\ shard \in Shard /\ shard.epoch = e /\ shard.active \in Nat
        /\ shard' = Active(shard.active + 1)
        /\ UNCHANGED abandoned /\ task[t] = Idle
    <2>1. shard \in Shard
      BY DEF Hold, Admit, Admissible, AtEpoch, CountInv, HostInv, TypeOK
    <2> QED
      BY <2>1 DEF Hold, Admit, Admissible, AtEpoch, TouchUp, Free, Shard
  <1>2. /\ shard' \in Shard /\ shard'.active = shard.active + 1 /\ shard'.epoch = e
    BY <1>1, ActiveIs
  <1>3. /\ Counted(e)' = Counted(e) \cup {t} /\ t \notin Counted(e)
        /\ \A f : f # e => Counted(f)' = Counted(f)
    <2>1. task[t].op \notin Counting
      BY <1>1 DEF Idle, Counting
    <2>2. CASE Hold(t, e)
      <3> DEFINE r == Doing("hold", "wait", e, None)
      <3>1. task' = [task EXCEPT ![t] = r] /\ r.op \in Counting /\ r.epoch = e
        BY <2>2 DEF Hold, Doing, Counting
      <3> HIDE DEF r
      <3> QED
        BY <2>1, <3>1, OneMoreCounted DEF CountInv
    <2>3. ASSUME NEW d \in Digests, Admit(t, e, d)
          PROVE  /\ Counted(e)' = Counted(e) \cup {t} /\ t \notin Counted(e)
                 /\ \A f : f # e => Counted(f)' = Counted(f)
      <3> DEFINE r == [Doing("call", "wait", e, shard.pid) EXCEPT !.digest = d]
      <3>1. task' = [task EXCEPT ![t] = r] /\ r.op \in Counting /\ r.epoch = e
        BY <2>3 DEF Admit, Admissible, Doing, Counting
      <3> HIDE DEF r
      <3> QED
        BY <2>1, <3>1, OneMoreCounted DEF CountInv
    <2> QED
      BY <2>2, <2>3
  <1>4. /\ IsFiniteSet(Counted(e)')
        /\ Cardinality(Counted(e)') = Cardinality(Counted(e)) + 1
    BY <1>3, FS_AddElement DEF CountInv, NothingAhead
  <1>5. NothingAhead'
    <2>1. ASSUME NEW f \in Epochs
          PROVE  IsFiniteSet(Counted(f)')
      BY <1>3, <1>4 DEF CountInv, NothingAhead
    <2>2. ASSUME NEW f \in Epochs, f > e
          PROVE  Counted(f)' = {} /\ abandoned'[f] = 0
      BY <1>1, <1>3, <2>2, HostAssumption DEF CountInv, NothingAhead
    <2> QED
      BY <1>2, <2>1, <2>2, NoneAssumption DEF NothingAhead
  <1>6. ActiveCountsCalls'
    <2>1. /\ shard.active = Cardinality(Counted(e)) + abandoned[e]
          /\ Cardinality(Counted(e)) \in Nat /\ abandoned[e] \in Nat
      BY <1>1, NoneAssumption, FS_CardinalityType
      DEF CountInv, ActiveCountsCalls, NothingAhead, HostInv, TypeOK
    <2> QED
      BY <1>1, <1>2, <1>4, <2>1 DEF ActiveCountsCalls
  <1> QED
    BY <1>5, <1>6

\* A call ends, or nobody will ever end it.
LEMMA EndCounts ==
  ASSUME CountInv, NEW t \in Tasks, EndCall(t) \/ Release(t) \/ Abandon(t)
  PROVE  ActiveCountsCalls' /\ NothingAhead'
  <1>1. task[t].op \in Counting /\ Finish(t)
    BY DEF EndCall, Release, Abandon, Counting
  <1>2. PICK f : f = task[t].epoch
    OBVIOUS
  <1>3. /\ Counted(f)' = Counted(f) \ {t} /\ t \in Counted(f)
        /\ \A e : e # f => Counted(e)' = Counted(e)
    BY <1>1, <1>2, OneLessCounted DEF CountInv
  <1>4. \A e \in Epochs : IsFiniteSet(Counted(e)) /\ Cardinality(Counted(e)) \in Nat
    BY FS_CardinalityType DEF CountInv, NothingAhead
  <1>5. f \in Epochs => /\ IsFiniteSet(Counted(f)')
                        /\ Cardinality(Counted(f)') = Cardinality(Counted(f)) - 1
                        /\ Cardinality(Counted(f)) > 0
    <2>1. ASSUME f \in Epochs
          PROVE  /\ IsFiniteSet(Counted(f)')
                 /\ Cardinality(Counted(f)') = Cardinality(Counted(f)) - 1
      BY <1>3, <1>4, <2>1, FS_RemoveElement
    <2>2. ASSUME f \in Epochs
          PROVE  Cardinality(Counted(f)) > 0
      BY <1>3, <1>4, <2>2, FS_EmptySet
    <2> QED
      BY <2>1, <2>2
  <1>6. /\ shard \in Shard \cup {None}
        /\ abandoned \in [Epochs -> 0..MaxAbandoned]
    BY DEF CountInv, HostInv, TypeOK
  <1>7. shard # None => /\ shard \in Shard /\ shard.epoch \in Epochs
                        /\ shard' # None /\ shard'.epoch = shard.epoch
    BY <1>6, CallEndKeeps DEF CountInv, Shard
  <1>8. /\ \A e \in Epochs : e # f => abandoned'[e] = abandoned[e]
        /\ EndCall(t) \/ Release(t) => UNCHANGED abandoned
        /\ Abandon(t) /\ f \in Epochs => abandoned'[f] = abandoned[f] + 1
    BY <1>2, <1>6 DEF EndCall, Release, Abandon
  <1>9. f \in Epochs => shard # None /\ ~(f > shard.epoch)
    <2>1. Counted(f) # {}
      BY <1>3
    <2> QED
      BY <2>1 DEF CountInv, NothingAhead
  <1>10. NothingAhead'
    <2>1. ASSUME NEW e \in Epochs
          PROVE  IsFiniteSet(Counted(e)')
      BY <1>3, <1>4, <1>5
    <2>2. ASSUME NEW e \in Epochs, shard' = None \/ e > shard'.epoch
          PROVE  Counted(e)' = {} /\ abandoned'[e] = 0
      <3>1. shard = None \/ e > shard.epoch
        BY <1>7, <2>2
      <3>2. e # f
        BY <1>9, <3>1
      <3> QED
        BY <1>3, <1>8, <3>1, <3>2 DEF CountInv, NothingAhead
    <2> QED
      BY <2>1, <2>2 DEF NothingAhead
  <1>11. ActiveCountsCalls'
    <2>1. CASE shard' = None
      BY <2>1 DEF ActiveCountsCalls
    <2>2. CASE shard = None
      BY <2>2 DEF EndCall, Release, Abandon, CountedAt, AtEpoch, ActiveCountsCalls
    <2>3. CASE shard # None /\ shard' # None
      <3>1. PICK g \in Epochs : g = shard.epoch /\ shard'.epoch = g
        BY <1>7, <2>3
      <3>2. /\ shard.active = Cardinality(Counted(g)) + abandoned[g]
            /\ abandoned[g] \in Nat /\ shard.active \in Nat /\ shard \in Shard
        BY <1>6, <1>7, <2>3, <3>1, ApiAssumption
        DEF CountInv, ActiveCountsCalls, Shard
      <3>3. CASE f # g
        <4>1. UNCHANGED shard
          BY <1>2, <3>1, <3>3
          DEF EndCall, Release, Abandon, CountedAt, AtEpoch
        <4>2. Counted(g)' = Counted(g) /\ abandoned'[g] = abandoned[g]
          BY <1>3, <1>8, <3>3
        <4> QED
          BY <3>1, <3>2, <4>1, <4>2 DEF ActiveCountsCalls
      <3>4. CASE f = g /\ Abandon(t)
        <4>1. UNCHANGED shard /\ abandoned'[g] = abandoned[g] + 1
          BY <1>8, <3>4 DEF Abandon
        <4>2. Cardinality(Counted(g)') = Cardinality(Counted(g)) - 1
          BY <1>5, <3>4
        <4> QED
          BY <1>4, <3>1, <3>2, <4>1, <4>2 DEF ActiveCountsCalls
      <3>5. CASE f = g /\ (EndCall(t) \/ Release(t))
        <4>1. TouchDown /\ UNCHANGED abandoned
          BY <1>2, <2>3, <3>1, <3>5
          DEF EndCall, Release, CountedAt, AtEpoch
        <4>2. /\ Cardinality(Counted(g)') = Cardinality(Counted(g)) - 1
              /\ Cardinality(Counted(g)) > 0
          BY <1>5, <3>5
        <4>3. shard.active > 0
          BY <1>4, <3>2, <4>2
        <4>4. shard' = Active(shard.active - 1) /\ shard.active - 1 \in Nat
          BY <3>2, <4>1, <4>3 DEF TouchDown
        <4>5. shard'.active = shard.active - 1
          BY <3>2, <4>4, ActiveIs
        <4> QED
          BY <1>4, <3>1, <3>2, <4>1, <4>2, <4>5 DEF ActiveCountsCalls
      <3> QED
        BY <3>3, <3>4, <3>5
    <2> QED
      BY <2>1, <2>2, <2>3
  <1> QED
    BY <1>10, <1>11

\* The steps that count nothing.
LEMMA OtherFrame ==
  ASSUME HostInv, HostInv',
         \/ \E t \in Tasks, e \in Epochs :
              EnterFrames(t, e) \/ WarmIdle(t, e) \/ TerminateAgain(t, e)
         \/ \E t \in Tasks :
              \/ Step(t) \/ EndStart(t) \/ EndStop(t) \/ EndSnapshot(t)
              \/ ActivateSucceeds(t) \/ ActivateFails(t)
         \/ \E p \in Pids : Exit(p)
         \/ UNCHANGED vars
  PROVE  Frame
  BY EnterFrame, StepFrame, EndFrame, IdleFrame

\* A step counts a call, ends one, prepares the record or counts nothing.
LEMMA StepsByCount ==
  ASSUME HostInv, [Next]_vars
  PROVE  \/ \E t \in Tasks, e \in Epochs, d \in Digests, s \in SnapshotPolicies :
              EnsureShard(t, e, d, s)
         \/ \E t \in Tasks, e \in Epochs :
              Hold(t, e) \/ \E d \in Digests : Admit(t, e, d)
         \/ \E t \in Tasks : EndCall(t) \/ Release(t) \/ Abandon(t)
         \/ Frame
  <1>0. HostInv' /\ Handlers \subseteq Tasks /\ Sweeper \in Tasks
    BY NextInv, ApiAssumption
  <1>1. CASE Sweep
    <2>1. shard.epoch \in Epochs
      BY <1>1 DEF Sweep, HostInv, TypeOK, Shard
    <2>2. WarmIdle(Sweeper, shard.epoch) \/ EnterFrames(Sweeper, shard.epoch)
      BY <1>1 DEF Sweep, EnterFrames
    <2> QED
      BY <1>0, <2>1, <2>2, OtherFrame
  <1>2. ASSUME NEW t \in Handlers, NEW e \in Epochs,
               \/ \E d \in Digests : BeginActivate(t, e, d)
               \/ WarmIdle(t, e) \/ Start(t, e) \/ Hibernate(t, e)
               \/ Terminate(t, e) \/ TerminateAgain(t, e)
        PROVE  Frame
    <2>1. EnterFrames(t, e) \/ WarmIdle(t, e) \/ TerminateAgain(t, e)
      BY <1>2 DEF EnterFrames
    <2> QED
      BY <1>0, <2>1, OtherFrame
  <1>3. CASE \/ \E t \in Handlers :
                  ActivateSucceeds(t) \/ ActivateFails(t) \/ EndStart(t)
             \/ \E t \in Tasks : Step(t) \/ EndStop(t) \/ EndSnapshot(t)
             \/ \E p \in Pids : Exit(p)
             \/ UNCHANGED vars
    BY <1>0, <1>3, OtherFrame
  <1> QED
    BY <1>0, <1>1, <1>2, <1>3 DEF Next

LEMMA CountStep ==
  ASSUME CountInv, [Next]_vars
  PROVE  CountInv'
  <1>1. HostInv'
    BY NextInv DEF CountInv
  <1> QED
    BY <1>1, StepsByCount, EnsureCounts, BeginCounts, EndCounts, FrameCounts
    DEF CountInv

LEMMA CountInit ==
  ASSUME Init
  PROVE  CountInv
  <1>1. \A e \in Epochs : Counted(e) = {} /\ abandoned[e] = 0
    BY DEF Init, HostInit, Counted, Idle
  <1> QED
    BY <1>1, FS_EmptySet, HostInitInv
    DEF CountInv, ActiveCountsCalls, NothingAhead, Init, HostInit

\* The counter that lets a shard be stopped is the number of calls in flight
\* and of those that will never be ended.
THEOREM ActiveCountsCallsHolds == Spec => []ActiveCountsCalls
  <1>1. Init => CountInv
    BY CountInit
  <1>2. CountInv /\ [Next]_vars => CountInv'
    BY CountStep
  <1>3. CountInv => ActiveCountsCalls
    BY DEF CountInv
  <1> QED
    BY <1>1, <1>2, <1>3, PTL DEF Spec

-----------------------------------------------------------------------------
(* NoStopUnderCall.                                                        *)

\* A call waits for a process of its epoch.
CallsKnowProcess ==
  \A t \in Tasks : task[t].op = "call" =>
    /\ task[t].pid \in Pids
    /\ vm[task[t].pid].status # "unborn"
    /\ vm[task[t].pid].epoch = task[t].epoch

\* The sweeper destroys what has no process, hibernate() what has no snapshots.
DestroysWithout ==
  \A t \in Tasks :
    task[t].op = "destroy" /\ task[t].pid # None => ~shard.snapshots

StopInv == CountInv /\ CallsKnowProcess /\ DestroysWithout /\ NoStopUnderCall

\* No operation begins to stop a process, and no call is admitted.
StopsKept ==
  /\ \A u \in Tasks : task'[u].op \in Stopping =>
       /\ task'[u].op = task[u].op /\ task'[u].pid = task[u].pid
       /\ shard'.snapshots = shard.snapshots
  /\ \A u \in Tasks : task'[u].op = "call" => task'[u] = task[u]

LEMMA KeptStops ==
  ASSUME StopInv, StopsKept
  PROVE  DestroysWithout' /\ NoStopUnderCall'
  <1>1. DestroysWithout'
    BY DEF StopInv, StopsKept, DestroysWithout, Stopping
  <1>2. ASSUME NEW t \in Tasks, NEW u \in Tasks, task'[t].op = "call",
               task'[u].op \in Stopping, task'[u].pid = task'[t].pid
        PROVE  task'[u].op = "destroy" /\ ~shard'.snapshots
    BY <1>2 DEF StopInv, StopsKept, NoStopUnderCall
  <1> QED
    BY <1>1, <1>2 DEF NoStopUnderCall

LEMMA NobodyStops ==
  ASSUME \A u \in Tasks : task'[u].op \notin Stopping
  PROVE  DestroysWithout' /\ NoStopUnderCall'
  BY DEF DestroysWithout, NoStopUnderCall, Stopping

\* With no active invocation nobody waits for the record's process.
LEMMA NobodyWaits ==
  ASSUME StopInv, shard # None, shard.active = 0, NEW t \in Tasks,
         task[t].op = "call"
  PROVE  task[t].pid # shard.pid
  <1>1. /\ shard \in Shard /\ shard.epoch \in Epochs
        /\ abandoned[shard.epoch] \in Nat
    BY ApiAssumption DEF StopInv, CountInv, HostInv, TypeOK, Shard
  <1>2. Cardinality(Counted(shard.epoch)) = 0 /\ IsFiniteSet(Counted(shard.epoch))
    <2>1. Cardinality(Counted(shard.epoch)) \in Nat /\ IsFiniteSet(Counted(shard.epoch))
      BY <1>1, FS_CardinalityType DEF StopInv, CountInv, NothingAhead
    <2> QED
      BY <1>1, <2>1 DEF StopInv, CountInv, ActiveCountsCalls
  <1>3. Counted(shard.epoch) = {}
    BY <1>2, FS_EmptySet
  <1>4. task[t].epoch # shard.epoch
    BY <1>3 DEF Counted
  <1>5. vm[task[t].pid].epoch = task[t].epoch /\ task[t].pid \in Pids
    BY DEF StopInv, CallsKnowProcess
  <1> QED
    BY <1>4, <1>5, HostAssumption DEF StopInv, CountInv, HostInv, HandlesFollowState

\* An operation begins to stop the record's process.
LEMMA EnterStops ==
  ASSUME StopInv, NEW t \in Tasks, gate = None,
         \A u \in Tasks \ {t} : task'[u] = task[u],
         UNCHANGED shard \/ shard' = [shard EXCEPT !.state = "draining"],
         shard \in Shard, task'[t].op \in Stopping, task'[t].pid = shard.pid,
         \/ shard.active = 0 /\ task'[t].op # "destroy"
         \/ task'[t].op = "destroy" /\ (~shard.snapshots \/ shard.pid = None)
  PROVE  DestroysWithout' /\ NoStopUnderCall'
  <1>1. shard'.snapshots = shard.snapshots
    BY StateIs DEF States
  <1>2. \A u \in Tasks \ {t} : task'[u].op \notin Stopping
    BY NobodyGated DEF StopInv, CountInv, Gated
  <1>3. DestroysWithout'
    BY <1>1, <1>2 DEF DestroysWithout, Stopping
  <1>4. ASSUME NEW v \in Tasks, NEW u \in Tasks, task'[v].op = "call",
               task'[u].op \in Stopping, task'[u].pid = task'[v].pid
        PROVE  task'[u].op = "destroy" /\ ~shard'.snapshots
    <2>1. u = t
      BY <1>2, <1>4
    <2>2. v # t /\ task'[v] = task[v]
      BY <1>4 DEF Stopping
    <2>3. task[v].op = "call" /\ task[v].pid = shard.pid
      BY <1>4, <2>1, <2>2
    <2>4. task[v].pid # None
      BY <2>3, HostAssumption DEF StopInv, CallsKnowProcess
    <2>5. shard.active # 0 \/ task'[t].op = "destroy"
      BY <2>3, NobodyWaits, NoneAssumption
    <2> QED
      BY <1>1, <2>1, <2>3, <2>4, <2>5
  <1> QED
    BY <1>3, <1>4 DEF NoStopUnderCall

LEMMA CallsKnowStep ==
  ASSUME StopInv, [Next]_vars
  PROVE  CallsKnowProcess'
  <1>1. CASE Frame
    BY <1>1 DEF Frame, CallsKept, ProcessesKept, Counting, StopInv, CallsKnowProcess
  <1>2. ASSUME NEW t \in Tasks, NEW e \in Epochs, NEW d \in Digests,
               NEW s \in SnapshotPolicies, EnsureShard(t, e, d, s)
        PROVE  CallsKnowProcess'
    BY <1>2 DEF EnsureShard, Ensure, StopInv, CallsKnowProcess
  <1>3. ASSUME NEW t \in Tasks, EndCall(t) \/ Release(t) \/ Abandon(t)
        PROVE  CallsKnowProcess'
    <2>1. Finish(t) /\ UNCHANGED vm
      BY <1>3 DEF EndCall, Release, Abandon
    <2>2. /\ task'[t] = Idle /\ \A u \in Tasks \ {t} : task'[u] = task[u]
          /\ Idle.op = "none"
      BY <2>1 DEF Finish, Idle, StopInv, CountInv, HostInv, TypeOK
    <2> QED
      BY <2>1, <2>2 DEF StopInv, CallsKnowProcess
  <1>4. ASSUME NEW t \in Tasks, NEW e \in Epochs,
               Hold(t, e) \/ \E d \in Digests : Admit(t, e, d)
        PROVE  CallsKnowProcess'
    <2>0. task \in [Tasks -> Task] /\ shard \in Shard /\ UNCHANGED vm
      BY <1>4 DEF Hold, Admit, Admissible, AtEpoch, StopInv, CountInv, HostInv, TypeOK
    <2>1. CASE Hold(t, e)
      <3>1. /\ task'[t].op = "hold" /\ \A u \in Tasks \ {t} : task'[u] = task[u]
        BY <2>0, <2>1 DEF Hold, Doing
      <3> QED
        BY <2>0, <3>1 DEF StopInv, CallsKnowProcess
    <2>2. ASSUME NEW d \in Digests, Admit(t, e, d)
          PROVE  CallsKnowProcess'
      <3>1. /\ task'[t].epoch = e /\ task'[t].pid = shard.pid
            /\ \A u \in Tasks \ {t} : task'[u] = task[u]
        BY <2>0, <2>2 DEF Admit, Admissible, Doing
      <3>2. /\ shard.epoch = e /\ shard.pid \in Pids
            /\ vm[shard.pid].status # "unborn" /\ vm[shard.pid].epoch = e
        <4>1. shard.pid # None
          BY <2>0, <2>2, NoneAssumption
          DEF Admit, Admissible, StopInv, CountInv, HostInv, HandlesFollowState
        <4> QED
          BY <2>0, <2>2, <4>1, NoneAssumption
          DEF Admit, Admissible, AtEpoch, StopInv, CountInv, HostInv, HandlesFollowState, Shard
      <3> QED
        BY <2>0, <3>1, <3>2 DEF StopInv, CallsKnowProcess
    <2> QED
      BY <1>4, <2>1, <2>2
  <1> QED
    BY <1>1, <1>2, <1>3, <1>4, StepsByCount DEF StopInv, CountInv

\* Requests that do not take the gate: nobody stops a process afterwards.
LEMMA QuickStops ==
  ASSUME StopInv, HostInv', gate' = None
  PROVE  DestroysWithout' /\ NoStopUnderCall'
  <1>1. \A u \in Tasks : task'[u].op \notin Stopping
    BY HostAssumption DEF HostInv, GateIsHeld
  <1> QED
    BY <1>1, NobodyStops

LEMMA BeginStops ==
  ASSUME StopInv, HostInv', NEW t \in Tasks, NEW e \in Epochs,
         \/ \E d \in Digests : BeginActivate(t, e, d)
         \/ Start(t, e) \/ Hibernate(t, e) \/ Terminate(t, e)
         \/ /\ Enter(t) /\ BeginTerminate(t, e, "destroy")
            /\ shard.pid = None
  PROVE  DestroysWithout' /\ NoStopUnderCall'
  <1>1. /\ gate = None /\ gate' = t /\ task \in [Tasks -> Task]
        /\ shard \in Shard
    BY DEF BeginActivate, Start, Hibernate, Terminate, Enter, Free,
           BeginStart, BeginHibernate, BeginTerminate, AtEpoch,
           StopInv, CountInv, HostInv, TypeOK
  <1>2. \A u \in Tasks \ {t} : task'[u] = task[u]
    BY <1>1
    DEF BeginActivate, Start, Hibernate, Terminate, BeginStart,
        BeginHibernate, BeginTerminate
  <1>3. CASE task'[t].op \notin Stopping
    <2>1. \A u \in Tasks : task'[u].op \notin Stopping
      BY <1>1, <1>2, <1>3, NobodyGated DEF StopInv, CountInv, Gated
    <2> QED
      BY <2>1, NobodyStops
  <1>4. CASE (\E d \in Digests : BeginActivate(t, e, d)) \/ Start(t, e)
    <2>1. task'[t].op \notin Stopping
      <3>1. ASSUME NEW d \in Digests, BeginActivate(t, e, d)
            PROVE  task'[t].op = "activate"
        BY <1>1, <3>1 DEF BeginActivate, Doing
      <3>2. ASSUME Start(t, e)
            PROVE  task'[t].op = "start"
        BY <1>1, <3>2 DEF Start, BeginStart, Doing
      <3> QED
        BY <1>4, <3>1, <3>2 DEF Stopping
    <2> QED
      BY <1>3, <2>1
  <1>5. ASSUME NEW op \in {"terminate", "destroy"}, BeginTerminate(t, e, op),
               \/ op = "terminate" /\ shard.active = 0
               \/ op = "destroy" /\ (shard.pid = None \/ ~shard.snapshots)
        PROVE  DestroysWithout' /\ NoStopUnderCall'
    <2>1. /\ task'[t].op = op /\ task'[t].pid = shard.pid
          /\ shard' = [shard EXCEPT !.state = "draining"]
      BY <1>1, <1>5 DEF BeginTerminate, Doing
    <2>2. task'[t].op \in Stopping
      BY <2>1 DEF Stopping
    <2> QED
      BY <1>1, <1>2, <1>5, <2>1, <2>2, EnterStops
  <1>6. CASE Hibernate(t, e)
    <2>1. CASE ~shard.snapshots
      BY <1>5, <1>6, <2>1 DEF Hibernate, BeginHibernate
    <2>2. CASE shard.snapshots
      <3>1. /\ task'[t].op = "hibernate" /\ task'[t].pid = shard.pid
            /\ UNCHANGED shard /\ shard.active = 0
        BY <1>1, <1>6, <2>2 DEF Hibernate, BeginHibernate, Doing
      <3>2. task'[t].op \in Stopping
        BY <3>1 DEF Stopping
      <3> QED
        BY <1>1, <1>2, <3>1, <3>2, EnterStops
    <2> QED
      BY <2>1, <2>2
  <1> QED
    BY <1>4, <1>5, <1>6 DEF Terminate, NoneActive

LEMMA OngoingStops ==
  ASSUME StopInv, HostInv',
         \/ \E t \in Tasks : \/ Step(t) \/ EndStart(t) \/ EndStop(t) \/ EndSnapshot(t)
                             \/ ActivateSucceeds(t) \/ ActivateFails(t)
                             \/ EndCall(t) \/ Release(t) \/ Abandon(t)
         \/ \E p \in Pids : Exit(p)
         \/ UNCHANGED vars
  PROVE  StopsKept
  <1>0. task \in [Tasks -> Task]
    BY DEF StopInv, CountInv, HostInv, TypeOK
  <1>1. ASSUME UNCHANGED <<task, shard>>
        PROVE  StopsKept
    BY <1>1 DEF StopsKept
  <1>2. ASSUME NEW t \in Tasks, Finish(t),
               shard = None \/ shard'.snapshots = shard.snapshots
        PROVE  StopsKept
    <2>1. /\ task'[t] = Idle /\ \A u \in Tasks \ {t} : task'[u] = task[u]
          /\ Idle.op = "none"
      BY <1>0, <1>2 DEF Finish, Idle
    <2>2. \A u \in Tasks : task[u].op \in Stopping => shard # None
      BY DEF StopInv, CountInv, HostInv, RelockFindsRecord, FindsRecord, AtEpoch
    <2> QED
      BY <1>2, <2>1, <2>2 DEF StopsKept, Stopping
  <1>3. ASSUME NEW t \in Tasks, \/ EndStart(t) \/ EndStop(t) \/ EndSnapshot(t)
                                \/ ActivateSucceeds(t) \/ ActivateFails(t)
        PROVE  StopsKept
    <2>1. Frame /\ Finish(t)
      BY <1>3, EndFrame
      DEF StopInv, CountInv, EndStart, EndStop, EndSnapshot, StartSucceeds,
          StartFails, StartDropped, EndTerminate, EndHibernate, StopsEarly,
          ActivateSucceeds, ActivateFails
    <2> QED
      BY <1>2, <2>1 DEF Frame, CountKept
  <1>4. ASSUME NEW t \in Tasks, EndCall(t) \/ Release(t) \/ Abandon(t)
        PROVE  StopsKept
    <2>1. Finish(t)
      BY <1>4 DEF EndCall, Release, Abandon
    <2>2. CASE UNCHANGED shard
      BY <1>2, <2>1, <2>2
    <2>3. CASE TouchDown /\ shard # None
      <3>1. shard \in Shard
        BY <2>3 DEF StopInv, CountInv, HostInv, TypeOK
      <3>2. (IF shard.active = 0 THEN 0 ELSE shard.active - 1) \in Nat
        BY <3>1 DEF Shard
      <3>3. shard'.snapshots = shard.snapshots
        BY <2>3, <3>1, <3>2, ActiveIs DEF TouchDown
      <3> QED
        BY <1>2, <2>1, <3>3
    <2> QED
      BY <1>4, <2>2, <2>3 DEF EndCall, Release, Abandon, CountedAt, AtEpoch
  <1>5. ASSUME NEW t \in Tasks, Step(t)
        PROVE  StopsKept
    <2>1. UNCHANGED shard
      BY <1>5 DEF Step, Spawn, Stop, Pause, SnapshotAndKill, CopyState, CopyMem
    <2>2. CallsKept
      BY <1>5, StepFrame DEF Frame, StopInv, CountInv
    <2>3. \A u \in Tasks : task'[u].op \in Stopping =>
            task'[u].op = task[u].op /\ task'[u].pid = task[u].pid
      <3>1. CASE Spawn(t)
        <4>1. /\ task'[t].op = "start"
              /\ \A u \in Tasks \ {t} : task'[u] = task[u]
          BY <1>0, <3>1 DEF Spawn, Doing
        <4> QED
          BY <4>1 DEF Stopping
      <3>2. ASSUME NEW step, task' = [task EXCEPT ![t].step = step]
            PROVE  \A u \in Tasks : task'[u].op = task[u].op /\ task'[u].pid = task[u].pid
        BY <1>0, <3>2 DEF Task
      <3> QED
        BY <1>5, <3>1, <3>2
        DEF Step, Stop, Pause, SnapshotAndKill, CopyState, CopyMem, Proceed
    <2> QED
      BY <2>1, <2>2, <2>3 DEF StopsKept, CallsKept, Counting
  <1>6. CASE (\E p \in Pids : Exit(p)) \/ UNCHANGED vars
    BY <1>1, <1>6 DEF Exit, Exits, vars, hostVars
  <1> QED
    BY <1>3, <1>4, <1>5, <1>6

LEMMA StopStep ==
  ASSUME StopInv, [Next]_vars
  PROVE  StopInv'
  <1>0. HostInv' /\ Handlers \subseteq Tasks /\ Sweeper \in Tasks
    BY NextInv, ApiAssumption DEF StopInv, CountInv
  <1>1. CountInv' /\ CallsKnowProcess'
    BY CountStep, CallsKnowStep DEF StopInv
  <1>2. SUFFICES DestroysWithout' /\ NoStopUnderCall'
    BY <1>1 DEF StopInv
  <1>3. CASE Sweep
    <2>1. shard \in Shard /\ shard.epoch \in Epochs
      BY <1>3 DEF Sweep, StopInv, CountInv, HostInv, TypeOK, Shard
    <2>2. CASE WarmIdle(Sweeper, shard.epoch)
      BY <1>0, <2>2, QuickStops DEF WarmIdle, Free
    <2>3. CASE Hibernate(Sweeper, shard.epoch)
      BY <1>0, <2>1, <2>3, BeginStops
    <2>4. CASE /\ Destroyable /\ Enter(Sweeper)
               /\ BeginTerminate(Sweeper, shard.epoch, "destroy")
      <3>1. shard.pid = None
        BY <2>1, <2>4, NoneAssumption
        DEF Destroyable, StopInv, CountInv, HostInv, HandlesFollowState, Runnable
      <3> QED
        BY <1>0, <2>1, <2>4, <3>1, BeginStops
    <2> QED
      BY <1>3, <2>2, <2>3, <2>4 DEF Sweep
  <1>4. ASSUME NEW t \in Handlers, NEW e \in Epochs,
               \/ \E d \in Digests : BeginActivate(t, e, d)
               \/ Start(t, e) \/ Hibernate(t, e) \/ Terminate(t, e)
        PROVE  DestroysWithout' /\ NoStopUnderCall'
    BY <1>0, <1>4, BeginStops
  <1>5. ASSUME NEW t \in Handlers, NEW e \in Epochs,
               \/ \E d \in Digests :
                    \/ \E s \in SnapshotPolicies : EnsureShard(t, e, d, s)
                    \/ Admit(t, e, d)
               \/ WarmIdle(t, e) \/ Hold(t, e) \/ TerminateAgain(t, e)
        PROVE  DestroysWithout' /\ NoStopUnderCall'
    <2>1. gate' = None
      BY <1>5 DEF EnsureShard, Admit, Admissible, WarmIdle, Hold, TerminateAgain, Free
    <2> QED
      BY <1>0, <2>1, QuickStops
  <1>6. CASE \/ \E t \in Tasks : \/ Step(t) \/ EndStart(t) \/ EndStop(t) \/ EndSnapshot(t)
                                 \/ ActivateSucceeds(t) \/ ActivateFails(t)
                                 \/ EndCall(t) \/ Release(t) \/ Abandon(t)
             \/ \E p \in Pids : Exit(p)
             \/ UNCHANGED vars
    BY <1>0, <1>6, OngoingStops, KeptStops
  <1> QED
    BY <1>0, <1>3, <1>4, <1>5, <1>6 DEF Next

\* A call's process is not stopped under it, except by the hibernation of a
\* shard without snapshots.
THEOREM NoStopUnderCallHolds == Spec => []NoStopUnderCall
  <1>1. Init => StopInv
    <2>1. ASSUME Init
          PROVE  \A t \in Tasks : task[t] = Idle /\ task[t].op = "none"
      BY <2>1 DEF Init, HostInit, Idle
    <2>2. ASSUME Init
          PROVE  CallsKnowProcess /\ DestroysWithout /\ NoStopUnderCall
      BY <2>1, <2>2 DEF CallsKnowProcess, DestroysWithout, NoStopUnderCall
    <2> QED
      BY <2>2, CountInit DEF StopInv
  <1>2. StopInv /\ [Next]_vars => StopInv'
    BY StopStep
  <1>3. StopInv => NoStopUnderCall
    BY DEF StopInv
  <1> QED
    BY <1>1, <1>2, <1>3, PTL DEF Spec

-------------------------------------------------------------------------------
\* What a placement promises: the process a shard runs, or may yet restore or
\* finish to start, was booted under the placement of the record (PlacementStays),
\* and of what is listed as loaded all but the placement was loaded by a guest of
\* that epoch.

\* A process that was started, with memory booted under the shard's placement.
HasPlacement(p) ==
  /\ p \in Pids
  /\ vm[p].status # "unborn"
  /\ shard.digest = vm[p].placed

\* Whatever the shard runs, or may restore or finish to start, has it.
PlacementStays ==
  /\ shard # None => /\ shard.state \in Runnable => HasPlacement(shard.pid)
                     /\ shard.state = "hibernated" => HasPlacement(files[shard.epoch].mem)
  /\ \A t \in Tasks :
       /\ At(t, "start", "restore") => HasPlacement(files[task[t].epoch].mem)
       /\ At(t, "start", "spawned") => HasPlacement(task[t].pid)

LoadedIn(e, d) ==
  \E p \in Pids : vm[p].status # "unborn" /\ vm[p].epoch = e /\ d \in vm[p].loaded

ObservedOfProcesses ==
  \A e \in Epochs : observed[e] # None =>
    /\ AtEpoch(e) /\ shard.digest \in observed[e]
    /\ \A d \in observed[e] : d = shard.digest \/ LoadedIn(e, d)

PlacementInv == RestoreInv /\ PlacementStays /\ ObservedOfProcesses

\* A process stays in its epoch, unloads nothing and keeps its history.
ProcessesGrow ==
  \A p \in Pids : vm[p].status # "unborn" =>
    /\ vm'[p].status # "unborn"
    /\ vm'[p].epoch = vm[p].epoch
    /\ vm'[p].placed = vm[p].placed
    /\ vm[p].loaded \subseteq vm'[p].loaded

LEMMA StatusGrows ==
  ASSUME TypeOK, NEW q \in Pids, NEW st \in {"running", "paused", "ending", "dead"},
         vm' = [vm EXCEPT ![q].status = st]
  PROVE  ProcessesGrow
  BY DEF TypeOK, ProcessesGrow, Process

LEMMA StartingGrows ==
  ASSUME TypeOK, NEW t \in Tasks, Spawn(t)
  PROVE  ProcessesGrow
  <1>1. PICK q \in Pids : /\ vm[q].status = "unborn"
                          /\ \A p \in Pids \ {q} : vm'[p] = vm[p]
    BY DEF Spawn, TypeOK
  <1> QED
    BY <1>1 DEF ProcessesGrow

LEMMA HostGrows ==
  ASSUME TypeOK, NEW t \in Tasks, task[t].pid \in Pids \cup {None},
         \/ Step(t) \/ EndStart(t) \/ EndStop(t) \/ EndSnapshot(t)
  PROVE  ProcessesGrow
  <1>1. CASE UNCHANGED vm
    BY <1>1 DEF ProcessesGrow
  <1>2. CASE Spawn(t)
    BY <1>2, StartingGrows
  <1>3. CASE Stop(t) \/ Pause(t) \/ SnapshotAndKill(t) \/ StartFails(t)
    <2>1. \/ UNCHANGED vm
          \/ \E q \in Pids \cup {None}, st \in {"paused", "ending"} :
               Live(q) /\ vm' = [vm EXCEPT ![q].status = st]
      <3>1. CASE Pause(t)
        BY <3>1, PausedIs
      <3> QED
        BY <1>3, <3>1 DEF Stop, SnapshotAndKill, StartFails, Undone, Killed
    <2>2. vm \in [Pids -> Process]
      BY DEF TypeOK
    <2>3. ASSUME NEW st, vm' = [vm EXCEPT ![None].status = st]
          PROVE  \A p \in Pids : vm'[p] = vm[p]
      BY <2>2, <2>3, HostAssumption
    <2> QED
      BY <1>1, <2>1, <2>3, StatusGrows DEF ProcessesGrow
  <1> QED
    BY <1>1, <1>2, <1>3
    DEF Step, EndStart, EndStop, EndSnapshot, CopyState, CopyMem, StartSucceeds,
        StartDropped, EndTerminate, EndHibernate, StopsEarly

LEMMA ActivationGrows ==
  ASSUME TypeOK, NEW t \in Tasks, ActivateSucceeds(t) \/ ActivateFails(t)
  PROVE  ProcessesGrow
  <1>1. vm \in [Pids -> Process]
    BY DEF TypeOK
  <1>2. \/ UNCHANGED vm
        \/ vm' = [vm EXCEPT ![task[t].pid].loaded = @ \cup {task[t].digest}]
    BY DEF ActivateSucceeds, ActivateFails
  <1> QED
    BY <1>1, <1>2 DEF ProcessesGrow, Process

LEMMA ExitGrows ==
  ASSUME TypeOK, NEW p \in Pids, Exit(p)
  PROVE  ProcessesGrow
  BY StatusGrows DEF Exit, Exits

-----------------------------------------------------------------------------
\* The record is placed as before, and is runnable or hibernated only if it was.
PlacementKept ==
  shard' # None =>
    /\ shard # None /\ shard'.digest = shard.digest /\ shard'.epoch = shard.epoch
    /\ shard'.state \in Runnable => shard.state \in Runnable /\ shard'.pid = shard.pid
    /\ shard'.state = "hibernated" => shard.state = "hibernated"

Starting(u) == At(u, "start", "restore") \/ At(u, "start", "spawned")

LEMMA ActiveKeepsDigest ==
  ASSUME shard \in Shard, NEW n \in Nat, shard' = Active(n)
  PROVE  shard'.digest = shard.digest
  BY DEF Active, Shard

LEMMA HasPlacementStays ==
  ASSUME ProcessesGrow, shard'.digest = shard.digest
  PROVE  \A p : HasPlacement(p) =>
           p \in Pids /\ vm'[p].status # "unborn" /\ shard'.digest = vm'[p].placed
  BY DEF HasPlacement, ProcessesGrow

LEMMA KeptPlaces ==
  ASSUME PlacementInv, PlacementKept, ProcessesGrow,
         \/ UNCHANGED files
         \/ /\ shard' # None => shard'.state # "hibernated"
            /\ \A u \in Tasks : ~At(u, "start", "restore")',
         \A u \in Tasks : Starting(u)' => task'[u] = task[u] /\ shard'.digest = shard.digest
  PROVE  PlacementStays'
  <1>1. ASSUME shard' # None, shard'.state \in Runnable
        PROVE  HasPlacement(shard.pid)'
    BY <1>1, HasPlacementStays DEF PlacementKept, PlacementInv, PlacementStays, HasPlacement
  <1>2. ASSUME shard' # None, shard'.state = "hibernated"
        PROVE  HasPlacement(files[shard.epoch].mem)'
    BY <1>2, HasPlacementStays DEF PlacementKept, PlacementInv, PlacementStays, HasPlacement
  <1>3. ASSUME NEW u \in Tasks, At(u, "start", "restore")'
        PROVE  HasPlacement(files[task[u].epoch].mem)'
    <2>1. task'[u] = task[u] /\ shard'.digest = shard.digest /\ UNCHANGED files
      BY <1>3 DEF Starting
    <2>2. HasPlacement(files[task[u].epoch].mem)
      BY <1>3, <2>1 DEF At, PlacementInv, PlacementStays
    <2> QED
      BY <2>1, <2>2, HasPlacementStays DEF HasPlacement
  <1>4. ASSUME NEW u \in Tasks, At(u, "start", "spawned")'
        PROVE  HasPlacement(task[u].pid)'
    <2>1. task'[u] = task[u] /\ shard'.digest = shard.digest
      BY <1>4 DEF Starting
    <2>2. HasPlacement(task[u].pid)
      BY <1>4, <2>1 DEF At, PlacementInv, PlacementStays
    <2> QED
      BY <2>1, <2>2, HasPlacementStays DEF HasPlacement
  <1> QED
    BY <1>1, <1>2, <1>3, <1>4 DEF PlacementStays

\* A record that is neither runnable nor hibernated, and no operation that starts.
LEMMA OtherPlaces ==
  ASSUME shard' # None => shard'.state \notin Runnable \cup {"hibernated"},
         \A u \in Tasks : ~Starting(u)'
  PROVE  PlacementStays'
  BY DEF PlacementStays, Starting

\* The record is there as before, in its epoch and with its placement.
PlacedAlike ==
  shard # None =>
    /\ shard' # None /\ shard'.epoch = shard.epoch /\ shard'.digest = shard.digest

LEMMA ObservedKept ==
  ASSUME PlacementInv, ProcessesGrow,
         \A e \in Epochs :
           observed'[e] = None \/ (observed'[e] = observed[e] /\ PlacedAlike)
  PROVE  ObservedOfProcesses'
  <1>1. ASSUME NEW e \in Epochs, observed'[e] # None
        PROVE  /\ AtEpoch(e)' /\ shard'.digest \in observed'[e]
               /\ \A d \in observed'[e] : d = shard'.digest \/ LoadedIn(e, d)'
    <2>1. /\ observed'[e] = observed[e] /\ AtEpoch(e) /\ shard.digest \in observed[e]
          /\ \A d \in observed[e] : d = shard.digest \/ LoadedIn(e, d)
          /\ PlacedAlike
      BY <1>1 DEF PlacementInv, ObservedOfProcesses
    <2>2. AtEpoch(e)' /\ shard'.digest = shard.digest
      BY <2>1 DEF PlacedAlike, AtEpoch
    <2>3. \A d : LoadedIn(e, d) => LoadedIn(e, d)'
      BY DEF ProcessesGrow, LoadedIn
    <2> QED
      BY <2>1, <2>2, <2>3
  <1> QED
    BY <1>1 DEF ObservedOfProcesses

\* What a free gate and an operation that does not start mean for the above.
LEMMA NobodyStarts ==
  ASSUME HostInv, gate = None
  PROVE  \A u \in Tasks : ~Starting(u)
  BY NobodyGated DEF Starting, At, Gated

LEMMA QuickPlaces ==
  ASSUME PlacementInv, NEW t \in Tasks, NEW e \in Epochs, NEW d \in Digests,
         NEW s \in SnapshotPolicies,
         EnsureShard(t, e, d, s) \/ Admit(t, e, d) \/ WarmIdle(t, e)
         \/ Hold(t, e) \/ TerminateAgain(t, e)
  PROVE  PlacementStays' /\ ObservedOfProcesses'
  <1>1. HostInv /\ HostInv' /\ gate' = None /\ shard \in Shard \cup {None}
    BY QuickInv
    DEF PlacementInv, RestoreInv, EnsureShard, Admit, Admissible, WarmIdle, Hold,
        TerminateAgain, Free, HostInv, TypeOK
  <1>2. \A u \in Tasks : ~Starting(u)'
    BY <1>1, HostAssumption DEF HostInv, GateIsHeld, Starting, At
  <1>3. UNCHANGED <<files, vm>>
    BY DEF EnsureShard, Ensure, Admit, Admissible, WarmIdle, MarkWarmIdle, Hold,
           TerminateAgain, hostVars
  <1>4. ProcessesGrow
    BY <1>3 DEF ProcessesGrow
  <1>5. PlacementStays'
    <2>1. CASE EnsureShard(t, e, d, s)
      <3>1. CASE shard' = NewShard(e, d, s)
        <4>1. shard'.state = "cold"
          BY <3>1 DEF NewShard
        <4> QED
          BY <1>2, <4>1, OtherPlaces DEF Runnable
      <3>2. CASE /\ AtEpoch(e)
                 /\ shard' = [[shard EXCEPT !.digest = d] EXCEPT !.snapshots = s]
        <4>1. /\ shard \in Shard /\ shard'.digest = d /\ shard'.epoch = shard.epoch
              /\ shard'.state = shard.state /\ shard'.pid = shard.pid
          BY <1>1, <3>2 DEF AtEpoch, Shard
        <4>2. CASE d = shard.digest
          <5>1. PlacementKept
            BY <4>1, <4>2, NoneAssumption DEF PlacementKept
          <5> QED
            BY <1>2, <1>3, <1>4, <5>1, KeptPlaces
        <4>3. CASE d # shard.digest
          <5>1. shard.state \in {"cold", "terminated"}
            BY <2>1, <3>2, <4>3 DEF EnsureShard, Retargetable
          <5> QED
            BY <1>2, <4>1, <5>1, OtherPlaces DEF Runnable
        <4> QED
          BY <4>2, <4>3
      <3> QED
        BY <2>1, <3>1, <3>2 DEF EnsureShard, Ensure
    <2>2. CASE Admit(t, e, d) \/ Hold(t, e)
      <3>1. shard \in Shard /\ shard' = Active(shard.active + 1) /\ shard.active + 1 \in Nat
        BY <1>1, <2>2 DEF Admit, Admissible, Hold, AtEpoch, TouchUp, Shard
      <3>2. /\ shard'.digest = shard.digest /\ shard'.epoch = shard.epoch
            /\ shard'.pid = shard.pid
            /\ \/ shard'.state = shard.state
               \/ shard.state = "warm_idle" /\ shard'.state = "hot"
        <4>1. PICK n \in Nat : shard' = Active(n)
          BY <3>1
        <4> QED
          BY <3>1, <4>1, ActiveIs, ActiveKeepsDigest
      <3>3. PlacementKept
        BY <3>1, <3>2, NoneAssumption DEF PlacementKept, Runnable
      <3> QED
        BY <1>2, <1>3, <1>4, <3>3, KeptPlaces
    <2>3. CASE WarmIdle(t, e)
      <3>1. /\ shard \in Shard /\ shard.state \in Runnable
            /\ shard' = [shard EXCEPT !.state = "warm_idle"]
        BY <1>1, <2>3 DEF WarmIdle, MarkWarmIdle, AtEpoch
      <3>2. /\ shard'.digest = shard.digest /\ shard'.epoch = shard.epoch
            /\ shard'.pid = shard.pid /\ shard'.state = "warm_idle"
        BY <3>1 DEF Shard
      <3>3. PlacementKept
        BY <3>1, <3>2, NoneAssumption DEF PlacementKept, Runnable
      <3> QED
        BY <1>2, <1>3, <1>4, <3>3, KeptPlaces
    <2>4. CASE TerminateAgain(t, e)
      <3>1. PlacementKept
        BY <2>4 DEF TerminateAgain, hostVars, PlacementKept
      <3> QED
        BY <1>2, <1>3, <1>4, <3>1, KeptPlaces
    <2> QED
      BY <2>1, <2>2, <2>3, <2>4
  <1>6. \A i \in Epochs : observed'[i] = None \/ (observed'[i] = observed[i] /\ PlacedAlike)
    <2>1. CASE EnsureShard(t, e, d, s)
      <3>1. CASE shard = None \/ ~AtEpoch(e) \/ d # shard.digest
        BY <2>1, <3>1 DEF EnsureShard, NothingObserved
      <3>2. CASE shard # None /\ AtEpoch(e) /\ d = shard.digest
        <4>1. shard \in Shard /\ shard.epoch = e
          BY <1>1, <3>2 DEF AtEpoch
        <4>2. shard' = [[shard EXCEPT !.digest = d] EXCEPT !.snapshots = s]
          BY <2>1, <3>2, <4>1, HostAssumption DEF EnsureShard, Ensure
        <4>3. shard' \in Shard
          BY <4>1, <4>2, RecordsStayRecords
        <4>4. shard'.epoch = shard.epoch /\ shard'.digest = shard.digest
          BY <3>2, <4>1, <4>2 DEF Shard
        <4> QED
          BY <2>1, <3>2, <4>3, <4>4, NoneAssumption DEF EnsureShard, PlacedAlike
      <3> QED
        BY <3>1, <3>2
    <2>2. CASE Admit(t, e, d) \/ Hold(t, e)
      <3>1. shard \in Shard /\ shard' = Active(shard.active + 1) /\ shard.active + 1 \in Nat
        BY <1>1, <2>2 DEF Admit, Admissible, Hold, AtEpoch, TouchUp, Shard
      <3>2. PICK n \in Nat : shard' = Active(n)
        BY <3>1
      <3>3. PlacedAlike
        BY <3>1, <3>2, ActiveIs, ActiveKeepsDigest, NoneAssumption DEF PlacedAlike
      <3> QED
        BY <2>2, <3>3 DEF Admit, Hold
    <2>3. CASE WarmIdle(t, e)
      <3>1. shard \in Shard /\ shard' = [shard EXCEPT !.state = "warm_idle"]
        BY <1>1, <2>3 DEF WarmIdle, MarkWarmIdle, AtEpoch
      <3>2. shard' \in Shard /\ shard'.epoch = shard.epoch /\ shard'.digest = shard.digest
        BY <3>1, StateIs DEF Shard, States
      <3> QED
        BY <2>3, <3>2, NoneAssumption DEF WarmIdle, PlacedAlike
    <2>4. CASE TerminateAgain(t, e)
      BY <2>4 DEF TerminateAgain, NothingObserved
    <2> QED
      BY <2>1, <2>2, <2>3, <2>4
  <1> QED
    BY <1>4, <1>5, <1>6, ObservedKept

LEMMA EnterPlaces ==
  ASSUME PlacementInv, NEW t \in Tasks, NEW e \in Epochs, NEW d \in Digests,
         NEW s \in SnapshotPolicies,
         \/ BeginActivate(t, e, d) \/ Start(t, e) \/ Hibernate(t, e)
         \/ Terminate(t, e)
         \/ /\ Enter(t) /\ BeginTerminate(t, e, "destroy")
            /\ UNCHANGED <<observed, abandoned>>
  PROVE  PlacementStays' /\ ObservedOfProcesses'
  <1>1. /\ gate = None /\ UNCHANGED <<vm, files, observed>> /\ AtEpoch(e)
    BY DEF BeginActivate, Start, Hibernate, Terminate, Enter, Free, BeginStart,
           BeginHibernate, BeginTerminate
  <1>2. shard \in Shard /\ task \in [Tasks -> Task]
    BY <1>1 DEF AtEpoch, PlacementInv, RestoreInv, HostInv, TypeOK
  <1>3. ProcessesGrow
    BY <1>1 DEF ProcessesGrow
  <1>4. \A u \in Tasks : ~Starting(u)
    BY <1>1, NobodyStarts DEF PlacementInv, RestoreInv
  <1>5. CASE Start(t, e)
    <2>1. /\ shard'.state = "starting" /\ shard'.digest = shard.digest
      BY <1>2, <1>5 DEF Start, BeginStart, Shard
    <2>0. PlacedAlike
      <3>1. shard' \in Shard /\ shard'.epoch = shard.epoch
        BY <1>2, <1>5, StateIs DEF Start, BeginStart, States
      <3> QED
        BY <2>1, <3>1, NoneAssumption DEF PlacedAlike
    <2>2. /\ \A u \in Tasks \ {t} : task'[u] = task[u]
          /\ task'[t].step \in {"boot", "restore"} /\ task'[t].epoch = e
          /\ task'[t].step = "restore" => shard.state = "hibernated"
      BY <1>2, <1>5 DEF Start, BeginStart, Doing
    <2>3. \A u \in Tasks : ~At(u, "start", "spawned")'
      BY <1>4, <2>2 DEF Starting, At
    <2>4. ASSUME NEW u \in Tasks, At(u, "start", "restore")'
          PROVE  HasPlacement(files[task[u].epoch].mem)'
      <3>1. u = t
        BY <1>4, <2>2, <2>4 DEF Starting, At
      <3>2. shard.state = "hibernated" /\ task'[u].epoch = shard.epoch
        BY <1>1, <2>2, <2>4, <3>1 DEF At, AtEpoch
      <3>3. HasPlacement(files[shard.epoch].mem)
        BY <1>1, <3>2 DEF AtEpoch, PlacementInv, PlacementStays
      <3> QED
        BY <1>1, <2>1, <3>2, <3>3 DEF HasPlacement
    <2> QED
      BY <1>1, <1>3, <2>0, <2>1, <2>3, <2>4, ObservedKept DEF PlacementStays, Runnable
  <1>6. CASE ~Start(t, e)
    <2>1. \A u \in Tasks : ~Starting(u)'
      <3>1. /\ \A u \in Tasks \ {t} : task'[u] = task[u]
            /\ task'[t].op # "start"
        <4>1. CASE BeginActivate(t, e, d)
          BY <1>2, <4>1 DEF BeginActivate, Doing
        <4>2. ASSUME NEW op \in {"terminate", "destroy"}, BeginTerminate(t, e, op)
              PROVE  /\ \A u \in Tasks \ {t} : task'[u] = task[u]
                     /\ task'[t].op # "start"
          BY <1>2, <4>2 DEF BeginTerminate, Doing
        <4>3. CASE Hibernate(t, e) /\ shard.snapshots
          BY <1>2, <4>3 DEF Hibernate, BeginHibernate, Doing
        <4> QED
          BY <1>6, <4>1, <4>2, <4>3 DEF Hibernate, BeginHibernate, Terminate
      <3> QED
        BY <1>4, <3>1 DEF Starting, At
    <2>2. PlacementKept /\ PlacedAlike
      <3>1. UNCHANGED shard \/ shard' = [shard EXCEPT !.state = "draining"]
        BY <1>6 DEF BeginActivate, Hibernate, BeginHibernate, Terminate, BeginTerminate
      <3>2. CASE shard' = [shard EXCEPT !.state = "draining"]
        <4>1. /\ shard' \in Shard /\ shard'.state = "draining"
              /\ shard'.epoch = shard.epoch /\ shard'.pid = shard.pid
          BY <1>2, <3>2, StateIs DEF States
        <4>2. shard'.digest = shard.digest
          BY <1>2, <3>2 DEF Shard
        <4> QED
          BY <1>2, <4>1, <4>2, NoneAssumption DEF PlacementKept, PlacedAlike, Runnable
      <3> QED
        BY <3>1, <3>2 DEF PlacementKept, PlacedAlike
    <2> QED
      BY <1>1, <1>3, <2>1, <2>2, KeptPlaces, ObservedKept
  <1> QED
    BY <1>5, <1>6

LEMMA SpawnPlaces ==
  ASSUME PlacementInv, NEW t \in Tasks, Spawn(t)
  PROVE  PlacementStays'
  <1>1. /\ TypeOK /\ task[t].op = "start" /\ task[t].op \in Gated
        /\ task \in [Tasks -> Task] /\ vm \in [Pids -> Process]
    BY DEF Spawn, At, Gated, PlacementInv, RestoreInv, HostInv, TypeOK
  <1>2. /\ shard \in Shard /\ shard.state = "starting"
        /\ \A u \in Tasks \ {t} : task[u].op \notin Gated
    BY <1>1, HolderIs DEF PlacementInv, RestoreInv, FindsRecord
  <1>3. PICK step \in {"boot", "restore"}, p \in Pids :
          /\ At(t, "start", step)
          /\ vm'[p].status = "running"
          /\ vm'[p].placed = IF step = "restore"
                             THEN vm[files[task[t].epoch].mem].placed ELSE shard.digest
          /\ task' = [task EXCEPT ![t] = Doing("start", "spawned", task[t].epoch, p)]
          /\ UNCHANGED shard
    BY SpawnedIs DEF PlacementInv, RestoreInv
  <1>5. shard.digest = vm'[p].placed
    BY <1>3 DEF PlacementInv, PlacementStays, HasPlacement
  <1>6. task'[t].step = "spawned" /\ task'[t].pid = p
    BY <1>1, <1>3 DEF Doing
  <1>7. \A u \in Tasks \ {t} : ~Starting(u)'
    BY <1>1, <1>2, <1>3 DEF Starting, At, Gated
  <1> QED
    BY <1>2, <1>3, <1>5, <1>6, <1>7 DEF PlacementStays, Starting, At, HasPlacement, Runnable

LEMMA StepPlaces ==
  ASSUME PlacementInv, NEW t \in Tasks, Step(t)
  PROVE  PlacementStays' /\ ObservedOfProcesses'
  <1>1. /\ TypeOK /\ task[t].op \in Gated /\ UNCHANGED <<shard, observed>>
        /\ task \in [Tasks -> Task]
    BY DEF Step, Spawn, Stop, Pause, SnapshotAndKill, CopyState, CopyMem, At,
           Gated, Stopping, PlacementInv, RestoreInv, HostInv, TypeOK
  <1>2. /\ FindsRecord(t) /\ task[t].pid \in Pids \cup {None}
        /\ \A u \in Tasks \ {t} : task[u].op \notin Gated
    BY <1>1, HolderIs DEF PlacementInv, RestoreInv
  <1>3. ProcessesGrow
    BY <1>1, <1>2, HostGrows
  <1>4. CASE Spawn(t)
    BY <1>1, <1>3, <1>4, SpawnPlaces, ObservedKept DEF PlacedAlike
  <1>5. CASE ~Spawn(t)
    <2>1. PICK step : Proceed(t, step)
      BY <1>5 DEF Step, Stop, Pause, SnapshotAndKill, CopyState, CopyMem
    <2>2. task[t].op \in Stopping
      BY <1>5 DEF Step, Stop, Pause, SnapshotAndKill, CopyState, CopyMem, At, Stopping
    <2>3. /\ task'[t].op = task[t].op
          /\ \A u \in Tasks \ {t} : task'[u] = task[u]
      <3>1. task'[t] = [task[t] EXCEPT !.step = step]
        BY <1>1, <2>1 DEF Proceed
      <3>2. task[t] \in Task
        BY <1>1
      <3> QED
        BY <1>1, <2>1, <3>1, <3>2 DEF Proceed, Task
    <2>4. \A u \in Tasks : ~Starting(u)'
      BY <1>2, <2>2, <2>3 DEF Starting, At, Gated, Stopping
    <2>5. shard # None => shard.state # "hibernated"
      BY <1>2, <2>2 DEF FindsRecord, Stopping, Runnable
    <2>6. PlacementKept
      BY <1>1 DEF PlacementKept
    <2> QED
      BY <1>1, <1>3, <2>4, <2>5, <2>6, KeptPlaces, ObservedKept DEF Starting, PlacedAlike
  <1> QED
    BY <1>4, <1>5

LEMMA EndPlaces ==
  ASSUME PlacementInv, NEW t \in Tasks, EndStart(t) \/ EndStop(t) \/ EndSnapshot(t)
  PROVE  PlacementStays' /\ ObservedOfProcesses'
  <1>1. /\ TypeOK /\ task[t].op \in Gated /\ Finish(t) /\ task \in [Tasks -> Task]
    BY DEF EndStart, EndStop, EndSnapshot, StartSucceeds, StartFails,
           StartDropped, EndTerminate, EndHibernate, StopsEarly, At, Gated,
           Stopping, PlacementInv, RestoreInv, HostInv, TypeOK
  <1>2. /\ FindsRecord(t) /\ shard \in Shard /\ shard.epoch = task[t].epoch
        /\ task[t].epoch \in Epochs /\ task[t].pid \in Pids \cup {None}
        /\ \A u \in Tasks \ {t} : task[u].op \notin Gated
    BY <1>1, HolderIs DEF PlacementInv, RestoreInv
  <1>3. ProcessesGrow
    BY <1>1, <1>2, HostGrows
  <1>4. \A u \in Tasks : ~Starting(u)'
    <2>1. task'[t] = Idle /\ \A u \in Tasks \ {t} : task'[u] = task[u]
      BY <1>1 DEF Finish
    <2>2. Idle.op = "none"
      BY DEF Idle
    <2> QED
      BY <1>2, <2>1, <2>2 DEF Starting, At, Gated
  <1>5. \A i \in Epochs : observed'[i] = observed[i] \/ observed'[i] = None
    BY DEF EndStart, EndStop, EndSnapshot, NothingObserved
  <1>11. PlacedAlike
    <2>1. \/ UNCHANGED shard
          \/ shard' = [shard EXCEPT !.state = "cold"]
          \/ \E st \in States, p \in Pids \cup {None} : shard' = Settled(st, p)
      BY <1>2
      DEF EndStart, EndStop, EndSnapshot, StartSucceeds, StartFails,
          StartDropped, EndTerminate, EndHibernate, StopsEarly, States
    <2>2. CASE \E st \in States, p \in Pids \cup {None} : shard' = Settled(st, p)
      <3>1. PICK st \in States, p \in Pids \cup {None} : shard' = Settled(st, p)
        BY <2>2
      <3>2. shard' \in Shard /\ shard'.epoch = shard.epoch
        BY <1>2, <3>1, SettledIs
      <3>3. shard'.digest = shard.digest
        BY <1>2, <3>1 DEF Settled, Shard
      <3> QED
        BY <3>2, <3>3, NoneAssumption DEF PlacedAlike
    <2>3. CASE shard' = [shard EXCEPT !.state = "cold"]
      BY <1>2, <2>3, StateIs, NoneAssumption DEF PlacedAlike, States, Shard
    <2> QED
      BY <2>1, <2>2, <2>3 DEF PlacedAlike
  <1>6. ObservedOfProcesses'
    BY <1>3, <1>5, <1>11, ObservedKept
  <1>7. CASE StartSucceeds(t)
    <2>1. /\ shard'.state = "hot" /\ shard'.pid = task[t].pid
          /\ shard'.digest = shard.digest /\ UNCHANGED vm
      BY <1>2, <1>7 DEF StartSucceeds, Settled, Shard
    <2>2. HasPlacement(task[t].pid)
      BY <1>7 DEF StartSucceeds, PlacementInv, PlacementStays
    <2> QED
      BY <1>4, <1>6, <2>1, <2>2 DEF PlacementStays, Starting, HasPlacement
  <1>8. CASE EndHibernate(t)
    <2>1. /\ shard'.state = "hibernated" /\ shard'.epoch = task[t].epoch
          /\ shard'.digest = shard.digest /\ UNCHANGED <<vm, files>>
      BY <1>2, <1>8 DEF EndHibernate, Settled, Shard
    <2>2. shard.state \in Runnable /\ shard.pid = task[t].pid /\ shard # None
      BY <1>2, <1>8, NoneAssumption DEF EndHibernate, At, FindsRecord
    <2>3. HasPlacement(task[t].pid)
      BY <2>2 DEF PlacementInv, PlacementStays
    <2>4. files[task[t].epoch].mem = task[t].pid
      BY <1>8 DEF EndHibernate, PlacementInv, RestoreInv, CopiesAreOfTheLast
    <2> QED
      BY <1>4, <1>6, <2>1, <2>3, <2>4 DEF PlacementStays, Starting, HasPlacement, Runnable
  <1>9. CASE StartFails(t) \/ StartDropped(t) \/ EndTerminate(t)
    <2>1. shard'.state \in {"cold", "starting", "terminated"}
      BY <1>2, <1>9 DEF StartFails, StartDropped, EndTerminate, Settled, Shard, FindsRecord
    <2> QED
      BY <1>4, <1>6, <2>1, OtherPlaces DEF Runnable
  <1>10. CASE StopsEarly(t)
    <2>1. UNCHANGED shard /\ shard.state # "hibernated"
      BY <1>2, <1>10 DEF StopsEarly, FindsRecord, Runnable
    <2>2. PlacementKept
      BY <2>1 DEF PlacementKept
    <2> QED
      BY <1>3, <1>4, <1>6, <2>1, <2>2, KeptPlaces DEF Starting
  <1> QED
    BY <1>7, <1>8, <1>9, <1>10 DEF EndStart, EndStop, EndSnapshot

\* An activation lists the deployment that the guest confirmed and, unconfirmed,
\* the placement.
LEMMA ActivationPlaces ==
  ASSUME PlacementInv, NEW t \in Tasks, ActivateSucceeds(t) \/ ActivateFails(t)
  PROVE  PlacementStays' /\ ObservedOfProcesses'
  <1>1. /\ TypeOK /\ task[t].op = "activate" /\ task[t].op \in Gated
        /\ Finish(t) /\ UNCHANGED <<shard, files>> /\ task \in [Tasks -> Task]
    BY DEF ActivateSucceeds, ActivateFails, Gated, PlacementInv, RestoreInv, HostInv, TypeOK
  <1>2. ProcessesGrow
    BY <1>1, ActivationGrows
  <1>3. \A u \in Tasks : Starting(u)' => task'[u] = task[u]
    <2>1. task'[t] = Idle /\ \A u \in Tasks \ {t} : task'[u] = task[u]
      BY <1>1 DEF Finish
    <2>2. Idle.op = "none"
      BY DEF Idle
    <2> QED
      BY <2>1, <2>2 DEF Starting, At
  <1>4. PlacementStays'
    BY <1>1, <1>2, <1>3, KeptPlaces DEF PlacementKept
  <1>5. CASE ActivateFails(t)
    BY <1>1, <1>2, <1>4, <1>5, ObservedKept DEF ActivateFails, PlacedAlike
  <1>6. CASE ActivateSucceeds(t)
    <2>1. /\ FindsRecord(t) /\ shard \in Shard /\ shard.epoch = task[t].epoch
          /\ task[t].epoch \in Epochs
      BY <1>1, HolderIs DEF PlacementInv, RestoreInv
    <2>2. /\ shard # None /\ shard.state \in Runnable /\ shard.pid = task[t].pid
      BY <1>1, <2>1, NoneAssumption DEF FindsRecord
    <2>3. /\ HasPlacement(shard.pid) /\ vm[shard.pid].epoch = task[t].epoch
      BY <2>1, <2>2, NoneAssumption
      DEF PlacementInv, PlacementStays, RestoreInv, HostInv, HandlesFollowState, HasPlacement
    <2>4. /\ task[t].pid \in Pids /\ vm'[task[t].pid].status # "unborn"
          /\ vm'[task[t].pid].epoch = task[t].epoch
          /\ task[t].digest \in vm'[task[t].pid].loaded
      <3>1. vm \in [Pids -> Process] /\ task[t].pid \in Pids
        BY <1>1, <2>2, <2>3 DEF TypeOK, HasPlacement
      <3>2. vm'[task[t].pid] = [vm[task[t].pid] EXCEPT !.loaded = @ \cup {task[t].digest}]
        BY <1>6, <3>1 DEF ActivateSucceeds
      <3>3. vm[task[t].pid] \in Process
        BY <3>1
      <3> QED
        BY <2>2, <2>3, <3>1, <3>2, <3>3 DEF Process, HasPlacement
    <2>5. observed \in [Epochs -> (SUBSET Digests) \cup {None}]
      BY <1>1 DEF TypeOK
    <2>6. AtEpoch(task[t].epoch) /\ UNCHANGED shard
      BY <1>1, <2>1, <2>2 DEF AtEpoch
    <2>7. ASSUME NEW i \in Epochs, observed'[i] # None
          PROVE  /\ AtEpoch(i)' /\ shard'.digest \in observed'[i]
                 /\ \A d \in observed'[i] : d = shard'.digest \/ LoadedIn(i, d)'
      <3>0. \A d : LoadedIn(i, d) => LoadedIn(i, d)'
        BY <1>2 DEF ProcessesGrow, LoadedIn
      <3>1. CASE i # task[t].epoch
        <4>1. observed'[i] = observed[i]
          BY <1>6, <2>5, <3>1 DEF ActivateSucceeds
        <4>2. AtEpoch(i)
          BY <2>7, <4>1 DEF PlacementInv, ObservedOfProcesses
        <4> QED
          BY <2>6, <3>1, <4>2 DEF AtEpoch
      <3>2. CASE i = task[t].epoch
        <4>1. observed'[i] = (IF observed[i] = None THEN {} ELSE observed[i])
                               \cup {shard.digest, task[t].digest}
          BY <1>6, <2>5, <3>2 DEF ActivateSucceeds
        <4>2. ASSUME NEW d, d = task[t].digest
              PROVE  LoadedIn(i, d)'
          BY <2>4, <3>2, <4>2 DEF LoadedIn
        <4>3. ASSUME NEW d \in observed'[i]
              PROVE  d = shard'.digest \/ LoadedIn(i, d)'
          <5>1. CASE d \in {shard.digest, task[t].digest}
            BY <2>6, <4>2, <5>1
          <5>2. CASE observed[i] # None /\ d \in observed[i]
            BY <2>6, <3>0, <5>2 DEF PlacementInv, ObservedOfProcesses
          <5> QED
            BY <4>1, <5>1, <5>2
        <4> QED
          BY <2>6, <3>2, <4>1, <4>3 DEF AtEpoch
      <3> QED
        BY <3>1, <3>2
    <2> QED
      BY <1>4, <2>7 DEF ObservedOfProcesses
  <1> QED
    BY <1>5, <1>6

LEMMA ElsewherePlaces ==
  ASSUME PlacementInv,
         \/ \E t \in Tasks : EndCall(t) \/ Release(t) \/ Abandon(t)
         \/ \E p \in Pids : Exit(p)
         \/ UNCHANGED vars
  PROVE  PlacementStays' /\ ObservedOfProcesses'
  <1>1. HostInv /\ TypeOK
    BY DEF PlacementInv, RestoreInv, HostInv
  <1>2. UNCHANGED <<files, observed>>
    BY DEF EndCall, Release, Abandon, Exit, Exits, vars, hostVars
  <1>3. ProcessesGrow
    <2>1. CASE UNCHANGED vm
      BY <2>1 DEF ProcessesGrow
    <2> QED
      BY <1>1, <2>1, ExitGrows DEF EndCall, Release, Abandon, vars, hostVars
  <1>4. \A u \in Tasks : Starting(u)' => task'[u] = task[u]
    <2>1. CASE UNCHANGED task
      BY <2>1
    <2>2. ASSUME NEW t \in Tasks, Finish(t)
          PROVE  \A u \in Tasks : Starting(u)' => task'[u] = task[u]
      <3>1. task'[t] = Idle /\ \A u \in Tasks \ {t} : task'[u] = task[u]
        BY <1>1, <2>2 DEF Finish, TypeOK
      <3>2. Idle.op = "none"
        BY DEF Idle
      <3> QED
        BY <3>1, <3>2 DEF Starting, At
    <2> QED
      BY <2>1, <2>2 DEF EndCall, Release, Abandon, Exit, Exits, vars, hostVars
  <1>5. /\ PlacementKept /\ PlacedAlike
        /\ \A u \in Tasks : Starting(u)' => shard'.digest = shard.digest
    <2>1. CASE UNCHANGED shard
      BY <2>1 DEF PlacementKept, PlacedAlike
    <2>2. ASSUME NEW t \in Tasks, EndCall(t) \/ Release(t), AtEpoch(task[t].epoch), TouchDown
          PROVE  PlacementKept /\ PlacedAlike /\ shard'.digest = shard.digest
      <3>1. shard \in Shard
        BY <1>1, <2>2 DEF AtEpoch, TypeOK
      <3>2. PICK n \in Nat : shard' = Active(n)
        <4>1. (IF shard.active = 0 THEN 0 ELSE shard.active - 1) \in Nat
          BY <3>1 DEF Shard
        <4> QED
          BY <2>2, <4>1 DEF TouchDown
      <3> QED
        BY <3>1, <3>2, ActiveIs, ActiveKeepsDigest, NoneAssumption
        DEF PlacementKept, PlacedAlike, Runnable
    <2>3. ASSUME NEW t \in Tasks, EndCall(t) \/ Release(t)
          PROVE  UNCHANGED shard \/ (AtEpoch(task[t].epoch) /\ TouchDown)
      <3>1. CASE CountedAt(task[t].epoch)
        BY <2>3, <3>1 DEF EndCall, Release, CountedAt
      <3>2. CASE ~CountedAt(task[t].epoch)
        BY <2>3, <3>2 DEF EndCall, Release
      <3> QED
        BY <3>1, <3>2
    <2> QED
      BY <2>1, <2>2, <2>3 DEF Abandon, Exit, Exits, vars, hostVars
  <1> QED
    BY <1>2, <1>3, <1>4, <1>5, KeptPlaces, ObservedKept

LEMMA PlacementStep ==
  ASSUME PlacementInv, [Next]_vars
  PROVE  PlacementInv'
  <1>0. RestoreInv' /\ Handlers \subseteq Tasks /\ Sweeper \in Tasks
    BY RestoreStep, ApiAssumption DEF PlacementInv
  <1>1. ASSUME shard \in Shard
        PROVE  /\ shard.digest \in Digests /\ shard.snapshots \in SnapshotPolicies
               /\ shard.epoch \in Epochs
    BY <1>1 DEF Shard
  <1>2. ASSUME NEW t \in Handlers, NEW e \in Epochs,
               \/ \E d \in Digests : Admit(t, e, d) \/ BeginActivate(t, e, d)
               \/ WarmIdle(t, e) \/ Hold(t, e) \/ Start(t, e)
               \/ Hibernate(t, e) \/ Terminate(t, e) \/ TerminateAgain(t, e)
        PROVE  PlacementStays' /\ ObservedOfProcesses'
    <2>1. shard \in Shard
      BY <1>2
      DEF WarmIdle, Hold, Start, Hibernate, Terminate, TerminateAgain, Admit, Admissible,
          BeginActivate, MarkWarmIdle, BeginStart, BeginHibernate, AtEpoch,
          PlacementInv, RestoreInv, HostInv, TypeOK
    <2>2. shard.digest \in Digests /\ shard.snapshots \in SnapshotPolicies
      BY <1>1, <2>1
    <2> QED
      BY <1>0, <1>2, <2>2, QuickPlaces, EnterPlaces
  <1>3. CASE Sweep
    <2>1. shard \in Shard
      BY <1>3 DEF Sweep, PlacementInv, RestoreInv, HostInv, TypeOK
    <2>2. /\ shard.digest \in Digests /\ shard.snapshots \in SnapshotPolicies
          /\ shard.epoch \in Epochs
      BY <1>1, <2>1
    <2>3. PlacementStays' /\ ObservedOfProcesses'
      BY <1>0, <1>3, <2>2, QuickPlaces, EnterPlaces DEF Sweep
    <2> QED
      BY <1>0, <2>3 DEF PlacementInv
  <1> QED
    BY <1>0, <1>2, <1>3, QuickPlaces, StepPlaces, EndPlaces, ActivationPlaces, ElsewherePlaces
    DEF Next, PlacementInv

LEMMA PlacementInit == Init => PlacementInv
  <1> SUFFICES ASSUME Init PROVE PlacementInv
    OBVIOUS
  <1>1. RestoreInv
    BY HostInitInv
    DEF Init, HostInit, RestoreInv, RestoresTheLast, CopiesAreOfTheLast, At, Idle
  <1> QED
    BY <1>1
    DEF Init, HostInit, NothingObserved, PlacementInv, PlacementStays, ObservedOfProcesses, At, Idle

\* The guest of a runnable shard was booted under the placement of the record:
\* the same-epoch update is refused while it could differ, and a restore reads
\* the memory of the process that had it.
THEOREM PlacementIsKeptHolds == Spec => []PlacementIsKept
  <1>1. PlacementInv => PlacementIsKept
    BY DEF PlacementInv, PlacementStays, HasPlacement, PlacementIsKept
  <1> QED
    BY <1>1, PlacementInit, PlacementStep, PTL DEF Spec

\* What is listed as loaded in an epoch is the placement or was loaded by a guest
\* of that epoch, though maybe not by the one that runs.
THEOREM ObservedWasConfirmedHolds == Spec => []ObservedWasConfirmed
  <1>1. PlacementInv => ObservedWasConfirmed
    BY DEF PlacementInv, ObservedOfProcesses, LoadedIn, ObservedWasConfirmed
  <1> QED
    BY <1>1, PlacementInit, PlacementStep, PTL DEF Spec
===============================================================================
