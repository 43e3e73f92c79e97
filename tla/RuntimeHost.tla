------------------------------ MODULE RuntimeHost ------------------------------
(***************************************************************************)
(* The library that runs the virtual machine of one shard: its record, its *)
(* Firecracker processes and the snapshot files on disk.                   *)
(*                                                                         *)
(* Source: infra-runtime-host/src/lib.rs.  The lock around the records is  *)
(* held for a moment at the start and at the end of an operation; between  *)
(* the two the operation boots, snapshots or stops a process without it,   *)
(* and its end writes to the record without looking at it again.  Here an  *)
(* operation is a sequence of steps of a task; which tasks may run side by *)
(* side is decided by the caller, the module RuntimeApi.                   *)
(*                                                                         *)
(* Shards do not share records, processes or files: one is modelled.  The  *)
(* time for which a shard was idle is left open: the sweeper may find any  *)
(* idle record due.  Metering, byte counters and the jail's directory and  *)
(* network namespace are left out.                                         *)
(*                                                                         *)
(* The host tells a process to end with SIGTERM and does not wait for it:  *)
(* such a process is `ending', until it exits, which may be at any time or *)
(* never.  The pid that the jailer's child has when it is spawned is taken *)
(* to be that of the guest for as long as the guest runs.                  *)
(***************************************************************************)
EXTENDS Naturals

CONSTANTS
  Tasks,             \* operations in progress: handlers and the sweeper
  Epochs,            \* runtime epochs
  Digests,           \* deployment digests
  Pids,              \* processes ever started
  SnapshotPolicies,  \* values of RuntimePolicy.snapshot_enabled in requests
  None

ASSUME HostAssumption ==
  /\ Epochs \subseteq Nat
  /\ SnapshotPolicies \subseteq BOOLEAN
  /\ None \notin Pids \cup Tasks

VARIABLES
  shard,  \* the ShardRecord, or None
  vm,     \* the Firecracker processes
  files,  \* the snapshot files of each epoch: the process each was taken of;
          \* None when absent or incomplete
  task,   \* what each task does
  last,   \* history: the last process of each epoch that became hot
  lost    \* history: processes the host forgot while they were running

hostVars == <<shard, vm, files, task, last, lost>>

States == {"cold", "starting", "hot", "warm_idle", "hibernated", "draining",
           "terminated"}

Runnable == {"hot", "warm_idle"}

NewShard(e, d, s) ==
  [epoch |-> e, digest |-> d, snapshots |-> s, state |-> "cold", active |-> 0,
   pid |-> None]

\* A process, what its guest has confirmed to have loaded, and, a history that
\* the guest does not know of, the placement under which its memory was booted.
Unborn == [status |-> "unborn", epoch |-> 0, loaded |-> {}, placed |-> None]

Idle == [op |-> "none", step |-> "none", epoch |-> 0, pid |-> None,
         digest |-> None]

Doing(op, step, e, p) ==
  [op |-> op, step |-> step, epoch |-> e, pid |-> p, digest |-> None]

Live(p) == vm[p].status \in {"running", "paused", "ending"}

\* The process is there and was not told to end.
Runs(p) == vm[p].status \in {"running", "paused"}

\* The record exists and serves the epoch of the request (check_epoch).
AtEpoch(e) == shard # None /\ shard.epoch = e

\* No process is known to a record, an operation or a file.
HostInit ==
  /\ shard = None
  /\ vm = [p \in Pids |-> Unborn]
  /\ files = [e \in Epochs |-> [state |-> None, mem |-> None]]
  /\ task = [t \in Tasks |-> Idle]
  /\ last = [e \in Epochs |-> None]
  /\ lost = {}

\* The record as an operation that completes leaves it.
Settled(state, p) == [[shard EXCEPT !.state = state] EXCEPT !.pid = p]

At(t, op, step) == task[t].op = op /\ task[t].step = step

Proceed(t, step) == task' = [task EXCEPT ![t].step = step]

Finish(t) == task' = [task EXCEPT ![t] = Idle]

-----------------------------------------------------------------------------
(* Operations under the lock only.                                         *)

\* Mutant: a newer epoch takes over whatever the old one left.
ReplaceableAlways == TRUE

\* A newer epoch replaces the record only when the old one is terminated.
Replaceable == shard.state = "terminated"

Ensure(e, d, s) ==
  /\ \/ /\ shard = None \/ (shard # None /\ e > shard.epoch /\ Replaceable)
        /\ shard' = NewShard(e, d, s)
     \/ /\ AtEpoch(e)
        /\ shard' = [[shard EXCEPT !.digest = d] EXCEPT !.snapshots = s]
  /\ UNCHANGED <<vm, files, task, last, lost>>

MarkWarmIdle(e) ==
  /\ AtEpoch(e)
  /\ shard.active = 0
  /\ shard.state \in Runnable
  /\ shard' = [shard EXCEPT !.state = "warm_idle"]
  /\ UNCHANGED <<vm, files, last, lost>>

\* touch() with active_delta +1 and -1; the counter saturates at zero.
Active(n) ==
  [[shard EXCEPT !.active = n] EXCEPT !.state =
     IF n > 0 /\ shard.state = "warm_idle" THEN "hot" ELSE @]

TouchUp == shard' = Active(shard.active + 1)

TouchDown == shard' = Active(IF shard.active = 0 THEN 0 ELSE shard.active - 1)

-----------------------------------------------------------------------------
(* start(): boot_vm or restore_vm.                                         *)

\* Mutant: a shard that was merely idle is booted again.
StartableAny == {"cold", "hibernated", "terminated", "warm_idle"}

Startable == {"cold", "hibernated", "terminated"}

\* Restored from the snapshot if the shard was hibernated and has both files.
BeginStart(t, e) ==
  /\ AtEpoch(e)
  /\ shard.state \in Startable
  /\ shard' = [shard EXCEPT !.state = "starting"]
  /\ task' = [task EXCEPT ![t] = Doing("start",
       IF /\ shard.state = "hibernated"
          /\ files[e].state # None
          /\ files[e].mem # None
       THEN "restore" ELSE "boot", e, None)]
  /\ UNCHANGED <<vm, files, last, lost>>

\* A new process: the guest's memory is that of the snapshot, or one that was
\* told of no deployment, for the arguments of a boot name none.
Spawn(t) ==
  /\ \E step \in {"boot", "restore"}, p \in Pids :
       /\ At(t, "start", step)
       /\ vm[p].status = "unborn"
       /\ vm' = [vm EXCEPT ![p] =
            [(IF step = "restore" THEN vm[files[task[t].epoch].mem]
                                  ELSE [Unborn EXCEPT !.placed = shard.digest])
               EXCEPT !.status = "running", !.epoch = task[t].epoch]]
       /\ task' = [task EXCEPT ![t] = Doing("start", "spawned", task[t].epoch, p)]
  /\ UNCHANGED <<shard, files, last, lost>>

StartSucceeds(t) ==
  /\ At(t, "start", "spawned")
  /\ vm[task[t].pid].status = "running"
  /\ shard' = Settled("hot", task[t].pid)
  /\ last' = [last EXCEPT ![task[t].epoch] = task[t].pid]
  /\ Finish(t)
  /\ UNCHANGED <<vm, files, lost>>

\* Mutant: the process of a failed boot is forgotten.
UndoneNot(p, killed) == UNCHANGED <<vm, lost>>

\* terminate_pid of a failed boot, whose own failure is ignored.
Undone(p, killed) ==
  IF ~Live(p) THEN UNCHANGED <<vm, lost>>
  ELSE IF killed THEN vm' = [vm EXCEPT ![p].status = "ending"] /\ UNCHANGED lost
  ELSE lost' = lost \cup {p} /\ UNCHANGED vm

\* A failure before or after the process was spawned.
StartFails(t) ==
  /\ task[t].op = "start"
  /\ shard' = [shard EXCEPT !.state = "cold"]
  /\ IF task[t].step = "spawned"
     THEN \E killed \in BOOLEAN : Undone(task[t].pid, killed)
     ELSE UNCHANGED <<vm, lost>>
  /\ Finish(t)
  /\ UNCHANGED <<files, last>>

\* The future of the handler is dropped: nothing is undone.
StartDropped(t) ==
  /\ task[t].op = "start"
  /\ lost' = IF task[t].step = "spawned" /\ Live(task[t].pid)
             THEN lost \cup {task[t].pid} ELSE lost
  /\ Finish(t)
  /\ UNCHANGED <<shard, vm, files, last>>

-----------------------------------------------------------------------------
(* terminate(): stop_vm and cleanup_terminated_jail.                       *)

\* op is "terminate" for the request, "destroy" when hibernate() or the
\* sweeper calls it.
BeginTerminate(t, e, op) ==
  /\ AtEpoch(e)
  /\ shard.state # "terminated"
  /\ shard' = [shard EXCEPT !.state = "draining"]
  /\ task' = [task EXCEPT ![t] = Doing(op, "stop", e, shard.pid)]
  /\ UNCHANGED <<vm, files, last, lost>>

\* terminate_pid(): kill -TERM, which fails for a process that is gone.
Killed(p) == Live(p) /\ vm' = [vm EXCEPT ![p].status = "ending"]

\* stop_vm of a record without a process does nothing.
Stop(t) ==
  /\ task[t].op \in {"terminate", "destroy"}
  /\ task[t].step = "stop"
  /\ IF task[t].pid = None THEN UNCHANGED vm ELSE Killed(task[t].pid)
  /\ Proceed(t, "cleanup")
  /\ UNCHANGED <<shard, files, last, lost>>

EndTerminate(t) ==
  /\ task[t].op \in {"terminate", "destroy"}
  /\ task[t].step = "cleanup"
  /\ shard' = Settled("terminated", None)
  /\ Finish(t)
  /\ UNCHANGED <<vm, files, last, lost>>

-----------------------------------------------------------------------------
(* hibernate(): snapshot_and_stop.                                         *)

\* Without snapshots hibernate() is terminate(); it then looks at neither the
\* state nor the invocations of the record.
BeginHibernate(t, e) ==
  /\ AtEpoch(e)
  /\ IF ~shard.snapshots
     THEN BeginTerminate(t, e, "destroy")
     ELSE /\ shard.active = 0
          /\ shard.state \in Runnable
          /\ task' = [task EXCEPT ![t] = Doing("hibernate", "pause", e, shard.pid)]
          /\ UNCHANGED <<shard, vm, files, last, lost>>

Pause(t) ==
  /\ At(t, "hibernate", "pause")
  /\ Live(task[t].pid)
  /\ vm' = [vm EXCEPT ![task[t].pid].status = IF @ = "running" THEN "paused" ELSE @]
  /\ Proceed(t, "snapshot")
  /\ UNCHANGED <<shard, files, last, lost>>

\* The snapshot is written in the jail and the process told to end.
SnapshotAndKill(t) ==
  /\ At(t, "hibernate", "snapshot")
  /\ Killed(task[t].pid)
  /\ Proceed(t, "copy state")
  /\ UNCHANGED <<shard, files, last, lost>>

CopyState(t) ==
  /\ At(t, "hibernate", "copy state")
  /\ files' = [files EXCEPT ![task[t].epoch].state = task[t].pid]
  /\ Proceed(t, "copy mem")
  /\ UNCHANGED <<shard, vm, last, lost>>

\* Mutant: the memory file of an earlier snapshot is kept.
MemCopiedOnce(t) ==
  [files EXCEPT ![task[t].epoch].mem = IF @ = None THEN task[t].pid ELSE @]

\* copy_file_readonly replaces the file.
MemCopied(t) == [files EXCEPT ![task[t].epoch].mem = task[t].pid]

CopyMem(t) ==
  /\ At(t, "hibernate", "copy mem")
  /\ files' = MemCopied(t)
  /\ Proceed(t, "end")
  /\ UNCHANGED <<shard, vm, last, lost>>

EndHibernate(t) ==
  /\ At(t, "hibernate", "end")
  /\ shard' = Settled("hibernated", None)
  /\ Finish(t)
  /\ UNCHANGED <<vm, files, last, lost>>

\* A copy that ends early removed the old file or was not yet that far.
Torn(t) ==
  CASE At(t, "hibernate", "copy state") ->
         [files EXCEPT ![task[t].epoch].state = None]
    [] At(t, "hibernate", "copy mem") ->
         [files EXCEPT ![task[t].epoch].mem = None]
    [] OTHER -> files

\* hibernate() or terminate() ends early, by an error or because its future is
\* dropped: the record stays as it is.
StopsEarly(t) ==
  /\ task[t].op \in {"hibernate", "terminate", "destroy"}
  /\ files' \in {files, Torn(t)}
  /\ Finish(t)
  /\ UNCHANGED <<shard, vm, last, lost>>

\* A guest or its process ends, on its own or because it was told to.
Exits(p) ==
  /\ Live(p)
  /\ vm' = [vm EXCEPT ![p].status = "dead"]
  /\ UNCHANGED <<shard, files, task, last, lost>>
=============================================================================
