----------------------------- MODULE SandboxHelper -----------------------------
(***************************************************************************)
(* One launch on Linux: the command line program, the helper script it     *)
(* writes and starts, Bubblewrap, slirp4netns and the pipes between them.  *)
(*                                                                         *)
(* Source: proc-isolation-proof/src/runner.rs, platform/linux.rs and       *)
(* scripts/linux/ores-proc-isolate.sh.  A step of the helper is what it    *)
(* does between two points at which it waits, or at which a signal or a    *)
(* failure tells outcomes apart.  Any foreground command may fail, each    *)
(* process may be killed, and SIGTERM may reach the helper at each step.   *)
(***************************************************************************)
EXTENDS SandboxPlan, Sequences

CONSTANT Configs   \* the policy files this launch may find, a subset of Config

VARIABLES
  cli,       \* the program: idle, resolved, waiting, ended or killed
  input,     \* the invocation and the policy it found, until the launch
  plan,      \* the plan, or None
  code,      \* the exit code of the program
  helper,    \* the helper: its step, its exit code, where a SIGTERM reached it
  pids,      \* the children whose process number the helper has noted
  bwrap,     \* Bubblewrap
  result,    \* how Bubblewrap, and with it the target, ended
  slirp,     \* slirp4netns
  measures,  \* what confines the target's namespaces
  pipes,     \* the pipes that have been written to
  files      \* temporary files on the host

vars == <<cli, input, plan, code, helper, pids, bwrap, result, slirp, measures,
          pipes, files>>
children == <<bwrap, result, slirp>>
program == <<cli, input, plan, code>>

\* Exit codes: 0, 125 and any other number.  Nobody can tell from a number
\* whether the target, Bubblewrap or a failing command of the script chose it.
Codes == {"zero", "unavailable", "failure"}

\* The helper's steps that its trap protects, in the order of the script.
Protected == {"prepare", "spawn", "bwrap_forked", "info", "map", "status",
              "slirp", "slirp_forked", "ready", "loopback", "filter4", "filter6",
              "gate", "wait", "look", "kill", "stop"}
CleanupSteps == {"cleanup_slirp", "cleanup_bwrap", "cleanup_files"}
Over == {"exited", "killed"}
Steps == Protected \cup CleanupSteps \cup Over \cup
         {"none", "begin", "replaced", "clean"}

BwrapAlive == bwrap \in {"starting", "paused", "blocked", "running"}
SlirpAlive == slirp \in {"starting", "ready"}

\* What must be in place before a target with a network runs.
Measures == {"userns", "slirp", "loopback", "filter4", "filter6"}

ASSUME HelperAssumption ==
  /\ Configs \subseteq Config
  /\ None \notin Steps \cup Codes \cup {"signal"}

-----------------------------------------------------------------------------
Init ==
  /\ cli = "idle" /\ code = None /\ plan = None
  /\ input \in [config : {None}, command : Commands, positional : 0..1,
                process : Processes \cup {Unknown}, dry_run : BOOLEAN,
                honeypot : BOOLEAN]
  /\ helper = [step |-> "none", rc |-> None, term |-> None]
  /\ pids = {} /\ bwrap = "none" /\ result = None /\ slirp = "none"
  /\ measures = {} /\ pipes = {} /\ files = {}

(* The program.                                                            *)

Ended(c) ==
  /\ cli' = "ended" /\ code' = c /\ input' = None
  /\ UNCHANGED <<helper, pids, children, measures, pipes, files>>

\* parse, Config::load: what the command line and the policy refuse.
Refuse(config) ==
  /\ cli = "idle"
  /\ ~ Parses(input) \/ ~ Valid(config)
  /\ Ended("failure") /\ UNCHANGED plan

\* check, explain and doctor report; only explain resolves a process, only
\* doctor looks at the host.
Report(config) ==
  /\ cli = "idle" /\ Parses(input) /\ Valid(config)
  /\ \/ input.command = "check" /\ Ended("zero")
     \/ input.command = "doctor" /\ \E c \in {"zero", "failure"} : Ended(c)
     \/ /\ input.command = "explain"
        /\ Ended(IF input.process \in Processes THEN "zero" ELSE "failure")
  /\ UNCHANGED plan

\* run up to the plan; executable is whether the target's file is there.
MakePlan(config, executable) ==
  /\ cli = "idle" /\ Parses(input) /\ Valid(config)
  /\ input.command = "run"
  /\ LET resolved == Resolve(config, input.process) IN
     IF executable /\ input.process \in Processes /\ Preparable(resolved)
     THEN /\ plan' = Prepare(resolved, input.honeypot)
          /\ cli' = "resolved" /\ input' = [input EXCEPT !.config = config]
          /\ UNCHANGED <<code, helper, pids, children, measures, pipes, files>>
     ELSE Ended("failure") /\ UNCHANGED plan

DryRun ==
  /\ cli = "resolved" /\ input.dry_run
  /\ Ended("zero") /\ UNCHANGED plan

\* ok is whether the tripwire, if it is asked for, passes
\* validate_honeypot_boundary, and whether the script and bash are to be had.
Launch(ok) ==
  /\ cli = "resolved" /\ ~ input.dry_run
  /\ IF ~ ok
     THEN Ended("unavailable") /\ UNCHANGED plan
     ELSE /\ cli' = "waiting" /\ input' = None
          /\ files' = files \cup {"script"}
          /\ helper' = [helper EXCEPT !.step = "begin"]
          /\ UNCHANGED <<plan, code, pids, children, measures, pipes>>

\* The helper is over: its code, or 128 if it died of a signal; the script is
\* a NamedTempFile and goes with the call.
Collect ==
  /\ cli = "waiting" /\ helper.step \in Over
  /\ cli' = "ended"
  /\ code' = IF helper.step = "exited" THEN helper.rc ELSE "failure"
  /\ files' = files \ {"script"}
  /\ UNCHANGED <<input, plan, helper, pids, children, measures, pipes>>

CliKilled ==
  /\ cli = "waiting" /\ cli' = "killed"
  /\ UNCHANGED <<input, plan, code, helper, pids, children, measures, pipes, files>>

-----------------------------------------------------------------------------
(* The helper.                                                             *)

At(step) == helper.step = step
Goto(step) == helper' = [helper EXCEPT !.step = step]
ExitWith(c) == helper' = [helper EXCEPT !.step = "cleanup_slirp", !.rc = c]

\* What a step other than the named one's own changes leaves alone.
Moves(step) == Goto(step) /\ UNCHANGED <<program, pids, children, measures, pipes, files>>
Fatal(c) == ExitWith(c) /\ UNCHANGED <<program, pids, children, measures, pipes, files>>

\* The helper refuses a network that reaches the loopback.  Private networks it
\* denies whatever it is told: its switch for them is on and has no option that
\* turns it off.
AcceptsNetwork == plan.mode = "external" => plan.deny_loopback

\* What the script refuses with itself, and what one of its commands fails with.
Failures == {"unavailable", "failure"}

\* Options, executable, tripwire, limits and the resolver's file; no trap is set
\* before.
Begin(ok) ==
  /\ At("begin")
  /\ IF ok /\ AcceptsNetwork
     THEN Goto("prepare") /\ files' = files \cup {"resolv"}
     ELSE /\ \E c \in Failures :
               helper' = [helper EXCEPT !.step = "exited", !.rc = c]
          /\ UNCHANGED files
  /\ UNCHANGED <<program, pids, children, measures, pipes>>

\* Of the values given to PATH, in order, Bubblewrap keeps the last.
PathArguments ==
  <<IF plan.honeypot THEN "tripwire" ELSE "nonexistent">>
  \o (IF plan.path # None THEN <<plan.path>> ELSE <<>>)
  \o (IF plan.honeypot THEN <<"tripwire">> ELSE <<>>)
TargetPath == PathArguments[Len(PathArguments)]

\* The strict profile refuses six directories by their names, and none that lies
\* above or below one of them.
Mountable == plan.honeypot => "bin" \notin plan.read_only

\* The mounts; without a network the helper becomes Bubblewrap, its trap undone.
PrepareArguments(ok) ==
  /\ At("prepare")
  /\ \/ /\ ~ (ok /\ Mountable)
        /\ \E c \in Failures : Fatal(c)
     \/ /\ ok /\ Mountable
        /\ plan.mode = "none"
        /\ Goto("replaced") /\ bwrap' = "starting"
        /\ UNCHANGED <<program, pids, result, slirp, measures, pipes, files>>
     \/ /\ ok /\ Mountable
        /\ plan.mode = "external"
        /\ Goto("spawn") /\ files' = files \cup {"ipc"}
        /\ UNCHANGED <<program, pids, children, measures, pipes>>

\* A child is started by one command, and its number noted by the next.
Spawn ==
  /\ At("spawn")
  /\ Goto("bwrap_forked") /\ bwrap' = "starting"
  /\ UNCHANGED <<program, pids, result, slirp, measures, pipes, files>>

Note(child, step) ==
  /\ Goto(step) /\ pids' = pids \cup {child}
  /\ UNCHANGED <<program, children, measures, pipes, files>>

NoteBwrap == At("bwrap_forked") /\ Note("bwrap", "info")

\* The helper itself holds the pipe open for writing: it reads no end of file.
ReadInfo == At("info") /\ "info" \in pipes /\ Moves("map")

\* The id maps and the limit on namespaces, then the word to go on.
MapIds(ok) ==
  /\ At("map")
  /\ \/ ~ (ok /\ BwrapAlive) /\ Fatal("unavailable")
     \/ /\ ok /\ BwrapAlive
        /\ Goto("status")
        /\ measures' = measures \cup {"userns"}
        /\ pipes' = pipes \cup {"usergate"}
        /\ UNCHANGED <<program, pids, children, files>>

ReadStatus ==
  /\ At("status") /\ "status" \in pipes
  /\ IF BwrapAlive THEN Moves("slirp") ELSE Fatal("unavailable")

SpawnSlirp ==
  /\ At("slirp")
  /\ Goto("slirp_forked") /\ slirp' = "starting"
  /\ UNCHANGED <<program, pids, bwrap, result, measures, pipes, files>>

NoteSlirp == At("slirp_forked") /\ Note("slirp", "ready")

\* This pipe is only read here, so that slirp4netns's death is an end of file.
ReadReady ==
  /\ At("ready")
  /\ \/ "ready" \in pipes /\ Moves("loopback")
     \/ "ready" \notin pipes /\ slirp = "dead" /\ Fatal("unavailable")

\* One command, or one table of rules, in the target's namespaces.
Confine(step, measure, next, failure, ok) ==
  /\ At(step)
  /\ \/ ~ (ok /\ BwrapAlive) /\ Fatal(failure)
     \/ /\ ok /\ BwrapAlive
        /\ Goto(next) /\ measures' = measures \cup {measure}
        /\ UNCHANGED <<program, pids, children, pipes, files>>

DisableLoopback(ok) == Confine("loopback", "loopback", "filter4", "unavailable", ok)
Filter4(ok) == Confine("filter4", "filter4", "filter6", "failure", ok)
Filter6(ok) == Confine("filter6", "filter6", "gate", "failure", ok)

OpenGate ==
  /\ At("gate")
  /\ Goto("wait") /\ pipes' = pipes \cup {"gate"}
  /\ UNCHANGED <<program, pids, children, measures, files>>


SlirpEnded == slirp = "dead"

\* What wait returns: a death by a signal is a number like any other.
ExitCode(r) == IF r = "signal" THEN "failure" ELSE r

\* wait -n: the first of the two that has ended.
Wait ==
  /\ At("wait")
  /\ \/ /\ SlirpEnded
        /\ Goto("look") /\ slirp' = "reaped" /\ pids' = pids \ {"slirp"}
        /\ UNCHANGED <<program, bwrap, result, measures, pipes, files>>
     \/ /\ bwrap = "exited"
        /\ helper' = [helper EXCEPT !.step = "stop", !.rc = ExitCode(result)]
        /\ bwrap' = "reaped" /\ pids' = pids \ {"bwrap"}
        /\ UNCHANGED <<program, result, slirp, measures, pipes, files>>

\* The network is gone: was the target still running?
Look ==
  /\ At("look")
  /\ \/ BwrapAlive /\ Moves("kill")
     \/ /\ bwrap = "exited"
        /\ helper' = [helper EXCEPT !.step = "stop", !.rc = ExitCode(result)]
        /\ bwrap' = "reaped" /\ pids' = pids \ {"bwrap"}
        /\ UNCHANGED <<program, result, slirp, measures, pipes, files>>

\* Mutant: the code of the first process that ended is kept.
FirstCode == "zero"

LossCode == "unavailable"

\* It was when the helper looked, and may have ended since.
KillTarget ==
  /\ At("kill")
  /\ helper' = [helper EXCEPT !.step = "stop", !.rc = LossCode]
  /\ bwrap' = "reaped" /\ pids' = pids \ {"bwrap"}
  /\ result' = IF BwrapAlive THEN "signal" ELSE result
  /\ UNCHANGED <<program, slirp, measures, pipes, files>>

Stop ==
  /\ At("stop")
  /\ Goto("clean")
  /\ slirp' = IF "slirp" \in pids THEN "reaped" ELSE slirp
  /\ pids' = pids \ {"slirp"}
  /\ UNCHANGED <<program, bwrap, result, measures, pipes, files>>

\* Mutant: the directory of the pipes stays.
PipesKept == files \cap {"script", "ipc"}

Cleaned == files \cap {"script"}

Exit ==
  /\ At("clean") \/ At("cleanup_files")
  /\ Goto("exited") /\ files' = Cleaned
  /\ UNCHANGED <<program, pids, children, measures, pipes>>

(* cleanup: it stops the children it knows of, and keeps the exit code.    *)

CleanupSlirp ==
  /\ At("cleanup_slirp")
  /\ Goto("cleanup_bwrap")
  /\ slirp' = IF "slirp" \in pids THEN "reaped" ELSE slirp
  /\ pids' = pids \ {"slirp"}
  /\ UNCHANGED <<program, bwrap, result, measures, pipes, files>>

CleanupBwrap ==
  /\ At("cleanup_bwrap")
  /\ Goto("cleanup_files")
  /\ bwrap' = IF "bwrap" \in pids THEN "reaped" ELSE bwrap
  /\ result' = IF "bwrap" \in pids /\ BwrapAlive THEN "signal" ELSE result
  /\ pids' = pids \ {"bwrap"}
  /\ UNCHANGED <<program, slirp, measures, pipes, files>>

\* Bubblewrap in the helper's place ends, and the helper with it.
ReplacedEnds ==
  /\ At("replaced") /\ bwrap = "exited"
  /\ helper' = [helper EXCEPT !.step = IF result = "signal" THEN "killed" ELSE "exited",
                              !.rc = ExitCode(result)]
  /\ bwrap' = "reaped"
  /\ UNCHANGED <<program, pids, result, slirp, measures, pipes, files>>

\* Mutant: until both children run, only the exit of the shell is trapped.
LateTraps == Protected \ {"info", "map", "status", "ready"}

Trapped == Protected

\* $? as the trap finds it: of the wait it interrupted, else of the command
\* that came before, and of Bubblewrap once it has been waited for.
TrapCodes == CASE At("wait") -> {"failure"}
               [] helper.step \in {"look", "kill", "stop"} -> Codes
               [] OTHER -> {"zero", "failure"}

\* SIGTERM, once.  Without a trap it kills; cleanup is taken not to be
\* interrupted again.
Term ==
  /\ helper.term = None
  /\ helper.step \notin Over \cup CleanupSteps \cup {"none"}
  /\ At("replaced") => BwrapAlive
  /\ helper' \in
       IF helper.step \in Trapped
       THEN {[step |-> "cleanup_slirp", rc |-> c, term |-> helper.step] : c \in TrapCodes}
       ELSE {[step |-> "killed", rc |-> None, term |-> helper.step]}
  /\ IF At("replaced")
     THEN bwrap' = "exited" /\ result' = "signal"
     ELSE UNCHANGED <<bwrap, result>>
  /\ UNCHANGED <<program, pids, slirp, measures, pipes, files>>

\* SIGKILL: no cleanup.
Kill ==
  /\ helper.step \notin Over \cup {"none"}
  /\ At("replaced") => BwrapAlive
  /\ helper' = [helper EXCEPT !.step = "killed"]
  /\ IF At("replaced")
     THEN bwrap' = "exited" /\ result' = "signal"
     ELSE UNCHANGED <<bwrap, result>>
  /\ UNCHANGED <<program, pids, slirp, measures, pipes, files>>

-----------------------------------------------------------------------------
(* The children, as the helper uses them.                                  *)

\* Mutant: the gate is opened for writing only, and its end lets Bubblewrap go.
GateEnds == "gate" \in pipes \/ helper.step \in Over

GateReads == "gate" \in pipes

BwrapBecomes(from, state, written) ==
  /\ bwrap = from /\ bwrap' = state
  /\ pipes' = pipes \cup written
  /\ UNCHANGED <<program, helper, pids, result, slirp, measures, files>>

BwrapEnds(c) ==
  /\ bwrap' = "exited" /\ result' = c
  /\ UNCHANGED <<program, helper, pids, slirp, measures, pipes, files>>

\* In the helper's place Bubblewrap waits for nobody.
BwrapReports ==
  bwrap = "starting" /\ plan.mode = "external" /\ BwrapBecomes("starting", "paused", {"info"})
BwrapStatus ==
  /\ "status" \notin pipes
  /\ \E s \in {"paused", "blocked"} : BwrapBecomes(s, s, {"status"})
BwrapMapped ==
  /\ "usergate" \in pipes /\ "userns" \in measures
  /\ BwrapBecomes("paused", "blocked", {})
BwrapRuns ==
  \/ "status" \in pipes /\ GateReads /\ BwrapBecomes("blocked", "running", {})
  \/ bwrap = "starting" /\ plan.mode = "none" /\ BwrapBecomes("starting", "running", {})
BwrapFails == bwrap \in {"starting", "paused", "blocked"} /\ BwrapEnds("failure")
TargetEnds == bwrap = "running" /\ \E c \in Codes : BwrapEnds(c)

\* --die-with-parent; in the helper's place its parent is the program.
DieWithParent ==
  /\ BwrapAlive
  /\ IF plan.mode = "none" THEN cli = "killed" ELSE helper.step \in Over
  /\ BwrapEnds("signal")

\* It says that it is ready, if it can, and ends at any time.  Until the helper
\* reads its pipe it is a shell that waits for the reader.
SlirpReady ==
  /\ slirp = "starting" /\ BwrapAlive /\ helper.step = "ready"
  /\ slirp' = "ready"
  /\ pipes' = pipes \cup {"ready"} /\ measures' = measures \cup {"slirp"}
  /\ UNCHANGED <<program, helper, pids, bwrap, result, files>>

SlirpDies ==
  /\ SlirpAlive /\ (slirp = "starting" => At("ready"))
  /\ slirp' = "dead"
  /\ UNCHANGED <<program, helper, pids, bwrap, result, measures, pipes, files>>

-----------------------------------------------------------------------------
Program ==
  \/ \E config \in Configs :
       Refuse(config) \/ Report(config) \/ \E ok \in BOOLEAN : MakePlan(config, ok)
  \/ DryRun \/ (\E ok \in BOOLEAN : Launch(ok)) \/ Collect \/ CliKilled
HelperOk(ok) == Begin(ok) \/ PrepareArguments(ok) \/ MapIds(ok)
                \/ DisableLoopback(ok) \/ Filter4(ok) \/ Filter6(ok)
HelperStep == \/ Spawn \/ NoteBwrap \/ ReadInfo \/ ReadStatus \/ SpawnSlirp
              \/ NoteSlirp \/ ReadReady \/ OpenGate \/ Wait \/ Look \/ KillTarget
              \/ Stop \/ Exit \/ CleanupSlirp \/ CleanupBwrap \/ ReplacedEnds
              \/ \E ok \in BOOLEAN : HelperOk(ok)
Children == \/ BwrapReports \/ BwrapStatus \/ BwrapMapped \/ BwrapRuns
            \/ BwrapFails \/ TargetEnds \/ DieWithParent \/ SlirpReady \/ SlirpDies

Next == Program \/ HelperStep \/ Term \/ Kill \/ Children

\* The helper's own steps are taken, and the kernel delivers a parent's death.
Fairness == WF_vars(HelperStep) /\ WF_vars(DieWithParent)

Spec == Init /\ [][Next]_vars /\ Fairness

-----------------------------------------------------------------------------
\* No target runs with a network before the whole of its confinement is in
\* place, whoever dies while it is set up; and a target of the strict profile has
\* the tripwire alone for its PATH, whatever the policy gives it, and none of
\* the directories the helper knows by name among its mounts, whatever links the
\* policy names them by (ores-proc-isolate.sh:143-223, 306-396).  A directory
\* above or below those is mounted: no utility is on the PATH of such a target,
\* but one may be in its file system.
TenantIsConfined ==
  bwrap = "running" =>
    /\ plan.mode = "external" => measures = Measures
    /\ plan.honeypot => TargetPath = "tripwire" /\ "bin" \notin plan.read_only

\* The group of a planned process is the only one that any part of the policy
\* names for it (config.rs:225-277, 338-369).
GroupIsUnanimous ==
  cli = "resolved" =>
    /\ \A g \in Groups : input.process \in input.config.members[g] => g = plan.group
    /\ input.config.explicit[input.process] \in {plan.group, None}

\* A policy that validates never asks the helper for a network it refuses: the
\* loopback is denied by both, each on its own.  That private networks are
\* denied the validation alone asks of a policy; the helper would not notice
\* (config.rs:397-405, ores-proc-isolate.sh:20, 98-101).
HelperAgrees == At("begin") => AcceptsNetwork

\* A helper that exits leaves no process and no file behind, except where it
\* was told to stop between the start of a child and the note of its number,
\* and except the resolver's file of a launch without a network.
NothingLeft ==
  At("exited") =>
    /\ helper.term \notin {"bwrap_forked", "slirp_forked"} =>
         ~ BwrapAlive /\ ~ SlirpAlive
    /\ pids = {} /\ "ipc" \notin files
    /\ "resolv" \in files => plan.mode = "none"
    /\ cli = "ended" => "script" \notin files

\* The program reports success only for a target that succeeded, whichever of the
\* two processes the helper saw end first and whoever was told to stop, but for a
\* helper that is told in the middle of a command: then it leaves with the code of
\* the last one, mostly 0.  Once the target has been let go, and if nobody was
\* told, the code is that of the target's own end, or 125 for a network that was
\* lost.  A failure before that may have any number but 0, those of a target's
\* own failure among them (mod.rs:177, ores-proc-isolate.sh:123-137, 396-447).
ExitIsTargets ==
  cli = "ended" /\ At("exited") =>
    /\ helper.term \notin Protected \ {"wait"} /\ code = "zero" => result = "zero"
    /\ helper.term = None /\ "gate" \in pipes =>
         code \in {ExitCode(result), "unavailable"}


\* SIGTERM ends the helper, the target and the network helper it knows of, in
\* whatever the helper was waiting for (ores-proc-isolate.sh:123-137).
TermEndsAll ==
  (helper.term \notin {None, "bwrap_forked", "slirp_forked"}) ~>
    (helper.step \in Over /\ bwrap # "running" /\
       (At("exited") \/ helper.rc = None => ~ BwrapAlive /\ ~ SlirpAlive))
=============================================================================
