-------------------------- MODULE SandboxHelperProofs --------------------------
(***************************************************************************)
(* The safety of a launch, for any number of processes and groups and for  *)
(* any set of policy files.                                                *)
(*                                                                         *)
(* The properties speak of the end of a launch, and each is decided at an  *)
(* earlier step by what somebody knew then.  The invariant keeps this      *)
(* knowledge: the plan is that of a policy which validated (PlanOfInput);  *)
(* the program waits for exactly the helper it started (ProgramAgrees);    *)
(* a child lives only while the helper has noted its number, or stands     *)
(* between its start and the note (HelperKnows); each step of the helper   *)
(* has the measures of those before it (ConfinementGrows); what is on the  *)
(* disk fits the step (FilesFit); and a code of success, and any code once *)
(* the gate is open, follows from how Bubblewrap ended (CodeIsResult).     *)
(***************************************************************************)
EXTENDS SandboxHelper, SequenceTheorems, TLAPS

-----------------------------------------------------------------------------
(* The invariant.                                                            *)

Statuses == {"none", "starting", "paused", "blocked", "running", "exited", "reaped"}
Pipes == {"info", "usergate", "status", "ready", "gate"}
TypeOK ==
  /\ cli \in {"idle", "resolved", "waiting", "ended", "killed"}
  /\ code \in Codes \cup {None}
  /\ helper \in [step : Steps, rc : Codes \cup {None}, term : Steps \cup {None}]
  /\ pids \subseteq {"bwrap", "slirp"}
  /\ bwrap \in Statuses /\ result \in Codes \cup {"signal", None}
  /\ slirp \in {"none", "starting", "ready", "dead", "reaped"}
  /\ measures \subseteq Measures
  /\ pipes \subseteq Pipes
  /\ files \subseteq {"script", "resolv", "ipc"}

\* The plan is that of the policy which was found, until the launch.
PlanOfInput ==
  /\ cli = "idle" =>
       input \in [config : {None}, command : Commands, positional : 0..1,
                 process : Processes \cup {Unknown}, dry_run : BOOLEAN,
                 honeypot : BOOLEAN]
  /\ cli = "resolved" =>
       /\ input.process \in Processes /\ input.config \in Configs /\ Valid(input.config)
       /\ plan = Prepare(Resolve(input.config, input.process), input.honeypot)

\* The helper has been started.
Launched == helper.step # "none"

\* What the program takes the helper for is what it is, and a helper which runs
\* has a network it accepts.
ProgramAgrees ==
  /\ cli \in {"idle", "resolved"} => ~Launched
  /\ cli = "ended" => ~Launched \/ helper.step \in Over
  /\ cli = "ended" /\ At("exited") => code = helper.rc
  /\ ~Launched => bwrap = "none" /\ files = {}
  /\ Launched => AcceptsNetwork
  /\ "script" \in files => cli \in {"waiting", "killed"}

\* A child lives only under a number the helper has noted, unless it was told to
\* stop, or was killed, between the start and the note.
HelperKnows ==
  /\ helper.step \in {"none", "begin", "prepare", "spawn", "bwrap_forked", "replaced",
                      "clean", "cleanup_files", "exited"} => pids = {}
  /\ helper.step = "stop" => "bwrap" \notin pids
  /\ helper.step = "cleanup_bwrap" => "slirp" \notin pids
  /\ BwrapAlive => \/ "bwrap" \in pids
                   \/ helper.step \in {"bwrap_forked", "replaced", "killed"}
                   \/ helper.term = "bwrap_forked"
  /\ SlirpAlive => \/ "slirp" \in pids
                   \/ helper.step \in {"slirp_forked", "killed"}
                   \/ helper.term = "slirp_forked"

\* What is in place when the helper is at a step.
InPlace(step) ==
  CASE step \in {"status", "slirp", "slirp_forked", "ready"} -> {"userns"}
    [] step = "loopback" -> {"userns", "slirp"}
    [] step = "filter4" -> {"userns", "slirp", "loopback"}
    [] step = "filter6" -> {"userns", "slirp", "loopback", "filter4"}
    [] step = "gate" -> Measures
    [] OTHER -> {}

\* The steps after the gate has been opened.
Opened == {"wait", "look", "kill", "stop", "clean"} \cup CleanupSteps \cup Over

\* Each step has the measures of those before it, and the gate has them all.
ConfinementGrows ==
  /\ InPlace(helper.step) \subseteq measures
  /\ "ready" \in pipes => "slirp" \in measures
  /\ "gate" \in pipes => measures = Measures /\ helper.step \in Opened
  /\ bwrap = "running" => plan.mode = "none" \/ "gate" \in pipes
  /\ BwrapAlive \/ helper.step = "spawn" => Mountable

\* What of the temporary files may be there at a step.
FilesFit ==
  /\ helper.step = "begin" => files \subseteq {"script"}
  /\ helper.step \in {"prepare", "replaced", "exited"} => "ipc" \notin files
  /\ helper.step = "replaced" => plan.mode = "none"
  /\ helper.step = "exited" /\ "resolv" \in files => plan.mode = "none"

\* The code is the script's own, or how Bubblewrap ended.
CodeIsResult ==
  /\ helper.step \in ({"none", "begin", "replaced"} \cup Protected) \ {"stop"} => helper.rc = None
  /\ bwrap = "exited" => result # None
  /\ helper.term # None => helper.step \in CleanupSteps \cup Over
  /\ helper.term \notin Protected \cup {None} => helper.step = "killed"
  /\ helper.term = "wait" => helper.rc = "failure"
  /\ helper.term = None /\ helper.rc = "zero" => result = "zero" /\ ~BwrapAlive
  /\ /\ helper.term = None /\ "gate" \in pipes
     /\ helper.step \in {"stop", "clean", "exited"} \cup CleanupSteps
     => helper.rc \in {ExitCode(result), "unavailable"} /\ ~BwrapAlive

SandboxInv ==
  /\ TypeOK
  /\ PlanOfInput
  /\ ProgramAgrees
  /\ HelperKnows
  /\ ConfinementGrows
  /\ FilesFit
  /\ CodeIsResult
-----------------------------------------------------------------------------
(* The steps.  The words the invariant is made of are expanded throughout.   *)

USE DEF Launched, At, BwrapAlive, SlirpAlive, Steps, Protected, CleanupSteps, Over, Codes

\* What the helper's record is after a step.
LEMMA GotoIs ==
  ASSUME TypeOK, NEW step \in Steps, Goto(step)
  PROVE  /\ helper' \in [step : Steps, rc : Codes \cup {None}, term : Steps \cup {None}]
         /\ helper'.step = step /\ helper'.rc = helper.rc /\ helper'.term = helper.term
  BY DEF TypeOK, Goto

LEMMA CodeIs ==
  ASSUME TypeOK, NEW step \in Steps, NEW c \in Codes,
         helper' = [helper EXCEPT !.step = step, !.rc = c]
  PROVE  /\ helper' \in [step : Steps, rc : Codes \cup {None}, term : Steps \cup {None}]
         /\ helper'.step = step /\ helper'.rc = c /\ helper'.term = helper.term
  BY DEF TypeOK

\* The script or one of its commands gives up.
LEMMA FatalInv ==
  ASSUME SandboxInv,
         helper.step \in {"prepare", "map", "status", "ready", "loopback", "filter4", "filter6"},
         NEW c \in Failures, Fatal(c)
  PROVE  SandboxInv'
  <1>1. /\ UNCHANGED <<program, pids, children, measures, pipes, files>>
        /\ helper' = [helper EXCEPT !.step = "cleanup_slirp", !.rc = c]
        /\ c \in {"unavailable", "failure"}
    BY DEF Fatal, ExitWith, Failures
  <1>2. /\ helper' \in [step : Steps, rc : Codes \cup {None}, term : Steps \cup {None}]
        /\ helper'.step = "cleanup_slirp" /\ helper'.rc = c /\ helper'.term = helper.term
    BY <1>1, CodeIs DEF SandboxInv
  <1>3. TypeOK' /\ PlanOfInput' /\ ProgramAgrees'
    BY <1>1, <1>2 DEF SandboxInv, TypeOK, PlanOfInput, ProgramAgrees, AcceptsNetwork,
                      program, children
  <1>4. HelperKnows' /\ FilesFit' /\ CodeIsResult'
    BY <1>1, <1>2, HelperAssumption
    DEF SandboxInv, TypeOK, HelperKnows, ConfinementGrows, Opened, FilesFit, CodeIsResult,
        program, children
  <1>5. ConfinementGrows'
    BY <1>1, <1>2 DEF SandboxInv, ConfinementGrows, Opened, InPlace, Mountable, program, children
  <1> QED
    BY <1>3, <1>4, <1>5 DEF SandboxInv

\* One word read from a pipe, and the next step.
LEMMA MovesInv ==
  ASSUME SandboxInv, NEW step \in {"map", "slirp", "loopback", "kill"}, Moves(step),
         \/ step = "map" /\ At("info")
         \/ step = "slirp" /\ At("status")
         \/ step = "loopback" /\ At("ready") /\ "ready" \in pipes
         \/ step = "kill" /\ At("look")
  PROVE  SandboxInv'
  <1>1. /\ UNCHANGED <<program, pids, children, measures, pipes, files>>
        /\ helper'.step = step /\ helper'.rc = helper.rc /\ helper'.term = helper.term
        /\ helper' \in [step : Steps, rc : Codes \cup {None}, term : Steps \cup {None}]
    BY GotoIs DEF Moves, SandboxInv
  <1> QED
    BY <1>1
    DEF SandboxInv, TypeOK, PlanOfInput, ProgramAgrees, HelperKnows, ConfinementGrows,
        FilesFit, CodeIsResult, InPlace, Opened, AcceptsNetwork, Mountable, Statuses, Pipes,
        Measures, program, children

LEMMA ReadInv == SandboxInv /\ (ReadInfo \/ ReadStatus \/ ReadReady) => SandboxInv'
  <1>1. ASSUME SandboxInv, ReadInfo PROVE SandboxInv'
    BY <1>1, MovesInv DEF ReadInfo
  <1>2. ASSUME SandboxInv, ReadStatus PROVE SandboxInv'
    BY <1>2, MovesInv, FatalInv DEF ReadStatus, Failures
  <1>3. ASSUME SandboxInv, ReadReady PROVE SandboxInv'
    BY <1>3, MovesInv, FatalInv DEF ReadReady, Failures
  <1> QED
    BY <1>1, <1>2, <1>3

LEMMA BeginInv ==
  ASSUME SandboxInv, NEW ok \in BOOLEAN, Begin(ok)
  PROVE  SandboxInv'
  <1>1. At("begin") /\ UNCHANGED <<program, pids, children, measures, pipes>>
    BY DEF Begin
  <1>2. CASE Goto("prepare") /\ files' = files \cup {"resolv"}
    <2>1. /\ helper'.step = "prepare" /\ helper'.rc = helper.rc /\ helper'.term = helper.term
          /\ helper' \in [step : Steps, rc : Codes \cup {None}, term : Steps \cup {None}]
      BY <1>2, GotoIs DEF SandboxInv
    <2> QED
      BY <1>1, <1>2, <2>1
      DEF SandboxInv, TypeOK, PlanOfInput, ProgramAgrees, HelperKnows, ConfinementGrows,
          FilesFit, CodeIsResult, InPlace, Opened, AcceptsNetwork, Mountable, Statuses, Pipes,
          Measures, program, children
  <1>3. ASSUME NEW c \in Failures, helper' = [helper EXCEPT !.step = "exited", !.rc = c],
               files' = files
        PROVE  SandboxInv'
    <2>1. /\ helper'.step = "exited" /\ helper'.rc = c /\ helper'.term = helper.term
          /\ helper' \in [step : Steps, rc : Codes \cup {None}, term : Steps \cup {None}]
          /\ c \in {"unavailable", "failure"}
      BY <1>3, CodeIs DEF SandboxInv, Failures
    <2> QED
      BY <1>1, <1>3, <2>1
      DEF SandboxInv, TypeOK, PlanOfInput, ProgramAgrees, HelperKnows, ConfinementGrows,
          FilesFit, CodeIsResult, InPlace, Opened, AcceptsNetwork, Mountable, Statuses, Pipes,
          Measures, program, children
  <1> QED
    BY <1>2, <1>3 DEF Begin

LEMMA PrepareArgumentsInv ==
  ASSUME SandboxInv, NEW ok \in BOOLEAN, PrepareArguments(ok)
  PROVE  SandboxInv'
  <1>1. At("prepare")
    BY DEF PrepareArguments
  <1>2. ASSUME NEW c \in Failures, Fatal(c) PROVE SandboxInv'
    BY <1>1, <1>2, FatalInv
  <1>3. CASE /\ Mountable /\ plan.mode = "none" /\ Goto("replaced") /\ bwrap' = "starting"
             /\ UNCHANGED <<program, pids, result, slirp, measures, pipes, files>>
    <2>1. /\ helper'.step = "replaced" /\ helper'.rc = helper.rc /\ helper'.term = helper.term
          /\ helper' \in [step : Steps, rc : Codes \cup {None}, term : Steps \cup {None}]
      BY <1>3, GotoIs DEF SandboxInv
    <2> QED
      BY <1>1, <1>3, <2>1, HelperAssumption
      DEF SandboxInv, TypeOK, PlanOfInput, ProgramAgrees, HelperKnows, ConfinementGrows,
          FilesFit, CodeIsResult, InPlace, Opened, AcceptsNetwork, Mountable, Statuses, Pipes,
          Measures, program
  <1>4. CASE /\ Mountable /\ Goto("spawn") /\ files' = files \cup {"ipc"}
             /\ UNCHANGED <<program, pids, children, measures, pipes>>
    <2>1. /\ helper'.step = "spawn" /\ helper'.rc = helper.rc /\ helper'.term = helper.term
          /\ helper' \in [step : Steps, rc : Codes \cup {None}, term : Steps \cup {None}]
      BY <1>4, GotoIs DEF SandboxInv
    <2> QED
      BY <1>1, <1>4, <2>1
      DEF SandboxInv, TypeOK, PlanOfInput, ProgramAgrees, HelperKnows, ConfinementGrows,
          FilesFit, CodeIsResult, InPlace, Opened, AcceptsNetwork, Mountable, Statuses, Pipes,
          Measures, program, children
  <1> QED
    BY <1>2, <1>3, <1>4 DEF PrepareArguments

\* A measure taken.
LEMMA MeasureInv ==
  ASSUME SandboxInv, NEW step \in {"map", "loopback", "filter4", "filter6"}, At(step),
         NEW measure \in Measures, NEW next \in {"status", "filter4", "filter6", "gate"},
         Goto(next), measures' = measures \cup {measure},
         InPlace(next) = InPlace(step) \cup {measure},
         pipes' = pipes \/ pipes' = pipes \cup {"usergate"},
         UNCHANGED <<program, pids, children, files>>
  PROVE  SandboxInv'
  <1>1. /\ helper'.step = next /\ helper'.rc = helper.rc /\ helper'.term = helper.term
        /\ helper' \in [step : Steps, rc : Codes \cup {None}, term : Steps \cup {None}]
    BY GotoIs DEF SandboxInv
  <1>2. TypeOK'
    BY <1>1 DEF SandboxInv, TypeOK, Pipes, program, children
  <1>3. PlanOfInput' /\ ProgramAgrees'
    BY <1>1 DEF SandboxInv, PlanOfInput, ProgramAgrees, AcceptsNetwork, program, children
  <1>4. HelperKnows' /\ FilesFit' /\ CodeIsResult'
    BY <1>1 DEF SandboxInv, HelperKnows, FilesFit, CodeIsResult, program, children
  <1>5. ConfinementGrows'
    BY <1>1 DEF SandboxInv, TypeOK, ConfinementGrows, Opened, Mountable, program, children
  <1> QED
    BY <1>2, <1>3, <1>4, <1>5 DEF SandboxInv

LEMMA ConfineInv ==
  ASSUME SandboxInv, NEW ok \in BOOLEAN,
         MapIds(ok) \/ DisableLoopback(ok) \/ Filter4(ok) \/ Filter6(ok)
  PROVE  SandboxInv'
  <1>1. CASE MapIds(ok)
    <2>1. InPlace("status") = InPlace("map") \cup {"userns"} /\ "userns" \in Measures
      BY DEF InPlace, Measures
    <2> QED
      BY <1>1, <2>1, FatalInv, MeasureInv DEF MapIds, Failures
  <1>2. CASE DisableLoopback(ok)
    <2>1. InPlace("filter4") = InPlace("loopback") \cup {"loopback"} /\ "loopback" \in Measures
      BY DEF InPlace, Measures
    <2> QED
      BY <1>2, <2>1, FatalInv, MeasureInv DEF DisableLoopback, Confine, Failures
  <1>3. CASE Filter4(ok)
    <2>1. InPlace("filter6") = InPlace("filter4") \cup {"filter4"} /\ "filter4" \in Measures
      BY DEF InPlace, Measures
    <2> QED
      BY <1>3, <2>1, FatalInv, MeasureInv DEF Filter4, Confine, Failures
  <1>4. CASE Filter6(ok)
    <2>1. InPlace("gate") = InPlace("filter6") \cup {"filter6"} /\ "filter6" \in Measures
      BY DEF InPlace, Measures
    <2> QED
      BY <1>4, <2>1, FatalInv, MeasureInv DEF Filter6, Confine, Failures
  <1> QED
    BY <1>1, <1>2, <1>3, <1>4

\* Bubblewrap has ended, and its code is kept.
LEMMA TargetEndedInv ==
  ASSUME SandboxInv, helper.step \in {"wait", "look"}, bwrap = "exited",
         helper' = [helper EXCEPT !.step = "stop", !.rc = ExitCode(result)],
         bwrap' = "reaped", pids' = pids \ {"bwrap"},
         UNCHANGED <<program, result, slirp, measures, pipes, files>>
  PROVE  SandboxInv'
  <1>0. ExitCode(result) \in Codes /\ (ExitCode(result) = "zero" => result = "zero")
    BY DEF SandboxInv, TypeOK, CodeIsResult, ExitCode
  <1>1. /\ helper'.step = "stop" /\ helper'.rc = ExitCode(result) /\ helper'.term = helper.term
        /\ helper' \in [step : Steps, rc : Codes \cup {None}, term : Steps \cup {None}]
    BY <1>0, CodeIs DEF SandboxInv
  <1> QED
    BY <1>0, <1>1
    DEF SandboxInv, ExitCode, TypeOK, PlanOfInput, ProgramAgrees, HelperKnows, ConfinementGrows,
        FilesFit, CodeIsResult, InPlace, Opened, AcceptsNetwork, Mountable, Statuses, Pipes,
        Measures, program

LEMMA WaitInv == SandboxInv /\ (Wait \/ Look) => SandboxInv'
  <1>1. ASSUME SandboxInv, Wait PROVE SandboxInv'
    <2>1. CASE bwrap = "exited" /\ bwrap' = "reaped"
      BY <1>1, <2>1, TargetEndedInv DEF Wait
    <2>2. CASE /\ SlirpEnded /\ Goto("look") /\ slirp' = "reaped" /\ pids' = pids \ {"slirp"}
               /\ UNCHANGED <<program, bwrap, result, measures, pipes, files>>
      <3>1. /\ helper'.step = "look" /\ helper'.rc = helper.rc /\ helper'.term = helper.term
            /\ helper' \in [step : Steps, rc : Codes \cup {None}, term : Steps \cup {None}]
        BY <1>1, <2>2, GotoIs DEF SandboxInv
      <3>2. At("wait")
        BY <1>1 DEF Wait
      <3> QED
        BY <1>1, <2>2, <3>1, <3>2
        DEF SandboxInv, TypeOK, PlanOfInput, ProgramAgrees, HelperKnows, ConfinementGrows,
            FilesFit, CodeIsResult, InPlace, Opened, AcceptsNetwork, Mountable, Statuses,
            Pipes, Measures, program
    <2> QED
      BY <1>1, <2>1, <2>2 DEF Wait
  <1>2. ASSUME SandboxInv, Look PROVE SandboxInv'
    BY <1>2, TargetEndedInv, MovesInv DEF Look
  <1> QED
    BY <1>1, <1>2

LEMMA KillTargetInv == SandboxInv /\ KillTarget => SandboxInv'
  <1> SUFFICES ASSUME SandboxInv, KillTarget PROVE SandboxInv'
    OBVIOUS
  <1>1. /\ At("kill") /\ bwrap' = "reaped" /\ pids' = pids \ {"bwrap"}
        /\ result' \in {"signal", result}
        /\ UNCHANGED <<program, slirp, measures, pipes, files>>
        /\ helper' = [helper EXCEPT !.step = "stop", !.rc = "unavailable"]
    BY DEF KillTarget, LossCode
  <1>2. /\ helper'.step = "stop" /\ helper'.rc = "unavailable" /\ helper'.term = helper.term
        /\ helper' \in [step : Steps, rc : Codes \cup {None}, term : Steps \cup {None}]
    BY <1>1, CodeIs DEF SandboxInv
  <1> QED
    BY <1>1, <1>2
    DEF SandboxInv, TypeOK, PlanOfInput, ProgramAgrees, HelperKnows, ConfinementGrows,
        FilesFit, CodeIsResult, InPlace, Opened, AcceptsNetwork, Mountable, Statuses, Pipes,
        Measures, program

LEMMA CleanupBwrapInv == SandboxInv /\ CleanupBwrap => SandboxInv'
  <1> SUFFICES ASSUME SandboxInv, CleanupBwrap PROVE SandboxInv'
    OBVIOUS
  <1>1. /\ At("cleanup_bwrap") /\ pids' = pids \ {"bwrap"}
        /\ bwrap' = IF "bwrap" \in pids THEN "reaped" ELSE bwrap
        /\ result' = IF "bwrap" \in pids /\ BwrapAlive THEN "signal" ELSE result
        /\ UNCHANGED <<program, slirp, measures, pipes, files>>
    BY DEF CleanupBwrap
  <1>2. /\ helper'.step = "cleanup_files" /\ helper'.rc = helper.rc /\ helper'.term = helper.term
        /\ helper' \in [step : Steps, rc : Codes \cup {None}, term : Steps \cup {None}]
    BY GotoIs DEF SandboxInv, CleanupBwrap
  <1>3. TypeOK' /\ PlanOfInput' /\ ProgramAgrees' /\ HelperKnows' /\ FilesFit' /\ CodeIsResult'
    BY <1>1, <1>2 DEF SandboxInv, TypeOK, PlanOfInput, ProgramAgrees, HelperKnows, FilesFit,
                CodeIsResult, AcceptsNetwork, Statuses, program
  <1>4. ConfinementGrows'
    BY <1>1, <1>2 DEF SandboxInv, ConfinementGrows, Opened, InPlace, Mountable, program
  <1> QED
    BY <1>3, <1>4 DEF SandboxInv

LEMMA ReplacedEndsInv == SandboxInv /\ ReplacedEnds => SandboxInv'
  <1> SUFFICES ASSUME SandboxInv, ReplacedEnds PROVE SandboxInv'
    OBVIOUS
  <1>1. /\ At("replaced") /\ bwrap = "exited" /\ bwrap' = "reaped"
        /\ UNCHANGED <<program, pids, result, slirp, measures, pipes, files>>
    BY DEF ReplacedEnds
  <1>2. PICK step \in {"killed", "exited"} :
           helper' = [helper EXCEPT !.step = step, !.rc = ExitCode(result)]
    BY DEF ReplacedEnds
  <1>0. ExitCode(result) \in Codes /\ (ExitCode(result) = "zero" => result = "zero")
    BY <1>1 DEF SandboxInv, TypeOK, CodeIsResult, ExitCode
  <1>3. /\ helper'.step = step /\ helper'.rc = ExitCode(result) /\ helper'.term = helper.term
        /\ helper' \in [step : Steps, rc : Codes \cup {None}, term : Steps \cup {None}]
    BY <1>0, <1>2, CodeIs DEF SandboxInv
  <1> QED
    BY <1>0, <1>1, <1>3
    DEF SandboxInv, ExitCode, TypeOK, PlanOfInput, ProgramAgrees, HelperKnows, ConfinementGrows,
        FilesFit, CodeIsResult, InPlace, Opened, AcceptsNetwork, Mountable, Statuses, Pipes,
        Measures, program


LEMMA LayerIsGroup ==
  ASSUME NEW config, NEW p \in Processes, Valid(config)
  PROVE  Layer(config, p) \in Groups
  <1> DEFINE members == {g \in Groups : p \in config.members[g]}
  <1>1. members # {} => (CHOOSE g \in members : TRUE) \in members
    OBVIOUS
  <1>2. config.default \in Groups /\ config.explicit[p] \in Groups \cup {None}
    BY DEF Valid
  <1> QED
    BY <1>1, <1>2 DEF Layer

\* Whatever says where a process belongs says the same: so the layer which is
\* asked first hides nothing.
LEMMA LayerIsUnanimous ==
  ASSUME NEW config, NEW p \in Processes, Valid(config)
  PROVE  /\ \A g \in Groups : p \in config.members[g] => g = Layer(config, p)
         /\ config.explicit[p] \in {Layer(config, p), None}
  <1> DEFINE members == {g \in Groups : p \in config.members[g]}
  <1>1. CASE config.explicit[p] # None
    BY <1>1 DEF Layer, Valid, Agrees
  <1>2. CASE config.explicit[p] = None /\ members # {}
    <2>1. Layer(config, p) \in members
      BY <1>2 DEF Layer
    <2> QED
      BY <1>2, <2>1 DEF Valid
  <1>3. CASE config.explicit[p] = None /\ members = {}
    BY <1>3
  <1> QED
    BY <1>1, <1>2, <1>3

\* The validation holds a policy to the rule that the helper checks.
LEMMA PlanIsAccepted ==
  ASSUME PlanOfInput, cli = "resolved"
  PROVE  AcceptsNetwork
  <1>1. Layer(input.config, input.process) \in Groups
    BY LayerIsGroup DEF PlanOfInput
  <1>2. StrictNetwork(input.config.policy[Layer(input.config, input.process)])
    BY <1>1 DEF PlanOfInput, Valid, ValidGroupPolicy
  <1> QED
    BY <1>2 DEF PlanOfInput, AcceptsNetwork, StrictNetwork, Prepare, Resolve

\* The program before the launch.
LEMMA RefuseInv ==
  ASSUME SandboxInv, NEW config \in Configs, Refuse(config) \/ Report(config)
  PROVE  SandboxInv'
  <1>1. PICK c \in {"zero", "failure"} : Ended(c)
    BY DEF Refuse, Report
  <1>2. cli = "idle" /\ UNCHANGED plan
    BY DEF Refuse, Report
  <1> QED
    BY <1>1, <1>2
    DEF SandboxInv, TypeOK, PlanOfInput, ProgramAgrees, HelperKnows, ConfinementGrows,
        FilesFit, CodeIsResult, InPlace, Opened, AcceptsNetwork, Mountable, Statuses, Pipes,
        Measures, Ended, children

LEMMA MakePlanInv ==
  ASSUME SandboxInv, NEW config \in Configs, NEW ok \in BOOLEAN, MakePlan(config, ok)
  PROVE  SandboxInv'
  <1>1. cli = "idle" /\ Valid(config)
    BY DEF MakePlan
  <1>2. CASE Ended("failure") /\ UNCHANGED plan
    BY <1>1, <1>2
    DEF SandboxInv, TypeOK, PlanOfInput, ProgramAgrees, HelperKnows, ConfinementGrows,
        FilesFit, CodeIsResult, InPlace, Opened, AcceptsNetwork, Mountable, Statuses, Pipes,
        Measures, Ended, children
  <1>3. CASE /\ input.process \in Processes
             /\ plan' = Prepare(Resolve(config, input.process), input.honeypot)
             /\ cli' = "resolved" /\ input' = [input EXCEPT !.config = config]
             /\ UNCHANGED <<code, helper, pids, children, measures, pipes, files>>
    <2>1. /\ input'.process = input.process /\ input'.honeypot = input.honeypot
          /\ input'.config = config
      BY <1>1, <1>3 DEF SandboxInv, PlanOfInput
    <2>2. PlanOfInput'
      BY <1>1, <1>3, <2>1 DEF SandboxInv, PlanOfInput
    <2>3. ~ Launched
      BY <1>1 DEF SandboxInv, ProgramAgrees
    <2> QED
      BY <1>1, <1>3, <2>2, <2>3 DEF SandboxInv, TypeOK, ProgramAgrees, HelperKnows,
         ConfinementGrows, FilesFit, CodeIsResult, InPlace, Opened, children
  <1> QED
    BY <1>2, <1>3 DEF MakePlan

LEMMA LaunchInv ==
  ASSUME SandboxInv, (\E ok \in BOOLEAN : Launch(ok)) \/ DryRun
  PROVE  SandboxInv'
  <1>1. cli = "resolved" /\ UNCHANGED plan
    BY DEF Launch, DryRun
  <1>2. ASSUME NEW c \in {"zero", "unavailable"}, Ended(c) PROVE SandboxInv'
    BY <1>1, <1>2
    DEF SandboxInv, TypeOK, PlanOfInput, ProgramAgrees, HelperKnows, ConfinementGrows,
        FilesFit, CodeIsResult, InPlace, Opened, AcceptsNetwork, Mountable, Statuses, Pipes,
        Measures, Ended, children
  <1>3. CASE /\ cli' = "waiting" /\ input' = None
             /\ files' = files \cup {"script"}
             /\ helper' = [helper EXCEPT !.step = "begin"]
             /\ UNCHANGED <<plan, code, pids, children, measures, pipes>>
    <2>1. /\ helper'.step = "begin" /\ helper'.rc = helper.rc /\ helper'.term = helper.term
          /\ helper' \in [step : Steps, rc : Codes \cup {None}, term : Steps \cup {None}]
      BY <1>3, GotoIs DEF SandboxInv, Goto
    <2>2. AcceptsNetwork'
      BY <1>1, PlanIsAccepted DEF SandboxInv, AcceptsNetwork
    <2> QED
      BY <1>1, <1>3, <2>1, <2>2 DEF SandboxInv, TypeOK, PlanOfInput, ProgramAgrees, HelperKnows,
         ConfinementGrows, FilesFit, CodeIsResult, InPlace, Opened, children
  <1> QED
    BY <1>2, <1>3 DEF Launch, DryRun

LEMMA CollectInv == SandboxInv /\ (Collect \/ CliKilled) => SandboxInv'
  <1>1. ASSUME SandboxInv, Collect PROVE SandboxInv'
    BY <1>1, HelperAssumption
    DEF SandboxInv, TypeOK, PlanOfInput, ProgramAgrees, HelperKnows, ConfinementGrows,
        FilesFit, CodeIsResult, InPlace, Opened, AcceptsNetwork, Mountable, Statuses, Pipes,
        Measures, Collect, children
  <1>2. ASSUME SandboxInv, CliKilled PROVE SandboxInv'
    BY <1>2
    DEF SandboxInv, TypeOK, PlanOfInput, ProgramAgrees, HelperKnows, ConfinementGrows,
        FilesFit, CodeIsResult, InPlace, Opened, AcceptsNetwork, Mountable, Statuses, Pipes,
        Measures, CliKilled, children
  <1> QED
    BY <1>1, <1>2

\* A child starts, its number is noted, the gate is opened.
LEMMA SpawnInv ==
  SandboxInv /\ ( \/ Spawn \/ NoteBwrap \/ SpawnSlirp \/ NoteSlirp
                  \/ OpenGate ) => SandboxInv'
  <1>1. ASSUME SandboxInv, Spawn PROVE SandboxInv'
    <2>1. /\ At("spawn") /\ bwrap' = "starting"
          /\ UNCHANGED <<program, pids, result, slirp, measures, pipes, files>>
      BY <1>1 DEF Spawn
    <2>2. /\ helper'.step = "bwrap_forked" /\ helper'.rc = helper.rc /\ helper'.term = helper.term
          /\ helper' \in [step : Steps, rc : Codes \cup {None}, term : Steps \cup {None}]
      BY <1>1, GotoIs DEF SandboxInv, Spawn
    <2> QED
      BY <1>1, <2>1, <2>2, HelperAssumption
      DEF SandboxInv, TypeOK, PlanOfInput, ProgramAgrees, HelperKnows, ConfinementGrows,
          FilesFit, CodeIsResult, InPlace, Opened, AcceptsNetwork, Mountable, Statuses, Pipes,
          Measures, program
  <1>2. ASSUME SandboxInv, NoteBwrap PROVE SandboxInv'
    BY <1>2
    DEF SandboxInv, TypeOK, PlanOfInput, ProgramAgrees, HelperKnows, ConfinementGrows,
        FilesFit, CodeIsResult, InPlace, Opened, AcceptsNetwork, Mountable, Statuses, Pipes,
        Measures, NoteBwrap, Note, Goto, program, children
  <1>3. ASSUME SandboxInv, SpawnSlirp PROVE SandboxInv'
    BY <1>3
    DEF SandboxInv, TypeOK, PlanOfInput, ProgramAgrees, HelperKnows, ConfinementGrows,
        FilesFit, CodeIsResult, InPlace, Opened, AcceptsNetwork, Mountable, Statuses, Pipes,
        Measures, SpawnSlirp, Goto, program, children
  <1>4. ASSUME SandboxInv, NoteSlirp PROVE SandboxInv'
    BY <1>4
    DEF SandboxInv, TypeOK, PlanOfInput, ProgramAgrees, HelperKnows, ConfinementGrows,
        FilesFit, CodeIsResult, InPlace, Opened, AcceptsNetwork, Mountable, Statuses, Pipes,
        Measures, NoteSlirp, Note, Goto, program, children
  <1>5. ASSUME SandboxInv, OpenGate PROVE SandboxInv'
    BY <1>5
    DEF SandboxInv, TypeOK, PlanOfInput, ProgramAgrees, HelperKnows, ConfinementGrows,
        FilesFit, CodeIsResult, InPlace, Opened, AcceptsNetwork, Mountable, Statuses, Pipes,
        Measures, OpenGate, Goto, program, children
  <1> QED
    BY <1>1, <1>2, <1>3, <1>4, <1>5

\* The ends of the helper.
LEMMA StopInv == SandboxInv /\ (Stop \/ Exit \/ CleanupSlirp) => SandboxInv'
  <1>1. ASSUME SandboxInv, Stop PROVE SandboxInv'
    BY <1>1
    DEF SandboxInv, TypeOK, PlanOfInput, ProgramAgrees, HelperKnows, ConfinementGrows,
        FilesFit, CodeIsResult, InPlace, Opened, AcceptsNetwork, Mountable, Statuses, Pipes,
        Measures, Stop, Goto, program, children
  <1>2. ASSUME SandboxInv, Exit PROVE SandboxInv'
    BY <1>2
    DEF SandboxInv, TypeOK, PlanOfInput, ProgramAgrees, HelperKnows, ConfinementGrows,
        FilesFit, CodeIsResult, InPlace, Opened, AcceptsNetwork, Mountable, Statuses, Pipes,
        Measures, Exit, Goto, Cleaned, program, children
  <1>3. ASSUME SandboxInv, CleanupSlirp PROVE SandboxInv'
    BY <1>3
    DEF SandboxInv, TypeOK, PlanOfInput, ProgramAgrees, HelperKnows, ConfinementGrows,
        FilesFit, CodeIsResult, InPlace, Opened, AcceptsNetwork, Mountable, Statuses, Pipes,
        Measures, CleanupSlirp, Goto, program, children
  <1> QED
    BY <1>1, <1>2, <1>3

\* A signal reaches the helper.
LEMMA SignalInv == SandboxInv /\ (Term \/ Kill) => SandboxInv'
  <1>1. ASSUME SandboxInv, Term PROVE SandboxInv'
    BY <1>1, HelperAssumption
    DEF SandboxInv, TypeOK, PlanOfInput, ProgramAgrees, HelperKnows, ConfinementGrows,
        FilesFit, CodeIsResult, InPlace, Opened, AcceptsNetwork, Mountable, Statuses, Pipes,
        Measures, Term, Trapped, TrapCodes, program, children
  <1>2. ASSUME SandboxInv, Kill PROVE SandboxInv'
    BY <1>2, HelperAssumption
    DEF SandboxInv, TypeOK, PlanOfInput, ProgramAgrees, HelperKnows, ConfinementGrows,
        FilesFit, CodeIsResult, InPlace, Opened, AcceptsNetwork, Mountable, Statuses, Pipes,
        Measures, Kill, program, children
  <1> QED
    BY <1>1, <1>2

\* Bubblewrap and the target.
LEMMA BwrapInv ==
  SandboxInv /\ ( \/ BwrapReports \/ BwrapStatus \/ BwrapMapped \/ BwrapRuns
                  \/ BwrapFails \/ TargetEnds \/ DieWithParent ) => SandboxInv'
  <1>1. ASSUME SandboxInv, BwrapReports PROVE SandboxInv'
    BY <1>1
    DEF SandboxInv, TypeOK, PlanOfInput, ProgramAgrees, HelperKnows, ConfinementGrows,
        FilesFit, CodeIsResult, InPlace, Opened, AcceptsNetwork, Mountable, Statuses, Pipes,
        Measures, BwrapReports, BwrapBecomes, program, children
  <1>2. ASSUME SandboxInv, BwrapStatus PROVE SandboxInv'
    BY <1>2
    DEF SandboxInv, TypeOK, PlanOfInput, ProgramAgrees, HelperKnows, ConfinementGrows,
        FilesFit, CodeIsResult, InPlace, Opened, AcceptsNetwork, Mountable, Statuses, Pipes,
        Measures, BwrapStatus, BwrapBecomes, program, children
  <1>3. ASSUME SandboxInv, BwrapMapped PROVE SandboxInv'
    BY <1>3
    DEF SandboxInv, TypeOK, PlanOfInput, ProgramAgrees, HelperKnows, ConfinementGrows,
        FilesFit, CodeIsResult, InPlace, Opened, AcceptsNetwork, Mountable, Statuses, Pipes,
        Measures, BwrapMapped, BwrapBecomes, program, children
  <1>4. ASSUME SandboxInv, BwrapRuns PROVE SandboxInv'
    BY <1>4
    DEF SandboxInv, TypeOK, PlanOfInput, ProgramAgrees, HelperKnows, ConfinementGrows,
        FilesFit, CodeIsResult, InPlace, Opened, AcceptsNetwork, Mountable, Statuses, Pipes,
        Measures, BwrapRuns, BwrapBecomes, GateReads, program, children
  <1>5. ASSUME SandboxInv, BwrapFails PROVE SandboxInv'
    BY <1>5, HelperAssumption
    DEF SandboxInv, TypeOK, PlanOfInput, ProgramAgrees, HelperKnows, ConfinementGrows,
        FilesFit, CodeIsResult, InPlace, Opened, AcceptsNetwork, Mountable, Statuses, Pipes,
        Measures, BwrapFails, BwrapEnds, program, children
  <1>6. ASSUME SandboxInv, TargetEnds PROVE SandboxInv'
    BY <1>6, HelperAssumption
    DEF SandboxInv, TypeOK, PlanOfInput, ProgramAgrees, HelperKnows, ConfinementGrows,
        FilesFit, CodeIsResult, InPlace, Opened, AcceptsNetwork, Mountable, Statuses, Pipes,
        Measures, TargetEnds, BwrapEnds, program, children
  <1>7. ASSUME SandboxInv, DieWithParent PROVE SandboxInv'
    BY <1>7, HelperAssumption
    DEF SandboxInv, TypeOK, PlanOfInput, ProgramAgrees, HelperKnows, ConfinementGrows,
        FilesFit, CodeIsResult, InPlace, Opened, AcceptsNetwork, Mountable, Statuses, Pipes,
        Measures, DieWithParent, BwrapEnds, program, children
  <1> QED
    BY <1>1, <1>2, <1>3, <1>4, <1>5, <1>6, <1>7

\* The network helper.
LEMMA SlirpInv == SandboxInv /\ (SlirpReady \/ SlirpDies) => SandboxInv'
  <1>1. ASSUME SandboxInv, SlirpReady PROVE SandboxInv'
    BY <1>1
    DEF SandboxInv, TypeOK, PlanOfInput, ProgramAgrees, HelperKnows, ConfinementGrows,
        FilesFit, CodeIsResult, InPlace, Opened, AcceptsNetwork, Mountable, Statuses, Pipes,
        Measures, SlirpReady, program, children
  <1>2. ASSUME SandboxInv, SlirpDies PROVE SandboxInv'
    BY <1>2
    DEF SandboxInv, TypeOK, PlanOfInput, ProgramAgrees, HelperKnows, ConfinementGrows,
        FilesFit, CodeIsResult, InPlace, Opened, AcceptsNetwork, Mountable, Statuses, Pipes,
        Measures, SlirpDies, program, children
  <1> QED
    BY <1>1, <1>2

-----------------------------------------------------------------------------
(* The specification.                                                        *)

LEMMA InitInv == Init => SandboxInv
  <1> SUFFICES ASSUME Init PROVE SandboxInv
    OBVIOUS
  <1>1. /\ PlanOfInput /\ cli = "idle" /\ helper.step = "none"
        /\ helper.rc = None /\ helper.term = None
    BY DEF Init, PlanOfInput
  <1>2. bwrap = "none" /\ slirp = "none" /\ pids = {} /\ files = {} /\ pipes = {} /\ measures = {}
    BY DEF Init
  <1>3. TypeOK /\ CodeIsResult
    BY HelperAssumption DEF Init, TypeOK, Statuses, CodeIsResult
  <1> QED
    BY <1>1, <1>2, <1>3
    DEF SandboxInv, ProgramAgrees, HelperKnows, ConfinementGrows, InPlace, FilesFit

LEMMA StutterInv == SandboxInv /\ UNCHANGED vars => SandboxInv'
  BY DEF SandboxInv, TypeOK, PlanOfInput, ProgramAgrees, HelperKnows, ConfinementGrows,
      FilesFit, CodeIsResult, InPlace, Opened, AcceptsNetwork, Mountable, Statuses, Pipes,
      Measures, vars, children

LEMMA ProgramInv == SandboxInv /\ Program => SandboxInv'
  BY RefuseInv, MakePlanInv, LaunchInv, CollectInv DEF Program

LEMMA HelperInv == SandboxInv /\ HelperStep => SandboxInv'
  <1> SUFFICES ASSUME SandboxInv, HelperStep PROVE SandboxInv'
    OBVIOUS
  <1>1. CASE \E ok \in BOOLEAN : HelperOk(ok)
    BY <1>1, BeginInv, PrepareArgumentsInv, ConfineInv DEF HelperOk
  <1>2. CASE Spawn \/ NoteBwrap \/ SpawnSlirp \/ NoteSlirp \/ OpenGate
    BY <1>2, SpawnInv
  <1>3. CASE ReadInfo \/ ReadStatus \/ ReadReady
    BY <1>3, ReadInv
  <1>4. CASE Wait \/ Look \/ KillTarget
    BY <1>4, WaitInv, KillTargetInv
  <1>5. CASE Stop \/ Exit \/ CleanupSlirp \/ CleanupBwrap \/ ReplacedEnds
    BY <1>5, StopInv, CleanupBwrapInv, ReplacedEndsInv
  <1> QED
    BY <1>1, <1>2, <1>3, <1>4, <1>5 DEF HelperStep

LEMMA NextInv == SandboxInv /\ [Next]_vars => SandboxInv'
  <1>1. SandboxInv /\ Children => SandboxInv'
    BY BwrapInv, SlirpInv DEF Children
  <1> QED
    BY <1>1, StutterInv, ProgramInv, HelperInv, SignalInv DEF Next

\* The invariant of a launch: what the helper knows of its children, what is in
\* place at each of its steps, and whose code it is about to leave with.
THEOREM SandboxInvHolds == Spec => []SandboxInv
  <1>1. Init => SandboxInv
    BY InitInv
  <1>2. SandboxInv /\ [Next]_vars => SandboxInv'
    BY NextInv
  <1> QED
    BY <1>1, <1>2, PTL DEF Spec

\* Of the arguments for PATH the tripwire's is the last, after the policy's.
LEMMA PathIsTripwire == plan.honeypot => TargetPath = "tripwire"
  <1> SUFFICES ASSUME plan.honeypot PROVE TargetPath = "tripwire"
    OBVIOUS
  <1> DEFINE Given == {"tripwire", plan.path}
             own == IF plan.path # None THEN <<plan.path>> ELSE <<>>
             first == <<"tripwire">> \o own
             last == <<"tripwire">>
  <1>1. PathArguments = first \o last
    BY DEF PathArguments
  <1>2. /\ last \in Seq(Given) /\ Len(last) = 1 /\ last[1] = "tripwire"
        /\ own \in Seq(Given)
    <2>1. ASSUME NEW S, NEW x \in S PROVE <<x>> \in Seq(S) /\ Len(<<x>>) = 1 /\ <<x>>[1] = x
      OBVIOUS
    <2>2. <<"tripwire">> \in Seq(Given) /\ <<plan.path>> \in Seq(Given) /\ <<>> \in Seq(Given)
      BY <2>1
    <2> QED
      BY <2>1, <2>2
  <1>3. first \in Seq(Given)
    BY <1>2, ConcatProperties
  <1> HIDE DEF first, last, Given
  <1>4. Len(first) \in Nat /\ Len(first \o last) = Len(first) + 1
    <2>1. Len(first) \in Nat
      BY <1>3, LenProperties
    <2>2. Len(first \o last) = Len(first) + Len(last)
      BY <1>2, <1>3, ConcatProperties
    <2> QED
      BY <1>2, <2>1, <2>2
  <1>5. (first \o last)[Len(first) + 1] = last[1]
    BY <1>2, <1>3, <1>4, ConcatProperties
  <1> QED
    BY <1>1, <1>2, <1>4, <1>5 DEF TargetPath

\* No target runs with a network before its whole confinement is in place, for
\* every policy, and whichever process died while it was set up; one of the
\* strict profile has the tripwire for its PATH and none of the directories the
\* helper knows by name (ores-proc-isolate.sh:143-223, 306-396).
THEOREM TenantIsConfinedHolds == Spec => []TenantIsConfined
  <1>1. SandboxInv => TenantIsConfined
    BY PathIsTripwire DEF SandboxInv, ConfinementGrows, Mountable, TenantIsConfined
  <1> QED
    BY <1>1, SandboxInvHolds, PTL

\* The group of a planned process is the only one any part of the policy names
\* for it, for any number of processes and groups (config.rs:225-277, 338-369).
THEOREM GroupIsUnanimousHolds == Spec => []GroupIsUnanimous
  <1>1. SandboxInv => GroupIsUnanimous
    <2> SUFFICES ASSUME PlanOfInput, cli = "resolved" PROVE GroupIsUnanimous
      BY DEF SandboxInv, GroupIsUnanimous
    <2>1. plan.group = Layer(input.config, input.process)
      BY DEF PlanOfInput, Prepare, Resolve
    <2> QED
      BY <2>1, LayerIsUnanimous DEF PlanOfInput, GroupIsUnanimous
  <1> QED
    BY <1>1, SandboxInvHolds, PTL

\* The helper refuses no network of a policy which validates: the one half of the
\* rule it can check, on the loopback, the validation has checked before
\* (config.rs:397-405, ores-proc-isolate.sh:20, 98-101).
THEOREM HelperAgreesHolds == Spec => []HelperAgrees
  <1>1. SandboxInv => HelperAgrees
    BY DEF SandboxInv, ProgramAgrees, HelperAgrees
  <1> QED
    BY <1>1, SandboxInvHolds, PTL

\* A helper that exits leaves no process and no file behind, with the exceptions
\* the property names (ores-proc-isolate.sh:123-137, 435-447).
THEOREM NothingLeftHolds == Spec => []NothingLeft
  <1>1. SandboxInv => NothingLeft
    BY DEF SandboxInv, TypeOK, ProgramAgrees, HelperKnows, FilesFit, NothingLeft
  <1> QED
    BY <1>1, SandboxInvHolds, PTL

\* Unless the helper was told to stop in the middle of a command, success is
\* reported only for a target that succeeded; and once the target has been let go,
\* and nobody was told, its own code or 125 (mod.rs:177,
\* ores-proc-isolate.sh:123-137, 396-447).
THEOREM ExitIsTargetsHolds == Spec => []ExitIsTargets
  <1>1. SandboxInv => ExitIsTargets
    BY DEF SandboxInv, ProgramAgrees, CodeIsResult, ExitIsTargets
  <1> QED
    BY <1>1, SandboxInvHolds, PTL

===============================================================================
