------------------------------ MODULE SandboxPlan ------------------------------
(***************************************************************************)
(* From a policy file and a command line to the plan of one launch: pure   *)
(* functions, without state.                                               *)
(*                                                                         *)
(* Source: proc-isolation-proof/src/config.rs (validate, resolve_process,  *)
(* membership_map), flags.rs (parse_from) and platform/mod.rs              *)
(* (prepare_plan) on Linux.  Names, values and paths are members of small  *)
(* sets: of a path it matters what it is once canonical, of a variable     *)
(* whether it is PATH, forbidden or neither.                               *)
(***************************************************************************)
EXTENDS FiniteSets, Integers

CONSTANTS
  Processes,   \* configured processes
  Groups,      \* configured groups
  Unknown,     \* a name that is configured nowhere
  None

ASSUME SandboxPlanAssumption ==
  /\ Groups # {} /\ Processes # {}
  /\ {Unknown, None} \cap (Processes \cup Groups) = {}
  /\ Unknown # None

\* Paths a policy may name: plain data, a link to it, a link to the root of the
\* host, a link to a directory the helper knows by name (/bin, /usr/bin), a
\* directory above or below such a one (/usr, /usr/local/bin), and the root.
Paths == {"data", "link", "root_link", "bin_link", "usr", "root"}
Canonical == [data |-> "data", link |-> "data", root_link |-> "root",
              bin_link |-> "bin", usr |-> "usr", root |-> "root"]

Keys == {"PATH", "PLAIN", "LD_PRELOAD"}

Policy == [mode : {"none", "external"}, deny_loopback : BOOLEAN,
           deny_private : BOOLEAN, read_only : SUBSET Paths,
           environment : SUBSET Keys]

\* What a policy file says, each name being known or not.
Config == [default : Groups \cup {Unknown},
           members : [Groups -> SUBSET (Processes \cup {Unknown})],
           explicit : [Processes -> Groups \cup {Unknown, None}],
           environment : [Processes -> SUBSET Keys],
           policy : [Groups -> Policy]]

-----------------------------------------------------------------------------
(* Config::validate.                                                       *)

ValidEnvironment(keys) == "LD_PRELOAD" \notin keys

\* Mutant: external networking may reach the loopback.
StrictPrivateOnly(policy) == policy.mode = "external" => policy.deny_private

StrictNetwork(policy) ==
  policy.mode = "external" => policy.deny_loopback /\ policy.deny_private

ValidGroupPolicy(policy) ==
  /\ StrictNetwork(policy)
  /\ "root" \notin policy.read_only

\* Mutant: the last of two sources wins, whatever the other says.
AgreesUnchecked(config, p) == TRUE

\* A process that says its group is a member of no other.
Agrees(config, p) ==
  config.explicit[p] # None =>
    \A g \in Groups : p \in config.members[g] => g = config.explicit[p]

Valid(config) ==
  /\ config.default \in Groups
  /\ \A g \in Groups :
       /\ ValidEnvironment(config.policy[g].environment)
       /\ ValidGroupPolicy(config.policy[g])
       /\ config.members[g] \subseteq Processes
       /\ \A h \in Groups \ {g} : config.members[g] \cap config.members[h] = {}
  /\ \A p \in Processes :
       /\ ValidEnvironment(config.environment[p])
       /\ config.explicit[p] \in Groups \cup {None}
       /\ Agrees(config, p)

-----------------------------------------------------------------------------
(* Config::resolve_process, over the layers of membership_map.             *)

Layer(config, p) ==
  LET members == {g \in Groups : p \in config.members[g]} IN
  CASE config.explicit[p] # None -> config.explicit[p]
    [] config.explicit[p] = None /\ members # {} -> CHOOSE g \in members : TRUE
    [] OTHER -> config.default

\* Each variable is the process's own, or else its group's.
Resolve(config, p) ==
  LET group == Layer(config, p) IN
  [group |-> group,
   policy |-> config.policy[group],
   environment |-> [k \in config.policy[group].environment \cup config.environment[p] |->
                      IF k \in config.environment[p] THEN "process" ELSE "group"]]

-----------------------------------------------------------------------------
(* parse_from: commands, each with the number of its positional arguments. *)

Commands == {"check", "doctor", "explain", "run", "other"}

Parses(call) ==
  \/ call.command \in {"check", "doctor"} /\ call.positional = 0
  \/ call.command = "explain" /\ call.positional = 1
  \/ call.command = "run" /\ call.positional > 0

\* prepare_plan: what is exposed is canonical, and never the root of the host.
Preparable(resolved) ==
  \A path \in resolved.policy.read_only : Canonical[path] # "root"

Prepare(resolved, honeypot) ==
  [group |-> resolved.group,
   mode |-> resolved.policy.mode,
   deny_loopback |-> resolved.policy.deny_loopback,
   deny_private |-> resolved.policy.deny_private,
   read_only |-> {Canonical[path] : path \in resolved.policy.read_only},
   path |-> IF "PATH" \in DOMAIN resolved.environment
            THEN resolved.environment["PATH"] ELSE None,
   honeypot |-> honeypot]

=============================================================================
