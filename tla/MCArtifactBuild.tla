---------------------------- MODULE MCArtifactBuild ----------------------------
(* A source; one with another comment, which compiles alike; one that        *)
(* depends on the SDK and has other limits; and two that the static check    *)
(* lets through: one that spawns, and has a module that is called like the   *)
(* SDK's, and one that opens a socket.  A build may be of a builder that has *)
(* no name; the lax policy's SDK is not trusted, and its profile needs what  *)
(* the plain source does not ask for.                                        *)
EXTENDS ArtifactBuild

MCSources == {"plain", "comment", "sdk", "spawns", "socket"}
MCPolicies == {"strict", "lax"}
MCSdkNames == {"bmscl", "bmscl@cluster"}
MCSdk == {[name |-> "bmscl", code |-> "sdk"]}
MCAdmits(p, s) == p = "lax" \/ s # "comment"
MCRejects(p, s) == p = "strict" /\ s = "spawns"
MCCompiled(s) == {[name |-> "worker", code |-> IF s = "comment" THEN "plain" ELSE s]}
                 \cup (IF s = "spawns" THEN {[name |-> "bmscl", code |-> s]} ELSE {})
MCImporting(m) == m.code = "socket"
MCUsesSdk(s) == s = "sdk"
MCProfile(p) == IF p = "strict" THEN "v2" ELSE "v3"
MCLimits(p, s) == IF s = "sdk" /\ p = "lax" THEN 2 ELSE 1
MCBuilders == {"tracked", "local-untracked"}
MCWellFormed(b) == b = "tracked"
MCTrusts(prov) == prov.policy = "lax" => ~prov.sdk
MCProfileAllows(m) == m.profile = "v3" => m.config # "plain"
MCValidName(n) == n \in {"worker", "bmscl"}
MCAtomsFit(modules) == Cardinality(modules) < 3
=============================================================================
