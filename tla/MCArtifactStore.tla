---------------------------- MODULE MCArtifactStore ----------------------------
(* Two packages of one set of modules, which go to the same directory.       *)
EXTENDS ArtifactStore

Package(source, policy, modules) ==
  LET report == [source |-> source, profile |-> "v2", admitted |-> TRUE, limits |-> 1]
      provenance == [source |-> source, policy |-> policy, builder |-> "tracked",
                     build |-> modules, sdk |-> FALSE]
      manifest == [source |-> source, profile |-> "v2", build |-> modules,
                   provenance |-> provenance, limits |-> 1, config |-> source]
  IN [report |-> report, beam |-> modules, provenance |-> provenance,
      manifest |-> manifest, attestation |-> [manifest |-> manifest, report |-> report]]

Modules(code) == {[name |-> n, code |-> code] : n \in {"worker", "helper"}}

MCWellFormed(b) == b = "tracked"
MCTrusts(prov) == prov.policy \in {"strict", "lax"}
MCProfileAllows(m) == m.profile = "v2"
MCValidName(n) == n \in {"worker", "helper"}
MCAtomsFit(modules) == Cardinality(modules) < 3

MCPackages == {Package("plain", "strict", Modules(1)), Package("comment", "lax", Modules(1))}
=============================================================================
