----------------------- MODULE MCCriticalSectionRegistry -----------------------
(* Two tenants, the first with two keys when Keys has three members.        *)
EXTENDS CriticalSectionRegistry, TLC

CONSTANTS k1, k2, t1, t2

MCTenantOf == (k1 :> t1) @@ (k2 :> t2)

Symmetry == Permutations(Pids)
=============================================================================
