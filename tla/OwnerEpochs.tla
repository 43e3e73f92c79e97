----------------------------- MODULE OwnerEpochs -----------------------------
(***************************************************************************)
(* What claim_owner/1 of supervisor/src/bmscl_durable_store.erl gives the  *)
(* processes that claim one scope: every claim takes an epoch above all    *)
(* earlier ones, and an epoch is held by the process that claimed it until *)
(* that process ends.  Both the actors of CriticalSection and the          *)
(* processes a CriticalSectionRegistry starts implement it.                *)
(***************************************************************************)
EXTENDS Naturals

CONSTANT Claimants

VARIABLES
  latest,  \* the epoch claimed last
  held     \* the epoch each process holds, 0 for none

ClaimsInit == latest = 0 /\ held = [p \in Claimants |-> 0]

\* A claim that nobody holds was taken elsewhere, or its answer was lost.
ClaimsNext ==
  /\ latest' \in {latest, latest + 1}
  /\ \A p \in Claimants :
       \/ held'[p] \in {held[p], 0}
       \/ /\ held[p] = 0
          /\ held'[p] = latest + 1
          /\ latest' = latest + 1
  /\ \A p, q \in Claimants :
       held'[p] = latest + 1 /\ held'[q] = latest + 1 => p = q

ClaimsSpec == ClaimsInit /\ [][ClaimsNext]_<<latest, held>>
=============================================================================
