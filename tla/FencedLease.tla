----------------------------- MODULE FencedLease -----------------------------
(***************************************************************************)
(* What a critical section promises, without actors, caches, versions or   *)
(* messages: one lease, an owner epoch that only grows, and three ways the *)
(* lease may change.  This is the contract that the comments of            *)
(* supervisor/src/bmscl_durable_store.erl and the bounded model            *)
(* supervisor/conformance/critical_section_formal_model.rs describe.       *)
(***************************************************************************)
EXTENDS Naturals

CONSTANTS Holders, Requests, None, MaxSequence

VARIABLES
  now,     \* the wall clock
  epoch,   \* the current owner epoch
  lease,   \* [sequence, holder, request_id, expires_at]
  minter   \* the owner epoch that minted lease.sequence

leaseVars == <<now, epoch, lease, minter>>

Unheld(n) == [sequence |-> n, holder |-> None, request_id |-> None,
              expires_at |-> 0]

LeaseInit ==
  /\ now = 0
  /\ epoch = 0
  /\ minter = 0
  /\ lease = Unheld(0)

TimePasses == now' > now /\ UNCHANGED <<epoch, lease, minter>>

\* A new owner fences every earlier one; the lease itself is not touched.
Failover == epoch' = epoch + 1 /\ UNCHANGED <<now, lease, minter>>

\* A fresh fence, only for a lease that is free or past its expiry.
Mint ==
  /\ lease.holder = None \/ lease.expires_at <= now
  /\ lease.sequence < MaxSequence
  /\ lease' \in [sequence : {lease.sequence + 1}, holder : Holders,
                 request_id : Requests \cup {None}, expires_at : Nat]
  /\ minter' = epoch
  /\ UNCHANGED <<now, epoch>>

\* Renewal and release belong to the owner epoch that minted the lease.
Extend ==
  /\ lease.holder # None
  /\ minter = epoch
  /\ lease' \in [sequence : {lease.sequence}, holder : {lease.holder},
                 request_id : {lease.request_id}, expires_at : Nat]
  /\ UNCHANGED <<now, epoch, minter>>

GiveUp ==
  /\ lease.holder # None
  /\ minter = epoch
  /\ lease' = Unheld(lease.sequence)
  /\ UNCHANGED <<now, epoch, minter>>

LeaseNext == TimePasses \/ Failover \/ Mint \/ Extend \/ GiveUp

LeaseSpec == LeaseInit /\ [][LeaseNext]_leaseVars
=============================================================================
