--------------------------- MODULE RequestAuthority ----------------------------
(***************************************************************************)
(* How the runtime API takes a signed request at most once, and what it    *)
(* counts for a shard (runtime_auth.rs, main.rs, lib.rs).                  *)
(*                                                                         *)
(* A contract names a request, a time of issue, an expiry and a nonce; the *)
(* caller may send it again when it has seen no answer, and the network    *)
(* may deliver it twice.  A handler reads the clock to verify the          *)
(* contract, reads it once more, waits for the lock of the consumed        *)
(* nonces, and drops on the way the nonces that had expired by its second  *)
(* reading.  A contract that verifies is taken as the one that was signed. *)
(* The clock is the wall clock, and is assumed never to be set back.       *)
(*                                                                         *)
(* The meter charges a shard for memory over time: what its control group  *)
(* has in use now, for all the time since the last reading.  It takes      *)
(* neither the shard's gate nor the barrier.  Amounts are left out: what   *)
(* is counted is the time for which anything at all is charged.  Nonces    *)
(* and record are in memory: a restart forgets both.                       *)
(***************************************************************************)
EXTENDS Naturals

CONSTANTS Nonces,    \* the contracts ever signed, named by their nonces
          Handlers,  \* requests in progress at one time
          MaxTtl,    \* the longest a contract may last: 60 s in the code
          Skew,      \* how far in the future it may be issued: 5 s in the code
          MaxTime,   \* bound on the clock
          MaxRestarts,  \* bound on restarts
          None

\* Of a contract, beside its nonce, only the times matter here.
Contract == [issued : Nat, expires : Nat]

ASSUME AuthorityAssumption ==
  /\ MaxTtl \in Nat /\ Skew \in Nat /\ MaxTime \in Nat /\ MaxRestarts \in Nat
  /\ None \notin Nat /\ None \notin Nonces /\ None \notin Contract

VARIABLES now,       \* the clock, in the seconds the code reads
          contract,  \* [Nonces -> [issued, expires], or None while unsigned]
          handler,   \* [Handlers -> [pc, nonce, seen]]
          consumed,  \* [Nonces -> the expiry of a consumed nonce, or None]
          runs,      \* how often each request ran since the last restart
          record,    \* the shard's record: [process, charged, metered]
          group,     \* whether its control group exists, of this or an earlier boot
          restarts,  \* how often the host was restarted
          late,      \* history: nonces consumed after their contract had expired
          born,      \* history: when the record was made
          used,      \* history: for how long there was a process, in this record
          idle,      \* history: for how long there was none, since the last reading
          unused     \* history: idle time that readings of a shard that does not
                     \* run have charged

vars == <<now, contract, handler, consumed, runs, record, group, restarts, late,
          born, used, idle, unused>>
requestVars == <<contract, handler, consumed, runs, late>>
meterVars == <<record, group, born, used, idle, unused>>

Waiting == [pc |-> "idle", nonce |-> None, seen |-> 0]
NewRecord == [process |-> "none", charged |-> 0, metered |-> now]

Init ==
  /\ now = 0
  /\ contract = [n \in Nonces |-> None]
  /\ handler = [h \in Handlers |-> Waiting]
  /\ consumed = [n \in Nonces |-> None]
  /\ runs = [n \in Nonces |-> 0]
  /\ record = NewRecord
  /\ group = FALSE
  /\ restarts = 0
  /\ late = {}
  /\ born = 0 /\ used = 0 /\ idle = 0 /\ unused = 0

Tick ==
  /\ now < MaxTime
  /\ now' = now + 1
  /\ IF record.process = "none"
     THEN idle' = idle + 1 /\ UNCHANGED used
     ELSE used' = used + 1 /\ UNCHANGED idle
  /\ UNCHANGED <<requestVars, record, group, born, unused, restarts>>

\* The control plane, outside the program: its clock may be ahead of ours, and
\* it may ask for more than the host will take.
Issue(n, ahead, ttl) ==
  /\ contract[n] = None
  /\ contract' = [contract EXCEPT ![n] = [issued |-> now + ahead,
                                          expires |-> now + ahead + ttl]]
  /\ UNCHANGED <<now, handler, consumed, runs, late, meterVars, restarts>>

-----------------------------------------------------------------------------
(* authorize_runtime_request *)

\* Mutant: only the expiry is looked at.
CurrentForAnyTime(c) == c.expires >= now

\* The checks of verify that concern time.
Current(c) ==
  /\ c.issued <= now + Skew
  /\ c.expires >= now
  /\ c.expires > c.issued
  /\ c.expires - c.issued <= MaxTtl

\* A delivery that verifies; what does not is refused and changes nothing.
Deliver(h, n) ==
  /\ handler[h].pc = "idle"
  /\ contract[n] # None
  /\ Current(contract[n])
  /\ handler' = [handler EXCEPT ![h] = [pc |-> "verified", nonce |-> n, seen |-> 0]]
  /\ UNCHANGED <<now, contract, consumed, runs, late, meterVars, restarts>>

ReadClock(h) ==
  /\ handler[h].pc = "verified"
  /\ handler' = [handler EXCEPT ![h] = [pc |-> "lock", nonce |-> handler[h].nonce,
                                        seen |-> now]]
  /\ UNCHANGED <<now, contract, consumed, runs, late, meterVars, restarts>>

\* Mutant: a nonce is dropped in the second in which its contract expires.
RetainedBefore(t) ==
  [n \in Nonces |-> IF consumed[n] # None /\ consumed[n] > t THEN consumed[n] ELSE None]

\* The nonces a handler keeps that has read the clock at t.
Retained(t) ==
  [n \in Nonces |-> IF consumed[n] # None /\ consumed[n] >= t THEN consumed[n] ELSE None]

\* consume_runtime_nonce: retain, insert, and refuse what was there already.
Consume(h) ==
  LET n == handler[h].nonce
      kept == Retained(handler[h].seen)
  IN /\ handler[h].pc = "lock"
     /\ consumed' = [kept EXCEPT ![n] = contract[n].expires]
     /\ IF kept[n] = None
        THEN /\ handler' = [handler EXCEPT ![h] = [pc |-> "run", nonce |-> n, seen |-> 0]]
             /\ late' = IF now > contract[n].expires THEN late \cup {n} ELSE late
        ELSE /\ handler' = [handler EXCEPT ![h] = Waiting]
             /\ UNCHANGED late
     /\ UNCHANGED <<now, contract, runs, meterVars, restarts>>

\* The request itself: a touch adds one to the record's requests.
Run(h) ==
  /\ handler[h].pc = "run"
  /\ runs' = [runs EXCEPT ![handler[h].nonce] = @ + 1]
  /\ handler' = [handler EXCEPT ![h] = Waiting]
  /\ UNCHANGED <<now, contract, consumed, late, meterVars, restarts>>

-----------------------------------------------------------------------------
(* The process and its meter *)

\* boot_vm starts the process and puts it into the shard's control group, then
\* waits for it and configures it.
Boot ==
  /\ record.process = "none"
  /\ record' = [record EXCEPT !.process = "boots"]
  /\ group' = TRUE
  /\ UNCHANGED <<now, requestVars, born, used, idle, unused, restarts>>

\* Mutant: the meter goes on from its last reading.
StartedAsMetered == [process |-> "runs", charged |-> record.charged, metered |-> record.metered]

\* The end of start(): the time before it is not charged.
Started == [process |-> "runs", charged |-> record.charged, metered |-> now]

Start ==
  /\ record.process = "boots"
  /\ record' = Started
  /\ idle' = 0
  /\ UNCHANGED <<now, requestVars, group, born, used, unused, restarts>>

\* hibernate(), terminate(), a boot that fails or a machine that ends: nobody
\* reads the meter, and nobody removes the control group.
Halt ==
  /\ record.process # "none"
  /\ record' = [record EXCEPT !.process = "none"]
  /\ UNCHANGED <<now, requestVars, group, born, used, idle, unused, restarts>>

\* Whether memory.current shows anything in use: a running shard has memory, and
\* without one there may be some or none.  A process that was told to end is not
\* waited for, and what was charged to the group for files may stay in it.
MemoryInUse == IF record.process = "runs" THEN {TRUE} ELSE BOOLEAN

\* metering(), in whatever state the record is; it fails, and changes nothing,
\* if there is no control group to read.
Meter ==
  /\ group
  /\ \E inUse \in MemoryInUse :
       /\ record' = [record EXCEPT !.metered = now,
                       !.charged = IF inUse THEN @ + (now - record.metered) ELSE @]
       /\ unused' = IF inUse /\ record.process # "runs" THEN unused + idle ELSE unused
  /\ idle' = 0
  /\ UNCHANGED <<now, requestVars, group, born, used, restarts>>

\* The host alone, which leaves the group, or the machine; the shard may also be
\* registered with another epoch, which has a group of its own.
Restart ==
  /\ restarts < MaxRestarts
  /\ restarts' = restarts + 1
  /\ handler' = [h \in Handlers |-> Waiting]
  /\ consumed' = [n \in Nonces |-> None]
  /\ runs' = [n \in Nonces |-> 0]
  /\ record' = NewRecord
  /\ group' \in {group, FALSE}
  /\ late' = {}
  /\ born' = now /\ used' = 0 /\ idle' = 0 /\ unused' = 0
  /\ UNCHANGED <<now, contract>>

Next ==
  \/ Tick \/ Boot \/ Start \/ Halt \/ Meter \/ Restart
  \/ \E n \in Nonces, ahead \in 0 .. Skew + 1, ttl \in 0 .. MaxTtl + 1 : Issue(n, ahead, ttl)
  \/ \E h \in Handlers :
       \/ \E n \in Nonces : Deliver(h, n)
       \/ ReadClock(h) \/ Consume(h) \/ Run(h)

Spec == Init /\ [][Next]_vars

-----------------------------------------------------------------------------
(* Properties *)

TypeOK ==
  /\ now \in Nat
  /\ contract \in [Nonces -> Contract \cup {None}]
  /\ handler \in [Handlers -> [pc : {"idle", "verified", "lock", "run"},
                               nonce : Nonces \cup {None}, seen : Nat]]
  /\ consumed \in [Nonces -> Nat \cup {None}]
  /\ runs \in [Nonces -> Nat]
  /\ record \in [process : {"none", "boots", "runs"}, charged : Nat, metered : Nat]
  /\ group \in BOOLEAN
  /\ restarts \in Nat
  /\ late \subseteq Nonces
  /\ {born, used, idle, unused} \subseteq Nat

\* However often a request is sent or delivered, it runs at most once until the
\* host is restarted, unless a handler comes to consume its nonce only after the
\* contract has expired: then the nonce may have been dropped already
\* (authorize_runtime_request, consume_runtime_nonce).
AtMostOnce == \A n \in Nonces : runs[n] <= 1 \/ n \in late

\* A nonce is remembered for no longer than a contract can last from now: what
\* the table holds is bounded by the requests of one such span (verify).
NoncesExpire == \A n \in Nonces : consumed[n] # None => consumed[n] <= now + Skew + MaxTtl

\* No millisecond is charged twice, whatever the order of readings, boots, ends
\* and restarts; and none in which there was no process, but for those that a
\* reading charges which finds memory in use and no running shard: it comes
\* during a boot, or after an end, before the memory is given back.  A reading
\* of a running shard never charges idle time (metering, start).
ChargedWhileUsed ==
  /\ record.charged <= now - born
  /\ record.charged <= used + unused

-----------------------------------------------------------------------------
(* Why they hold *)

\* A handler at work has a contract that was current when it was delivered.
HandlersHoldContracts ==
  \A h \in Handlers : handler[h].pc # "idle" =>
    /\ handler[h].nonce \in Nonces
    /\ contract[handler[h].nonce] # None
    /\ contract[handler[h].nonce].expires <= now + Skew + MaxTtl
    /\ handler[h].seen <= now

\* The table has the expiry that the contract has.
TableAgrees ==
  \A n \in Nonces : consumed[n] # None =>
    contract[n] # None /\ consumed[n] = contract[n].expires

Runs(h, n) == handler[h].pc = "run" /\ handler[h].nonce = n

\* A request that ran or is about to, once, is in the table or out of time.
TakenOnce ==
  \A n \in Nonces \ late :
    /\ \A h \in Handlers : Runs(h, n) =>
         runs[n] = 0 /\ \A g \in Handlers : Runs(g, n) => g = h
    /\ runs[n] <= 1
    /\ runs[n] = 1 \/ (\E h \in Handlers : Runs(h, n)) =>
         contract[n] # None /\ (consumed[n] # None \/ now > contract[n].expires)

\* What the next reading would charge has been used, or is idle time; and there
\* is none of it while the shard runs.
MeterBehind ==
  /\ born <= record.metered /\ record.metered <= now
  /\ record.charged <= record.metered - born
  /\ record.charged <= used + unused
  /\ record.charged + (now - record.metered) <= used + unused + idle
  /\ record.process = "runs" => idle = 0

\* The inductive invariant: the types, and why a request that was taken cannot
\* be taken again and why the meter never runs ahead (consume_runtime_nonce,
\* metering).
AuthorityInv ==
  /\ TypeOK
  /\ NoncesExpire
  /\ HandlersHoldContracts
  /\ TableAgrees
  /\ TakenOnce
  /\ MeterBehind
=============================================================================
