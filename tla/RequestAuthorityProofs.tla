------------------------- MODULE RequestAuthorityProofs -------------------------
(***************************************************************************)
(* AuthorityInv holds for every number of contracts and handlers and for   *)
(* every length of a contract, skew and clock; a request is taken once and *)
(* the meter does not run ahead because of it.                             *)
(*                                                                         *)
(* The step that matters is Consume.  If the table does not have the nonce *)
(* any more, and the request ran or runs, TakenOnce says that its contract *)
(* has expired, so that the handler is late; and a nonce that this handler *)
(* drops belongs to a contract that has expired, because the handler's     *)
(* reading of the clock is not ahead of the clock.                         *)
(***************************************************************************)
EXTENDS RequestAuthority, TLAPS

\* The part of the invariant that is about requests, and the part of the types.
RequestInv == NoncesExpire /\ HandlersHoldContracts /\ TableAgrees /\ TakenOnce

RequestTypes ==
  /\ contract \in [Nonces -> Contract \cup {None}]
  /\ handler \in [Handlers -> [pc : {"idle", "verified", "lock", "run"},
                               nonce : Nonces \cup {None}, seen : Nat]]
  /\ consumed \in [Nonces -> Nat \cup {None}]
  /\ runs \in [Nonces -> Nat]
  /\ late \subseteq Nonces

MeterTypes ==
  /\ record \in [process : {"none", "boots", "runs"}, charged : Nat, metered : Nat]
  /\ group \in BOOLEAN
  /\ {born, used, idle, unused} \subseteq Nat

LEMMA Parts ==
  /\ TypeOK <=> now \in Nat /\ restarts \in Nat /\ RequestTypes /\ MeterTypes
  /\ AuthorityInv <=> TypeOK /\ RequestInv /\ MeterBehind
  BY DEF TypeOK, RequestTypes, MeterTypes, AuthorityInv, RequestInv

LEMMA PartsNext ==
  /\ TypeOK' <=> now' \in Nat /\ restarts' \in Nat /\ RequestTypes' /\ MeterTypes'
  /\ AuthorityInv' <=> TypeOK' /\ RequestInv' /\ MeterBehind'
  BY DEF TypeOK, RequestTypes, MeterTypes, AuthorityInv, RequestInv

LEMMA WaitingType ==
  Waiting \in [pc : {"idle", "verified", "lock", "run"}, nonce : Nonces \cup {None}, seen : Nat]
  BY DEF Waiting

LEMMA RequestFrame ==
  ASSUME RequestTypes, RequestInv, UNCHANGED <<requestVars, now>>
  PROVE  RequestTypes' /\ RequestInv'
  BY DEF RequestTypes, RequestInv, requestVars, NoncesExpire, HandlersHoldContracts,
         TableAgrees, TakenOnce, Runs

LEMMA MeterFrame ==
  ASSUME MeterTypes, MeterBehind, UNCHANGED <<meterVars, now>>
  PROVE  MeterTypes' /\ MeterBehind'
  BY DEF MeterTypes, MeterBehind, meterVars

-----------------------------------------------------------------------------
(* Time and the meter *)

LEMMA InitAuthority == Init => AuthorityInv
  <1> SUFFICES ASSUME Init PROVE AuthorityInv
    OBVIOUS
  <1>1. \A h \in Handlers : handler[h] = Waiting /\ handler[h].pc = "idle"
    BY DEF Init, Waiting
  <1>2. RequestTypes
    BY WaitingType DEF Init, RequestTypes
  <1>3. record = [process |-> "none", charged |-> 0, metered |-> 0]
    BY DEF Init, NewRecord
  <1>4. MeterTypes /\ now \in Nat /\ restarts \in Nat
    <2>1. group \in BOOLEAN
      BY DEF Init
    <2>4. {born, used, idle, unused} \subseteq Nat
      BY DEF Init
    <2>2. now \in Nat /\ restarts \in Nat
      BY DEF Init
    <2>3. record \in [process : {"none", "boots", "runs"}, charged : Nat, metered : Nat]
      BY <1>3
    <2> QED
      BY <2>1, <2>2, <2>3, <2>4 DEF MeterTypes
  <1>5. RequestInv
    BY <1>1 DEF Init, RequestInv, NoncesExpire, HandlersHoldContracts, TableAgrees,
               TakenOnce, Runs
  <1>6. MeterBehind
    BY <1>3 DEF Init, MeterBehind
  <1> QED
    BY <1>2, <1>4, <1>5, <1>6, Parts

LEMMA TickInv == AuthorityInv /\ Tick => AuthorityInv'
  <1> SUFFICES ASSUME AuthorityInv, Tick PROVE AuthorityInv'
    OBVIOUS
  <1>1. now \in Nat /\ restarts \in Nat /\ RequestTypes /\ MeterTypes /\ RequestInv /\ MeterBehind
    BY Parts
  <1>2. now' = now + 1 /\ UNCHANGED <<requestVars, record, group, born, unused, restarts>>
    BY DEF Tick
  <1>3. RequestTypes'
    BY <1>1, <1>2 DEF RequestTypes, requestVars
  <1>4. NoncesExpire'
    BY <1>1, <1>2, AuthorityAssumption DEF RequestTypes, RequestInv, requestVars, NoncesExpire
  <1>5. HandlersHoldContracts'
    <2> SUFFICES ASSUME NEW h \in Handlers, handler[h].pc # "idle"
        PROVE  /\ handler[h].nonce \in Nonces
               /\ contract[handler[h].nonce] # None
               /\ contract[handler[h].nonce].expires <= now + 1 + Skew + MaxTtl
               /\ handler[h].seen <= now + 1
      BY <1>2 DEF HandlersHoldContracts, requestVars
    <2>1. /\ handler[h].nonce \in Nonces
          /\ contract[handler[h].nonce] # None
          /\ contract[handler[h].nonce].expires <= now + Skew + MaxTtl
          /\ handler[h].seen <= now
      BY <1>1 DEF RequestInv, HandlersHoldContracts
    <2>2. contract[handler[h].nonce] \in Contract /\ handler[h].seen \in Nat
      BY <1>1, <2>1 DEF RequestTypes
    <2>3. contract[handler[h].nonce].expires \in Nat
      BY <2>2 DEF Contract
    <2> QED
      BY <1>1, <2>1, <2>2, <2>3, AuthorityAssumption
  <1>6. TableAgrees'
    BY <1>1, <1>2 DEF RequestInv, requestVars, TableAgrees
  <1>7. TakenOnce'
    <2> SUFFICES ASSUME NEW n \in Nonces \ late
        PROVE  /\ \A h \in Handlers : Runs(h, n) =>
                    runs[n] = 0 /\ \A g \in Handlers : Runs(g, n) => g = h
               /\ runs[n] <= 1
               /\ runs[n] = 1 \/ (\E h \in Handlers : Runs(h, n)) =>
                    contract[n] # None /\ (consumed[n] # None \/ now + 1 > contract[n].expires)
      BY <1>2 DEF TakenOnce, Runs, requestVars
    <2>1. contract[n] # None => contract[n].expires \in Nat
      BY <1>1 DEF RequestTypes, Contract
    <2> QED
      BY <1>1, <2>1 DEF RequestInv, TakenOnce
  <1>8. MeterTypes' /\ MeterBehind'
    BY <1>1, <1>2 DEF Tick, MeterTypes, MeterBehind
  <1> QED
    BY <1>1, <1>2, <1>3, <1>4, <1>5, <1>6, <1>7, <1>8, PartsNext DEF RequestInv

LEMMA MeterInv == AuthorityInv /\ (Boot \/ Start \/ Halt \/ Meter) => AuthorityInv'
  <1> SUFFICES ASSUME AuthorityInv, Boot \/ Start \/ Halt \/ Meter PROVE AuthorityInv'
    OBVIOUS
  <1>1. now \in Nat /\ restarts \in Nat /\ RequestTypes /\ MeterTypes /\ RequestInv /\ MeterBehind
    BY Parts
  <1>2. UNCHANGED <<requestVars, now>> /\ restarts' = restarts
    BY DEF Boot, Start, Halt, Meter
  <1>3. MeterTypes' /\ MeterBehind'
    <2>1. CASE Boot
      BY <1>1, <2>1 DEF Boot, MeterTypes, MeterBehind
    <2>2. CASE Start
      BY <1>1, <2>2 DEF Start, Started, MeterTypes, MeterBehind
    <2>3. CASE Halt
      BY <1>1, <2>3 DEF Halt, MeterTypes, MeterBehind
    <2>4. CASE Meter
      <3>1. PICK inUse \in BOOLEAN :
              /\ record' = [record EXCEPT !.metered = now,
                              !.charged = IF inUse THEN @ + (now - record.metered) ELSE @]
              /\ unused' = IF inUse /\ record.process # "runs" THEN unused + idle ELSE unused
        BY <2>4 DEF Meter, MemoryInUse
      <3>2. idle' = 0 /\ UNCHANGED <<now, group, born, used>>
        BY <2>4 DEF Meter
      <3>3. /\ record \in [process : {"none", "boots", "runs"}, charged : Nat, metered : Nat]
            /\ group \in BOOLEAN
            /\ born \in Nat /\ used \in Nat /\ idle \in Nat /\ unused \in Nat
        BY <1>1 DEF MeterTypes
      <3>4. /\ born <= record.metered /\ record.metered <= now
            /\ record.charged <= record.metered - born
            /\ record.charged <= used + unused
            /\ record.charged + (now - record.metered) <= used + unused + idle
            /\ record.process = "runs" => idle = 0
        BY <1>1 DEF MeterBehind
      <3>5. /\ record'.metered = now /\ record'.process = record.process
            /\ record'.charged = IF inUse THEN record.charged + (now - record.metered)
                                 ELSE record.charged
        BY <3>1, <3>3
      <3>6. record'.charged \in Nat /\ unused' \in Nat
        BY <1>1, <3>1, <3>3, <3>4, <3>5
      <3>7. record' \in [process : {"none", "boots", "runs"}, charged : Nat, metered : Nat]
        BY <1>1, <3>1, <3>3, <3>5, <3>6
      <3>8. /\ record'.charged <= now - born
            /\ record'.charged <= used + unused'
        BY <1>1, <3>1, <3>3, <3>4, <3>5
      <3>9. MeterBehind'
        BY <1>1, <3>2, <3>3, <3>4, <3>5, <3>6, <3>8 DEF MeterBehind
      <3> QED
        BY <3>2, <3>3, <3>6, <3>7, <3>9 DEF MeterTypes
    <2> QED
      BY <2>1, <2>2, <2>3, <2>4
  <1>4. RequestTypes' /\ RequestInv'
    BY <1>1, <1>2, RequestFrame
  <1> QED
    BY <1>1, <1>2, <1>3, <1>4, PartsNext

LEMMA RestartInv == AuthorityInv /\ Restart => AuthorityInv'
  <1> SUFFICES ASSUME AuthorityInv, Restart PROVE AuthorityInv'
    OBVIOUS
  <1>1. now \in Nat /\ restarts \in Nat /\ RequestTypes
    BY Parts
  <1>2. \A h \in Handlers : handler'[h] = Waiting /\ handler'[h].pc = "idle"
    BY DEF Restart, Waiting
  <1>3. RequestTypes'
    BY <1>1, WaitingType DEF Restart, RequestTypes
  <1>4. record' = [process |-> "none", charged |-> 0, metered |-> now]
    BY DEF Restart, NewRecord
  <1>5. MeterTypes' /\ MeterBehind' /\ now' \in Nat /\ restarts' \in Nat
    <2>1. /\ now' = now /\ restarts' \in Nat
          /\ born' = now /\ used' = 0 /\ idle' = 0 /\ unused' = 0
      BY <1>1 DEF Restart
    <2>2. group' \in BOOLEAN
      BY DEF Restart, MeterTypes, AuthorityInv, TypeOK
    <2>3. record' \in [process : {"none", "boots", "runs"}, charged : Nat, metered : Nat]
      BY <1>1, <1>4
    <2>4. MeterTypes'
      BY <1>1, <2>1, <2>2, <2>3 DEF MeterTypes
    <2>5. MeterBehind'
      BY <1>1, <1>4, <2>1 DEF MeterBehind
    <2> QED
      BY <1>1, <2>1, <2>4, <2>5
  <1>6. RequestInv'
    BY <1>2 DEF Restart, RequestInv, NoncesExpire, HandlersHoldContracts, TableAgrees,
               TakenOnce, Runs
  <1> QED
    BY <1>3, <1>5, <1>6, PartsNext

-----------------------------------------------------------------------------
(* Requests *)

LEMMA RequestSteps ==
  ASSUME AuthorityInv, UNCHANGED <<meterVars, now, restarts>>,
         RequestTypes', RequestInv'
  PROVE  AuthorityInv'
  BY MeterFrame, Parts, PartsNext

LEMMA IssueInv ==
  ASSUME AuthorityInv, NEW n \in Nonces, NEW ahead \in 0 .. Skew + 1, NEW ttl \in 0 .. MaxTtl + 1,
         Issue(n, ahead, ttl)
  PROVE  AuthorityInv'
  <1>1. now \in Nat /\ RequestTypes /\ RequestInv
    BY Parts
  <1>2. contract[n] = None /\ UNCHANGED <<now, handler, consumed, runs, late, meterVars, restarts>>
    BY DEF Issue
  <1> DEFINE new == [issued |-> now + ahead, expires |-> now + ahead + ttl]
  <1>3. contract' = [contract EXCEPT ![n] = new]
    BY DEF Issue
  <1>4. new \in Contract
    BY <1>1, AuthorityAssumption DEF Contract
  <1> HIDE DEF new
  <1>5. RequestTypes'
    BY <1>1, <1>2, <1>3, <1>4 DEF RequestTypes
  <1>6. \A m \in Nonces : contract[m] # None => contract'[m] = contract[m]
    BY <1>1, <1>2, <1>3 DEF RequestTypes
  <1>7. NoncesExpire'
    BY <1>1, <1>2 DEF RequestInv, NoncesExpire
  <1>8. HandlersHoldContracts'
    <2> SUFFICES ASSUME NEW h \in Handlers, handler[h].pc # "idle"
        PROVE  /\ handler[h].nonce \in Nonces
               /\ contract'[handler[h].nonce] # None
               /\ contract'[handler[h].nonce].expires <= now + Skew + MaxTtl
               /\ handler[h].seen <= now
      BY <1>2 DEF HandlersHoldContracts
    <2>1. /\ handler[h].nonce \in Nonces
          /\ contract[handler[h].nonce] # None
          /\ contract[handler[h].nonce].expires <= now + Skew + MaxTtl
          /\ handler[h].seen <= now
      BY <1>1 DEF RequestInv, HandlersHoldContracts
    <2> QED
      BY <1>6, <2>1
  <1>9. TableAgrees'
    BY <1>1, <1>2, <1>6 DEF RequestInv, TableAgrees
  <1>10. TakenOnce'
    BY <1>1, <1>2, <1>6 DEF RequestInv, TakenOnce, Runs
  <1> QED
    BY <1>2, <1>5, <1>7, <1>8, <1>9, <1>10, RequestSteps DEF RequestInv

\* A step of one handler that runs nothing.
LEMMA HandlerMoves ==
  ASSUME RequestTypes, RequestInv, now \in Nat,
         NEW h \in Handlers,
         UNCHANGED <<now, contract, consumed, runs, late>>,
         NEW next \in [pc : {"idle", "verified", "lock"}, nonce : Nonces \cup {None}, seen : Nat],
         handler' = [handler EXCEPT ![h] = next],
         next.pc # "idle" =>
           /\ next.nonce \in Nonces
           /\ contract[next.nonce] # None
           /\ contract[next.nonce].expires <= now + Skew + MaxTtl
           /\ next.seen <= now,
         handler[h].pc # "run"
  PROVE  RequestTypes' /\ RequestInv'
  <1>1. RequestTypes'
    BY DEF RequestTypes
  <1>2. \A g \in Handlers : handler'[g] = IF g = h THEN next ELSE handler[g]
    BY DEF RequestTypes
  <1>3. NoncesExpire' /\ TableAgrees'
    BY DEF RequestInv, NoncesExpire, TableAgrees
  <1>4. HandlersHoldContracts'
    BY <1>2 DEF RequestInv, HandlersHoldContracts
  <1>5. next.pc # "run"
    OBVIOUS
  <1>6. \A g \in Handlers, n \in Nonces : Runs(g, n)' <=> Runs(g, n)
    BY <1>2, <1>5 DEF Runs
  <1>7. TakenOnce'
    BY <1>6 DEF RequestInv, TakenOnce
  <1> QED
    BY <1>1, <1>3, <1>4, <1>7 DEF RequestInv

LEMMA DeliverInv ==
  ASSUME AuthorityInv, NEW h \in Handlers, NEW n \in Nonces, Deliver(h, n)
  PROVE  AuthorityInv'
  <1>1. now \in Nat /\ RequestTypes /\ RequestInv
    BY Parts
  <1> DEFINE next == [pc |-> "verified", nonce |-> n, seen |-> 0]
  <1>2. /\ UNCHANGED <<now, contract, consumed, runs, late, meterVars, restarts>>
        /\ handler' = [handler EXCEPT ![h] = next]
        /\ handler[h].pc = "idle"
        /\ contract[n] # None
        /\ Current(contract[n])
    BY DEF Deliver
  <1>3. next \in [pc : {"idle", "verified", "lock"}, nonce : Nonces \cup {None}, seen : Nat]
    OBVIOUS
  <1>4. contract[n].issued \in Nat /\ contract[n].expires \in Nat
    BY <1>1, <1>2 DEF RequestTypes, Contract
  <1>5. contract[n].expires <= now + Skew + MaxTtl
    BY <1>1, <1>2, <1>4, AuthorityAssumption DEF Current
  <1>6. next.nonce = n /\ next.seen <= now /\ handler[h].pc # "run"
    BY <1>1, <1>2
  <1> HIDE DEF next
  <1>7. RequestTypes' /\ RequestInv'
    BY <1>1, <1>2, <1>3, <1>5, <1>6, HandlerMoves
  <1> QED
    BY <1>2, <1>7, RequestSteps

LEMMA ReadClockInv ==
  ASSUME AuthorityInv, NEW h \in Handlers, ReadClock(h)
  PROVE  AuthorityInv'
  <1>1. now \in Nat /\ RequestTypes /\ RequestInv
    BY Parts
  <1> DEFINE next == [pc |-> "lock", nonce |-> handler[h].nonce, seen |-> now]
  <1>2. /\ UNCHANGED <<now, contract, consumed, runs, late, meterVars, restarts>>
        /\ handler' = [handler EXCEPT ![h] = next]
        /\ handler[h].pc = "verified"
    BY DEF ReadClock
  <1>3. /\ handler[h].nonce \in Nonces
        /\ contract[handler[h].nonce] # None
        /\ contract[handler[h].nonce].expires <= now + Skew + MaxTtl
    BY <1>1, <1>2 DEF RequestInv, HandlersHoldContracts
  <1>4. next \in [pc : {"idle", "verified", "lock"}, nonce : Nonces \cup {None}, seen : Nat]
    BY <1>1, <1>3
  <1>5. next.nonce = handler[h].nonce /\ next.seen <= now /\ handler[h].pc # "run"
    BY <1>1, <1>2
  <1> HIDE DEF next
  <1>6. RequestTypes' /\ RequestInv'
    BY <1>1, <1>2, <1>3, <1>4, <1>5, HandlerMoves
  <1> QED
    BY <1>2, <1>6, RequestSteps

LEMMA RunInv ==
  ASSUME AuthorityInv, NEW h \in Handlers, Run(h)
  PROVE  AuthorityInv'
  <1>1. now \in Nat /\ RequestTypes /\ RequestInv
    BY Parts
  <1> DEFINE n == handler[h].nonce
  <1>2. /\ UNCHANGED <<now, contract, consumed, late, meterVars, restarts>>
        /\ handler' = [handler EXCEPT ![h] = Waiting]
        /\ handler[h].pc = "run"
        /\ runs' = [runs EXCEPT ![n] = @ + 1]
    BY DEF Run
  <1>3. n \in Nonces /\ Runs(h, n)
    BY <1>1, <1>2 DEF RequestInv, HandlersHoldContracts, Runs
  <1>4. \A g \in Handlers : handler'[g] = IF g = h THEN Waiting ELSE handler[g]
    BY <1>1, <1>2 DEF RequestTypes
  <1>5. \A m \in Nonces : runs'[m] = IF m = n THEN runs[m] + 1 ELSE runs[m]
    BY <1>1, <1>2, <1>3 DEF RequestTypes
  <1>6. RequestTypes'
    <2>1. handler' \in [Handlers -> [pc : {"idle", "verified", "lock", "run"},
                                     nonce : Nonces \cup {None}, seen : Nat]]
      BY <1>1, <1>2, WaitingType DEF RequestTypes
    <2>2. runs' \in [Nonces -> Nat]
      BY <1>1, <1>2, <1>3 DEF RequestTypes
    <2> QED
      BY <1>1, <1>2, <2>1, <2>2 DEF RequestTypes
  <1>7. NoncesExpire' /\ TableAgrees'
    BY <1>1, <1>2 DEF RequestInv, NoncesExpire, TableAgrees
  <1>8. HandlersHoldContracts'
    BY <1>1, <1>2, <1>4 DEF RequestInv, HandlersHoldContracts, Waiting
  <1>9. \A g \in Handlers, m \in Nonces : Runs(g, m)' <=> g # h /\ Runs(g, m)
    BY <1>4 DEF Runs, Waiting
  <1>10. TakenOnce'
    <2> SUFFICES ASSUME NEW m \in Nonces \ late
        PROVE  /\ \A g \in Handlers : g # h /\ Runs(g, m) =>
                    runs'[m] = 0 /\ \A k \in Handlers : k # h /\ Runs(k, m) => k = g
               /\ runs'[m] <= 1
               /\ runs'[m] = 1 \/ (\E g \in Handlers : g # h /\ Runs(g, m)) =>
                    contract[m] # None /\ (consumed[m] # None \/ now > contract[m].expires)
      BY <1>2, <1>9 DEF TakenOnce
    <2>1. /\ \A g \in Handlers : Runs(g, m) =>
               runs[m] = 0 /\ \A k \in Handlers : Runs(k, m) => k = g
          /\ runs[m] <= 1
          /\ runs[m] = 1 \/ (\E g \in Handlers : Runs(g, m)) =>
               contract[m] # None /\ (consumed[m] # None \/ now > contract[m].expires)
      BY <1>1 DEF RequestInv, TakenOnce
    <2>2. CASE m = n
      <3>1. runs[m] = 0 /\ runs'[m] = 1
        BY <1>3, <1>5, <2>1, <2>2
      <3> QED
        BY <1>3, <2>1, <2>2, <3>1
    <2>3. CASE m # n
      BY <1>5, <2>1, <2>3
    <2> QED
      BY <2>2, <2>3
  <1> QED
    BY <1>2, <1>6, <1>7, <1>8, <1>10, RequestSteps DEF RequestInv

\* The nonces a handler drops belong to contracts that have expired.
LEMMA DroppedExpired ==
  ASSUME now \in Nat, RequestTypes, RequestInv, NEW t \in Nat, t <= now, NEW m \in Nonces
  PROVE  /\ Retained(t)[m] \in {None, consumed[m]}
         /\ consumed[m] # None /\ Retained(t)[m] = None =>
              contract[m] # None /\ now > contract[m].expires
  <1>1. Retained(t)[m] = IF consumed[m] # None /\ consumed[m] >= t THEN consumed[m] ELSE None
    BY DEF Retained
  <1>2. CASE consumed[m] = None
    BY <1>1, <1>2
  <1>3. CASE consumed[m] # None
    <2>1. consumed[m] \in Nat /\ contract[m] # None /\ consumed[m] = contract[m].expires
      BY <1>3 DEF RequestTypes, RequestInv, TableAgrees
    <2>2. Retained(t)[m] = None => now > consumed[m]
      BY <1>1, <1>3, <2>1, AuthorityAssumption
    <2> QED
      BY <1>1, <2>1, <2>2
  <1> QED
    BY <1>2, <1>3

LEMMA ConsumeInv ==
  ASSUME AuthorityInv, NEW h \in Handlers, Consume(h)
  PROVE  AuthorityInv'
  <1>1. now \in Nat /\ RequestTypes /\ RequestInv
    BY Parts
  <1> DEFINE n == handler[h].nonce
             t == handler[h].seen
             kept == Retained(t)
             running == [pc |-> "run", nonce |-> n, seen |-> 0]
  <1>2. /\ handler[h].pc = "lock"
        /\ consumed' = [kept EXCEPT ![n] = contract[n].expires]
        /\ UNCHANGED <<now, contract, runs, meterVars, restarts>>
    BY DEF Consume
  <1>3. /\ n \in Nonces /\ contract[n] # None /\ t <= now
        /\ contract[n].expires <= now + Skew + MaxTtl
    BY <1>1, <1>2 DEF RequestInv, HandlersHoldContracts
  <1>4. t \in Nat /\ contract[n].expires \in Nat /\ contract[n].expires # None
    BY <1>1, <1>3, AuthorityAssumption DEF RequestTypes, Contract
  <1>5. \/ /\ kept[n] = None
           /\ handler' = [handler EXCEPT ![h] = running]
           /\ late' = IF now > contract[n].expires THEN late \cup {n} ELSE late
        \/ kept[n] # None /\ handler' = [handler EXCEPT ![h] = Waiting] /\ late' = late
    BY DEF Consume
  <1>6. \A m \in Nonces :
          /\ kept[m] \in {None, consumed[m]}
          /\ consumed[m] # None /\ kept[m] = None =>
               contract[m] # None /\ now > contract[m].expires
    BY <1>1, <1>3, <1>4, DroppedExpired
  <1>7. kept \in [Nonces -> Nat \cup {None}]
    <2>1. kept = [m \in Nonces |-> kept[m]]
      BY DEF Retained
    <2>2. \A m \in Nonces : kept[m] \in Nat \cup {None}
      BY <1>1, <1>6 DEF RequestTypes
    <2> HIDE DEF kept
    <2> QED
      BY <2>1, <2>2
  <1>8. running \in [pc : {"idle", "verified", "lock", "run"}, nonce : Nonces \cup {None}, seen : Nat]
        /\ running.pc = "run" /\ running.nonce = n /\ running.seen = 0
    BY <1>3
  <1> HIDE DEF n, t, kept, running
  <1>9. \A m \in Nonces : consumed'[m] = IF m = n THEN contract[n].expires ELSE kept[m]
    BY <1>2, <1>7
  <1>10. \A g \in Handlers : g # h => handler'[g] = handler[g]
    BY <1>1, <1>5 DEF RequestTypes
  <1>11. handler'[h] = IF kept[n] = None THEN running ELSE Waiting
    BY <1>1, <1>5 DEF RequestTypes
  <1>12. RequestTypes'
    <2>1. consumed' \in [Nonces -> Nat \cup {None}]
      BY <1>2, <1>3, <1>4, <1>7
    <2>2. handler' \in [Handlers -> [pc : {"idle", "verified", "lock", "run"},
                                     nonce : Nonces \cup {None}, seen : Nat]]
      BY <1>1, <1>5, <1>8, WaitingType DEF RequestTypes
    <2>3. late' \subseteq Nonces
      BY <1>1, <1>3, <1>5 DEF RequestTypes
    <2> QED
      BY <1>1, <1>2, <2>1, <2>2, <2>3 DEF RequestTypes
  <1>13. NoncesExpire' /\ TableAgrees'
    BY <1>1, <1>2, <1>3, <1>6, <1>9 DEF RequestInv, NoncesExpire, TableAgrees
  <1>14. HandlersHoldContracts'
    <2> SUFFICES ASSUME NEW g \in Handlers, handler'[g].pc # "idle"
        PROVE  /\ handler'[g].nonce \in Nonces
               /\ contract[handler'[g].nonce] # None
               /\ contract[handler'[g].nonce].expires <= now + Skew + MaxTtl
               /\ handler'[g].seen <= now
      BY <1>2 DEF HandlersHoldContracts
    <2>1. CASE g # h
      BY <1>1, <1>10, <2>1 DEF RequestInv, HandlersHoldContracts
    <2>2. CASE g = h
      BY <1>1, <1>3, <1>8, <1>11, <2>2 DEF Waiting
    <2> QED
      BY <2>1, <2>2
  <1>15. \A g \in Handlers, m \in Nonces :
           Runs(g, m)' <=> Runs(g, m) \/ (g = h /\ m = n /\ kept[n] = None)
    <2> TAKE g \in Handlers, m \in Nonces
    <2>1. CASE g # h
      BY <1>10, <2>1 DEF Runs
    <2>2. CASE g = h
      BY <1>2, <1>8, <1>11, <2>2 DEF Runs, Waiting
    <2> QED
      BY <2>1, <2>2
  <1>16. TakenOnce'
    <2> SUFFICES ASSUME NEW m \in Nonces, m \notin late'
        PROVE  /\ \A g \in Handlers : Runs(g, m)' =>
                    runs[m] = 0 /\ \A k \in Handlers : Runs(k, m)' => k = g
               /\ runs[m] <= 1
               /\ runs[m] = 1 \/ (\E g \in Handlers : Runs(g, m)') =>
                    contract[m] # None /\ (consumed'[m] # None \/ now > contract[m].expires)
      BY <1>2 DEF TakenOnce
    <2>0. m \notin late
      BY <1>5
    <2>1. /\ \A g \in Handlers : Runs(g, m) =>
               runs[m] = 0 /\ \A k \in Handlers : Runs(k, m) => k = g
          /\ runs[m] <= 1
          /\ runs[m] = 1 \/ (\E g \in Handlers : Runs(g, m)) =>
               contract[m] # None /\ (consumed[m] # None \/ now > contract[m].expires)
      BY <1>1, <2>0 DEF RequestInv, TakenOnce
    <2>2. CASE m # n
      <3>1. \A g \in Handlers : Runs(g, m)' <=> Runs(g, m)
        BY <1>15, <2>2
      <3>2. consumed'[m] # None \/ consumed[m] = None \/ now > contract[m].expires
        BY <1>6, <1>9, <2>2
      <3> QED
        BY <2>1, <3>1, <3>2
    <2>3. CASE m = n /\ kept[n] # None
      <3>1. \A g \in Handlers : Runs(g, m)' <=> Runs(g, m)
        BY <1>15, <2>3
      <3> QED
        BY <1>3, <1>4, <1>9, <2>1, <2>3, <3>1
    <2>4. CASE m = n /\ kept[n] = None
      <3>1. ~(now > contract[m].expires)
        BY <1>5, <2>4
      <3>2. runs[m] # 1 /\ ~ \E g \in Handlers : Runs(g, m)
        BY <1>6, <2>1, <2>4, <3>1
      <3>3. runs[m] = 0
        BY <1>1, <2>1, <3>2 DEF RequestTypes
      <3>4. \A g \in Handlers : Runs(g, m)' <=> g = h
        BY <1>15, <2>4, <3>2
      <3> QED
        BY <1>3, <1>4, <1>9, <2>4, <3>3, <3>4
    <2> QED
      BY <2>2, <2>3, <2>4
  <1>17. RequestInv'
    BY <1>13, <1>14, <1>16 DEF RequestInv
  <1> QED
    BY <1>2, <1>12, <1>17, RequestSteps

-----------------------------------------------------------------------------
(* Theorems *)

LEMMA NextInv == AuthorityInv /\ [Next]_vars => AuthorityInv'
  <1> SUFFICES ASSUME AuthorityInv, [Next]_vars PROVE AuthorityInv'
    OBVIOUS
  <1>1. CASE Tick
    BY <1>1, TickInv
  <1>2. CASE Boot \/ Start \/ Halt \/ Meter
    BY <1>2, MeterInv
  <1>3. CASE Restart
    BY <1>3, RestartInv
  <1>4. CASE \E n \in Nonces, ahead \in 0 .. Skew + 1, ttl \in 0 .. MaxTtl + 1 : Issue(n, ahead, ttl)
    BY <1>4, IssueInv
  <1>5. CASE \E h \in Handlers, n \in Nonces : Deliver(h, n)
    BY <1>5, DeliverInv
  <1>6. CASE \E h \in Handlers : ReadClock(h) \/ Consume(h) \/ Run(h)
    BY <1>6, ReadClockInv, ConsumeInv, RunInv
  <1>7. CASE UNCHANGED vars
    <2>1. UNCHANGED <<requestVars, meterVars, now, restarts>>
      BY <1>7 DEF vars, requestVars, meterVars
    <2> QED
      BY <2>1, RequestFrame, RequestSteps, Parts
  <1> QED
    BY <1>1, <1>2, <1>3, <1>4, <1>5, <1>6, <1>7 DEF Next

\* The inductive invariant of the consumed nonces, the handlers and the meter
\* (runtime_auth.rs, consume_runtime_nonce, metering).
THEOREM AuthorityInvHolds == Spec => []AuthorityInv
  BY InitAuthority, NextInv, PTL DEF Spec

\* No request runs twice between two restarts, unless a handler consumed its
\* nonce after the contract had expired (authorize_runtime_request).
THEOREM AtMostOnceHolds == Spec => []AtMostOnce
  <1>1. AuthorityInv => AtMostOnce
    BY DEF AuthorityInv, TakenOnce, AtMostOnce
  <1> QED
    BY <1>1, AuthorityInvHolds, PTL

\* The table remembers nothing for longer than a contract can last
\* (consume_runtime_nonce).
THEOREM NoncesExpireHolds == Spec => []NoncesExpire
  <1>1. AuthorityInv => NoncesExpire
    BY DEF AuthorityInv
  <1> QED
    BY <1>1, AuthorityInvHolds, PTL

\* Nothing is charged twice; and what is charged was used, or is idle time that
\* was charged by a reading of a shard that does not run (metering).
THEOREM ChargedWhileUsedHolds == Spec => []ChargedWhileUsed
  <1>1. AuthorityInv => ChargedWhileUsed
    BY DEF AuthorityInv, TypeOK, MeterBehind, ChargedWhileUsed
  <1> QED
    BY <1>1, AuthorityInvHolds, PTL
=============================================================================
