--------------------------- MODULE GuestControlProofs --------------------------
(***************************************************************************)
(* What holds of the guest's server for every number of connections and    *)
(* every limit.                                                            *)
(*                                                                         *)
(* ControlInv is inductive.  With it each step adds one connection to      *)
(* those that hold a slot, takes one away or leaves them alone, and the    *)
(* counter goes with them (SlotsAreCounted).  While the acceptor holds a   *)
(* reservation only workers change the counter, downwards, so the count    *)
(* the acceptor saw bounds the slots that are taken when it starts a       *)
(* worker (AtMostMax).                                                     *)
(***************************************************************************)
EXTENDS GuestControl, FiniteSetTheorems, TLAPS

Slots == Busy \cup Reserved \cup leaked

\* What the acceptor saw is not less than what is counted now.
ReservationBounds == acceptor.step = "reserved" => counter <= acceptor.seen

LEMMA GuestInitInv == Init => ControlInv
  BY GuestControlAssumption
  DEF Init, Ready, ControlInv, TypeOK, AcceptorKnowsSocket, StagesAgree,
      MessagesAgree, Busy

-----------------------------------------------------------------------------
LEMMA GuestTypeStep ==
  ASSUME ControlInv, [Next]_vars
  PROVE  TypeOK'
  <1>0. TypeOK
    BY DEF ControlInv
  <1> USE <1>0, GuestControlAssumption DEF TypeOK
  <1>1. ASSUME NEW w \in Workers, Accept(w)
        PROVE  TypeOK'
    BY <1>1 DEF Accept
  <1>2. ASSUME NEW w \in Workers, Work(w)
        PROVE  TypeOK'
    BY <1>2
    DEF Work, TakeServe, TakeStop, GiveUp, Receive, Answer, AnswerInvocation,
        PinReleased, Raises, Hangup, Fails, Ends, SlotGivenBack, UnservedGivesBack
  <1>3. ASSUME Refuse \/ SpawnWorker \/ HandOver \/ HandOverFails \/ Serve
        PROVE  TypeOK'
    BY <1>3
    DEF Refuse, SpawnWorker, HandOver, HandOverFails, Serve, SlotGivenBack, Ready
  <1>4. ASSUME AcceptorDies
        PROVE  TypeOK'
    <2>1. acceptor.step = "reserved" => acceptor.worker \in Workers
      BY DEF ControlInv, AcceptorKnowsSocket
    <2> QED
      BY <1>4, <2>1 DEF AcceptorDies
  <1>5. ASSUME AcceptorRestarts
        PROVE  TypeOK'
    BY <1>5 DEF AcceptorRestarts, Ready
  <1>6. ASSUME UNCHANGED vars
        PROVE  TypeOK'
    BY <1>6 DEF vars
  <1> QED
    BY <1>1, <1>2, <1>3, <1>4, <1>5, <1>6 DEF Next

LEMMA GuestAcceptInv ==
  ASSUME ControlInv, NEW w \in Workers, Accept(w)
  PROVE  ControlInv'
  <1>0. TypeOK /\ TypeOK'
    BY GuestTypeStep DEF ControlInv, Next
  <1> QED
    BY <1>0, GuestControlAssumption
    DEF Accept, ControlInv, TypeOK, AcceptorKnowsSocket, StagesAgree,
        MessagesAgree, Busy

\* The steps of the acceptor are about its connection.
LEMMA GuestAcceptorInv ==
  ASSUME ControlInv, Refuse \/ SpawnWorker \/ HandOver \/ HandOverFails \/ Serve
  PROVE  ControlInv'
  <1>0. TypeOK /\ TypeOK'
    BY GuestTypeStep DEF ControlInv, Next
  <1>1. PICK w \in Workers : acceptor.worker = w
    BY <1>0
    DEF Refuse, SpawnWorker, HandOver, HandOverFails, Serve, ControlInv, TypeOK,
        AcceptorKnowsSocket
  <1>2. CASE Refuse
    BY <1>0, <1>1, <1>2
    DEF Refuse, Ready, ControlInv, TypeOK, AcceptorKnowsSocket, StagesAgree,
        MessagesAgree, Busy
  <1>3. CASE SpawnWorker
    BY <1>0, <1>1, <1>3
    DEF SpawnWorker, ControlInv, TypeOK, AcceptorKnowsSocket, StagesAgree,
        MessagesAgree, Busy
  <1>4. CASE HandOver
    BY <1>0, <1>1, <1>4
    DEF HandOver, ControlInv, TypeOK, AcceptorKnowsSocket, StagesAgree,
        MessagesAgree, Busy
  <1>5. CASE HandOverFails
    BY <1>0, <1>1, <1>5
    DEF HandOverFails, Ready, ControlInv, TypeOK, AcceptorKnowsSocket,
        StagesAgree, MessagesAgree, Busy
  <1>6. CASE Serve
    BY <1>0, <1>1, <1>6
    DEF Serve, Ready, ControlInv, TypeOK, AcceptorKnowsSocket, StagesAgree,
        MessagesAgree, Busy
  <1> QED
    BY <1>2, <1>3, <1>4, <1>5, <1>6

LEMMA GuestRestartInv ==
  ASSUME ControlInv, AcceptorDies \/ AcceptorRestarts
  PROVE  ControlInv'
  <1>0. TypeOK /\ TypeOK'
    BY GuestTypeStep DEF ControlInv, Next
  <1>1. CASE AcceptorDies
    BY <1>0, <1>1
    DEF AcceptorDies, ControlInv, TypeOK, AcceptorKnowsSocket, StagesAgree,
        MessagesAgree, Busy
  <1>2. CASE AcceptorRestarts
    BY <1>0, <1>2
    DEF AcceptorRestarts, Ready, ControlInv, TypeOK, AcceptorKnowsSocket,
        StagesAgree, MessagesAgree, Busy
  <1> QED
    BY <1>1, <1>2

\* A worker's steps are about its connection.
LEMMA GuestWorkInv ==
  ASSUME ControlInv, NEW w \in Workers, Work(w)
  PROVE  ControlInv'
  <1>0. TypeOK /\ TypeOK'
    BY GuestTypeStep DEF ControlInv, Next
  <1>1. CASE TakeServe(w)
    BY <1>0, <1>1
    DEF TakeServe, ControlInv, TypeOK, AcceptorKnowsSocket, StagesAgree,
        MessagesAgree, Busy
  <1>2. ASSUME worker[w] \in {"waiting", "receiving", "handling"}, Ends(w),
               UNCHANGED <<pins, stranded>>
        PROVE  ControlInv'
    BY <1>0, <1>2
    DEF Ends, ControlInv, TypeOK, AcceptorKnowsSocket, StagesAgree,
        MessagesAgree, Busy
  <1>3. CASE TakeStop(w) \/ GiveUp(w) \/ Hangup(w) \/ Fails(w)
    BY <1>2, <1>3 DEF TakeStop, GiveUp, Hangup, Fails
  <1>4. CASE Receive(w)
    BY <1>0, <1>4
    DEF Receive, ControlInv, TypeOK, AcceptorKnowsSocket, StagesAgree,
        MessagesAgree, Busy
  <1>5. CASE Answer(w)
    BY <1>0, <1>5
    DEF Answer, ControlInv, TypeOK, AcceptorKnowsSocket, StagesAgree,
        MessagesAgree, Busy
  <1>6. CASE AnswerInvocation(w)
    BY <1>0, <1>6
    DEF AnswerInvocation, PinReleased, ControlInv, TypeOK, AcceptorKnowsSocket,
        StagesAgree, MessagesAgree, Busy
  <1>7. CASE Raises(w)
    BY <1>0, <1>7
    DEF Raises, PinReleased, Ends, ControlInv, TypeOK, AcceptorKnowsSocket,
        StagesAgree, MessagesAgree, Busy
  <1> QED
    BY <1>1, <1>3, <1>4, <1>5, <1>6, <1>7 DEF Work

LEMMA GuestNextInv ==
  ASSUME ControlInv, [Next]_vars
  PROVE  ControlInv'
  <1>1. CASE UNCHANGED vars
    BY <1>1
    DEF vars, ControlInv, TypeOK, AcceptorKnowsSocket, StagesAgree,
        MessagesAgree, Busy
  <1> QED
    BY <1>1, GuestAcceptInv, GuestAcceptorInv, GuestRestartInv, GuestWorkInv DEF Next

\* No socket outlives its worker, a worker serves when it owns its socket, and
\* a pin is held while its invocation is handled and after that only by a worker
\* that an exception ended before the release.
THEOREM ControlInvHolds == Spec => []ControlInv
  <1>1. Init => ControlInv
    BY GuestInitInv
  <1>2. ControlInv /\ [Next]_vars => ControlInv'
    BY GuestNextInv
  <1> QED
    BY <1>1, <1>2, PTL DEF Spec

-----------------------------------------------------------------------------
(* The counter.                                                            *)

LEMMA SlotsAreFinite ==
  ASSUME TypeOK, ControlInv
  PROVE  Slots \subseteq Workers /\ IsFiniteSet(Slots) /\ Cardinality(Slots) \in Nat
  <1>1. Slots \subseteq Workers
    BY DEF Slots, Busy, Reserved, TypeOK, ControlInv, AcceptorKnowsSocket
  <1> QED
    BY <1>1, FS_Subset, FS_CardinalityType, GuestControlAssumption

Gains(w) == w \notin Slots /\ Slots' = Slots \cup {w} /\ counter' = counter + 1
Loses(w) == w \in Slots /\ Slots' = Slots \ {w} /\ counter' = counter - 1
Keeps == Slots' = Slots /\ counter' = counter

\* What each step does to the connections that hold a slot.
LEMMA SlotStep ==
  ASSUME ControlInv, [Next]_vars
  PROVE  Keeps \/ \E w \in Workers : Gains(w) \/ Loses(w)
  <1>0. TypeOK
    BY DEF ControlInv
  <1> USE <1>0 DEF Slots, Busy, Reserved, TypeOK
  <1>1. ASSUME NEW w \in Workers, Accept(w)
        PROVE  Gains(w)
    <2>1. worker[w] = "none" /\ w \notin leaked
      BY <1>1 DEF Accept, ControlInv, StagesAgree
    <2>2. Reserved' = {w} /\ Reserved = {} /\ Busy' = Busy /\ leaked' = leaked
      BY <1>1 DEF Accept
    <2> QED
      BY <1>1, <2>1, <2>2 DEF Accept, Gains
  <1>2. ASSUME Refuse
        PROVE  \E w \in Workers : Loses(w)
    <2>1. PICK w \in Workers : acceptor.worker = w
      BY <1>2 DEF Refuse, ControlInv, AcceptorKnowsSocket
    <2>2. worker[w] = "none" /\ w \notin leaked
      BY <1>2, <2>1 DEF Refuse, ControlInv, AcceptorKnowsSocket, StagesAgree
    <2>3. Reserved = {w} /\ Reserved' = {} /\ Busy' = Busy /\ leaked' = leaked
      BY <1>2, <2>1 DEF Refuse, Ready
    <2> QED
      BY <1>2, <2>2, <2>3 DEF Refuse, SlotGivenBack, Loses
  <1>3. ASSUME SpawnWorker
        PROVE  Keeps
    <2>1. PICK w \in Workers : acceptor.worker = w
      BY <1>3 DEF SpawnWorker, ControlInv, AcceptorKnowsSocket
    <2>2. Busy' = Busy \cup {w} /\ Reserved = {w} /\ Reserved' = {}
      BY <1>3, <2>1 DEF SpawnWorker
    <2> QED
      BY <1>3, <2>2 DEF SpawnWorker, Keeps
  <1>4. ASSUME HandOver \/ HandOverFails \/ Serve \/ AcceptorRestarts
        PROVE  Keeps
    BY <1>4 DEF HandOver, HandOverFails, Serve, AcceptorRestarts, Ready, Keeps
  <1>5. ASSUME AcceptorDies
        PROVE  Keeps
    BY <1>5 DEF AcceptorDies, Keeps
  <1>6. ASSUME NEW w \in Workers,
               TakeServe(w) \/ Receive(w) \/ Answer(w) \/ AnswerInvocation(w)
        PROVE  Keeps
    <2>1. Busy' = Busy
      BY <1>6 DEF TakeServe, Receive, Answer, AnswerInvocation
    <2> QED
      BY <1>6, <2>1 DEF TakeServe, Receive, Answer, AnswerInvocation, Keeps
  <1>7. ASSUME NEW w \in Workers,
               TakeStop(w) \/ GiveUp(w) \/ Raises(w) \/ Hangup(w) \/ Fails(w)
        PROVE  Loses(w)
    <2>1. w \in Busy /\ counter' = counter - 1 /\ Ends(w)
      BY <1>7 DEF TakeStop, GiveUp, Raises, Hangup, Fails, SlotGivenBack, UnservedGivesBack
    <2>2. w \notin leaked /\ w \notin Reserved
      BY <2>1 DEF ControlInv, StagesAgree, AcceptorKnowsSocket
    <2>3. Busy' = Busy \ {w} /\ Reserved' = Reserved /\ leaked' = leaked
      BY <2>1 DEF Ends
    <2> QED
      BY <2>1, <2>2, <2>3 DEF Loses
  <1>8. ASSUME UNCHANGED vars
        PROVE  Keeps
    BY <1>8 DEF vars, Keeps
  <1> QED
    BY <1>1, <1>2, <1>3, <1>4, <1>5, <1>6, <1>7, <1>8 DEF Next, Work

\* The counter is the number of connections that hold a slot.
THEOREM SlotsAreCountedHolds == Spec => []SlotsAreCounted
  <1>1. Init => SlotsAreCounted
    <2> SUFFICES ASSUME Init
                 PROVE  SlotsAreCounted
      OBVIOUS
    <2>1. Busy \cup Reserved \cup leaked = {}
      BY DEF Init, Ready, Busy, Reserved
    <2> QED
      BY <2>1, FS_EmptySet DEF Init, SlotsAreCounted
  <1>2. ControlInv /\ SlotsAreCounted /\ [Next]_vars => SlotsAreCounted'
    <2> SUFFICES ASSUME ControlInv, counter = Cardinality(Slots), [Next]_vars
                 PROVE  counter' = Cardinality(Slots')
      BY DEF SlotsAreCounted, Slots
    <2>1. IsFiniteSet(Slots) /\ Cardinality(Slots) \in Nat
      BY SlotsAreFinite DEF ControlInv
    <2>2. CASE Keeps
      BY <2>2 DEF Keeps
    <2>3. ASSUME NEW w \in Workers, Gains(w)
          PROVE  counter' = Cardinality(Slots')
      BY <2>1, <2>3, FS_AddElement DEF Gains
    <2>4. ASSUME NEW w \in Workers, Loses(w)
          PROVE  counter' = Cardinality(Slots')
      BY <2>1, <2>4, FS_RemoveElement DEF Loses
    <2> QED
      BY <2>2, <2>3, <2>4, SlotStep
  <1> QED
    BY <1>1, <1>2, ControlInvHolds, PTL DEF Spec

LEMMA ReservationBoundsStep ==
  ASSUME ControlInv, ReservationBounds, [Next]_vars
  PROVE  ReservationBounds'
  <1>0. TypeOK
    BY DEF ControlInv
  <1> USE <1>0 DEF ReservationBounds, TypeOK
  <1>1. ASSUME NEW w \in Workers, Accept(w)
        PROVE  ReservationBounds'
    BY <1>1 DEF Accept
  <1>2. ASSUME Refuse \/ SpawnWorker \/ HandOver \/ HandOverFails \/ Serve
               \/ AcceptorDies \/ AcceptorRestarts
        PROVE  ReservationBounds'
    BY <1>2
    DEF Refuse, SpawnWorker, HandOver, HandOverFails, Serve, AcceptorDies,
        AcceptorRestarts, Ready
  <1>3. ASSUME NEW w \in Workers, Work(w)
        PROVE  ReservationBounds'
    <2>1. acceptor' = acceptor /\ (counter' = counter \/ counter' = counter - 1)
      BY <1>3
      DEF Work, TakeServe, TakeStop, GiveUp, Receive, Answer, AnswerInvocation,
          Raises, Hangup, Fails, Ends, SlotGivenBack, UnservedGivesBack
    <2> QED
      BY <2>1
  <1>4. ASSUME UNCHANGED vars
        PROVE  ReservationBounds'
    BY <1>4 DEF vars
  <1> QED
    BY <1>1, <1>2, <1>3, <1>4 DEF Next

\* A worker is started only for a connection that fits among those it saw.
LEMMA AtMostMaxStep ==
  ASSUME ControlInv, ReservationBounds, SlotsAreCounted, AtMostMax, [Next]_vars
  PROVE  AtMostMax'
  <1>0. TypeOK
    BY DEF ControlInv
  <1>1. Busy \subseteq Workers /\ IsFiniteSet(Busy) /\ Cardinality(Busy) \in Nat
    <2>1. Busy \subseteq Workers
      BY DEF Busy
    <2> QED
      BY <2>1, FS_Subset, FS_CardinalityType, GuestControlAssumption
  <1>2. ASSUME Busy' \subseteq Busy
        PROVE  AtMostMax'
    <2>1. Cardinality(Busy') <= Cardinality(Busy) /\ Cardinality(Busy') \in Nat
      BY <1>1, <1>2, FS_Subset, FS_CardinalityType
    <2> QED
      BY <1>1, <2>1, GuestControlAssumption DEF AtMostMax
  <1>3. ASSUME SpawnWorker
        PROVE  AtMostMax'
    <2>1. PICK w \in Workers : acceptor.worker = w
      BY <1>0, <1>3 DEF SpawnWorker, TypeOK, ControlInv, AcceptorKnowsSocket
    <2>2. Busy' = Busy \cup {w} /\ w \in Reserved
      BY <1>0, <1>3, <2>1 DEF SpawnWorker, Busy, Reserved, TypeOK
    <2>3. Busy' \in SUBSET Slots
      BY <2>2 DEF Slots
    <2>4. IsFiniteSet(Slots) /\ Cardinality(Slots) \in Nat
      BY <1>0, SlotsAreFinite
    <2>5. Cardinality(Busy') <= Cardinality(Slots) /\ Cardinality(Busy') \in Nat
      BY <2>3, <2>4, FS_Subset, FS_CardinalityType
    <2>6. Cardinality(Slots) <= MaxConnections
      BY <1>0, <1>3, GuestControlAssumption
      DEF SpawnWorker, Fits, ReservationBounds, SlotsAreCounted, Slots, TypeOK
    <2> QED
      BY <2>4, <2>5, <2>6, GuestControlAssumption DEF AtMostMax
  <1>4. ASSUME NEW w \in Workers, Accept(w) \/ Work(w)
        PROVE  Busy' \subseteq Busy
    BY <1>0, <1>4
    DEF Accept, Work, TakeServe, TakeStop, GiveUp, Receive, Answer,
        AnswerInvocation, Raises, Hangup, Fails, Ends, Busy, TypeOK
  <1>5. ASSUME Refuse \/ HandOver \/ HandOverFails \/ Serve
               \/ AcceptorDies \/ AcceptorRestarts \/ UNCHANGED vars
        PROVE  Busy' \subseteq Busy
    BY <1>5
    DEF Refuse, HandOver, HandOverFails, Serve, AcceptorDies, AcceptorRestarts,
        vars, Busy
  <1> QED
    BY <1>2, <1>3, <1>4, <1>5 DEF Next

\* guest_control_max_connections limits the workers at any time.
THEOREM AtMostMaxHolds == Spec => []AtMostMax
  <1>1. Init => ReservationBounds /\ AtMostMax
    <2> SUFFICES ASSUME Init
                 PROVE  ReservationBounds /\ AtMostMax
      OBVIOUS
    <2>1. Busy = {} /\ acceptor.step # "reserved"
      BY DEF Init, Ready, Busy
    <2> QED
      BY <2>1, FS_EmptySet, GuestControlAssumption DEF ReservationBounds, AtMostMax
  <1>2. ControlInv /\ SlotsAreCounted /\ ReservationBounds /\ AtMostMax /\ [Next]_vars
          => ReservationBounds' /\ AtMostMax'
    BY ReservationBoundsStep, AtMostMaxStep
  <1> QED
    BY <1>1, <1>2, ControlInvHolds, SlotsAreCountedHolds, PTL DEF Spec
=============================================================================
