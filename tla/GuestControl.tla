----------------------------- MODULE GuestControl ------------------------------
(***************************************************************************)
(* The server inside the guest: an acceptor process takes connections, a   *)
(* counter limits them, and a worker process serves each.                  *)
(*                                                                         *)
(* Source: supervisor/src/bmscl_guest_control.erl.  Only the acceptor      *)
(* reserves a slot of the counter and only workers give one back; the      *)
(* acceptor may die in between and is started again.  A socket closes when *)
(* the process that owns it ends.  What a frame asks for is served by      *)
(* other parts; here it takes some time, and an invocation holds a pin on  *)
(* its deployment for that time.  The deployment manager, which keeps the  *)
(* pins, is not in this repository: that it notices the death of a holder  *)
(* is not assumed.                                                         *)
(***************************************************************************)
EXTENDS Integers, FiniteSets

CONSTANTS
  Workers,         \* connections ever accepted; each names its worker
  MaxConnections,
  None

ASSUME GuestControlAssumption ==
  /\ MaxConnections \in Nat \ {0}
  /\ None \notin Workers
  /\ IsFiniteSet(Workers)

VARIABLES
  counter,   \* the atomics cell
  acceptor,  \* [step, worker, seen]: where the acceptor is, with which
             \* connection, and the count it saw
  worker,    \* the worker of each connection
  mail,      \* the message for each worker
  socket,    \* the owner of the socket of each connection
  pins,      \* the workers that hold a pin
  leaked,    \* history: connections whose slot no worker ever had
  stranded   \* history: workers that ended between pin and release

vars == <<counter, acceptor, worker, mail, socket, pins, leaked, stranded>>

Ready == [step |-> "accept", worker |-> None, seen |-> 0]

Init ==
  /\ counter = 0
  /\ acceptor = Ready
  /\ worker = [w \in Workers |-> "none"]
  /\ mail = [w \in Workers |-> "none"]
  /\ socket = [w \in Workers |-> "none"]
  /\ pins = {}
  /\ leaked = {}
  /\ stranded = {}

-----------------------------------------------------------------------------
(* accept_loop/5.                                                          *)

\* A connection arrives, and its slot is counted before it is looked at.
Accept(w) ==
  /\ acceptor.step = "accept"
  /\ socket[w] = "none"
  /\ socket' = [socket EXCEPT ![w] = "acceptor"]
  /\ counter' = counter + 1
  /\ acceptor' = [step |-> "reserved", worker |-> w, seen |-> counter + 1]
  /\ UNCHANGED <<worker, mail, pins, leaked, stranded>>

\* Mutant: one connection more than allowed.
FitsOneMore(n) == n <= MaxConnections + 1

Fits(n) == n <= MaxConnections

\* Mutant: the slot of a refused connection is kept.
SlotKept == UNCHANGED counter

SlotGivenBack == counter' = counter - 1

Refuse ==
  /\ acceptor.step = "reserved"
  /\ ~Fits(acceptor.seen)
  /\ SlotGivenBack
  /\ socket' = [socket EXCEPT ![acceptor.worker] = "closed"]
  /\ acceptor' = Ready
  /\ UNCHANGED <<worker, mail, pins, leaked, stranded>>

SpawnWorker ==
  /\ acceptor.step = "reserved"
  /\ Fits(acceptor.seen)
  /\ worker' = [worker EXCEPT ![acceptor.worker] = "waiting"]
  /\ acceptor' = [acceptor EXCEPT !.step = "spawned"]
  /\ UNCHANGED <<counter, mail, socket, pins, leaked, stranded>>

\* controlling_process/2; a worker that is gone cannot be given the socket.
HandOver ==
  /\ acceptor.step = "spawned"
  /\ worker[acceptor.worker] = "waiting"
  /\ socket[acceptor.worker] = "acceptor"
  /\ socket' = [socket EXCEPT ![acceptor.worker] = "worker"]
  /\ acceptor' = [acceptor EXCEPT !.step = "given"]
  /\ UNCHANGED <<counter, worker, mail, pins, leaked, stranded>>

\* The socket cannot be handed over: closed by its peer, or the worker is gone.
HandOverFails ==
  /\ acceptor.step = "spawned"
  /\ socket' = [socket EXCEPT ![acceptor.worker] = "closed"]
  /\ mail' = [mail EXCEPT ![acceptor.worker] = "stop"]
  /\ acceptor' = Ready
  /\ UNCHANGED <<counter, worker, pins, leaked, stranded>>

Serve ==
  /\ acceptor.step = "given"
  /\ mail' = [mail EXCEPT ![acceptor.worker] = "serve"]
  /\ acceptor' = Ready
  /\ UNCHANGED <<counter, worker, socket, pins, leaked, stranded>>

\* The acceptor fails: accept() returned an error, or the process table is full.
\* Its socket, if any, closes with it.
AcceptorDies ==
  /\ acceptor.step # "down"
  /\ acceptor' = [acceptor EXCEPT !.step = "down"]
  /\ socket' = [w \in Workers |-> IF socket[w] = "acceptor" THEN "closed"
                                                            ELSE socket[w]]
  /\ leaked' = IF acceptor.step = "reserved" THEN leaked \cup {acceptor.worker}
                                             ELSE leaked
  /\ UNCHANGED <<counter, worker, mail, pins, stranded>>

\* handle_info({'EXIT', ...}): another acceptor on the same counter.
AcceptorRestarts ==
  /\ acceptor.step = "down"
  /\ acceptor' = Ready
  /\ UNCHANGED <<counter, worker, mail, socket, pins, leaked, stranded>>

-----------------------------------------------------------------------------
(* connection_worker/3 and serve_loop/3.                                   *)

\* A worker ends: its slot is given back and its socket closed.
Ends(w) ==
  /\ worker' = [worker EXCEPT ![w] = "done"]
  /\ socket' = [socket EXCEPT ![w] = IF @ = "worker" THEN "closed" ELSE @]
  /\ UNCHANGED <<acceptor, mail, leaked>>

TakeServe(w) ==
  /\ worker[w] = "waiting"
  /\ mail[w] = "serve"
  /\ worker' = [worker EXCEPT ![w] = "receiving"]
  /\ UNCHANGED <<counter, acceptor, mail, socket, pins, leaked, stranded>>

TakeStop(w) ==
  /\ worker[w] = "waiting"
  /\ mail[w] = "stop"
  /\ SlotGivenBack
  /\ Ends(w)
  /\ UNCHANGED <<pins, stranded>>

UnservedGivesBack == SlotGivenBack

\* Mutant: a worker waits for its socket without a time limit.
GiveUpNever(w) == FALSE /\ UNCHANGED vars

\* Nothing in the mailbox for 5 s: the acceptor died, or it is slow.
GiveUp(w) ==
  /\ worker[w] = "waiting"
  /\ mail[w] = "none"
  /\ UnservedGivesBack
  /\ Ends(w)
  /\ UNCHANGED <<pins, stranded>>

\* A frame arrives; an invocation pins its deployment, other frames do not.
Receive(w) ==
  /\ worker[w] = "receiving"
  /\ \/ /\ worker' = [worker EXCEPT ![w] = "handling"]
        /\ UNCHANGED pins
     \/ /\ worker' = [worker EXCEPT ![w] = "pinned"]
        /\ pins' = pins \cup {w}
  /\ UNCHANGED <<counter, acceptor, mail, socket, leaked, stranded>>

\* Mutant: a refused invocation keeps its pin.
PinKept(w) == UNCHANGED pins

PinReleased(w) == pins' = pins \ {w}

\* The answer of the registry, the activation or the decoder is sent.
Answer(w) ==
  /\ worker[w] = "handling"
  /\ worker' = [worker EXCEPT ![w] = "receiving"]
  /\ UNCHANGED <<counter, acceptor, mail, socket, pins, leaked, stranded>>

\* The invocation is refused after the pin, fails, or ends: each way to an answer
\* releases the pin, the last in the router.
AnswerInvocation(w) ==
  /\ worker[w] = "pinned"
  /\ PinReleased(w)
  /\ worker' = [worker EXCEPT ![w] = "receiving"]
  /\ UNCHANGED <<counter, acceptor, mail, socket, leaked, stranded>>

\* An exception outside the try of dispatch_pinned/5: before the pin is released
\* (in the scope's names, a validation or the release itself), and it stays, or
\* after, in the encoding of the answer.
Raises(w) ==
  /\ worker[w] = "pinned"
  /\ SlotGivenBack
  /\ Ends(w)
  /\ \/ PinReleased(w) /\ UNCHANGED stranded
     \/ stranded' = stranded \cup {w} /\ UNCHANGED pins

\* The peer closes or is silent for too long, or an answer cannot be sent.
Hangup(w) ==
  /\ worker[w] = "receiving"
  /\ SlotGivenBack
  /\ Ends(w)
  /\ UNCHANGED <<pins, stranded>>

\* Handling a frame raises: the call of a registry that crashed exits.
Fails(w) ==
  /\ worker[w] = "handling"
  /\ SlotGivenBack
  /\ Ends(w)
  /\ UNCHANGED <<pins, stranded>>

Work(w) ==
  \/ TakeServe(w) \/ TakeStop(w) \/ GiveUp(w) \/ Receive(w) \/ Answer(w)
  \/ AnswerInvocation(w) \/ Raises(w) \/ Hangup(w) \/ Fails(w)

Next ==
  \/ \E w \in Workers : Accept(w) \/ Work(w)
  \/ Refuse \/ SpawnWorker \/ HandOver \/ HandOverFails \/ Serve
  \/ AcceptorDies \/ AcceptorRestarts

Spec == Init /\ [][Next]_vars

\* The acceptor and its supervisor go on, and a worker sees its mailbox or its
\* time limit.  How long a peer stays, and how long a frame takes, is open.
Fairness ==
  /\ WF_vars(Refuse \/ SpawnWorker \/ HandOver \/ HandOverFails \/ Serve)
  /\ WF_vars(AcceptorRestarts)
  /\ \A w \in Workers : WF_vars(TakeServe(w) \/ TakeStop(w) \/ GiveUp(w))

FairSpec == Spec /\ Fairness

-----------------------------------------------------------------------------
\* The types of the counter, the acceptor and the workers.
TypeOK ==
  /\ counter \in Int
  /\ acceptor \in [step : {"accept", "reserved", "spawned", "given", "down"},
                   worker : Workers \cup {None}, seen : Int]
  /\ worker \in [Workers -> {"none", "waiting", "receiving", "handling",
                             "pinned", "done"}]
  /\ mail \in [Workers -> {"none", "serve", "stop"}]
  /\ socket \in [Workers -> {"none", "acceptor", "worker", "closed"}]
  /\ pins \subseteq Workers
  /\ leaked \subseteq Workers
  /\ stranded \subseteq Workers

\* Workers that were started and have not ended.
Busy == {w \in Workers : worker[w] \notin {"none", "done"}}

Reserved == IF acceptor.step = "reserved" THEN {acceptor.worker} ELSE {}

\* The counter is the number of workers, of the connection the acceptor has
\* counted and not yet refused or handed to a worker, and of the slots lost by
\* acceptors that died in between.
SlotsAreCounted == counter = Cardinality(Busy \cup Reserved \cup leaked)

\* guest_control_max_connections limits the workers at any time, across
\* restarts of the acceptor and slots given back while it looks at the counter.
AtMostMax == Cardinality(Busy) <= MaxConnections

\* The acceptor is about a connection whose socket it owns, or has just given
\* to the worker it started for it.
AcceptorKnowsSocket ==
  /\ \A w \in Workers :
       socket[w] = "acceptor" <=>
         acceptor.step \in {"reserved", "spawned"} /\ acceptor.worker = w
  /\ acceptor.step \in {"reserved", "spawned", "given"} => acceptor.worker # None
  /\ acceptor.step = "accept" => acceptor.worker = None
  /\ acceptor.step = "reserved" => worker[acceptor.worker] = "none"
  /\ acceptor.step \in {"spawned", "given"} =>
       worker[acceptor.worker] \in {"waiting", "done"}

\* A connection, its worker and its message are at the same stage.
StagesAgree ==
  \A w \in Workers :
    /\ worker[w] = "none" =>
         socket[w] \in {"none", "acceptor", "closed"} /\ mail[w] = "none"
    /\ socket[w] = "none" => worker[w] = "none"
    /\ socket[w] = "worker" => w \in Busy
    /\ worker[w] \in {"receiving", "handling", "pinned"} => socket[w] = "worker"
    /\ w \in leaked => worker[w] = "none" /\ socket[w] = "closed"

\* A worker is told to serve when it owns the socket, and is told one thing.
MessagesAgree ==
  /\ acceptor.step \in {"spawned", "given"} => mail[acceptor.worker] = "none"
  /\ acceptor.step = "given" /\ worker[acceptor.worker] = "waiting" =>
       socket[acceptor.worker] = "worker"
  /\ \A w \in Workers :
       mail[w] = "serve" /\ worker[w] = "waiting" => socket[w] = "worker"

\* What acceptor, workers and counter agree on: no socket outlives its worker,
\* and a pin on a deployment is held while its invocation is handled and after
\* that only by a worker that an exception ended before the release.
ControlInv ==
  /\ TypeOK
  /\ AcceptorKnowsSocket
  /\ StagesAgree
  /\ MessagesAgree
  /\ pins = {w \in Workers : worker[w] = "pinned"} \cup stranded
  /\ \A w \in stranded : worker[w] = "done"

\* A connection the acceptor has taken is served or closed, whether or not the
\* acceptor survives, and its worker does not wait for ever.
HandoffEnds ==
  \A w \in Workers :
    /\ socket[w] = "acceptor" ~> worker[w] = "receiving" \/ socket[w] = "closed"
    /\ worker[w] = "waiting" ~> worker[w] # "waiting"
=============================================================================
