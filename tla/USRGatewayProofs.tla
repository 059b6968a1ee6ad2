-------------------------- MODULE USRGatewayProofs --------------------------
(***************************************************************************)
(* Theorems about USRGateway, for any number of callers, slaves and        *)
(* requests.                                                               *)
(*                                                                         *)
(* Type correctness and mutual exclusion are proved together (IInv): that  *)
(* a published frame names a slave, and that the deferred unlock frees the *)
(* caller's own mutex, follow from HoldsItsMutex.                          *)
(*                                                                         *)
(* USRGateway implements RequestAnswer (PInv): no request is handed two    *)
(* frames and no frame to two requests, and in sequential use the frames   *)
(* come in order.  A frame is asked for once and then moves through wire,  *)
(* held and responseChan, in this order, or is dropped on the way.         *)
(*                                                                         *)
(* Which requests may get their own frame (OInv): a frame under way that   *)
(* answers a caller's request has the slave id and function code of it,    *)
(* onMessage expects the request of a caller that is alone, and in a run   *)
(* for a diagnostic it expects nothing.                                    *)
(***************************************************************************)
EXTENDS USRGateway, FiniteSetTheorems, TLAPS

(* A caller past the lock holds the mutex of the slave it asks, and a call *)
(* under way has a slave id and a function code.                           *)
HoldsItsMutex ==
  \A c \in Callers :
    /\ pc[c] = "slaveLock" => slave[c] \in Slaves /\ code[c] \in Codes
    /\ InTransaction(c) => /\ slave[c] \in Slaves /\ code[c] \in Codes
                           /\ slaveMutex[slave[c]] = c

IInv == TypeOK /\ HoldsItsMutex

-----------------------------------------------------------------------------
(* Draining takes frames away and adds none.                               *)
LEMMA DrainOneType ==
  ASSUME NEW q \in Seq(Frame), Len(q) <= ChanCap
  PROVE  DrainOne(q) \in Seq(Frame) /\ Len(DrainOne(q)) <= ChanCap
BY GatewayAssumption DEF DrainOne

LEMMA TailType ==
  ASSUME NEW S, NEW q \in Seq(S), q # <<>>
  PROVE  Head(q) \in S /\ Tail(q) \in Seq(S) /\ Len(Tail(q)) = Len(q) - 1
OBVIOUS

LEMMA AppendType ==
  ASSUME NEW S, NEW q \in Seq(S), NEW e \in S
  PROVE  Append(q, e) \in Seq(S) /\ Len(Append(q, e)) = Len(q) + 1
OBVIOUS

LEMMA InitIInv == Init => IInv
<1> SUFFICES ASSUME Init PROVE IInv
  OBVIOUS
<1>1. <<>> \in Seq(Frame) /\ Len(<<>>) = 0
  OBVIOUS
<1>2. /\ responseChan \in Seq(Frame) /\ Len(responseChan) <= ChanCap
      /\ held \in Seq(Frame) /\ Len(held) <= 1
      /\ wire \in Seq(Frame)
  BY <1>1, GatewayAssumption DEF Init
<1>3. TypeOK
  BY <1>2, GatewayAssumption DEF Init, TypeOK, Modes, PCs
<1>4. HoldsItsMutex
  BY DEF Init, HoldsItsMutex, InTransaction
<1> QED
  BY <1>3, <1>4 DEF IInv

-----------------------------------------------------------------------------
(* The steps of a call, up to the publish.                                 *)
LEMMA RequestIInv ==
  ASSUME IInv, NEW c \in Callers, NEW s \in Slaves, NEW f \in Codes,
         Request(c, s, f)
  PROVE  IInv'
<1> USE DEF IInv, Request, Goto, locks, link, expected
<1>1. TypeOK'
  BY DEF TypeOK, PCs
<1>2. HoldsItsMutex'
  BY DEF TypeOK, HoldsItsMutex, InTransaction
<1> QED
  BY <1>1, <1>2

LEMMA LockSlaveIInv ==
  ASSUME IInv, NEW c \in Callers, LockSlave(c)
  PROVE  IInv'
<1> USE DEF IInv, LockSlave, Goto, locks, link, args, expected
<1>1. slave[c] \in Slaves /\ code[c] \in Codes
  BY DEF HoldsItsMutex
<1>2. TypeOK'
  BY <1>1 DEF TypeOK, PCs
<1>3. HoldsItsMutex'
  <2> SUFFICES ASSUME NEW d \in Callers
               PROVE  /\ pc'[d] = "slaveLock" => slave'[d] \in Slaves /\ code'[d] \in Codes
                      /\ InTransaction(d)' => /\ slave'[d] \in Slaves /\ code'[d] \in Codes
                                              /\ slaveMutex'[slave'[d]] = d
    BY DEF HoldsItsMutex
  <2>1. CASE d = c
    BY <1>1, <2>1 DEF TypeOK, InTransaction
  <2>2. CASE d # c
    BY <1>1, <2>2, GatewayAssumption DEF TypeOK, HoldsItsMutex, InTransaction
  <2> QED
    BY <2>1, <2>2
<1> QED
  BY <1>2, <1>3

LEMMA PrepareIInv ==
  ASSUME IInv, NEW c \in Callers, Prepare(c)
  PROVE  IInv'
<1> USE DEF IInv, Prepare, Goto, locks, link, expected
<1>1. slave[c] \in Slaves /\ code[c] \in Codes
  BY DEF HoldsItsMutex, InTransaction
<1>2. responseChan' \in Seq(Frame) /\ Len(responseChan') <= ChanCap
  BY DrainOneType DEF TypeOK
<1>3. TypeOK'
  BY <1>1, <1>2 DEF TypeOK, PCs
<1>4. HoldsItsMutex'
  BY DEF TypeOK, HoldsItsMutex, InTransaction
<1> QED
  BY <1>3, <1>4

LEMMA SendIInv ==
  ASSUME IInv, NEW c \in Callers, SendCommand(c) \/ SendFails(c)
  PROVE  IInv'
<1> USE DEF IInv, SendCommand, SendFails, Goto, locks, link, args, expected
<1>1. [slave |-> slave[c], code |-> code[c], req |-> req[c]] \in Frame
  BY DEF TypeOK, HoldsItsMutex, InTransaction, Frame
<1>2. responseChan' \in Seq(Frame) /\ Len(responseChan') <= ChanCap
  BY DrainOneType DEF TypeOK
<1>3. wire' \in Seq(Frame)
  <2>1. wire \in Seq(Frame)
    BY DEF TypeOK
  <2>2. Append(wire, [slave |-> slave[c], code |-> code[c], req |-> req[c]]) \in Seq(Frame)
    BY <1>1, <2>1, AppendType
  <2> QED
    BY <2>1, <2>2
<1>4. pc' \in [Callers -> PCs]
  BY DEF TypeOK, PCs
<1>5. TypeOK'
  BY <1>2, <1>3, <1>4 DEF TypeOK
<1>6. HoldsItsMutex'
  BY DEF TypeOK, HoldsItsMutex, InTransaction
<1> QED
  BY <1>5, <1>6

-----------------------------------------------------------------------------
(* The end of a call: an answer, or a timeout and its cleanup, and the     *)
(* deferred unlock.                                                        *)
LEMMA ReceiveIInv ==
  ASSUME IInv, NEW c \in Callers, Receive(c)
  PROVE  IInv'
<1> USE DEF IInv, Receive, Goto, locks, link, args, expected
<1>1. /\ Head(responseChan) \in Frame
      /\ responseChan' \in Seq(Frame)
      /\ Len(responseChan') <= ChanCap
  BY TailType, GatewayAssumption DEF TypeOK
<1>2. accepted' \in SUBSET (Nat \X Nat)
  BY <1>1 DEF TypeOK, Frame
<1>3. TypeOK'
  BY <1>1, <1>2 DEF TypeOK, PCs
<1>4. HoldsItsMutex'
  BY DEF TypeOK, HoldsItsMutex, InTransaction
<1> QED
  BY <1>3, <1>4

LEMMA TimeoutIInv ==
  ASSUME IInv, NEW c \in Callers, Timeout(c) \/ LockForCleanup(c) \/ Cleanup(c)
  PROVE  IInv'
<1> USE DEF IInv, Timeout, LockForCleanup, Cleanup, Goto, locks, link, args, expected
<1>1. responseChan' \in Seq(Frame) /\ Len(responseChan') <= ChanCap
  BY DrainOneType DEF TypeOK
<1>2. TypeOK'
  BY <1>1 DEF TypeOK, PCs
<1>3. HoldsItsMutex'
  BY DEF TypeOK, HoldsItsMutex, InTransaction
<1> QED
  BY <1>2, <1>3

LEMMA ReturnIInv ==
  ASSUME IInv, NEW c \in Callers, Return(c)
  PROVE  IInv'
<1> USE DEF IInv, Return, Goto, locks, link, expected
<1>1. slave[c] \in Slaves /\ code[c] \in Codes /\ slaveMutex[slave[c]] = c
  BY DEF HoldsItsMutex, InTransaction
<1>2. TypeOK'
  BY DEF TypeOK, PCs
<1>3. HoldsItsMutex'
  <2> SUFFICES ASSUME NEW d \in Callers
               PROVE  /\ pc'[d] = "slaveLock" => slave'[d] \in Slaves /\ code'[d] \in Codes
                      /\ InTransaction(d)' => /\ slave'[d] \in Slaves /\ code'[d] \in Codes
                                              /\ slaveMutex'[slave'[d]] = d
    BY DEF HoldsItsMutex
  <2>1. CASE d = c
    BY <2>1 DEF TypeOK, InTransaction
  <2>2. CASE d # c
    BY <1>1, <2>2 DEF TypeOK, HoldsItsMutex, InTransaction
  <2> QED
    BY <2>1, <2>2
<1> QED
  BY <1>2, <1>3

-----------------------------------------------------------------------------
(* The diagnostic command, onMessage and the link touch no caller's slave  *)
(* and no slave's mutex.                                                   *)
LEMMA DiagnosticIInv ==
  ASSUME IInv, NEW c \in Callers, SendDiagnostic(c) \/ DiagnosticEnds(c)
  PROVE  IInv'
<1> USE DEF IInv, Goto, locks, link, args, expected
<1>1. CASE SendDiagnostic(c)
  <2>1. [slave |-> DiagSlave, code |-> ReadHolding, req |-> 0] \in Frame
    BY GatewayAssumption DEF Frame
  <2>2. wire' \in Seq(Frame)
    BY <1>1, <2>1 DEF SendDiagnostic, TypeOK
  <2>3. TypeOK'
    BY <1>1, <2>2 DEF SendDiagnostic, TypeOK, PCs
  <2>4. HoldsItsMutex'
    BY <1>1 DEF SendDiagnostic, TypeOK, HoldsItsMutex, InTransaction
  <2> QED
    BY <2>3, <2>4
<1>2. CASE DiagnosticEnds(c)
  <2>1. responseChan' \in Seq(Frame) /\ Len(responseChan') <= ChanCap
    <3>1. responseChan \in Seq(Frame) /\ Len(responseChan) <= ChanCap
      BY DEF TypeOK
    <3>2. CASE responseChan # <<>> /\ responseChan' = Tail(responseChan)
      BY <3>1, <3>2, TailType, GatewayAssumption
    <3>3. CASE UNCHANGED responseChan
      BY <3>1, <3>3
    <3> QED
      BY <1>2, <3>2, <3>3 DEF DiagnosticEnds
  <2>2. TypeOK'
    BY <1>2, <2>1 DEF DiagnosticEnds, TypeOK, PCs, Modes
  <2>3. HoldsItsMutex'
    BY <1>2 DEF DiagnosticEnds, TypeOK, HoldsItsMutex, InTransaction
  <2> QED
    BY <2>2, <2>3
<1> QED
  BY <1>1, <1>2

LEMMA OnMessageIInv == ASSUME IInv, OnMessage PROVE IInv'
<1> USE DEF IInv, locks, link, args, expected
<1>1. CASE CheckMessage
  <2>1. Head(wire) \in Frame /\ wire' \in Seq(Frame)
    BY <1>1, TailType DEF CheckMessage, TypeOK
  <2>2. held' \in Seq(Frame) /\ Len(held') <= 1
    BY <1>1, <2>1 DEF CheckMessage
  <2>3. TypeOK'
    BY <1>1, <2>1, <2>2 DEF CheckMessage, TypeOK
  <2> QED
    BY <1>1, <2>3 DEF CheckMessage, HoldsItsMutex, InTransaction
<1>2. CASE Enqueue
  <2>1. Head(held) \in Frame
    BY <1>2, TailType DEF Enqueue, TypeOK
  <2>2. responseChan' \in Seq(Frame) /\ Len(responseChan') <= ChanCap
    BY <1>2, <2>1, GatewayAssumption DEF Enqueue, TypeOK
  <2>3. TypeOK'
    BY <1>2, <2>2 DEF Enqueue, TypeOK
  <2> QED
    BY <1>2, <2>3 DEF Enqueue, HoldsItsMutex, InTransaction
<1> QED
  BY <1>1, <1>2 DEF OnMessage

LEMMA EnvironmentIInv == ASSUME IInv, Environment PROVE IInv'
<1> USE DEF IInv, Environment, Lose, OnConnect, Subscribed, ConnectionLost,
            Disconnect, locks, link, args, expected
<1>1. wire' \in Seq(Frame)
  <2>1. wire \in Seq(Frame)
    BY DEF TypeOK
  <2>2. wire' = wire \/ (wire # <<>> /\ wire' = Tail(wire))
    OBVIOUS
  <2> QED
    BY ONLY <2>1, <2>2, TailType
<1>2. TypeOK'
  BY <1>1 DEF TypeOK
<1>3. HoldsItsMutex'
  BY DEF HoldsItsMutex, InTransaction
<1> QED
  BY <1>2, <1>3

LEMMA NextIInv == IInv /\ [Next]_vars => IInv'
<1> SUFFICES ASSUME IInv, [Next]_vars PROVE IInv'
  OBVIOUS
<1>1. ASSUME NEW c \in Callers, NEW s \in Slaves, NEW f \in Codes, Request(c, s, f)
      PROVE  IInv'
  BY <1>1, RequestIInv
<1>2. ASSUME NEW c \in Callers, Acquire(c) PROVE IInv'
  BY <1>2, LockSlaveIInv, PrepareIInv, TimeoutIInv DEF Acquire
<1>3. ASSUME NEW c \in Callers, Step(c) PROVE IInv'
  BY <1>3, SendIInv, ReceiveIInv, TimeoutIInv, ReturnIInv, DiagnosticIInv DEF Step
<1>4. ASSUME NEW c \in Callers, SendDiagnostic(c) PROVE IInv'
  BY <1>4, DiagnosticIInv
<1>5. CASE UNCHANGED vars
  BY <1>5 DEF IInv, vars, locks, link, args, expected, TypeOK, HoldsItsMutex, InTransaction
<1> QED
  BY <1>1, <1>2, <1>3, <1>4, <1>5, OnMessageIInv, EnvironmentIInv DEF Next

-----------------------------------------------------------------------------
(* The conjunction below holds in every reachable state.                   *)
THEOREM Invariance == Spec => []IInv
BY InitIInv, NextIInv, PTL DEF Spec

(* The response channel never exceeds its capacity, every frame names a    *)
(* slave, and every variable keeps its range.                              *)
THEOREM TypeCorrect == Spec => []TypeOK
<1>1. IInv => TypeOK
  BY DEF IInv
<1> QED
  BY Invariance, <1>1, PTL

(* Transactions with one slave never overlap, for any number of callers,   *)
(* through timeouts, cleanups, failed sends and lost connections.          *)
THEOREM MutualExclusion == Spec => []OneTransactionPerSlave
<1>1. IInv => OneTransactionPerSlave
  BY DEF IInv, HoldsItsMutex, OneTransactionPerSlave
<1> QED
  BY Invariance, <1>1, PTL

-----------------------------------------------------------------------------
(* No request is handed two frames, no frame to two requests.              *)

(* The requests that the frames of a queue answer.                         *)
Reqs(q) == {q[i].req : i \in DOMAIN q}

Earlier(a, b) == a # b /\ (Sequential => a < b)
Precede(S, T) == \A a \in S, b \in T : Earlier(a, b)
Ordered(q)    == \A i, j \in DOMAIN q : i < j => Earlier(q[i].req, q[j].req)

InFlight == Reqs(responseChan) \cup Reqs(held) \cup Reqs(wire)
Answered == {p[1] : p \in accepted}
Used     == {p[2] : p \in accepted}

(* From the oldest frame on: those used, those in the channel, the one     *)
(* onMessage holds, and those on the wire.                                 *)
FramesInOrder ==
  /\ Ordered(responseChan) /\ Ordered(wire)
  /\ Precede(Reqs(responseChan), Reqs(held) \cup Reqs(wire))
  /\ Precede(Reqs(held), Reqs(wire))
  /\ Precede(Used, InFlight)

FramesAskedFor ==
  /\ InFlight \subseteq 1..requestCounter
  /\ accepted \subseteq (1..requestCounter) \X (1..requestCounter)

(* A caller past Prepare has a number of its own, the last one if it is    *)
(* the only caller.                                                        *)
Numbered(c) == pc[c] \in {"send", "wait", "cleanupLock", "cleanup", "return"}

NumbersDiffer ==
  /\ \A c \in Callers : Numbered(c) => /\ req[c] \in 1..requestCounter
                                       /\ Sequential => req[c] = requestCounter
  /\ \A c, d \in Callers : Numbered(c) /\ Numbered(d) /\ c # d => req[c] # req[d]

(* Before its command is sent no frame answers a request, and before it    *)
(* has returned from waiting it was given none.                            *)
NotYetAnswered ==
  \A c \in Callers :
    /\ pc[c] = "send" => Precede(InFlight \cup Used, {req[c]})
    /\ pc[c] \in {"send", "wait"} => Precede(Answered, {req[c]})

AsBridge == FramesInOrder /\ FramesAskedFor /\ NumbersDiffer /\ NotYetAnswered

(* A run for a diagnostic makes no request.                                *)
PInv ==
  /\ IInv
  /\ \A c \in Callers : IF mode = "bridge" THEN pc[c] # "diagnostic"
                                           ELSE pc[c] \in {"idle", "diagnostic"}
  /\ mode = "bridge" => AsBridge

-----------------------------------------------------------------------------
(* What queues do to the requests in them.                                 *)
LEMMA TailReqs ==
  ASSUME NEW q \in Seq(Frame), q # <<>>
  PROVE  /\ Head(q).req \in Reqs(q)
         /\ Reqs(Tail(q)) \subseteq Reqs(q)
         /\ Ordered(q) => Ordered(Tail(q)) /\ Precede({Head(q).req}, Reqs(Tail(q)))
<1>1. /\ Tail(q) \in Seq(Frame) /\ Len(q) \in Nat \ {0} /\ DOMAIN q = 1..Len(q)
      /\ DOMAIN Tail(q) = 1..(Len(q) - 1)
      /\ \A i \in 1..(Len(q) - 1) : Tail(q)[i] = q[i + 1] /\ i + 1 \in 1..Len(q)
      /\ Head(q) = q[1] /\ 1 \in 1..Len(q)
  OBVIOUS
<1>2. Head(q).req \in Reqs(q)
  BY <1>1 DEF Reqs
<1>3. Reqs(Tail(q)) \subseteq Reqs(q)
  BY <1>1 DEF Reqs
<1>4. ASSUME Ordered(q) PROVE Ordered(Tail(q))
  BY <1>1, <1>4 DEF Ordered
<1>5. ASSUME Ordered(q) PROVE Precede({Head(q).req}, Reqs(Tail(q)))
  BY <1>1, <1>5 DEF Ordered, Precede, Reqs
<1> QED
  BY <1>2, <1>3, <1>4, <1>5

LEMMA DrainReqs ==
  ASSUME NEW q \in Seq(Frame)
  PROVE  Reqs(DrainOne(q)) \subseteq Reqs(q) /\ (Ordered(q) => Ordered(DrainOne(q)))
BY TailReqs DEF DrainOne

LEMMA AppendReqs ==
  ASSUME NEW q \in Seq(Frame), NEW f \in Frame
  PROVE  /\ Reqs(Append(q, f)) = Reqs(q) \cup {f.req}
         /\ Ordered(q) /\ Precede(Reqs(q), {f.req}) => Ordered(Append(q, f))
<1>1. /\ Len(q) \in Nat /\ DOMAIN q = 1..Len(q)
      /\ DOMAIN Append(q, f) = 1..(Len(q) + 1)
      /\ \A i \in 1..Len(q) : Append(q, f)[i] = q[i]
      /\ Append(q, f)[Len(q) + 1] = f
  OBVIOUS
<1> DEFINE a == Append(q, f)
<1> HIDE DEF a
<1>2. /\ DOMAIN a = 1..(Len(q) + 1)
      /\ \A i \in 1..Len(q) : a[i] = q[i]
      /\ a[Len(q) + 1] = f
  BY <1>1 DEF a
<1>3. Reqs(a) = Reqs(q) \cup {f.req}
  BY <1>1, <1>2 DEF Reqs
<1>4. ASSUME Ordered(q), Precede(Reqs(q), {f.req}) PROVE Ordered(a)
  BY <1>1, <1>2, <1>4 DEF Ordered, Precede, Reqs
<1> QED
  BY <1>3, <1>4 DEF a

LEMMA OneReq ==
  /\ Reqs(<<>>) = {}
  /\ \A f \in Frame : Reqs(<<f>>) = {f.req}
BY DEF Reqs

LEMMA Fewer ==
  ASSUME NEW S, NEW T, Precede(S, T), NEW S1 \in SUBSET S, NEW T1 \in SUBSET T
  PROVE  Precede(S1, T1)
BY DEF Precede

(* A frame that moves on or is dropped leaves the order as it is.          *)
Drained == responseChan' = DrainOne(responseChan) /\ UNCHANGED <<held, wire>>

Checked ==
  /\ wire # <<>> /\ held = <<>>
  /\ held' = <<Head(wire)>> \/ held' = <<>>
  /\ wire' = Tail(wire) /\ UNCHANGED responseChan

Enqueued ==
  /\ held # <<>> /\ held' = <<>> /\ UNCHANGED wire
  /\ \/ Head(held).code = ReadHolding /\ responseChan' = Append(responseChan, Head(held))
     \/ UNCHANGED responseChan

Lost == wire # <<>> /\ wire' = Tail(wire) /\ UNCHANGED <<responseChan, held>>

LEMMA FramesMove ==
  ASSUME TypeOK, FramesInOrder, UNCHANGED accepted,
         Drained \/ Checked \/ Enqueued \/ Lost \/ UNCHANGED <<responseChan, held, wire>>
  PROVE  InFlight' \subseteq InFlight /\ FramesInOrder'
<1>1. responseChan \in Seq(Frame) /\ held \in Seq(Frame) /\ Len(held) <= 1 /\ wire \in Seq(Frame)
  BY DEF TypeOK
<1> DEFINE C == Reqs(responseChan)
           H == Reqs(held)
           W == Reqs(wire)
<1>2. /\ Ordered(responseChan) /\ Ordered(wire)
      /\ Precede(C, H \cup W) /\ Precede(H, W) /\ Precede(Used, C \cup H \cup W)
  BY Zenon DEF FramesInOrder, InFlight
<1>3. SUFFICES /\ C' \cup H' \cup W' \subseteq C \cup H \cup W
               /\ Ordered(responseChan') /\ Ordered(wire')
               /\ Precede(C', H' \cup W') /\ Precede(H', W')
  <2>1. Used' = Used
    BY Zenon DEF Used
  <2>2. Precede(Used', InFlight')
    BY <1>2, <1>3, <2>1, Fewer DEF InFlight
  <2> QED
    BY <1>3, <2>2, Zenon DEF FramesInOrder, InFlight
<1>4. CASE Drained
  <2>1. C' \subseteq C /\ Ordered(responseChan') /\ H' = H /\ W' = W /\ wire' = wire
    BY <1>1, <1>2, <1>4, DrainReqs DEF Drained
  <2> QED
    BY <1>2, <2>1, Fewer
<1>5. CASE Checked
  <2>1. /\ Head(wire) \in Frame /\ Head(wire).req \in W /\ W' \subseteq W /\ Ordered(wire')
        /\ Precede({Head(wire).req}, W') /\ C' = C /\ responseChan' = responseChan
    BY <1>1, <1>2, <1>5, TailReqs, TailType DEF Checked
  <2>2. H' \subseteq {Head(wire).req}
    BY <1>5, <2>1, OneReq DEF Checked
  <2>3. H' \cup W' \subseteq W
    BY <2>1, <2>2
  <2>4. Precede(H', W')
    BY <2>1, <2>2, Fewer
  <2>5. Precede(C', H' \cup W')
    BY <1>2, <2>1, <2>3, Fewer
  <2> QED
    BY <1>2, <2>1, <2>3, <2>4, <2>5
<1>6. CASE Enqueued
  <2>1. H' = {} /\ W' = W /\ wire' = wire /\ Head(held) \in Frame /\ Head(held).req \in H
    BY <1>1, <1>6, OneReq, TailReqs, TailType DEF Enqueued
  <2>2. CASE responseChan' = Append(responseChan, Head(held))
    <3>1. C' = C \cup {Head(held).req}
      BY <1>1, <2>1, <2>2, AppendReqs
    <3>2. Precede(C, {Head(held).req})
      BY <1>2, <2>1, Fewer
    <3>3. Ordered(responseChan')
      BY <1>1, <1>2, <2>1, <2>2, <3>2, AppendReqs
    <3>4. Precede(C', H' \cup W')
      BY <1>2, <2>1, <3>1 DEF Precede
    <3> QED
      BY <1>2, <2>1, <3>1, <3>3, <3>4, Fewer
  <2>3. CASE UNCHANGED responseChan
    <3>1. C' = C
      BY <2>3
    <3> QED
      BY <1>2, <2>1, <2>3, <3>1, Fewer
  <2> QED
    BY <1>6, <2>2, <2>3 DEF Enqueued
<1>7. CASE Lost
  <2>1. W' \subseteq W /\ Ordered(wire') /\ C' = C /\ H' = H /\ responseChan' = responseChan
    BY <1>1, <1>2, <1>7, TailReqs DEF Lost
  <2> QED
    BY <1>2, <2>1, Fewer
<1>8. CASE UNCHANGED <<responseChan, held, wire>>
  BY <1>2, <1>8
<1> QED
  BY <1>4, <1>5, <1>6, <1>7, <1>8

(* A step that numbers no request and answers none keeps the rest.         *)
NoNewNumber ==
  \A c \in Callers :
    /\ Numbered(c)' => /\ Numbered(c) /\ req'[c] = req[c]
                       /\ slave'[c] = slave[c] /\ code'[c] = code[c]
    /\ ~Numbered(c)' => req'[c] = 0 \/ (~Numbered(c) /\ req'[c] = req[c])
    /\ pc'[c] = "send" => pc[c] = "send"
    /\ pc'[c] \in {"send", "wait"} => pc[c] \in {"send", "wait"}

LEMMA QuietStep ==
  ASSUME TypeOK, AsBridge, UNCHANGED <<requestCounter, accepted>>, NoNewNumber,
         Drained \/ Checked \/ Enqueued \/ Lost \/ UNCHANGED <<responseChan, held, wire>>
  PROVE  AsBridge'
<1>1. InFlight' \subseteq InFlight /\ FramesInOrder'
  BY FramesMove, Zenon DEF AsBridge
<1>2. FramesAskedFor'
  BY <1>1 DEF AsBridge, FramesAskedFor
<1>3. NumbersDiffer'
  BY Zenon DEF AsBridge, NumbersDiffer, NoNewNumber
<1>4. NotYetAnswered'
  <2>1. Used' = Used /\ Answered' = Answered
    BY Zenon DEF Used, Answered
  <2>2. SUFFICES ASSUME NEW c \in Callers
                 PROVE  /\ pc'[c] = "send" => Precede(InFlight' \cup Used, {req'[c]})
                        /\ pc'[c] \in {"send", "wait"} => Precede(Answered, {req'[c]})
    BY <2>1, Zenon DEF NotYetAnswered
  <2>3. CASE pc'[c] = "send"
    <3>1. req'[c] = req[c] /\ pc[c] = "send"
      BY <2>3, Zenon DEF NoNewNumber, Numbered
    <3>2. Precede(InFlight \cup Used, {req[c]}) /\ Precede(Answered, {req[c]})
      BY <3>1 DEF AsBridge, NotYetAnswered
    <3> QED
      BY <1>1, <3>1, <3>2, Fewer
  <2>4. CASE pc'[c] = "wait"
    <3>1. req'[c] = req[c] /\ pc[c] \in {"send", "wait"}
      BY <2>4, Zenon DEF NoNewNumber, Numbered
    <3> QED
      BY <2>4, <3>1 DEF AsBridge, NotYetAnswered
  <2> QED
    BY <2>3, <2>4
<1> QED
  BY <1>1, <1>2, <1>3, <1>4, Zenon DEF AsBridge

-----------------------------------------------------------------------------
(* The three steps that matter: a request is numbered, its command is      *)
(* sent, and a frame is taken for its answer.                              *)
LEMMA PrepareStep ==
  ASSUME TypeOK, AsBridge, NEW c \in Callers, Prepare(c)
  PROVE  AsBridge'
<1> DEFINE n == requestCounter
<1>1. /\ n \in Nat /\ n' = n + 1 /\ req' = [req EXCEPT ![c] = n + 1]
      /\ pc' = [pc EXCEPT ![c] = "send"] /\ UNCHANGED accepted
      /\ pc \in [Callers -> PCs] /\ req \in [Callers -> Nat]
  BY DEF Prepare, Goto, TypeOK
<1>2. InFlight' \subseteq InFlight /\ FramesInOrder'
  <2>1. Drained
    BY DEF Prepare, Drained
  <2> QED
    BY <1>1, <2>1, FramesMove DEF AsBridge
<1>3. /\ InFlight \subseteq 1..n /\ accepted \subseteq (1..n) \X (1..n)
      /\ Used \subseteq 1..n /\ Answered \subseteq 1..n
  BY DEF AsBridge, FramesAskedFor, Used, Answered
<1>4. FramesAskedFor'
  <2>1. \A k \in 1..n : k \in 1..(n + 1)
    BY <1>1
  <2> QED
    BY <1>1, <1>2, <1>3, <2>1 DEF FramesAskedFor
<1>5. \A d \in Callers : d # c => /\ ~Sequential
                                  /\ req'[d] = req[d] /\ pc'[d] = pc[d]
  BY <1>1 DEF Sequential
<1>6. req'[c] = n + 1 /\ pc'[c] = "send"
  BY <1>1
<1>7. \A d \in Callers : d # c /\ Numbered(d)' => Numbered(d) /\ req[d] \in 1..n
  BY <1>5, Zenon DEF AsBridge, NumbersDiffer, Numbered
<1>8. NumbersDiffer'
  <2>1. \A d \in Callers : Numbered(d)' => /\ req'[d] \in 1..n'
                                           /\ Sequential => req'[d] = n'
    BY <1>1, <1>5, <1>6, <1>7
  <2>2. ASSUME NEW d \in Callers, NEW e \in Callers, Numbered(d)', Numbered(e)', d # e
        PROVE  req'[d] # req'[e]
    <3>1. CASE d # c /\ e # c
      BY <1>5, <1>7, <2>2, <3>1 DEF AsBridge, NumbersDiffer
    <3>2. CASE d = c \/ e = c
      BY <1>1, <1>5, <1>6, <1>7, <2>2, <3>2
    <3> QED
      BY <3>1, <3>2
  <2> QED
    BY <2>1, <2>2 DEF NumbersDiffer
<1>9. NotYetAnswered'
  <2>1. Used' = Used /\ Answered' = Answered
    BY <1>1, Zenon DEF Used, Answered
  <2>2. \A k \in 1..n : Earlier(k, n + 1)
    BY <1>1 DEF Earlier
  <2>3. Precede(InFlight' \cup Used, {n + 1}) /\ Precede(Answered, {n + 1})
    BY <1>2, <1>3, <2>2 DEF Precede
  <2>4. SUFFICES ASSUME NEW d \in Callers
                 PROVE  /\ pc'[d] = "send" => Precede(InFlight' \cup Used, {req'[d]})
                        /\ pc'[d] \in {"send", "wait"} => Precede(Answered, {req'[d]})
    BY <2>1, Zenon DEF NotYetAnswered
  <2>5. CASE d = c
    BY <1>6, <2>3, <2>5
  <2>6. CASE d # c
    <3>1. /\ pc[d] = "send" => Precede(InFlight \cup Used, {req[d]})
          /\ pc[d] \in {"send", "wait"} => Precede(Answered, {req[d]})
      BY DEF AsBridge, NotYetAnswered
    <3> QED
      BY <1>2, <1>5, <2>6, <3>1, Fewer
  <2> QED
    BY <2>5, <2>6
<1> QED
  BY <1>2, <1>4, <1>8, <1>9, Zenon DEF AsBridge

LEMMA SendStep ==
  ASSUME IInv, AsBridge, NEW c \in Callers, SendCommand(c)
  PROVE  AsBridge'
<1> DEFINE f == [slave |-> slave[c], code |-> code[c], req |-> req[c]]
<1>1. /\ TypeOK /\ pc \in [Callers -> PCs] /\ pc[c] = "send"
      /\ wire \in Seq(Frame) /\ responseChan \in Seq(Frame) /\ held \in Seq(Frame)
      /\ UNCHANGED <<requestCounter, accepted, slave, code, req>>
      /\ responseChan' = DrainOne(responseChan) /\ UNCHANGED held
  BY DEF SendCommand, IInv, TypeOK, args
<1>2. f \in Frame /\ f.req = req[c]
  BY <1>1 DEF IInv, TypeOK, HoldsItsMutex, InTransaction, Frame
<1> HIDE DEF f
<1>3. CASE wire' = wire /\ pc' = [pc EXCEPT ![c] = "return"]
  <2>1. NoNewNumber
    BY <1>1, <1>3 DEF NoNewNumber, Numbered
  <2>2. Drained
    BY <1>1, <1>3 DEF Drained
  <2> QED
    BY <1>1, <2>1, <2>2, QuietStep
<1>4. CASE wire' = Append(wire, f) /\ pc' = [pc EXCEPT ![c] = "wait"]
  <2> DEFINE C == Reqs(responseChan)
             H == Reqs(held)
             W == Reqs(wire)
             r == req[c]
  <2>1. /\ Ordered(responseChan) /\ Ordered(wire)
        /\ Precede(C, H \cup W) /\ Precede(H, W) /\ Precede(Used, C \cup H \cup W)
        /\ Precede(C \cup H \cup W \cup Used, {r}) /\ Precede(Answered, {r})
        /\ InFlight = C \cup H \cup W
    BY <1>1 DEF AsBridge, FramesInOrder, NotYetAnswered, InFlight
  <2>2. C' \subseteq C /\ Ordered(responseChan') /\ H' = H
    BY <1>1, <2>1, DrainReqs
  <2>3. W' = W \cup {r} /\ Ordered(wire')
    <3>1. Precede(W, {f.req})
      BY <1>2, <2>1, Fewer
    <3> QED
      BY <1>1, <1>2, <1>4, <2>1, <3>1, AppendReqs
  <2>4. Used' = Used /\ Answered' = Answered
    BY <1>1, Zenon DEF Used, Answered
  <2>5. InFlight' \subseteq InFlight \cup {r}
    BY <2>1, <2>2, <2>3 DEF InFlight
  <2>6. FramesInOrder'
    <3>1. Precede(C', H' \cup W')
      BY <2>1, <2>2, <2>3 DEF Precede
    <3>2. Precede(H', W')
      BY <2>1, <2>2, <2>3 DEF Precede
    <3>3. Precede(Used', InFlight')
      BY <2>1, <2>4, <2>5 DEF Precede
    <3> QED
      BY <2>2, <2>3, <3>1, <3>2, <3>3 DEF FramesInOrder
  <2>7. /\ \A d \in Callers : Numbered(d)' => Numbered(d)
        /\ Numbered(c) /\ Numbered(c)'
    BY <1>1, <1>4 DEF Numbered
  <2>8. NumbersDiffer'
    BY <1>1, <2>7, Zenon DEF AsBridge, NumbersDiffer
  <2>9. FramesAskedFor'
    <3>1. r \in 1..requestCounter
      BY <2>7 DEF AsBridge, NumbersDiffer
    <3> QED
      BY <1>1, <2>5, <3>1 DEF AsBridge, FramesAskedFor
  <2>10. NotYetAnswered'
    <3>1. SUFFICES ASSUME NEW d \in Callers
                   PROVE  /\ pc'[d] = "send" => Precede(InFlight' \cup Used, {req[d]})
                          /\ pc'[d] \in {"send", "wait"} => Precede(Answered, {req[d]})
      BY <1>1, <2>4, Zenon DEF NotYetAnswered
    <3>2. CASE d = c
      BY <1>1, <1>4, <2>1, <3>2
    <3>3. CASE d # c
      <4>1. pc'[d] = pc[d] /\ ~Sequential
        BY <1>1, <1>4, <3>3 DEF Sequential
      <4>2. /\ pc[d] = "send" => Precede(InFlight \cup Used, {req[d]})
            /\ pc[d] \in {"send", "wait"} => Precede(Answered, {req[d]})
        BY DEF AsBridge, NotYetAnswered
      <4>3. pc[d] = "send" => r # req[d]
        BY <2>7, <3>3 DEF AsBridge, NumbersDiffer, Numbered
      <4>4. pc[d] = "send" => Precede(InFlight' \cup Used, {req[d]})
        BY <2>5, <4>1, <4>2, <4>3 DEF Precede, Earlier
      <4> QED
        BY <4>1, <4>2, <4>4
    <3> QED
      BY <3>2, <3>3
  <2> QED
    BY <2>6, <2>8, <2>9, <2>10, Zenon DEF AsBridge
<1> QED
  BY <1>3, <1>4 DEF SendCommand, Goto, f

(* The frame at the head of the channel is older than all in flight and    *)
(* younger than all used: it fits the request that waits.                  *)
LEMMA ReceiveFits ==
  ASSUME TypeOK, AsBridge, NEW c \in Callers, pc[c] = "wait", responseChan # <<>>
  PROVE  /\ Head(responseChan).req \in InFlight
         /\ Head(responseChan).req \in 1..requestCounter /\ req[c] \in 1..requestCounter
         /\ Sequential => Head(responseChan).req <= req[c]
         /\ Promise!Fits(req[c], Head(responseChan).req)
<1> DEFINE a == Head(responseChan).req
<1>1. a \in InFlight
  BY TailReqs DEF TypeOK, InFlight
<1>2. /\ a \in 1..requestCounter /\ req[c] \in 1..requestCounter
      /\ Sequential => req[c] = requestCounter
  BY <1>1 DEF AsBridge, FramesAskedFor, NumbersDiffer, Numbered
<1>3. Sequential => a <= req[c]
  BY <1>2
<1>4. Promise!Fits(req[c], a)
  <2>1. \A p \in accepted : Earlier(p[1], req[c]) /\ Earlier(p[2], a)
    BY <1>1, Zenon DEF AsBridge, FramesInOrder, NotYetAnswered, Precede, Used, Answered
  <2> QED
    BY <2>1, Zenon DEF Promise!Fits, Earlier
<1> QED
  BY <1>1, <1>2, <1>3, <1>4

LEMMA ReceiveStep ==
  ASSUME TypeOK, AsBridge, NEW c \in Callers, Receive(c)
  PROVE  AsBridge'
<1> DEFINE C == Reqs(responseChan)
           H == Reqs(held)
           W == Reqs(wire)
           r == req[c]
           a == Head(responseChan).req
<1>1. /\ pc[c] = "wait" /\ pc \in [Callers -> PCs] /\ pc' = [pc EXCEPT ![c] = "return"]
      /\ responseChan # <<>> /\ responseChan \in Seq(Frame)
      /\ responseChan' = Tail(responseChan) /\ accepted' = accepted \cup {<<r, a>>}
      /\ UNCHANGED <<req, requestCounter, held, wire>>
  BY DEF Receive, Goto, TypeOK, args
<1>2. a \in InFlight /\ a \in 1..requestCounter /\ r \in 1..requestCounter
  BY <1>1, ReceiveFits
<1>3. Used' = Used \cup {a} /\ Answered' = Answered \cup {r}
  <2>1. ASSUME NEW x, NEW y, accepted' = accepted \cup {<<x, y>>}
        PROVE  Used' = Used \cup {y} /\ Answered' = Answered \cup {x}
    <3>1. <<x, y>>[1] = x /\ <<x, y>>[2] = y
      OBVIOUS
    <3> QED
      BY <2>1, <3>1 DEF Used, Answered
  <2> QED
    BY <1>1, <2>1
<1>4. /\ Ordered(responseChan) /\ Ordered(wire)
      /\ Precede(C, H \cup W) /\ Precede(H, W) /\ Precede(Used, C \cup H \cup W)
      /\ InFlight = C \cup H \cup W
  BY Zenon DEF AsBridge, FramesInOrder, InFlight
<1>5. /\ a \in C /\ C' \subseteq C /\ Ordered(responseChan') /\ Precede({a}, C')
      /\ H' = H /\ W' = W /\ wire' = wire
  BY <1>1, <1>4, TailReqs
<1>6. InFlight' \subseteq InFlight
  BY <1>4, <1>5 DEF InFlight
<1>7. FramesInOrder'
  <2>1. Precede(C', H' \cup W') /\ Precede(H', W')
    BY <1>4, <1>5, Fewer
  <2>2. Precede(Used', InFlight')
    BY <1>3, <1>4, <1>5 DEF Precede, InFlight
  <2> QED
    BY <1>4, <1>5, <2>1, <2>2 DEF FramesInOrder
<1>8. FramesAskedFor'
  BY <1>1, <1>2, <1>6 DEF AsBridge, FramesAskedFor
<1>9. \A d \in Callers : Numbered(d)' => Numbered(d)
  BY <1>1 DEF Numbered
<1>10. NumbersDiffer'
  BY <1>1, <1>9, Zenon DEF AsBridge, NumbersDiffer
<1>11. NotYetAnswered'
  <2>1. SUFFICES ASSUME NEW d \in Callers
                 PROVE  /\ pc'[d] = "send" => Precede(InFlight' \cup Used', {req[d]})
                        /\ pc'[d] \in {"send", "wait"} => Precede(Answered', {req[d]})
    BY <1>1, Zenon DEF NotYetAnswered
  <2>2. CASE d = c
    BY <1>1, <2>2
  <2>3. CASE d # c
    <3>1. pc'[d] = pc[d] /\ ~Sequential
      BY <1>1, <2>3 DEF Sequential
    <3>2. /\ pc[d] = "send" => Precede(InFlight \cup Used, {req[d]})
          /\ pc[d] \in {"send", "wait"} => Precede(Answered, {req[d]})
      BY DEF AsBridge, NotYetAnswered
    <3>3. pc[d] \in {"send", "wait"} => r # req[d]
      BY <1>1, <2>3 DEF AsBridge, NumbersDiffer, Numbered
    <3>4. pc[d] = "send" => Precede(InFlight' \cup Used', {req[d]})
      BY <1>2, <1>3, <1>6, <3>2 DEF Precede
    <3>5. pc[d] \in {"send", "wait"} => Precede(Answered', {req[d]})
      BY <1>3, <3>1, <3>2, <3>3 DEF Precede, Earlier
    <3> QED
      BY <3>1, <3>4, <3>5
  <2> QED
    BY <2>2, <2>3
<1> QED
  BY <1>7, <1>8, <1>10, <1>11, Zenon DEF AsBridge

-----------------------------------------------------------------------------
(* A run for a diagnostic numbers no request and hands none a frame.       *)
LEMMA DiagnosticRun ==
  ASSUME PInv, mode # "bridge", [Next]_vars
  PROVE  /\ mode' # "bridge" /\ UNCHANGED <<requestCounter, accepted>>
         /\ \A c \in Callers : pc'[c] \in {"idle", "diagnostic"}
<1>1. TypeOK /\ \A c \in Callers : pc[c] \in {"idle", "diagnostic"}
  BY Zenon DEF PInv, IInv
<1>2. pc \in [Callers -> PCs]
  BY <1>1 DEF TypeOK
<1>3. ASSUME NEW c \in Callers, SendDiagnostic(c) \/ DiagnosticEnds(c)
      PROVE  /\ mode' # "bridge" /\ UNCHANGED <<requestCounter, accepted>>
             /\ \A d \in Callers : pc'[d] \in {"idle", "diagnostic"}
  BY <1>1, <1>2, <1>3 DEF SendDiagnostic, DiagnosticEnds, Goto
<1>4. ASSUME NEW c \in Callers, NEW s \in Slaves, NEW f \in Codes PROVE ~Request(c, s, f)
  BY DEF Request
<1>5. ASSUME NEW c \in Callers
      PROVE  /\ ~Acquire(c) /\ ~SendCommand(c) /\ ~SendFails(c) /\ ~Receive(c)
             /\ ~Timeout(c) /\ ~Cleanup(c) /\ ~Return(c)
  BY <1>1 DEF Acquire, LockSlave, Prepare, LockForCleanup, SendCommand, SendFails,
              Receive, Timeout, Cleanup, Return
<1>6. CASE OnMessage \/ Environment \/ UNCHANGED vars
  BY <1>1, <1>6 DEF OnMessage, Environment, CheckMessage, Enqueue, Lose, OnConnect,
                    Subscribed, ConnectionLost, Disconnect, vars
<1> QED
  BY <1>3, <1>4, <1>5, <1>6, Zenon DEF Next, Step

(* The bridge itself never runs a diagnostic.                              *)
LEMMA BridgeRun ==
  ASSUME PInv, mode = "bridge", [Next]_vars
  PROVE  mode' = "bridge" /\ \A c \in Callers : pc'[c] # "diagnostic"
<1>1. pc \in [Callers -> PCs] /\ \A c \in Callers : pc[c] # "diagnostic"
  BY DEF PInv, IInv, TypeOK
<1> DEFINE Stays == mode' = "bridge" /\ \A c \in Callers : pc'[c] # "diagnostic"
<1>2. ASSUME NEW c \in Callers, NEW l, l # "diagnostic", Goto(c, l), mode' = mode
      PROVE  Stays
  BY <1>1, <1>2 DEF Goto
<1> HIDE DEF Stays
<1>3. ASSUME NEW c \in Callers, NEW s \in Slaves, NEW f \in Codes, Request(c, s, f)
      PROVE  Stays
  BY <1>2, <1>3 DEF Request
<1>4. ASSUME NEW c \in Callers, Acquire(c) PROVE Stays
  BY <1>2, <1>4 DEF Acquire, LockSlave, Prepare, LockForCleanup
<1>5. ASSUME NEW c \in Callers, Step(c) PROVE Stays
  <2>1. ~DiagnosticEnds(c)
    BY <1>1 DEF DiagnosticEnds
  <2>2. CASE SendCommand(c) \/ SendFails(c) \/ Receive(c)
    BY <1>2, <2>2 DEF SendCommand, SendFails, Receive
  <2>3. CASE Timeout(c) \/ Cleanup(c) \/ Return(c)
    BY <1>2, <2>3 DEF Timeout, Cleanup, Return
  <2> QED
    BY <1>5, <2>1, <2>2, <2>3, Zenon DEF Step
<1>6. ASSUME NEW c \in Callers PROVE ~SendDiagnostic(c)
  BY DEF SendDiagnostic
<1>7. CASE OnMessage \/ Environment \/ UNCHANGED vars
  BY <1>1, <1>7 DEF OnMessage, Environment, CheckMessage, Enqueue, Lose, OnConnect,
                    Subscribed, ConnectionLost, Disconnect, vars, Stays
<1>8. Stays
  BY <1>3, <1>4, <1>5, <1>6, <1>7 DEF Next, Stays
<1> QED
  BY <1>8 DEF Stays

(* All but the three steps above only move frames on, or none.             *)
LEMMA OtherSteps ==
  ASSUME PInv, mode = "bridge", [Next]_vars,
         \A c \in Callers : ~Prepare(c) /\ ~SendCommand(c) /\ ~Receive(c)
  PROVE  /\ UNCHANGED <<requestCounter, accepted, expected>>
         /\ NoNewNumber
         /\ Drained \/ Checked \/ Enqueued \/ Lost \/ UNCHANGED <<responseChan, held, wire>>
<1> DEFINE Moves == Drained \/ Checked \/ Enqueued \/ Lost
                    \/ UNCHANGED <<responseChan, held, wire>>
           Quiet == UNCHANGED <<requestCounter, accepted, expected>> /\ NoNewNumber /\ Moves
<1>1. /\ pc \in [Callers -> PCs] /\ req \in [Callers -> Nat]
      /\ slave \in [Callers -> Slaves \cup {NoSlave}] /\ code \in [Callers -> Codes \cup {NoCode}]
  BY DEF PInv, IInv, TypeOK
<1>2. ASSUME NEW c \in Callers, NEW l, Goto(c, l), UNCHANGED args,
             \/ l \in {"slaveLock", "commandLock"} /\ ~Numbered(c)
             \/ l \in {"cleanupLock", "cleanup", "return"} /\ Numbered(c)
      PROVE  NoNewNumber
  BY <1>1, <1>2 DEF Goto, NoNewNumber, Numbered, args
<1>3. UNCHANGED <<pc, args>> => NoNewNumber
  BY DEF NoNewNumber, Numbered, args
<1>4. ASSUME NEW c \in Callers, NEW s \in Slaves, NEW f \in Codes, Request(c, s, f)
      PROVE  Quiet
  <2>1. NoNewNumber
    <3>1. /\ pc[c] = "idle" /\ pc' = [pc EXCEPT ![c] = "slaveLock"] /\ UNCHANGED req
          /\ slave' = [slave EXCEPT ![c] = s] /\ code' = [code EXCEPT ![c] = f]
      BY <1>4 DEF Request, Goto
    <3> QED
      BY <1>1, <3>1 DEF NoNewNumber, Numbered
  <2> QED
    BY <1>4, <2>1 DEF Request
<1>5. ASSUME NEW c \in Callers, Acquire(c) PROVE Quiet
  <2>1. CASE LockSlave(c)
    BY <1>2, <2>1 DEF LockSlave, Numbered
  <2>2. CASE LockForCleanup(c)
    BY <1>2, <2>2 DEF LockForCleanup, args, Numbered
  <2> QED
    BY <1>5, <2>1, <2>2 DEF Acquire
<1>6. ASSUME NEW c \in Callers, Step(c) PROVE Quiet
  <2>1. CASE SendFails(c)
    BY <1>2, <2>1 DEF SendFails, args, Numbered
  <2>2. CASE Timeout(c)
    BY <1>2, <2>2 DEF Timeout, args, Numbered
  <2>3. CASE Cleanup(c)
    BY <1>2, <2>3 DEF Cleanup, args, Numbered, Drained
  <2>4. CASE Return(c)
    <3>1. /\ pc' = [pc EXCEPT ![c] = "idle"] /\ req' = [req EXCEPT ![c] = 0]
          /\ slave' = [slave EXCEPT ![c] = NoSlave] /\ code' = [code EXCEPT ![c] = NoCode]
      BY <2>4 DEF Return, Goto
    <3>2. NoNewNumber
      BY <1>1, <3>1 DEF NoNewNumber, Numbered
    <3> QED
      BY <2>4, <3>2 DEF Return, expected
  <2>5. ~DiagnosticEnds(c)
    BY DEF PInv, DiagnosticEnds
  <2> QED
    BY <1>6, <2>1, <2>2, <2>3, <2>4, <2>5, Zenon DEF Step
<1>7. ASSUME NEW c \in Callers PROVE ~SendDiagnostic(c)
  BY DEF SendDiagnostic
<1>8. CASE OnMessage
  <2>1. CASE CheckMessage
    BY <1>3, <2>1 DEF CheckMessage, Checked, args
  <2>2. CASE Enqueue
    BY <1>3, <2>2 DEF Enqueue, Enqueued, args
  <2> QED
    BY <1>8, <2>1, <2>2 DEF OnMessage
<1>9. CASE Environment \/ UNCHANGED vars
  BY <1>3, <1>9 DEF Environment, Lose, Lost, OnConnect, Subscribed, ConnectionLost,
                    Disconnect, args, vars
<1>10. Quiet
  BY <1>4, <1>5, <1>6, <1>7, <1>8, <1>9, Zenon DEF Next
<1> QED
  BY <1>10

LEMMA InitPInv == Init => PInv
<1> SUFFICES ASSUME Init PROVE PInv
  OBVIOUS
<1>1. IInv
  BY InitIInv
<1>2. \A c \in Callers : pc[c] = "idle"
  BY DEF Init
<1>3. /\ responseChan = <<>> /\ held = <<>> /\ wire = <<>>
      /\ accepted = {} /\ requestCounter = 0
  BY DEF Init
<1>4. InFlight = {} /\ Used = {} /\ Reqs(<<>>) = {} /\ Ordered(<<>>)
  BY <1>3, OneReq DEF InFlight, Used, Ordered
<1>5. FramesInOrder /\ FramesAskedFor
  BY <1>3, <1>4 DEF FramesInOrder, FramesAskedFor, Precede
<1>6. NumbersDiffer /\ NotYetAnswered
  BY <1>2 DEF NumbersDiffer, NotYetAnswered, Numbered
<1> QED
  BY <1>1, <1>2, <1>5, <1>6 DEF PInv, AsBridge

LEMMA NextPInv == PInv /\ [Next]_vars => PInv'
<1> SUFFICES ASSUME PInv, [Next]_vars PROVE PInv'
  OBVIOUS
<1>1. IInv /\ IInv' /\ TypeOK
  BY NextIInv, Zenon DEF PInv, IInv
<1>2. CASE mode # "bridge"
  BY <1>1, <1>2, DiagnosticRun DEF PInv
<1>3. CASE mode = "bridge"
  <2>1. AsBridge
    BY <1>3, Zenon DEF PInv
  <2>2. AsBridge'
    <3>1. CASE \E c \in Callers : Prepare(c) \/ SendCommand(c) \/ Receive(c)
      BY <1>1, <2>1, <3>1, PrepareStep, SendStep, ReceiveStep, Zenon
    <3>2. CASE \A c \in Callers : ~Prepare(c) /\ ~SendCommand(c) /\ ~Receive(c)
      BY <1>1, <1>3, <2>1, <3>2, OtherSteps, QuietStep, Zenon
    <3> QED
      BY <3>1, <3>2, Zenon
  <2> QED
    BY <1>1, <1>3, <2>2, BridgeRun, Zenon DEF PInv
<1> QED
  BY <1>2, <1>3, Zenon

LEMMA NextPromised == PInv /\ [Next]_vars => [Promise!Next]_<<requestCounter, accepted>>
<1> SUFFICES ASSUME PInv, [Next]_vars
             PROVE  Promise!Next \/ UNCHANGED <<requestCounter, accepted>>
  OBVIOUS
<1>1. CASE mode # "bridge"
  BY <1>1, DiagnosticRun
<1>2. CASE mode = "bridge"
  <2>1. TypeOK /\ AsBridge
    BY <1>2, Zenon DEF PInv, IInv
  <2>2. ASSUME NEW c \in Callers, Prepare(c) PROVE Promise!Next
    BY <2>2 DEF Prepare, Promise!Next, Promise!Issue
  <2>3. ASSUME NEW c \in Callers, SendCommand(c)
        PROVE  UNCHANGED <<requestCounter, accepted>>
    BY <2>3 DEF SendCommand
  <2>4. ASSUME NEW c \in Callers, Receive(c) PROVE Promise!Next
    <3> DEFINE r == req[c]
               a == Head(responseChan).req
    <3>1. /\ pc[c] = "wait" /\ responseChan # <<>> /\ requestCounter' = requestCounter
          /\ accepted' = accepted \cup {<<r, a>>}
      BY <2>4 DEF Receive
    <3>2. /\ r \in 1..requestCounter /\ a \in 1..requestCounter
          /\ Sequential => a <= r
          /\ Promise!Fits(r, a)
      BY <2>1, <3>1, ReceiveFits
    <3>3. Promise!Accept(r, a)
      BY <3>1, <3>2 DEF Promise!Accept
    <3> QED
      BY <3>2, <3>3 DEF Promise!Next
  <2>5. CASE \A c \in Callers : ~Prepare(c) /\ ~SendCommand(c) /\ ~Receive(c)
    BY <1>2, <2>5, OtherSteps
  <2> QED
    BY <2>2, <2>3, <2>4, <2>5, Zenon
<1> QED
  BY <1>1, <1>2

(* Whatever the link loses and however calls time out, no request is       *)
(* handed two frames and no frame to two requests, for any number of       *)
(* callers and slaves; called by one goroutine alone, the gateway hands    *)
(* the frames out in the order in which they were asked for, and none      *)
(* before its request.                                                     *)
THEOREM ImplementsPromise == Spec => KeepsPromise
<1>1. Init => Promise!Init
  BY DEF Init, Promise!Init
<1>2. PInv /\ [Next]_vars => [Promise!Next]_(Promise!vars)
  BY NextPromised DEF Promise!vars
<1> QED
  BY InitPInv, NextPInv, <1>1, <1>2, PTL DEF Spec, KeepsPromise, Promise!Spec

-----------------------------------------------------------------------------
(* Called by one goroutine: a frame that still fits a request is no older, *)
(* counted in requests, than there are requests before it unanswered.      *)
Unanswered(r) == {u \in 1..(r - 1) : \A q \in accepted : q[1] # u}

LagBounded ==
  \A r, a \in Nat \ {0} :
    Promise!Fits(r, a) => r - a <= Cardinality(Unanswered(r))

LagInv == PInv /\ LagBounded /\ LagBoundedByUnanswered

LEMMA UnansweredFinite ==
  ASSUME NEW r \in Nat \ {0}
  PROVE  IsFiniteSet(Unanswered(r)) /\ Cardinality(Unanswered(r)) \in Nat
<1>1. Unanswered(r) \subseteq 1..(r - 1)
  BY DEF Unanswered
<1>2. IsFiniteSet(Unanswered(r))
  BY <1>1, FS_Interval, FS_Subset
<1> QED
  BY <1>2, FS_CardinalityType

(* Requests skipped between one answered and the next stay unanswered.     *)
LEMMA AcceptLag ==
  ASSUME AsBridge, LagBounded, LagBoundedByUnanswered, Sequential,
         NEW r \in 1..requestCounter, NEW a \in 1..requestCounter,
         requestCounter \in Nat, Promise!Accept(r, a)
  PROVE  LagBounded' /\ LagBoundedByUnanswered'
<1>1. /\ a <= r /\ Promise!Fits(r, a) /\ accepted' = accepted \cup {<<r, a>>}
      /\ \A p \in accepted : p[1] < r /\ p[2] < a
  BY DEF Promise!Accept, Promise!Fits
<1> HIDE DEF Promise!Accept
<1>2. r - a <= Cardinality(Unanswered(r))
  BY <1>1 DEF LagBounded
<1>3. <<r, a>>[1] = r /\ <<r, a>>[2] = a
  OBVIOUS
<1>4. ASSUME NEW u \in Nat \ {0}, u <= r PROVE Unanswered(u)' = Unanswered(u)
  BY <1>1, <1>3, <1>4 DEF Unanswered
<1>5. LagBounded'
  <2> SUFFICES ASSUME NEW u \in Nat \ {0}, NEW b \in Nat \ {0}, Promise!Fits(u, b)'
               PROVE  u - b <= Cardinality(Unanswered(u)')
    BY DEF LagBounded
  <2>1. r < u /\ a < b
    BY <1>1, <1>3 DEF Promise!Fits
  <2> DEFINE S == Unanswered(r)
             T == (r + 1)..(u - 1)
             V == Unanswered(u)'
  <2>2. IsFiniteSet(S) /\ Cardinality(S) \in Nat
    BY UnansweredFinite
  <2>3. IsFiniteSet(T) /\ Cardinality(T) = u - 1 - r
    <3>1. r + 1 \in Int /\ u - 1 \in Int
      OBVIOUS
    <3>2. \A i, j \in Int : /\ IsFiniteSet(i..j)
                             /\ Cardinality(i..j) = IF i > j THEN 0 ELSE j - i + 1
      BY FS_Interval
    <3>3. IsFiniteSet(T) /\ Cardinality(T) = IF r + 1 > u - 1 THEN 0 ELSE u - 1 - (r + 1) + 1
      BY <3>1, <3>2, Zenon
    <3> QED
      BY <2>1, <3>3
  <2>4. S \cap T = {} /\ S \cup T \subseteq V /\ V \subseteq 1..(u - 1)
    BY <1>1, <1>3, <2>1 DEF Unanswered
  <2>5. IsFiniteSet(1..(u - 1))
    BY FS_Interval
  <2>6. r - a <= Cardinality(S)
    BY <1>2
  <2> HIDE DEF S, T, V
  <2>7. IsFiniteSet(S \cup T) /\ Cardinality(S \cup T) = Cardinality(S) + (u - 1 - r)
    <3>1. Cardinality(S \cap T) = 0
      BY <2>4, FS_EmptySet
    <3>2. /\ IsFiniteSet(S \cup T)
          /\ Cardinality(S \cup T) = Cardinality(S) + Cardinality(T) - Cardinality(S \cap T)
      BY <2>2, <2>3, FS_Union, Zenon
    <3> QED
      BY <2>2, <2>3, <3>1, <3>2
  <2>8. IsFiniteSet(V) /\ Cardinality(V) \in Nat
    BY <2>4, <2>5, FS_Subset, FS_CardinalityType
  <2>9. Cardinality(S \cup T) <= Cardinality(V)
    BY <2>4, <2>8, FS_Subset
  <2>10. u - b <= Cardinality(V)
    BY <2>1, <2>2, <2>6, <2>7, <2>8, <2>9
  <2> QED
    BY <2>10 DEF V
<1>6. LagBoundedByUnanswered'
  <2> SUFFICES ASSUME NEW p \in accepted'
               PROVE  p[2] <= p[1] /\ p[1] - p[2] <= Cardinality(Unanswered(p[1])')
    BY DEF LagBoundedByUnanswered, Unanswered
  <2>1. CASE p = <<r, a>>
    BY <1>1, <1>2, <1>3, <1>4, <2>1
  <2>2. CASE p \in accepted
    <3>1. p[1] \in Nat \ {0} /\ p[1] <= r
      BY <1>1, <2>2 DEF AsBridge, FramesAskedFor
    <3> QED
      BY <1>4, <2>2, <3>1 DEF LagBoundedByUnanswered, Unanswered
  <2> QED
    BY <1>1, <2>1, <2>2
<1> QED
  BY <1>5, <1>6

(* In sequential use an answer lags its request by no more requests than   *)
(* went unanswered before it: with every request answered, each gets its   *)
(* own frame.                                                              *)
THEOREM LagIsBounded == Sequential => (Spec => []LagBoundedByUnanswered)
<1> SUFFICES ASSUME Sequential PROVE Spec => []LagBoundedByUnanswered
  OBVIOUS
<1>1. Init => LagInv
  <2> SUFFICES ASSUME Init PROVE LagBounded /\ LagBoundedByUnanswered
    BY InitPInv DEF LagInv
  <2>1. accepted = {}
    BY DEF Init
  <2>2. ASSUME NEW r \in Nat \ {0} PROVE Cardinality(Unanswered(r)) = r - 1
    <3>1. Unanswered(r) = 1..(r - 1)
      BY <2>1 DEF Unanswered
    <3> QED
      BY <3>1, FS_Interval
  <2> QED
    BY <2>1, <2>2 DEF LagBounded, LagBoundedByUnanswered
<1>2. LagInv /\ [Next]_vars => LagInv'
  <2> SUFFICES ASSUME LagInv, [Next]_vars PROVE LagInv'
    OBVIOUS
  <2>1. PInv /\ PInv' /\ [Promise!Next]_<<requestCounter, accepted>>
    BY NextPInv, NextPromised DEF LagInv
  <2>2. requestCounter \in Nat
    BY <2>1 DEF PInv, IInv, TypeOK
  <2>3. CASE UNCHANGED accepted
    BY <2>1, <2>3 DEF LagInv, LagBounded, LagBoundedByUnanswered, Unanswered, Promise!Fits
  <2>4. CASE mode = "bridge" /\ \E r, a \in 1..requestCounter : Promise!Accept(r, a)
    BY <2>1, <2>2, <2>4, AcceptLag, Zenon DEF LagInv, PInv
  <2>5. CASE mode # "bridge"
    BY <2>1, <2>3, <2>5, DiagnosticRun
  <2> QED
    BY <2>1, <2>3, <2>4, <2>5 DEF Promise!Next, Promise!Issue
<1>3. LagInv => LagBoundedByUnanswered
  BY DEF LagInv
<1> QED
  BY <1>1, <1>2, <1>3, PTL DEF Spec

-----------------------------------------------------------------------------
(* Which requests may get their own frame.                                 *)

(* Which frame is whose: a frame under way that answers a caller's request *)
(* has the slave id and function code of it.                               *)
Frames(q) == {q[i] : i \in DOMAIN q}
Moving    == Frames(responseChan) \cup Frames(held) \cup Frames(wire)

OwnFramesFit ==
  \A c \in Callers : Numbered(c) =>
    \A f \in Moving : f.req = req[c] => f.slave = slave[c] /\ f.code = code[c]

HoldingInChannel == \A f \in Frames(responseChan) : f.code = ReadHolding

OwnNotTaken ==
  \A c \in Callers :
    Numbered(c) /\ code[c] # ReadHolding => <<req[c], req[c]>> \notin accepted

NoNumberYet == \A c \in Callers : ~Numbered(c) => req[c] = 0

ExpectsOwn ==
  Sequential => \A c \in Callers :
    pc[c] \in {"send", "wait"} =>
      expectedSlaveID = slave[c] /\ expectedFunctionCode = code[c]

OwnFrames ==
  OwnFramesFit /\ HoldingInChannel /\ OwnNotTaken /\ NoNumberYet /\ ExpectsOwn

(* In a run for a diagnostic onMessage expects the frame of no slave.      *)
Deaf ==
  /\ mode # "answered" /\ held = <<>> /\ responseChan = <<>>
  /\ expectedSlaveID = NoSlave /\ accepted = {}
  /\ \A c \in Callers : req[c] = 0

OInv == PInv /\ IF mode = "bridge" THEN OwnFrames ELSE Deaf

LEMMA TailFrames ==
  ASSUME NEW q \in Seq(Frame), q # <<>>
  PROVE  Head(q) \in Frames(q) /\ Frames(Tail(q)) \subseteq Frames(q)
<1>1. /\ Len(q) \in Nat \ {0} /\ DOMAIN q = 1..Len(q)
      /\ DOMAIN Tail(q) = 1..(Len(q) - 1)
      /\ \A i \in 1..(Len(q) - 1) : Tail(q)[i] = q[i + 1] /\ i + 1 \in 1..Len(q)
      /\ Head(q) = q[1] /\ 1 \in 1..Len(q)
  OBVIOUS
<1> QED
  BY <1>1 DEF Frames

LEMMA DrainFrames ==
  ASSUME NEW q \in Seq(Frame)
  PROVE  Frames(DrainOne(q)) \subseteq Frames(q)
BY TailFrames DEF DrainOne

LEMMA AppendFrames ==
  ASSUME NEW q \in Seq(Frame), NEW f \in Frame
  PROVE  Frames(Append(q, f)) = Frames(q) \cup {f}
<1>1. /\ Len(q) \in Nat /\ DOMAIN q = 1..Len(q)
      /\ DOMAIN Append(q, f) = 1..(Len(q) + 1)
      /\ \A i \in 1..Len(q) : Append(q, f)[i] = q[i]
      /\ Append(q, f)[Len(q) + 1] = f
  OBVIOUS
<1> DEFINE a == Append(q, f)
<1> HIDE DEF a
<1>2. /\ DOMAIN a = 1..(Len(q) + 1)
      /\ \A i \in 1..Len(q) : a[i] = q[i]
      /\ a[Len(q) + 1] = f
  BY <1>1 DEF a
<1>3. Frames(a) = Frames(q) \cup {f}
  BY <1>1, <1>2 DEF Frames
<1> QED
  BY <1>3 DEF a

(* The requests in flight are those of the frames under way.               *)
LEMMA MovingReqs == \A f \in Moving : f.req \in InFlight
BY DEF Moving, InFlight, Frames, Reqs

LEMMA MovingOn ==
  ASSUME TypeOK,
         Drained \/ Checked \/ Enqueued \/ Lost \/ UNCHANGED <<responseChan, held, wire>>
  PROVE  Moving' \subseteq Moving /\ (HoldingInChannel => HoldingInChannel')
<1>1. responseChan \in Seq(Frame) /\ held \in Seq(Frame) /\ wire \in Seq(Frame)
  BY DEF TypeOK
<1>2. Frames(<<>>) = {} /\ \A f \in Frame : Frames(<<f>>) = {f}
  BY DEF Frames
<1> DEFINE C == Frames(responseChan)
           H == Frames(held)
           W == Frames(wire)
<1>3. SUFFICES C' \cup H' \cup W' \subseteq C \cup H \cup W
               /\ \A f \in C' : f \in C \/ f.code = ReadHolding
  BY <1>3 DEF Moving, HoldingInChannel
<1>4. CASE Drained
  <2>1. C' \subseteq C /\ H' = H /\ W' = W
    BY <1>1, <1>4, DrainFrames DEF Drained
  <2> QED
    BY <2>1
<1>5. CASE Checked
  <2>1. C' = C /\ W' \subseteq W /\ Head(wire) \in W /\ Head(wire) \in Frame
    BY <1>1, <1>5, TailFrames, TailType DEF Checked
  <2>2. H' \subseteq {Head(wire)}
    BY <1>2, <1>5, <2>1 DEF Checked
  <2> QED
    BY <2>1, <2>2
<1>6. CASE Enqueued
  <2>1. H' = {} /\ W' = W /\ Head(held) \in H /\ Head(held) \in Frame
    BY <1>1, <1>2, <1>6, TailFrames, TailType DEF Enqueued
  <2>2. CASE Head(held).code = ReadHolding /\ responseChan' = Append(responseChan, Head(held))
    <3>1. C' = C \cup {Head(held)}
      BY <1>1, <2>1, <2>2, AppendFrames
    <3> QED
      BY <2>1, <2>2, <3>1
  <2>3. CASE UNCHANGED responseChan
    BY <2>1, <2>3
  <2> QED
    BY <1>6, <2>2, <2>3 DEF Enqueued
<1>7. CASE Lost
  <2>1. C' = C /\ H' = H /\ W' \subseteq W
    BY <1>1, <1>7, TailFrames DEF Lost
  <2> QED
    BY <2>1
<1>8. CASE UNCHANGED <<responseChan, held, wire>>
  BY <1>8
<1> QED
  BY <1>4, <1>5, <1>6, <1>7, <1>8

LEMMA QuietOwn ==
  ASSUME TypeOK, OwnFrames, UNCHANGED <<accepted, expected>>, NoNewNumber,
         Drained \/ Checked \/ Enqueued \/ Lost \/ UNCHANGED <<responseChan, held, wire>>
  PROVE  OwnFrames'
<1>1. Moving' \subseteq Moving /\ HoldingInChannel'
  BY MovingOn DEF OwnFrames
<1>2. OwnFramesFit'
  BY <1>1 DEF OwnFrames, OwnFramesFit, NoNewNumber
<1>3. OwnNotTaken'
  BY DEF OwnFrames, OwnNotTaken, NoNewNumber
<1>4. NoNumberYet'
  BY DEF OwnFrames, NoNumberYet, NoNewNumber
<1>5. ExpectsOwn'
  <2>1. \A c \in Callers : pc'[c] \in {"send", "wait"} => Numbered(c)'
    BY DEF Numbered
  <2> QED
    BY <2>1 DEF OwnFrames, ExpectsOwn, NoNewNumber, expected
<1> QED
  BY <1>1, <1>2, <1>3, <1>4, <1>5 DEF OwnFrames

LEMMA PrepareOwn ==
  ASSUME TypeOK, AsBridge, OwnFrames, NEW c \in Callers, Prepare(c)
  PROVE  OwnFrames'
<1> DEFINE n == requestCounter
<1>1. /\ n \in Nat /\ req' = [req EXCEPT ![c] = n + 1] /\ pc' = [pc EXCEPT ![c] = "send"]
      /\ pc \in [Callers -> PCs] /\ req \in [Callers -> Nat]
      /\ expectedSlaveID' = slave[c] /\ expectedFunctionCode' = code[c]
      /\ UNCHANGED <<accepted, slave, code>>
  BY DEF Prepare, Goto, TypeOK
<1>2. Moving' \subseteq Moving /\ HoldingInChannel'
  <2>1. Drained
    BY DEF Prepare, Drained
  <2> QED
    BY <2>1, MovingOn DEF OwnFrames
<1>3. /\ req'[c] = n + 1 /\ pc'[c] = "send" /\ Numbered(c)'
      /\ \A d \in Callers : d # c => req'[d] = req[d] /\ pc'[d] = pc[d]
      /\ \A d \in Callers : d # c => (Numbered(d)' <=> Numbered(d))
  BY <1>1 DEF Numbered
<1>4. /\ \A f \in Moving : f.req # n + 1
      /\ <<n + 1, n + 1>> \notin accepted
  <2>1. InFlight \subseteq 1..n /\ accepted \subseteq (1..n) \X (1..n)
    BY DEF AsBridge, FramesAskedFor
  <2> QED
    BY <1>1, <2>1, MovingReqs
<1>5. OwnFramesFit'
  BY <1>1, <1>2, <1>3, <1>4 DEF OwnFrames, OwnFramesFit
<1>6. OwnNotTaken'
  BY <1>1, <1>3, <1>4 DEF OwnFrames, OwnNotTaken
<1>7. NoNumberYet'
  BY <1>3 DEF OwnFrames, NoNumberYet
<1>8. ExpectsOwn'
  BY <1>1 DEF ExpectsOwn, Sequential
<1> QED
  BY <1>2, <1>5, <1>6, <1>7, <1>8 DEF OwnFrames

LEMMA SendOwn ==
  ASSUME IInv, AsBridge, OwnFrames, NEW c \in Callers, SendCommand(c)
  PROVE  OwnFrames'
<1> DEFINE f == [slave |-> slave[c], code |-> code[c], req |-> req[c]]
<1>1. /\ TypeOK /\ pc \in [Callers -> PCs] /\ pc[c] = "send"
      /\ wire \in Seq(Frame) /\ responseChan \in Seq(Frame)
      /\ UNCHANGED <<accepted, slave, code, req, expectedSlaveID, expectedFunctionCode>>
      /\ responseChan' = DrainOne(responseChan) /\ UNCHANGED held
  BY DEF SendCommand, IInv, TypeOK, args, expected
<1>2. f \in Frame /\ f.req = req[c] /\ f.slave = slave[c] /\ f.code = code[c]
  BY <1>1 DEF IInv, TypeOK, HoldsItsMutex, InTransaction, Frame
<1> HIDE DEF f
<1>3. /\ wire' = wire \/ wire' = Append(wire, f)
      /\ \/ pc' = [pc EXCEPT ![c] = "return"]
         \/ pc' = [pc EXCEPT ![c] = "wait"]
  BY DEF SendCommand, Goto, f
<1>4. Numbered(c) /\ \A d \in Callers : Numbered(d)' <=> Numbered(d)
  BY <1>1, <1>3 DEF Numbered
<1>5. Moving' \subseteq Moving \cup {f}
  <2>1. Frames(wire)' \subseteq Frames(wire) \cup {f}
    BY <1>1, <1>2, <1>3, AppendFrames
  <2>2. Frames(responseChan)' \subseteq Frames(responseChan)
    BY <1>1, DrainFrames
  <2>3. Frames(held)' = Frames(held)
    BY <1>1
  <2> QED
    BY <2>1, <2>2, <2>3 DEF Moving
<1>6. HoldingInChannel'
  BY <1>1, DrainFrames DEF OwnFrames, HoldingInChannel
<1>7. OwnFramesFit'
  <2> SUFFICES ASSUME NEW d \in Callers, Numbered(d), NEW g \in Moving', g.req = req[d]
               PROVE  g.slave = slave[d] /\ g.code = code[d]
    BY <1>1, <1>4 DEF OwnFramesFit
  <2>1. CASE g = f
    <3>1. d = c
      BY <1>2, <1>4, <2>1 DEF AsBridge, NumbersDiffer
    <3> QED
      BY <1>2, <2>1, <3>1
  <2>2. CASE g \in Moving
    BY <2>2 DEF OwnFrames, OwnFramesFit
  <2> QED
    BY <1>5, <2>1, <2>2
<1>8. OwnNotTaken' /\ NoNumberYet'
  BY <1>1, <1>4 DEF OwnFrames, OwnNotTaken, NoNumberYet
<1>9. ExpectsOwn'
  BY <1>1, <1>3 DEF OwnFrames, ExpectsOwn
<1> QED
  BY <1>6, <1>7, <1>8, <1>9 DEF OwnFrames

LEMMA ReceiveOwn ==
  ASSUME TypeOK, AsBridge, OwnFrames, NEW c \in Callers, Receive(c)
  PROVE  OwnFrames'
<1> DEFINE h == Head(responseChan)
<1>1. /\ pc[c] = "wait" /\ pc \in [Callers -> PCs] /\ pc' = [pc EXCEPT ![c] = "return"]
      /\ responseChan # <<>> /\ responseChan \in Seq(Frame)
      /\ responseChan' = Tail(responseChan) /\ accepted' = accepted \cup {<<req[c], h.req>>}
      /\ UNCHANGED <<slave, code, req, expectedSlaveID, expectedFunctionCode, held, wire>>
  BY DEF Receive, Goto, TypeOK, args, expected
<1>2. /\ h \in Frames(responseChan) /\ h \in Moving /\ Moving' \subseteq Moving
      /\ HoldingInChannel'
  BY <1>1, TailFrames DEF Moving, OwnFrames, HoldingInChannel
<1>3. Numbered(c) /\ \A d \in Callers : Numbered(d)' <=> Numbered(d)
  BY <1>1 DEF Numbered
<1>4. OwnFramesFit' /\ NoNumberYet'
  BY <1>1, <1>2, <1>3 DEF OwnFrames, OwnFramesFit, NoNumberYet
<1>5. OwnNotTaken'
  <2> SUFFICES ASSUME NEW d \in Callers, Numbered(d), code[d] # ReadHolding,
                      <<req[d], req[d]>> = <<req[c], h.req>>
               PROVE  FALSE
    BY <1>1, <1>3 DEF OwnFrames, OwnNotTaken
  <2>1. d = c
    BY <1>3 DEF AsBridge, NumbersDiffer
  <2>2. h.code = code[c] /\ h.code = ReadHolding
    BY <1>2, <1>3 DEF OwnFrames, OwnFramesFit, HoldingInChannel
  <2> QED
    BY <2>1, <2>2
<1>6. ExpectsOwn'
  BY <1>1 DEF OwnFrames, ExpectsOwn
<1> QED
  BY <1>2, <1>4, <1>5, <1>6 DEF OwnFrames

(* No frame reaches a run for a diagnostic.                                *)
LEMMA DeafStep ==
  ASSUME PInv, mode # "bridge", Deaf, [Next]_vars
  PROVE  Deaf'
<1>1. TypeOK /\ \A c \in Callers : pc[c] \in {"idle", "diagnostic"}
  BY Zenon DEF PInv, IInv
<1>2. ASSUME NEW c \in Callers, SendDiagnostic(c) \/ DiagnosticEnds(c) PROVE Deaf'
  BY <1>2 DEF SendDiagnostic, DiagnosticEnds, Deaf, args, expected
<1>3. CASE CheckMessage
  <2>1. Head(wire) \in Frame
    BY <1>1, <1>3, TailType DEF CheckMessage, TypeOK
  <2>2. ~Expected(Head(wire))
    BY <2>1, GatewayAssumption DEF Expected, Frame, Deaf
  <2> QED
    BY <1>3, <2>2 DEF CheckMessage, Deaf, args, expected
<1>4. ~Enqueue
  BY DEF Enqueue, Deaf
<1>5. CASE Environment \/ UNCHANGED vars
  BY <1>5 DEF Environment, Lose, OnConnect, Subscribed, ConnectionLost, Disconnect,
              Deaf, args, expected, vars
<1>6. ASSUME NEW c \in Callers, NEW s \in Slaves, NEW f \in Codes PROVE ~Request(c, s, f)
  BY DEF Request
<1>7. ASSUME NEW c \in Callers
      PROVE  /\ ~Acquire(c) /\ ~SendCommand(c) /\ ~SendFails(c) /\ ~Receive(c)
             /\ ~Timeout(c) /\ ~Cleanup(c) /\ ~Return(c)
  BY <1>1 DEF Acquire, LockSlave, Prepare, LockForCleanup, SendCommand, SendFails,
              Receive, Timeout, Cleanup, Return
<1> QED
  BY <1>2, <1>3, <1>4, <1>5, <1>6, <1>7, Zenon DEF Next, Step, OnMessage

LEMMA InitOInv == Init => OInv
<1> SUFFICES ASSUME Init PROVE OInv
  OBVIOUS
<1>1. PInv
  BY InitPInv
<1>2. /\ mode \in StartModes /\ held = <<>> /\ responseChan = <<>> /\ wire = <<>>
      /\ expectedSlaveID = NoSlave /\ accepted = {}
      /\ \A c \in Callers : req[c] = 0 /\ pc[c] = "idle"
  BY DEF Init
<1>3. Deaf
  BY <1>2, GatewayAssumption DEF Deaf
<1>4. OwnFrames
  BY <1>2 DEF OwnFrames, OwnFramesFit, HoldingInChannel, OwnNotTaken, NoNumberYet,
              ExpectsOwn, Numbered, Frames
<1> QED
  BY <1>1, <1>3, <1>4 DEF OInv

LEMMA NextOInv == OInv /\ [Next]_vars => OInv'
<1> SUFFICES ASSUME OInv, [Next]_vars PROVE OInv'
  OBVIOUS
<1>1. PInv /\ PInv' /\ IInv /\ TypeOK
  BY NextPInv, Zenon DEF OInv, PInv, IInv
<1>2. CASE mode # "bridge"
  BY <1>1, <1>2, DiagnosticRun, DeafStep DEF OInv
<1>3. CASE mode = "bridge"
  <2>1. AsBridge /\ OwnFrames
    BY <1>3 DEF OInv, PInv
  <2>2. OwnFrames'
    <3>1. CASE \E c \in Callers : Prepare(c) \/ SendCommand(c) \/ Receive(c)
      BY <1>1, <2>1, <3>1, PrepareOwn, SendOwn, ReceiveOwn, Zenon
    <3>2. CASE \A c \in Callers : ~Prepare(c) /\ ~SendCommand(c) /\ ~Receive(c)
      <4>1. UNCHANGED <<accepted, expected>>
        BY <1>1, <1>3, <3>2, OtherSteps
      <4> QED
        BY <1>1, <1>3, <2>1, <3>2, <4>1, OtherSteps, QuietOwn, Zenon
    <3> QED
      BY <3>1, <3>2, Zenon
  <2>3. mode' = "bridge"
    BY <1>1, <1>3, BridgeRun
  <2> QED
    BY <1>1, <2>2, <2>3 DEF OInv
<1> QED
  BY <1>2, <1>3, Zenon

(* Neither the request of a diagnostic run nor one that reads other        *)
(* registers than holding registers is ever answered with its own frame,   *)
(* for any number of callers and whatever the link does.                   *)
THEOREM OthersNeverAnswered == Spec => []HoldingRequestsOnly
<1>1. OInv => HoldingRequestsOnly
  <2> SUFFICES ASSUME OInv PROVE HoldingRequestsOnly
    OBVIOUS
  <2>1. CASE mode # "bridge"
    BY <2>1 DEF OInv, Deaf, HoldingRequestsOnly
  <2>2. CASE mode = "bridge"
    <3>1. accepted \subseteq (1..requestCounter) \X (1..requestCounter)
      BY <2>2 DEF OInv, PInv, AsBridge, FramesAskedFor
    <3>2. <<0, 0>> \notin accepted
      BY <3>1
    <3> QED
      BY <2>2, <3>2 DEF OInv, OwnFrames, OwnNotTaken, NoNumberYet, HoldingRequestsOnly
  <2> QED
    BY <2>1, <2>2
<1> QED
  BY InitOInv, NextOInv, <1>1, PTL DEF Spec

(* In sequential use onMessage lets the frame through that the waiting     *)
(* caller asked for: what is expected has not moved on, as it does when    *)
(* calls for several slaves run in parallel.                               *)
THEOREM OwnAnswerPasses == Sequential => (Spec => OwnAnswerNotRejected)
<1> SUFFICES ASSUME Sequential PROVE Spec => OwnAnswerNotRejected
  OBVIOUS
<1>1. OInv /\ [Next]_vars =>
        [\A c \in Callers :
           /\ CheckMessage
           /\ pc[c] = "wait"
           /\ Head(wire).req = req[c]
           => held' # <<>>]_vars
  <2> SUFFICES ASSUME OInv, NEW c \in Callers, CheckMessage, pc[c] = "wait",
                      Head(wire).req = req[c]
               PROVE  held' # <<>>
    OBVIOUS
  <2>1. mode = "bridge" /\ OwnFrames /\ Numbered(c)
    BY DEF OInv, PInv, Numbered
  <2>2. Head(wire) \in Moving
    <3>1. wire \in Seq(Frame) /\ wire # <<>>
      BY DEF OInv, PInv, IInv, TypeOK, CheckMessage
    <3> QED
      BY <3>1, TailFrames DEF Moving
  <2>3. Expected(Head(wire))
    BY <2>1, <2>2 DEF OwnFrames, OwnFramesFit, ExpectsOwn, Expected
  <2> QED
    BY <2>3 DEF CheckMessage
<1> QED
  BY InitOInv, NextOInv, <1>1, PTL DEF Spec, OwnAnswerNotRejected
=============================================================================
