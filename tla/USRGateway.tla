----------------------------- MODULE USRGateway -----------------------------
(***************************************************************************)
(* pkg/gateway/usr_dr164.go: Modbus RTU over MQTT.  A caller publishes a   *)
(* command and waits on responseChan for the frame that onMessage puts     *)
(* there.  A frame carries a slave id and a function code and nothing that *)
(* tells two like requests to one slave apart; `req' in a frame of this    *)
(* model is history, which no action reads except to record it.            *)
(*                                                                         *)
(* Threads: the callers, and the one goroutine on which the MQTT client    *)
(* runs onMessage for one message after the other.  The scheduler makes    *)
(* its calls from one goroutine (one caller); the per-slave mutexes are    *)
(* there for several.                                                      *)
(*                                                                         *)
(* The broker, the serial gateway and the slaves are the queue `wire': a   *)
(* command on its way out or its answer on the way back, in order, lost or *)
(* delayed at will (QoS 0).  A Modbus exception, a bad CRC or a short      *)
(* frame is dropped by onMessage without effect: a lost frame here.        *)
(***************************************************************************)
EXTENDS Integers, Sequences, FiniteSets

CONSTANTS
  Callers,      \* goroutines that call the gateway
  Slaves,       \* Modbus slave ids
  Codes,        \* the function codes that register groups are read with
  ReadHolding,  \* Read Holding Registers (3)
  DiagSlave,    \* the slave SendDiagnosticCommand asks (11)
  NoSlave,      \* the id 0 expectedSlaveID starts with: no slave's
  NoCode,       \* the 0 that expectedFunctionCode starts with
  NoCaller,     \* a free mutex
  ChanCap,      \* capacity of responseChan (10)
  StartModes,   \* how the process may be started: as bridge, for a diagnostic
  MaxRequests   \* bound: no call starts once so many requests were numbered

ASSUME GatewayAssumption ==
  /\ DiagSlave \in Slaves
  /\ NoSlave \notin Slaves
  /\ ReadHolding \in Codes
  /\ NoCode \notin Codes
  /\ NoCaller \notin Callers
  /\ ChanCap \in Nat \ {0}
  /\ StartModes \subseteq {"bridge", "diagnostic"}
  /\ MaxRequests \in Nat

VARIABLES
  mode,             \* "bridge", or how far a run with --diagnostic has got
  pc,               \* where each caller is
  slave,            \* its slaveID argument
  code,             \* its functionCode argument
  req,              \* its currentRequestID
  slaveMutex,       \* holder of each slaveMutexes[id]
  commandMutex,     \* holder of commandMutex over more than one step
  expectedSlaveID,
  expectedFunctionCode,
  requestCounter,
  responseChan,
  held,             \* the frame onMessage has validated and not yet enqueued
  wire,             \* commands and answers in flight
  connected,        \* g.connected and client.IsConnected()
  subscription,     \* of the data topic, on the present connection
  closed,           \* Disconnect has closed the client
  accepted          \* history: the pairs <<r, a>>, request r got the answer to a

locks == <<slaveMutex, commandMutex>>
link  == <<connected, subscription, closed>>
args  == <<slave, code, req>>
expected == <<expectedSlaveID, expectedFunctionCode>>
vars  == <<mode, pc, args, locks, expected, requestCounter,
           responseChan, held, wire, link, accepted>>

Modes == {"bridge", "diagnostic", "answered", "unanswered"}
PCs   == {"idle", "slaveLock", "commandLock", "send", "wait",
          "cleanupLock", "cleanup", "return", "diagnostic"}
Frame == [slave : Slaves, code : Codes, req : Nat]

Goto(c, l) == pc' = [pc EXCEPT ![c] = l]

-----------------------------------------------------------------------------
Init ==
  /\ mode \in StartModes
  /\ pc = [c \in Callers |-> "idle"]
  /\ slave = [c \in Callers |-> NoSlave]
  /\ code = [c \in Callers |-> NoCode]
  /\ req = [c \in Callers |-> 0]
  /\ slaveMutex = [s \in Slaves |-> NoCaller]
  /\ commandMutex = NoCaller
  /\ expectedSlaveID = NoSlave
  /\ expectedFunctionCode = NoCode
  /\ requestCounter = 0
  /\ responseChan = <<>>
  /\ held = <<>>
  /\ wire = <<>>
  /\ connected = FALSE
  /\ subscription = "none"
  /\ closed = FALSE
  /\ accepted = {}

(* The select with a default branch that takes at most one stale answer.    *)
DrainOne(q) == IF q = <<>> THEN q ELSE Tail(q)

-----------------------------------------------------------------------------
(* SendCommandAndWaitForResponse *)

Request(c, s, f) ==
  /\ mode = "bridge"
  /\ pc[c] = "idle"
  /\ requestCounter < MaxRequests
  /\ slave' = [slave EXCEPT ![c] = s]
  /\ code' = [code EXCEPT ![c] = f]
  /\ Goto(c, "slaveLock")
  /\ UNCHANGED <<mode, req, locks, expected, requestCounter,
                 responseChan, held, wire, link, accepted>>

MutantLockSlave(c) ==
  /\ pc[c] = "slaveLock"
  /\ slaveMutex' = [slaveMutex EXCEPT ![slave[c]] = c]
  /\ Goto(c, "commandLock")
  /\ UNCHANGED <<mode, args, commandMutex, expected, requestCounter,
                 responseChan, held, wire, link, accepted>>

LockSlave(c) ==
  /\ pc[c] = "slaveLock"
  /\ slaveMutex[slave[c]] = NoCaller
  /\ slaveMutex' = [slaveMutex EXCEPT ![slave[c]] = c]
  /\ Goto(c, "commandLock")
  /\ UNCHANGED <<mode, args, commandMutex, expected, requestCounter,
                 responseChan, held, wire, link, accepted>>

MutantPrepare(c) ==
  /\ pc[c] = "commandLock"
  /\ commandMutex = NoCaller
  /\ responseChan' = DrainOne(responseChan)
  /\ requestCounter' = requestCounter + 1
  /\ req' = [req EXCEPT ![c] = requestCounter + 1]
  /\ expectedSlaveID' = IF requestCounter = 0 THEN slave[c] ELSE expectedSlaveID
  /\ expectedFunctionCode' = code[c]
  /\ Goto(c, "send")
  /\ UNCHANGED <<mode, slave, code, locks, held, wire, link, accepted>>

(* Under commandMutex: drain one answer, number the request, say whose      *)
(* answer onMessage may pass on.  (expectedRequestID is set too, and never  *)
(* read.)                                                                   *)
Prepare(c) ==
  /\ pc[c] = "commandLock"
  /\ commandMutex = NoCaller
  /\ responseChan' = DrainOne(responseChan)
  /\ requestCounter' = requestCounter + 1
  /\ req' = [req EXCEPT ![c] = requestCounter + 1]
  /\ expectedSlaveID' = slave[c]
  /\ expectedFunctionCode' = code[c]
  /\ Goto(c, "send")
  /\ UNCHANGED <<mode, slave, code, locks, held, wire, link, accepted>>

(* SendCommand on a live connection: drain one answer more, with no lock    *)
(* held, and publish; the publish itself may fail.                          *)
SendCommand(c) ==
  /\ pc[c] = "send"
  /\ connected
  /\ responseChan' = DrainOne(responseChan)
  /\ \/ /\ wire' = Append(wire, [slave |-> slave[c], code |-> code[c], req |-> req[c]])
        /\ Goto(c, "wait")
     \/ UNCHANGED wire /\ Goto(c, "return")
  /\ UNCHANGED <<mode, args, locks, expected, requestCounter, held,
                 link, accepted>>

(* Three seconds have passed without a connection.                          *)
SendFails(c) ==
  /\ pc[c] = "send"
  /\ ~connected
  /\ Goto(c, "return")
  /\ UNCHANGED <<mode, args, locks, expected, requestCounter,
                 responseChan, held, wire, link, accepted>>

MutantReceive(c) ==
  /\ pc[c] = "wait"
  /\ responseChan # <<>>
  /\ accepted' = accepted \cup {<<req[c], Head(responseChan).req>>}
  /\ Goto(c, "return")
  /\ UNCHANGED <<mode, args, locks, expected, requestCounter,
                 responseChan, held, wire, link>>

(* WaitForResponse: whatever comes out of the channel is the answer.        *)
Receive(c) ==
  /\ pc[c] = "wait"
  /\ responseChan # <<>>
  /\ accepted' = accepted \cup {<<req[c], Head(responseChan).req>>}
  /\ responseChan' = Tail(responseChan)
  /\ Goto(c, "return")
  /\ UNCHANGED <<mode, args, locks, expected, requestCounter, held,
                 wire, link>>

(* The timer, or the context; a select with both ready may take either.     *)
Timeout(c) ==
  /\ pc[c] = "wait"
  /\ Goto(c, "cleanupLock")
  /\ UNCHANGED <<mode, args, locks, expected, requestCounter,
                 responseChan, held, wire, link, accepted>>

(* After a timeout commandMutex is held over a 50 ms sleep, for onMessage   *)
(* to bring in what is late; onMessage needs the mutex for that.            *)
LockForCleanup(c) ==
  /\ pc[c] = "cleanupLock"
  /\ commandMutex = NoCaller
  /\ commandMutex' = c
  /\ Goto(c, "cleanup")
  /\ UNCHANGED <<mode, args, slaveMutex, expected, requestCounter,
                 responseChan, held, wire, link, accepted>>

MutantCleanup(c) ==
  /\ pc[c] = "cleanup"
  /\ responseChan' = DrainOne(responseChan)
  /\ Goto(c, "return")
  /\ UNCHANGED <<mode, args, locks, expected, requestCounter,
                 held, wire, link, accepted>>

Cleanup(c) ==
  /\ pc[c] = "cleanup"
  /\ responseChan' = DrainOne(responseChan)
  /\ commandMutex' = NoCaller
  /\ Goto(c, "return")
  /\ UNCHANGED <<mode, args, slaveMutex, expected, requestCounter,
                 held, wire, link, accepted>>

(* The deferred unlock, on every way out.                                   *)
Return(c) ==
  /\ pc[c] = "return"
  /\ slaveMutex' = [slaveMutex EXCEPT ![slave[c]] = NoCaller]
  /\ slave' = [slave EXCEPT ![c] = NoSlave]
  /\ code' = [code EXCEPT ![c] = NoCode]
  /\ req' = [req EXCEPT ![c] = 0]
  /\ Goto(c, "idle")
  /\ UNCHANGED <<mode, commandMutex, expected, requestCounter,
                 responseChan, held, wire, link, accepted>>

-----------------------------------------------------------------------------
(* SendDiagnosticCommand, the first use of the gateway in a process started *)
(* with --diagnostic.  It neither locks nor says what answer it expects.    *)

MutantSendDiagnostic(c) ==
  /\ mode = "diagnostic"
  /\ \A d \in Callers : pc[d] = "idle"
  /\ connected
  /\ wire' = Append(wire, [slave |-> DiagSlave, code |-> ReadHolding, req |-> 0])
  /\ expectedSlaveID' = DiagSlave
  /\ expectedFunctionCode' = ReadHolding
  /\ Goto(c, "diagnostic")
  /\ UNCHANGED <<mode, args, locks, requestCounter,
                 responseChan, held, link, accepted>>

SendDiagnostic(c) ==
  /\ mode = "diagnostic"
  /\ \A d \in Callers : pc[d] = "idle"
  /\ connected
  /\ wire' = Append(wire, [slave |-> DiagSlave, code |-> ReadHolding, req |-> 0])
  /\ Goto(c, "diagnostic")
  /\ UNCHANGED <<mode, args, locks, expected, requestCounter,
                 responseChan, held, link, accepted>>

DiagnosticEnds(c) ==
  /\ pc[c] = "diagnostic"
  /\ \/ /\ responseChan # <<>>
        /\ responseChan' = Tail(responseChan)
        /\ mode' = "answered"
     \/ mode' = "unanswered" /\ UNCHANGED responseChan
  /\ Goto(c, "idle")
  /\ UNCHANGED <<args, locks, expected, requestCounter, held, wire,
                 link, accepted>>

-----------------------------------------------------------------------------
(* onMessage: read what is expected under commandMutex, let go of it, and   *)
(* only then put the frame on the channel.  A frame of another function     *)
(* code than Read Holding Registers is dropped here, expected or not, and   *)
(* any frame is if the channel is full.                                     *)

Expected(frame) ==
  frame.slave = expectedSlaveID /\ frame.code = expectedFunctionCode

(* A subscription with QoS 1, say: the broker delivers again. *)
MutantCheckMessage ==
  /\ wire # <<>> /\ held = <<>>
  /\ connected /\ subscription = "active"
  /\ commandMutex = NoCaller
  /\ held' = IF Expected(Head(wire)) THEN <<Head(wire)>> ELSE <<>>
  /\ UNCHANGED wire
  /\ UNCHANGED <<mode, pc, args, locks, expected, requestCounter,
                 responseChan, link, accepted>>

CheckMessage ==
  /\ wire # <<>> /\ held = <<>>
  /\ connected /\ subscription = "active"
  /\ commandMutex = NoCaller
  /\ held' = IF Expected(Head(wire)) THEN <<Head(wire)>> ELSE <<>>
  /\ wire' = Tail(wire)
  /\ UNCHANGED <<mode, pc, args, locks, expected, requestCounter,
                 responseChan, link, accepted>>

MutantEnqueue ==
  /\ held # <<>>
  /\ responseChan' = IF Head(held).code = ReadHolding
                     THEN Append(responseChan, Head(held))
                     ELSE responseChan
  /\ held' = <<>>
  /\ UNCHANGED <<mode, pc, args, locks, expected, requestCounter,
                 wire, link, accepted>>

Enqueue ==
  /\ held # <<>>
  /\ responseChan' = IF Head(held).code = ReadHolding /\ Len(responseChan) < ChanCap
                     THEN Append(responseChan, Head(held))
                     ELSE responseChan
  /\ held' = <<>>
  /\ UNCHANGED <<mode, pc, args, locks, expected, requestCounter,
                 wire, link, accepted>>

-----------------------------------------------------------------------------
(* The environment.  Losing the oldest frame is enough: a frame lost behind *)
(* others is as good as lost when they are gone.                            *)

Lose ==
  /\ wire # <<>>
  /\ wire' = Tail(wire)
  /\ UNCHANGED <<mode, pc, args, locks, expected, requestCounter,
                 responseChan, held, link, accepted>>

(* The OnConnect handler announces the connection first and subscribes      *)
(* after; a subscription that fails is logged and never tried again.        *)
OnConnect ==
  /\ ~connected /\ ~closed
  /\ connected' = TRUE
  /\ subscription' = "pending"
  /\ UNCHANGED <<mode, pc, args, locks, expected, requestCounter,
                 responseChan, held, wire, closed, accepted>>

Subscribed ==
  /\ connected /\ subscription = "pending"
  /\ subscription' \in {"active", "none"}
  /\ UNCHANGED <<mode, pc, args, locks, expected, requestCounter,
                 responseChan, held, wire, connected, closed, accepted>>

ConnectionLost ==
  /\ connected
  /\ connected' = FALSE
  /\ subscription' = "none"
  /\ UNCHANGED <<mode, pc, args, locks, expected, requestCounter,
                 responseChan, held, wire, closed, accepted>>

(* Disconnect, when the bridge stops; callers may still be under way.       *)
Disconnect ==
  /\ mode = "bridge"
  /\ connected
  /\ connected' = FALSE
  /\ subscription' = "none"
  /\ closed' = TRUE
  /\ UNCHANGED <<mode, pc, args, locks, expected, requestCounter,
                 responseChan, held, wire, accepted>>

-----------------------------------------------------------------------------
(* A caller's next step, by whether it can be kept waiting for it: each     *)
(* caller has one at a time.                                                *)
Acquire(c) == LockSlave(c) \/ Prepare(c) \/ LockForCleanup(c)

Step(c) ==
  \/ SendCommand(c) \/ SendFails(c) \/ Receive(c) \/ Timeout(c)
  \/ Cleanup(c) \/ Return(c) \/ DiagnosticEnds(c)

OnMessage == CheckMessage \/ Enqueue

Environment == Lose \/ OnConnect \/ Subscribed \/ ConnectionLost \/ Disconnect

Next ==
  \/ \E c \in Callers, s \in Slaves, f \in Codes : Request(c, s, f)
  \/ \E c \in Callers : Acquire(c) \/ Step(c) \/ SendDiagnostic(c)
  \/ OnMessage
  \/ Environment

Spec == Init /\ [][Next]_vars

(* A caller that has begun takes its steps; its timers fire.  A mutex that  *)
(* is free again and again is got in the end (sync.Mutex hands over to the  *)
(* longest waiter).  Nothing is assumed of the link or of onMessage.        *)
Fairness == \A c \in Callers : SF_vars(Acquire(c)) /\ WF_vars(Step(c))

FairSpec == Spec /\ Fairness

-----------------------------------------------------------------------------
(* Every variable keeps its range; the channel keeps its capacity.          *)
TypeOK ==
  /\ mode \in Modes
  /\ pc \in [Callers -> PCs]
  /\ slave \in [Callers -> Slaves \cup {NoSlave}]
  /\ code \in [Callers -> Codes \cup {NoCode}]
  /\ req \in [Callers -> Nat]
  /\ slaveMutex \in [Slaves -> Callers \cup {NoCaller}]
  /\ commandMutex \in Callers \cup {NoCaller}
  /\ expectedSlaveID \in Slaves \cup {NoSlave}
  /\ expectedFunctionCode \in Codes \cup {NoCode}
  /\ requestCounter \in Nat
  /\ responseChan \in Seq(Frame) /\ Len(responseChan) <= ChanCap
  /\ held \in Seq(Frame) /\ Len(held) <= 1
  /\ wire \in Seq(Frame)
  /\ connected \in BOOLEAN
  /\ subscription \in {"none", "pending", "active"}
  /\ closed \in BOOLEAN
  /\ accepted \in SUBSET (Nat \X Nat)

InTransaction(c) ==
  pc[c] \in {"commandLock", "send", "wait", "cleanupLock", "cleanup", "return"}

(* "Only ONE Modbus transaction per slave at a time" (usr_dr164.go:376):    *)
(* whatever fails or times out, two callers are never both past the lock    *)
(* of one slave.                                                            *)
OneTransactionPerSlave ==
  \A c, d \in Callers :
    InTransaction(c) /\ InTransaction(d) /\ slave[c] = slave[d] => c = d

Sequential == \A c, d \in Callers : c = d

(* No request gets two frames and no frame two requests; in sequential use  *)
(* the frames come in the order they were asked for.                        *)
Promise == INSTANCE RequestAnswer
             WITH InOrder <- Sequential, issued <- requestCounter
KeepsPromise == Promise!Spec

(* In sequential use an answer lags its request by no more requests than    *)
(* went unanswered before it; with none lost, each gets its own.            *)
LagBoundedByUnanswered ==
  \A p \in accepted :
    LET r == p[1]
        a == p[2]
    IN  a <= r /\ r - a <= Cardinality({u \in 1..(r - 1) : \A q \in accepted : q[1] # u})

(* In sequential use onMessage never turns away the frame the waiting       *)
(* caller asked for.                                                        *)
OwnAnswerNotRejected ==
  [][\A c \in Callers :
       /\ CheckMessage
       /\ pc[c] = "wait"
       /\ Head(wire).req = req[c]
       => held' # <<>>]_vars

(* Two kinds of request never see their own answer, however the frames      *)
(* arrive: the one of a diagnostic run, which waits without telling         *)
(* onMessage to expect a frame, and one that reads other registers than     *)
(* holding registers, whose frame onMessage lets pass and drops after.      *)
(* What such a request may still get is the late answer to another.         *)
HoldingRequestsOnly ==
  /\ mode # "answered"
  /\ \A c \in Callers : code[c] # ReadHolding => <<req[c], req[c]>> \notin accepted

(* Every call returns: no order of locks, timeouts and link failures leaves *)
(* a caller waiting.                                                        *)
CallReturns == \A c \in Callers : pc[c] # "idle" ~> pc[c] = "idle"

(* "Each request gets its CORRECT response" (usr_dr164.go:377).             *)
CorrectResponse == \A p \in accepted : p[1] = p[2]

=============================================================================
