------------------------- MODULE BridgeStatusProofs --------------------------
(***************************************************************************)
(* Theorems about BridgeStatus, for any grace period and either wiring of  *)
(* the health monitor.                                                     *)
(***************************************************************************)
EXTENDS BridgeStatus, TLAPS

(* Between Stop's offline and the end nothing but a late online replaces   *)
(* the status, also if that offline was lost and the client came back.     *)
StoppedIsOffline ==
  stage = "disconnecting" /\ whole /\ retained = "online" => late

(* An online under way while the gateway is offline was so before it was   *)
(* marked, or follows a connection made since.                             *)
UnderWayIsRaced ==
  ~isOnline /\ (greeting \/ heartbeat = "due") => raced

(* The monitor is offline only in a process that polls or has polled, so   *)
(* Start announces no bridge whose gateway is marked offline.              *)
OfflineWhileServing == ~isOnline => stage \in Serving \cup {"exited"}

IInv ==
  /\ TypeOK
  /\ GoneIsOffline
  /\ StoppedIsOffline
  /\ GatewayOfflineShown
  /\ UnderWayIsRaced
  /\ OfflineWhileServing

-----------------------------------------------------------------------------
(* The monitor's record keeps its range whatever is recorded.              *)
LEMMA AgeBounds == 0 \in 0..NoError /\ NoError \in 0..NoError
BY GraceAssumption DEF NoError

LEMMA RecordErrorType ==
  ASSUME HealthTypeOK, RecordError PROVE errorAge' \in 0..NoError
BY AgeBounds DEF HealthTypeOK, RecordError

LEMMA ErrorAgesType ==
  ASSUME HealthTypeOK, ErrorAges PROVE errorAge' \in 0..NoError
BY GraceAssumption DEF HealthTypeOK, ErrorAges, NoError

LEMMA HealthUntouched ==
  ASSUME HealthTypeOK, UNCHANGED health PROVE HealthTypeOK'
BY DEF HealthTypeOK, health

LEMMA InitIInv == Init => IInv
<1> SUFFICES ASSUME Init PROVE IInv
  OBVIOUS
<1>1. HealthTypeOK
  BY AgeBounds, Zenon DEF Init, HealthInit, HealthTypeOK
<1>2. TypeOK
  BY <1>1, WiringAssumption, Zenon DEF Init, TypeOK, Stages
<1>3. isOnline /\ retained = "none"
  BY Zenon DEF Init, HealthInit
<1> QED
  BY <1>2, <1>3, Zenon DEF IInv, GoneIsOffline, StoppedIsOffline, GatewayOfflineShown,
     UnderWayIsRaced, OfflineWhileServing

-----------------------------------------------------------------------------
(* Type correctness, one step per action.                                  *)
LEMMA TypeStep == TypeOK /\ [Next]_vars => TypeOK'
<1> SUFFICES ASSUME TypeOK, [Next]_vars PROVE TypeOK'
  OBVIOUS
<1>1. HealthTypeOK
  BY Zenon DEF TypeOK
<1>2. UNCHANGED health => HealthTypeOK'
  BY <1>1, HealthUntouched
<1>3. CASE ConnectGateway
  <2>1. HealthTypeOK'
    BY <1>3, <1>2, Zenon DEF ConnectGateway
  <2> QED
    BY <1>3, <2>1, Zenon DEF ConnectGateway, connection, history, Stages, Serving, TypeOK
<1>4. CASE ConnectPublisher
  <2>1. HealthTypeOK'
    BY <1>4, <1>2, Zenon DEF ConnectPublisher
  <2> QED
    BY <1>4, <2>1, Zenon DEF ConnectPublisher, Connect, Stages, TypeOK
<1>5. CASE Reconnect
  <2>1. HealthTypeOK'
    BY <1>5, <1>2, Zenon DEF Reconnect
  <2> QED
    BY <1>5, <2>1, Zenon DEF Reconnect, Connect, TypeOK
<1>6. CASE Break
  <2>1. HealthTypeOK'
    BY <1>6, <1>2, Zenon DEF Break
  <2> QED
    BY <1>6, <2>1, Zenon DEF Break, history, TypeOK
<1>7. CASE ConnectionLost
  <2>1. HealthTypeOK'
    BY <1>7, <1>2, Zenon DEF ConnectionLost
  <2> QED
    BY <1>7, <2>1, Zenon DEF ConnectionLost, history, TypeOK
<1>8. CASE BrokerNotices
  <2>1. HealthTypeOK'
    BY <1>8, <1>2, Zenon DEF BrokerNotices
  <2> QED
    BY <1>8, <2>1, Zenon DEF BrokerNotices, history, TypeOK
<1>9. CASE Announce
  <2>1. HealthTypeOK'
    BY <1>9, <1>2, Zenon DEF Announce
  <2> QED
    BY <1>9, <2>1, Zenon DEF Announce, Publish, connection, Stages, Serving, TypeOK
<1>10. CASE OnConnect
  <2>1. HealthTypeOK'
    BY <1>10, <1>2, Zenon DEF OnConnect
  <2> QED
    BY <1>10, <2>1, Zenon DEF OnConnect, Publish, connection, TypeOK
<1>11. CASE SendHeartbeat
  <2>1. HealthTypeOK'
    BY <1>11, <1>2, Zenon DEF SendHeartbeat
  <2> QED
    BY <1>11, <2>1, Zenon DEF SendHeartbeat, Publish, connection, TypeOK
<1>12. CASE PublishGatewayOffline
  <2>1. HealthTypeOK'
    BY <1>12, <1>2, Zenon DEF PublishGatewayOffline
  <2> QED
    BY <1>12, <2>1, Zenon DEF PublishGatewayOffline, Publish, connection, TypeOK
<1>13. CASE PublishOffline
  <2>1. HealthTypeOK'
    BY <1>13, <1>2, Zenon DEF PublishOffline
  <2> QED
    BY <1>13, <2>1, Zenon DEF PublishOffline, Publish, connection, Stages, Serving, TypeOK
<1>14. CASE Signal
  <2>1. HealthTypeOK'
    BY <1>14, <1>2, Zenon DEF Signal
  <2> QED
    BY <1>14, <2>1, Zenon DEF Signal, connection, history, TypeOK
<1>15. CASE HearSignal
  <2>1. HealthTypeOK'
    BY <1>15, <1>2, Zenon DEF HearSignal
  <2> QED
    BY <1>15, <2>1, Zenon DEF HearSignal, connection, history, Stages, Serving, TypeOK
<1>16. CASE Beat
  <2>1. HealthTypeOK'
    BY <1>16, <1>2, Zenon DEF Beat
  <2> QED
    BY <1>16, <2>1, Zenon DEF Beat, connection, history, TypeOK
<1>17. CASE PollFails
  <2>1. errorAge' \in 0..NoError
    BY <1>17, <1>1, RecordErrorType, Zenon DEF PollFails
  <2>2. HealthTypeOK'
    BY <1>17, <1>1, <2>1, Zenon DEF PollFails, MarkOffline, HealthTypeOK
  <2> QED
    BY <1>17, <2>2, Zenon DEF PollFails, MarkOffline, connection, TypeOK
<1>18. CASE PollSucceeds
  <2>1. HealthTypeOK'
    BY <1>18, AgeBounds, Zenon DEF PollSucceeds, RecordSuccess, HealthTypeOK
  <2> QED
    BY <1>18, <2>1, Zenon DEF PollSucceeds, connection, history, TypeOK
<1>19. CASE Tick
  <2>1. errorAge' \in 0..NoError
    BY <1>19, <1>1, ErrorAgesType, Zenon DEF Tick
  <2>2. HealthTypeOK'
    BY <1>19, <1>1, <2>1, Zenon DEF Tick, HealthTypeOK
  <2> QED
    BY <1>19, <2>2, ZenonT(30) DEF Tick, connection, history, TypeOK
<1>20. CASE Disconnect
  <2>1. HealthTypeOK'
    BY <1>20, <1>2, Zenon DEF Disconnect
  <2> QED
    BY <1>20, <2>1, Zenon DEF Disconnect, Exit, history, Stages, TypeOK
<1>21. CASE Crash
  <2>1. HealthTypeOK'
    BY <1>21, <1>2, Zenon DEF Crash
  <2> QED
    BY <1>21, <2>1, Zenon DEF Crash, Exit, history, Stages, TypeOK
<1>22. CASE Restart
  <2>1. HealthTypeOK'
    BY <1>22, AgeBounds, Zenon DEF Restart, HealthTypeOK
  <2>2. ~link
    BY <1>22, Zenon DEF Restart, TypeOK, Serving
  <2> QED
    BY <1>22, <2>1, <2>2, Zenon DEF Restart, connection, TypeOK, Stages
<1>23. CASE UNCHANGED vars
  BY <1>23, <1>1, <1>2 DEF vars, connection, history, TypeOK
<1> QED
  BY <1>3, <1>4, <1>5, <1>6, <1>7, <1>8, <1>9, <1>10, <1>11, <1>12, <1>13, <1>14, <1>15, <1>16, <1>17, <1>18, <1>19, <1>20, <1>21, <1>22, <1>23 DEF Next, Main

-----------------------------------------------------------------------------
(* A status comes through only to a broker that keeps a session, and       *)
(* online only with the history set.                                       *)
LEMMA PublishKeepsGone ==
  ASSUME TypeOK, GoneIsOffline, UNCHANGED connection, NEW status, Publish(status)
  PROVE  GoneIsOffline'
<1>1. CASE whole
  BY <1>1, Zenon DEF TypeOK, GoneIsOffline, connection
<1>2. CASE ~whole
  BY <1>2, Zenon DEF GoneIsOffline, connection, Publish
<1> QED
  BY <1>1, <1>2

(* What the status shows, one step per action.                             *)
LEMMA StatusStep == IInv /\ [Next]_vars => IInv'
<1> SUFFICES ASSUME IInv, [Next]_vars PROVE IInv'
  OBVIOUS
<1>1. TypeOK /\ TypeOK'
  BY TypeStep DEF IInv
<1> DEFINE Parts == GoneIsOffline /\ StoppedIsOffline /\ GatewayOfflineShown
                    /\ UnderWayIsRaced /\ OfflineWhileServing
<1>2. Parts
  BY Zenon DEF IInv
<1>3. ASSUME ConnectGateway PROVE Parts'
  BY <1>1, <1>2, <1>3, Zenon
  DEF ConnectGateway, health, connection, history, Serving, TypeOK, GoneIsOffline, StoppedIsOffline, GatewayOfflineShown,
       UnderWayIsRaced, OfflineWhileServing
<1>4. ASSUME ConnectPublisher PROVE Parts'
  BY <1>1, <1>2, <1>4, Zenon
  DEF ConnectPublisher, Connect, health, Serving, TypeOK, GoneIsOffline, StoppedIsOffline, GatewayOfflineShown,
       UnderWayIsRaced, OfflineWhileServing
<1>5. ASSUME Reconnect PROVE Parts'
  BY <1>1, <1>2, <1>5, Zenon
  DEF Reconnect, Connect, health, TypeOK, GoneIsOffline, StoppedIsOffline, GatewayOfflineShown,
       UnderWayIsRaced, OfflineWhileServing
<1>6. ASSUME Break PROVE Parts'
  BY <1>1, <1>2, <1>6, Zenon
  DEF Break, health, history, TypeOK, GoneIsOffline, StoppedIsOffline, GatewayOfflineShown,
       UnderWayIsRaced, OfflineWhileServing
<1>7. ASSUME ConnectionLost PROVE Parts'
  BY <1>1, <1>2, <1>7, Zenon
  DEF ConnectionLost, health, history, TypeOK, GoneIsOffline, StoppedIsOffline, GatewayOfflineShown,
       UnderWayIsRaced, OfflineWhileServing
<1>8. ASSUME BrokerNotices PROVE Parts'
  BY <1>1, <1>2, <1>8, Zenon
  DEF BrokerNotices, health, history, TypeOK, GoneIsOffline, StoppedIsOffline, GatewayOfflineShown,
       UnderWayIsRaced, OfflineWhileServing
<1>9. ASSUME Announce PROVE Parts'
  <2>1. GoneIsOffline'
    BY <1>1, <1>2, <1>9, PublishKeepsGone, Zenon DEF Announce
  <2> QED
    BY <1>1, <1>2, <1>9, <2>1, Zenon
    DEF Announce, Publish, health, connection, Serving, TypeOK, StoppedIsOffline, GatewayOfflineShown,
        UnderWayIsRaced, OfflineWhileServing
<1>10. ASSUME OnConnect PROVE Parts'
  <2>1. GoneIsOffline'
    BY <1>1, <1>2, <1>10, PublishKeepsGone, Zenon DEF OnConnect
  <2> QED
    BY <1>1, <1>2, <1>10, <2>1, Zenon
    DEF OnConnect, Publish, health, connection, TypeOK, StoppedIsOffline, GatewayOfflineShown,
        UnderWayIsRaced, OfflineWhileServing
<1>11. ASSUME SendHeartbeat PROVE Parts'
  <2>1. GoneIsOffline'
    BY <1>1, <1>2, <1>11, PublishKeepsGone, Zenon DEF SendHeartbeat
  <2> QED
    BY <1>1, <1>2, <1>11, <2>1, Zenon
    DEF SendHeartbeat, Publish, health, connection, TypeOK, StoppedIsOffline, GatewayOfflineShown,
        UnderWayIsRaced, OfflineWhileServing
<1>12. ASSUME PublishGatewayOffline PROVE Parts'
  <2>1. GoneIsOffline'
    BY <1>1, <1>2, <1>12, PublishKeepsGone, Zenon DEF PublishGatewayOffline
  <2> QED
    BY <1>1, <1>2, <1>12, <2>1, Zenon
    DEF PublishGatewayOffline, Publish, health, connection, TypeOK, StoppedIsOffline, GatewayOfflineShown,
        UnderWayIsRaced, OfflineWhileServing
<1>13. ASSUME PublishOffline PROVE Parts'
  <2>1. GoneIsOffline'
    BY <1>1, <1>2, <1>13, PublishKeepsGone, Zenon DEF PublishOffline
  <2> QED
    BY <1>1, <1>2, <1>13, <2>1, Zenon
    DEF PublishOffline, Publish, health, connection, Serving, TypeOK, StoppedIsOffline, GatewayOfflineShown,
        UnderWayIsRaced, OfflineWhileServing
<1>14. ASSUME Signal PROVE Parts'
  BY <1>1, <1>2, <1>14, Zenon
  DEF Signal, health, connection, history, TypeOK, GoneIsOffline, StoppedIsOffline, GatewayOfflineShown,
       UnderWayIsRaced, OfflineWhileServing
<1>15. ASSUME HearSignal PROVE Parts'
  BY <1>1, <1>2, <1>15, Zenon
  DEF HearSignal, health, connection, history, Serving, TypeOK, GoneIsOffline, StoppedIsOffline, GatewayOfflineShown,
       UnderWayIsRaced, OfflineWhileServing
<1>16. ASSUME Beat PROVE Parts'
  BY <1>1, <1>2, <1>16, Zenon
  DEF Beat, health, connection, history, TypeOK, GoneIsOffline, StoppedIsOffline, GatewayOfflineShown,
       UnderWayIsRaced, OfflineWhileServing
<1>17. ASSUME PollFails PROVE Parts'
  BY <1>1, <1>2, <1>17, Zenon
  DEF PollFails, MarkOffline, connection, TypeOK, GoneIsOffline, StoppedIsOffline, GatewayOfflineShown,
       UnderWayIsRaced, OfflineWhileServing
<1>18. ASSUME PollSucceeds PROVE Parts'
  BY <1>1, <1>2, <1>18, Zenon
  DEF PollSucceeds, RecordSuccess, connection, history, TypeOK, GoneIsOffline, StoppedIsOffline, GatewayOfflineShown,
       UnderWayIsRaced, OfflineWhileServing
<1>19. ASSUME Tick PROVE Parts'
  BY <1>1, <1>2, <1>19, Zenon
  DEF Tick, connection, history, TypeOK, GoneIsOffline, StoppedIsOffline, GatewayOfflineShown,
       UnderWayIsRaced, OfflineWhileServing
<1>20. ASSUME Disconnect PROVE Parts'
  BY <1>1, <1>2, <1>20, Zenon
  DEF Disconnect, Exit, health, history, TypeOK, GoneIsOffline, StoppedIsOffline, GatewayOfflineShown,
       UnderWayIsRaced, OfflineWhileServing
<1>21. ASSUME Crash PROVE Parts'
  BY <1>1, <1>2, <1>21, Zenon
  DEF Crash, Exit, health, history, TypeOK, GoneIsOffline, StoppedIsOffline, GatewayOfflineShown,
       UnderWayIsRaced, OfflineWhileServing
<1>22. ASSUME Restart PROVE Parts'
  BY <1>1, <1>2, <1>22, Zenon
  DEF Restart, connection, Serving, TypeOK, GoneIsOffline, StoppedIsOffline, GatewayOfflineShown,
       UnderWayIsRaced, OfflineWhileServing
<1>23. ASSUME UNCHANGED vars PROVE Parts'
  BY <1>1, <1>2, <1>23, Zenon
  DEF vars, health, connection, history, TypeOK, GoneIsOffline, StoppedIsOffline, GatewayOfflineShown,
       UnderWayIsRaced, OfflineWhileServing
<1>24. Parts'
  BY <1>3, <1>4, <1>5, <1>6, <1>7, <1>8, <1>9, <1>10, <1>11, <1>12, <1>13, <1>14, <1>15, <1>16, <1>17, <1>18, <1>19, <1>20, <1>21, <1>22, <1>23 DEF Next, Main
<1> QED
  BY <1>1, <1>24, Zenon DEF IInv

-----------------------------------------------------------------------------
LEMMA Invariance == Spec => []IInv
<1>1. Init => IInv
  BY InitIInv
<1>2. IInv /\ [Next]_vars => IInv'
  BY StatusStep
<1> QED
  BY <1>1, <1>2, PTL DEF Spec

(* Every variable keeps its range, for any grace period.                   *)
THEOREM TypeCorrect == Spec => []TypeOK
<1>1. IInv => TypeOK
  BY Zenon DEF IInv
<1> QED
  BY <1>1, Invariance, PTL

(* Nobody is told that a bridge without a session is available, save by    *)
(* an online that followed Stop's offline.                                 *)
THEOREM GoneShownOffline == Spec => []GoneIsOffline
<1>1. IInv => GoneIsOffline
  BY Zenon DEF IInv
<1> QED
  BY <1>1, Invariance, PTL

(* A gateway marked offline is shown offline, save by an online that was   *)
(* under way or a connection made since.                                   *)
THEOREM GatewayShownOffline == Spec => []GatewayOfflineShown
<1>1. IInv => GatewayOfflineShown
  BY Zenon DEF IInv
<1> QED
  BY <1>1, Invariance, PTL
=============================================================================
