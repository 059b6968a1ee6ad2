---------------------------- MODULE BridgeStatus -----------------------------
(***************************************************************************)
(* The life of the bridge (main.go) and the status it keeps retained at    *)
(* the broker (pkg/mqtt/publisher.go, status_topic.go), by which Home      *)
(* Assistant shows all sensors as available or not.  It is written by the  *)
(* handler of each connection, by Start, by the heartbeat, by the polling  *)
(* service and by Stop, and by the broker as the bridge's last will.       *)
(*                                                                         *)
(* The polling of main.go records nothing in the health monitor, that of   *)
(* pkg/services/polling_service.go does: `recorded' says which one runs.   *)
(*                                                                         *)
(* A connection is whole until it breaks; then the client and the broker   *)
(* notice it, each at its own time.  What is published in between is lost, *)
(* whether the code is told so or not: no caller acts on the difference.   *)
(***************************************************************************)
EXTENDS GatewayHealth

CONSTANT Wirings    \* the values of `recorded' to look at

VARIABLES
  stage,      \* where main is, from the connection of the gateway to the exit
  signalled,  \* a signal waits in sigChan
  link,       \* the client counts as connected
  session,    \* the broker keeps a session for it, with its last will
  whole,      \* packets pass between the two
  retained,   \* the status the broker has retained
  greeting,   \* a connection handler has yet to publish
  heartbeat,  \* "idle", or "due" when it has found the monitor online
  poll,       \* "idle", or "offline" when the service has yet to publish that
  recorded,
  raced,      \* history: an online was under way when the gateway went offline,
              \* or the client has connected since
  late        \* history: the last status that came through was an online sent
              \* after Stop's offline

connection == <<link, session, whole>>
history    == <<raced, late>>
vars == <<health, stage, signalled, connection, retained, greeting, heartbeat,
          poll, recorded, history>>

Stages == {"gateway", "publisher", "discovery", "running", "stopping",
           "disconnecting", "exited"}

(* The stages in which the loops that Start has started run.                *)
Serving == {"running", "stopping", "disconnecting"}

Init ==
  /\ HealthInit
  /\ stage = "gateway" /\ signalled = FALSE
  /\ link = FALSE /\ session = FALSE /\ whole = FALSE
  /\ retained = "none"
  /\ greeting = FALSE /\ heartbeat = "idle" /\ poll = "idle"
  /\ recorded \in Wirings
  /\ raced = FALSE /\ late = FALSE

ASSUME WiringAssumption == Wirings \subseteq BOOLEAN

-----------------------------------------------------------------------------
(* What comes through to the broker.                                        *)

Publish(status) ==
  /\ retained' = IF whole THEN status ELSE retained
  /\ late' = IF whole THEN status = "online" /\ stage = "disconnecting" ELSE late

(* A client that comes back takes over its old session, and the broker      *)
(* publishes the will of that.                                              *)
Connect ==
  /\ ~link
  /\ link' = TRUE /\ session' = TRUE /\ whole' = TRUE
  /\ retained' = IF session THEN "offline" ELSE retained
  /\ greeting' = TRUE
  /\ raced' = (raced \/ ~isOnline)

Break ==
  /\ whole
  /\ whole' = FALSE
  /\ UNCHANGED <<health, stage, signalled, link, session, retained, greeting,
                 heartbeat, poll, recorded, history>>

ConnectionLost ==
  /\ link /\ ~whole
  /\ link' = FALSE
  /\ UNCHANGED <<health, stage, signalled, session, whole, retained, greeting,
                 heartbeat, poll, recorded, history>>

(* No last will is set. *)
MutantBrokerNotices ==
  /\ session /\ ~whole
  /\ session' = FALSE
  /\ UNCHANGED <<health, stage, signalled, link, whole, retained, greeting,
                 heartbeat, poll, recorded, history>>

BrokerNotices ==
  /\ session /\ ~whole
  /\ session' = FALSE
  /\ retained' = "offline"
  /\ UNCHANGED <<health, stage, signalled, link, whole, greeting, heartbeat,
                 poll, recorded, history>>

-----------------------------------------------------------------------------
(* The publisher's handlers and the client's reconnection.                  *)

Reconnect ==
  /\ stage \in {"discovery"} \cup Serving
  /\ Connect
  /\ UNCHANGED <<health, stage, signalled, heartbeat, poll, recorded, late>>

OnConnect ==
  /\ greeting
  /\ greeting' = FALSE
  /\ Publish("online")
  /\ UNCHANGED <<health, stage, signalled, connection, heartbeat, poll, recorded, raced>>

-----------------------------------------------------------------------------
(* main and Start.                                                          *)

ConnectGateway ==
  /\ stage = "gateway"
  /\ stage' = "publisher"
  /\ UNCHANGED <<health, signalled, connection, retained, greeting, heartbeat,
                 poll, recorded, history>>

ConnectPublisher ==
  /\ stage = "publisher"
  /\ Connect
  /\ stage' = "discovery"
  /\ UNCHANGED <<health, signalled, heartbeat, poll, recorded, late>>

(* After the discoveries Start announces the bridge and starts the loops.   *)
Announce ==
  /\ stage = "discovery"
  /\ stage' = "running"
  /\ Publish("online")
  /\ UNCHANGED <<health, signalled, connection, greeting, heartbeat, poll, recorded, raced>>

Signal ==
  /\ stage # "exited"
  /\ signalled' = TRUE
  /\ UNCHANGED <<health, stage, connection, retained, greeting, heartbeat, poll,
                 recorded, history>>

-----------------------------------------------------------------------------
(* The heartbeat and the polling service.                                   *)

(* The heartbeat no longer asks the monitor. *)
MutantBeat ==
  /\ stage \in Serving /\ heartbeat = "idle"
  /\ heartbeat' = "due"
  /\ UNCHANGED <<health, stage, signalled, connection, retained, greeting, poll,
                 recorded, history>>

Beat ==
  /\ stage \in Serving /\ heartbeat = "idle" /\ isOnline
  /\ heartbeat' = "due"
  /\ UNCHANGED <<health, stage, signalled, connection, retained, greeting, poll,
                 recorded, history>>

(* A heartbeat that cannot be published ends the loop. *)
MutantSendHeartbeat ==
  /\ heartbeat = "due"
  /\ heartbeat' = IF whole THEN "idle" ELSE "ended"
  /\ Publish("online")
  /\ UNCHANGED <<health, stage, signalled, connection, greeting, poll, recorded, raced>>

SendHeartbeat ==
  /\ heartbeat = "due"
  /\ heartbeat' = "idle"
  /\ Publish("online")
  /\ UNCHANGED <<health, stage, signalled, connection, greeting, poll, recorded, raced>>

(* A pass of the polling that failed.  An error within the grace period,    *)
(* or after the gateway was marked offline, is only counted.                *)
PollFails ==
  /\ stage \in Serving /\ recorded /\ poll = "idle"
  /\ RecordError
  /\ IF ShouldMarkOffline /\ isOnline
     THEN MarkOffline /\ poll' = "offline" /\ raced' = (greeting \/ heartbeat = "due")
     ELSE UNCHANGED <<isOnline, statusSetToOffline, poll, raced>>
  /\ UNCHANGED <<stage, signalled, connection, retained, greeting, heartbeat,
                 recorded, late>>

PublishGatewayOffline ==
  /\ poll = "offline"
  /\ poll' = "idle"
  /\ Publish("offline")
  /\ UNCHANGED <<health, stage, signalled, connection, greeting, heartbeat, recorded, raced>>

(* RecordSuccess has set the monitor online before the service asks whether *)
(* it was offline: what it would do then is never done.                     *)
PollSucceeds ==
  /\ stage \in Serving /\ recorded /\ poll = "idle"
  /\ RecordSuccess
  /\ UNCHANGED <<stage, signalled, connection, retained, greeting, heartbeat, poll,
                 recorded, history>>

Tick ==
  /\ ErrorAges
  /\ UNCHANGED <<isOnline, statusSetToOffline, stage, signalled, connection, retained,
                 greeting, heartbeat, poll, recorded, history>>

-----------------------------------------------------------------------------
(* The end of the process: the client and all goroutines go with it.        *)

Exit ==
  /\ stage' = "exited"
  /\ link' = FALSE /\ whole' = FALSE
  /\ greeting' = FALSE /\ heartbeat' = "idle" /\ poll' = "idle"

HearSignal ==
  /\ stage = "running" /\ signalled
  /\ stage' = "stopping"
  /\ UNCHANGED <<health, signalled, connection, retained, greeting, heartbeat, poll,
                 recorded, history>>

(* Stop waits until offline is published. *)
MutantPublishOffline ==
  /\ stage = "stopping" /\ whole
  /\ stage' = "disconnecting"
  /\ Publish("offline")
  /\ UNCHANGED <<health, signalled, connection, greeting, heartbeat, poll, recorded, raced>>

(* Stop publishes offline, or fails to, and disconnects the gateway.        *)
PublishOffline ==
  /\ stage = "stopping"
  /\ stage' = "disconnecting"
  /\ Publish("offline")
  /\ UNCHANGED <<health, signalled, connection, greeting, heartbeat, poll, recorded, raced>>

(* A client that counts as connected takes its leave: if that comes through *)
(* the session ends without its will.  Another one is left as it is.        *)
Disconnect ==
  /\ stage = "disconnecting"
  /\ session' = (session /\ ~whole)
  /\ Exit
  /\ UNCHANGED <<health, signalled, retained, recorded, history>>

Crash ==
  /\ stage # "exited"
  /\ Exit
  /\ UNCHANGED <<health, signalled, session, retained, recorded, history>>

Restart ==
  /\ stage = "exited"
  /\ stage' = "gateway" /\ signalled' = FALSE
  /\ isOnline' = TRUE /\ errorAge' = NoError /\ statusSetToOffline' = FALSE
  /\ raced' = FALSE
  /\ UNCHANGED <<connection, retained, greeting, heartbeat, poll, recorded, late>>

Main == ConnectGateway \/ ConnectPublisher \/ Announce \/ HearSignal \/ PublishOffline \/ Disconnect

Next ==
  \/ Main \/ Signal \/ Crash \/ Restart
  \/ Reconnect \/ OnConnect
  \/ Beat \/ SendHeartbeat
  \/ PollFails \/ PublishGatewayOffline \/ PollSucceeds \/ Tick
  \/ Break \/ ConnectionLost \/ BrokerNotices

(* Goroutines proceed and the heartbeat's ticker fires.  Nothing is assumed *)
(* of the broker: an attempt to connect need never succeed.                 *)
Fairness ==
  /\ WF_vars(Announce) /\ WF_vars(HearSignal) /\ WF_vars(PublishOffline) /\ WF_vars(Disconnect)
  /\ WF_vars(OnConnect)
  /\ WF_vars(Beat) /\ WF_vars(SendHeartbeat)
  /\ WF_vars(PublishGatewayOffline)

Spec == Init /\ [][Next]_vars /\ Fairness

-----------------------------------------------------------------------------
(* Every variable keeps its range, a whole connection is one to both ends,  *)
(* and a process that has ended has no connection.                          *)
TypeOK ==
  /\ HealthTypeOK
  /\ stage \in Stages
  /\ signalled \in BOOLEAN
  /\ link \in BOOLEAN /\ session \in BOOLEAN /\ whole \in BOOLEAN
  /\ whole => link /\ session
  /\ link => stage \in {"discovery"} \cup Serving
  /\ retained \in {"none", "online", "offline"}
  /\ greeting \in BOOLEAN
  /\ heartbeat \in {"idle", "due"} /\ poll \in {"idle", "offline"}
  /\ recorded \in BOOLEAN
  /\ raced \in BOOLEAN /\ late \in BOOLEAN

(* Once the broker keeps no session of the bridge, be it after a crash, an  *)
(* outage or a stop, the status is offline, unless the heartbeat or the     *)
(* handler of a connection published an online behind the offline of Stop.  *)
GoneIsOffline == ~session /\ retained = "online" => late

(* While the bridge is connected a gateway marked offline is shown offline, *)
(* unless an online was under way when it was marked or the client has      *)
(* connected again since: nothing publishes the offline a second time.      *)
GatewayOfflineShown ==
  ~isOnline /\ poll = "idle" /\ whole /\ retained = "online" => raced

(* A bridge that runs with a connection that stays whole and a monitor that *)
(* stays online is shown online in the end, whatever happened before.       *)
ComesBackOnline ==
  <>[](stage = "running" /\ whole /\ isOnline) => <>[](retained = "online")

(* A signal ends the process once Start has made its connections, whatever  *)
(* becomes of those.                                                        *)
StopHeard == (signalled /\ stage \in {"discovery"} \cup Serving) ~> stage = "exited"

(* A signal ends the process also while it tries to connect ("Application   *)
(* can be stopped anytime during retry attempts with Ctrl+C", README.md:358).*)
StopsDuringRetry == signalled ~> stage = "exited"

=============================================================================
