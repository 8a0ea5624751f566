---------------------------- MODULE TspApplication ----------------------------
(***************************************************************************)
(* The composition root: tsp_application.cpp with the relay service, the    *)
(* framework server and the downlink route dispatcher.  The main thread     *)
(* builds and takes down the objects while                                  *)
(*   - the thread of the MQTT client delivers routed downlinks and          *)
(*     readiness changes to the gateway, the coordinator and the publisher, *)
(*   - the request threads of the server call the relay, and                *)
(*   - the worker of the publisher pushes events to the server.             *)
(* What the gateway, the coordinator and the registrar do inside a call is  *)
(* the matter of their own modules; here it matters which objects a thread  *)
(* is inside of, and whether they still exist.                              *)
(***************************************************************************)
EXTENDS TspEventPublisher, TspIpc

VARIABLES
    main,        \* the next step of the main thread
    init_stage,  \* init_stage_
    unwinding,   \* "rollback" or "cleanup" once one of them has begun
    alive,       \* the objects that exist
    handlers,    \* the routes of the dispatcher: handlers_
    subscribed,  \* the subscriptions of the MQTT client that are active
    gateway,     \* running_ and stopping_ of the gateway
    stopping,    \* stopping_ of the relay
    listening,   \* the server accepts requests
    cb           \* where the thread of the MQTT client is

appVars == <<main, init_stage, unwinding, alive, handlers, subscribed, gateway,
             stopping, listening>>
vars == <<appVars, cb, pubVars, ipcVars>>

Objects == {"mqtt", "relay", "route_dispatcher", "framework_server", "ipc_server"}
Kinds == {"event", "response", "keyprov", "unmatched", "readiness"}
CbPlaces == {"idle", "adapter", "dispatch", "handler", "publish", "notify"}
MainPlaces ==
    {"config", "local", "construct", "gateway", "subscribe", "register", "keyprov",
     "server", "listen", "abandon", "execute",
     "drop_server", "quiesce", "stop_keyprov", "stop_gateway", "join_gateway",
     "stop_registrar", "stop_publisher", "stop_server", "drop_relay", "stop_mqtt",
     "done", "failed", "crashed"}

TypeOK ==
    /\ PubTypeOK /\ IpcTypeOK
    /\ main \in MainPlaces
    /\ init_stage \in {"None", "MqttClientReady", "RelayReady", "IpcStarted"}
    /\ unwinding \in {"no", "rollback", "cleanup"}
    /\ alive \subseteq Objects
    /\ handlers \subseteq {"fota", "keyprov"}
    /\ subscribed \subseteq {"routed", "readiness"}
    /\ gateway \in {"none", "new", "running", "stopping", "stopped"}
    /\ stopping \in BOOLEAN /\ listening \in BOOLEAN
    /\ cb \in [place: CbPlaces, kind: Kinds]

Idle == [place |-> "idle", kind |-> "readiness"]

Init ==
    /\ PubInit /\ IpcInit
    /\ main = "config"
    /\ init_stage = "None"
    /\ unwinding = "no"
    /\ alive = {}
    /\ handlers = {}
    /\ subscribed = {}
    /\ gateway = "none"
    /\ stopping = FALSE /\ listening = FALSE
    /\ cb = Idle

OtherThreads == UNCHANGED <<cb, pubVars, ipcVars>>

-----------------------------------------------------------------------------
(* initialize() *)

(* The configuration is read, the MQTT client created and started. *)
InitializeMqtt ==
    /\ main = "config"
    /\ \/ /\ main' = "failed"
          /\ UNCHANGED <<alive, init_stage>>
       \/ /\ main' = "local"
          /\ alive' = {"mqtt"}
          /\ init_stage' = "MqttClientReady"
    /\ UNCHANGED <<unwinding, handlers, subscribed, gateway, stopping, listening>>
    /\ OtherThreads

(* An invalid catalogue or configuration leaves a relay without a gateway. *)
InitializeLocal ==
    /\ main = "local"
    /\ alive' = alive \cup {"relay"}
    /\ \/ /\ main' = "construct"
          /\ gateway' = "new"
          /\ UNCHANGED unwinding
       \/ /\ main' = "drop_server"
          /\ unwinding' = "rollback"
          /\ UNCHANGED gateway
    /\ UNCHANGED <<init_stage, handlers, subscribed, stopping, listening>>
    /\ OtherThreads

(* The framework server holds the publisher that the gateway is given. *)
ConstructServer ==
    /\ main = "construct"
    /\ alive' = alive \cup {"framework_server"}
    /\ main' = "gateway"
    /\ UNCHANGED <<init_stage, unwinding, handlers, subscribed, gateway, stopping, listening>>
    /\ OtherThreads

(* VehicleMessageGateway::start, after the registrar has submitted. *)
StartGateway ==
    /\ main = "gateway"
    /\ gateway' = "running"
    /\ alive' = alive \cup {"route_dispatcher"}
    /\ handlers' = {"fota"}
    /\ main' = "subscribe"
    /\ UNCHANGED <<init_stage, unwinding, subscribed, stopping, listening>>
    /\ OtherThreads

(* subscribeRoutedDownlink; without the capability the gateway is degraded. *)
SubscribeDownlink ==
    /\ main = "subscribe"
    /\ subscribed' \in {{}, {"routed"}}
    /\ main' = "register"
    /\ UNCHANGED <<init_stage, unwinding, alive, handlers, gateway, stopping, listening>>
    /\ OtherThreads

RegisterKeyprov ==
    /\ main = "register"
    /\ handlers' = handlers \cup {"keyprov"}
    /\ main' = "keyprov"
    /\ UNCHANGED <<init_stage, unwinding, alive, subscribed, gateway, stopping, listening>>
    /\ OtherThreads

(* V2cKeyProvisioningCoordinator::start subscribes to the readiness events. *)
StartKeyprov ==
    /\ main = "keyprov"
    /\ subscribed' \in {subscribed, subscribed \cup {"readiness"}}
    /\ init_stage' = "RelayReady"
    /\ main' = "server"
    /\ UNCHANGED <<unwinding, alive, handlers, gateway, stopping, listening>>
    /\ OtherThreads

(* TspFrameworkServer::start: the worker runs before the server listens. *)
StartServer ==
    /\ main = "server"
    /\ alive' = alive \cup {"ipc_server"}
    /\ PublisherStarts
    /\ main' = "listen"
    /\ UNCHANGED <<init_stage, unwinding, handlers, subscribed, gateway, stopping, listening>>
    /\ UNCHANGED <<cb, ipcVars>>

(* Mutant: a failed start leaves the publisher to the rollback. *)
ServerListens_abandons ==
    /\ main = "listen"
    /\ \/ /\ main' = "execute"
          /\ listening' = TRUE
          /\ init_stage' = "IpcStarted"
          /\ UNCHANGED <<alive, unwinding>>
       \/ /\ main' = "drop_server"
          /\ alive' = alive \ {"ipc_server"}
          /\ unwinding' = "rollback"
          /\ UNCHANGED <<listening, init_stage>>
    /\ UNCHANGED <<handlers, subscribed, gateway, stopping>>
    /\ OtherThreads

ServerListens ==
    /\ main = "listen"
    /\ \/ /\ main' = "execute"
          /\ listening' = TRUE
          /\ init_stage' = "IpcStarted"
          /\ UNCHANGED unwinding
       \/ /\ main' = "abandon"
          /\ unwinding' = "rollback"
          /\ UNCHANGED <<listening, init_stage>>
    /\ UNCHANGED <<alive, handlers, subscribed, gateway, stopping>>
    /\ OtherThreads

(* The server could not start: publisher.stop(), then server_.reset(). *)
AbandonServer ==
    /\ main = "abandon"
    /\ UNCHANGED <<init_stage, unwinding, handlers, subscribed, gateway, stopping, listening>>
    /\ UNCHANGED <<cb, ipcVars>>
    /\ \/ /\ StopPublisher
          /\ UNCHANGED <<main, alive>>
       \/ /\ publisher_stopped
          /\ alive' = alive \ {"ipc_server"}
          /\ main' = "drop_server"
          /\ UNCHANGED pubVars

(* execute() waits for the signal; cleanup() begins. *)
Shutdown ==
    /\ main = "execute"
    /\ main' = "quiesce"
    /\ unwinding' = "cleanup"
    /\ UNCHANGED <<init_stage, alive, handlers, subscribed, gateway, stopping, listening>>
    /\ OtherThreads

-----------------------------------------------------------------------------
(* rollbackInitialization() and cleanup() *)

(* rollback: the framework server, and the publisher with it, go first. *)
DropServer ==
    /\ main = "drop_server"
    /\ alive' = alive \ {"framework_server"}
    /\ main' = IF init_stage \in {"RelayReady", "IpcStarted"} THEN "quiesce"
               ELSE "stop_keyprov"
    /\ UNCHANGED <<init_stage, unwinding, handlers, subscribed, gateway, stopping, listening>>
    /\ OtherThreads

Quiesce ==
    /\ main = "quiesce"
    /\ stopping' = TRUE
    /\ main' = "stop_keyprov"
    /\ UNCHANGED <<init_stage, unwinding, alive, handlers, subscribed, gateway, listening>>
    /\ OtherThreads

(* TspRelayService::stop(): its flag again, and the worker of the            *)
(* coordinator joined.                                                       *)
StopKeyprov ==
    /\ main = "stop_keyprov"
    /\ stopping' = TRUE
    /\ main' = IF gateway = "running" THEN "stop_gateway" ELSE "stop_registrar"
    /\ UNCHANGED <<init_stage, unwinding, alive, handlers, subscribed, gateway, listening>>
    /\ OtherThreads

StopGateway ==
    /\ main = "stop_gateway"
    /\ gateway' = "stopping"
    /\ main' = "join_gateway"
    /\ UNCHANGED <<init_stage, unwinding, alive, handlers, subscribed, stopping, listening>>
    /\ OtherThreads

(* The exchanges in flight are decided, the sweepers joined, the dispatcher  *)
(* destroyed.  The subscription of the MQTT client is left as it is.         *)
JoinGateway ==
    /\ main = "join_gateway"
    /\ gateway' = "stopped"
    /\ alive' = alive \ {"route_dispatcher"}
    /\ handlers' = {}
    /\ main' = "stop_registrar"
    /\ UNCHANGED <<init_stage, unwinding, subscribed, stopping, listening>>
    /\ OtherThreads

(* Mutant: the relay goes as soon as it is stopped. *)
StopRegistrar_drops_relay ==
    /\ main = "stop_registrar"
    /\ main' = IF unwinding = "cleanup" THEN "stop_publisher" ELSE "drop_relay"
    /\ alive' = alive \ {"relay"}
    /\ UNCHANGED <<init_stage, unwinding, handlers, subscribed, gateway, stopping, listening>>
    /\ OtherThreads

StopRegistrar ==
    /\ main = "stop_registrar"
    /\ main' = IF unwinding = "cleanup" THEN "stop_publisher" ELSE "drop_relay"
    /\ UNCHANGED <<init_stage, unwinding, alive, handlers, subscribed, gateway, stopping, listening>>
    /\ OtherThreads

(* TspFrameworkServer::stop(): the publisher first. *)
StopEvents ==
    /\ main = "stop_publisher"
    /\ UNCHANGED <<init_stage, unwinding, alive, handlers, subscribed, gateway, stopping, listening>>
    /\ UNCHANGED <<cb, ipcVars>>
    /\ \/ /\ StopPublisher
          /\ UNCHANGED main
       \/ /\ publisher_stopped
          /\ main' = "stop_server"
          /\ UNCHANGED pubVars

StopServer ==
    /\ main = "stop_server"
    /\ ServerStops
    /\ listening' = FALSE
    /\ alive' = alive \ {"ipc_server"}
    /\ main' = "drop_relay"
    /\ UNCHANGED <<init_stage, unwinding, handlers, subscribed, gateway, stopping>>
    /\ UNCHANGED <<cb, pubVars>>

DropRelay ==
    /\ main = "drop_relay"
    /\ alive' = alive \ {"relay"}
    /\ main' = "stop_mqtt"
    /\ UNCHANGED <<init_stage, unwinding, handlers, subscribed, gateway, stopping, listening>>
    /\ OtherThreads

(* Mutant: the MQTT client is left running. *)
StopMqtt_kept ==
    /\ main = "stop_mqtt"
    /\ init_stage' = "None"
    /\ main' = IF unwinding = "cleanup" THEN "done" ELSE "failed"
    /\ UNCHANGED <<alive, subscribed, unwinding, handlers, gateway, stopping, listening>>
    /\ OtherThreads

(* MqttClientAdapter::stop() cancels the subscriptions; the client goes. *)
StopMqtt ==
    /\ main = "stop_mqtt"
    /\ subscribed' = {}
    /\ alive' = alive \ {"mqtt"}
    /\ init_stage' = "None"
    /\ main' = IF unwinding = "cleanup" THEN "done" ELSE "failed"
    /\ UNCHANGED <<unwinding, handlers, gateway, stopping, listening>>
    /\ OtherThreads

Main ==
    \/ InitializeMqtt \/ InitializeLocal \/ ConstructServer \/ StartGateway
    \/ SubscribeDownlink \/ RegisterKeyprov \/ StartKeyprov \/ StartServer
    \/ ServerListens \/ AbandonServer
    \/ DropServer \/ Quiesce \/ StopKeyprov \/ StopGateway \/ JoinGateway
    \/ StopRegistrar \/ StopEvents \/ StopServer \/ DropRelay \/ StopMqtt

-----------------------------------------------------------------------------
(* The thread of the MQTT client (external).  A callback goes from the       *)
(* adapter into the gateway or the coordinator, which the relay owns, through *)
(* the route dispatcher to a handler, and with an EVENT to the publisher.    *)

Uses(p) == CASE p = "idle" -> {}
             [] p \in {"adapter", "handler"} -> {"relay"}
             [] p = "dispatch" -> {"route_dispatcher"}
             [] p \in {"publish", "notify"} -> {"relay", "framework_server"}

CallbackAt(p) == cb.place = p /\ Uses(p) \subseteq alive

CallbackGoes(p) ==
    /\ cb' = IF p = "idle" THEN Idle ELSE [cb EXCEPT !.place = p]
    /\ UNCHANGED <<appVars, ipcVars>>

(* Events beyond MaxEvents do not arrive. *)
CallbackBegins(k) ==
    /\ cb = Idle
    /\ (IF k = "readiness" THEN k ELSE "routed") \in subscribed
    /\ k = "event" => accepted < MaxEvents
    /\ cb' = [place |-> "adapter", kind |-> k]
    /\ UNCHANGED <<appVars, pubVars, ipcVars>>

(* on_cloud_readiness, or the test of route_dispatcher_. *)
CallbackEnters ==
    /\ CallbackAt("adapter")
    /\ CallbackGoes(IF cb.kind # "readiness" /\ "route_dispatcher" \in alive
                    THEN "dispatch" ELSE "idle")
    /\ UNCHANGED pubVars

route_of(k) == CASE k \in {"event", "response"} -> "fota"
                 [] k = "keyprov" -> "keyprov"
                 [] OTHER -> "unmatched"

(* DownlinkRouteDispatcher::dispatch copies the handler under its mutex. *)
CallbackDispatches ==
    /\ CallbackAt("dispatch")
    /\ CallbackGoes(IF route_of(cb.kind) \in handlers THEN "handler" ELSE "idle")
    /\ UNCHANGED pubVars

(* handle_routed_downlink; a gateway that is stopping ignores the message. *)
CallbackHandles ==
    /\ CallbackAt("handler")
    /\ CallbackGoes(IF cb.kind = "event" /\ gateway = "running" THEN "publish" ELSE "idle")
    /\ UNCHANGED pubVars

CallbackPublishes(s) ==
    /\ CallbackAt("publish")
    /\ \/ PublishEnqueues(s) /\ CallbackGoes("notify")
       \/ PublishFull(s) /\ CallbackGoes("idle")

CallbackNotifies ==
    /\ CallbackAt("notify")
    /\ PublishNotifies
    /\ CallbackGoes("idle")

(* A step on a destroyed object is undefined: the process ends, or the       *)
(* callback returns.                                                         *)
CallbackUndefined ==
    /\ ~ Uses(cb.place) \subseteq alive
    /\ main # "crashed"
    /\ \/ CallbackGoes("idle")
       \/ /\ main' = "crashed"
          /\ UNCHANGED <<init_stage, unwinding, alive, handlers, subscribed, gateway,
                         stopping, listening, cb, ipcVars>>
    /\ UNCHANGED pubVars

Callback ==
    \/ CallbackEnters \/ CallbackDispatches \/ CallbackHandles
    \/ \E s \in Services : CallbackPublishes(s)
    \/ CallbackNotifies \/ CallbackUndefined

-----------------------------------------------------------------------------
(* The request threads, the clients and the worker. *)

Request(r) ==
    /\ \/ RequestArrives(r, listening)
       \/ DispatchRefuses(r)
       \/ DispatchExchanges(r, stopping)
       \/ \E o \in RelayOutcomes : ExchangeReturns(r, o)
       \/ ResponseArrives(r)
    /\ UNCHANGED <<appVars, cb, pubVars>>

Client(c) ==
    /\ ClientCalls(c) \/ TransportFails(c)
    /\ UNCHANGED <<appVars, cb, pubVars>>

Ended == main \in {"done", "failed", "crashed"}

Next ==
    \/ Main \/ Shutdown
    \/ main # "crashed" /\ \E k \in Kinds : CallbackBegins(k)
    \/ main # "crashed" /\ Callback
    \/ main # "crashed" /\ \E r \in Requests : Request(r)
    \/ \E c \in Clients : Client(c)
    \/ main # "crashed" /\ (Worker \/ SpuriousWakeup) /\ UNCHANGED <<appVars, cb, ipcVars>>

(* The threads of the process run; nobody has to send a signal, an event or  *)
(* a request, and a waiting worker is not woken without a notification.      *)
Fairness ==
    /\ WF_vars(Main)
    /\ WF_vars(main # "crashed" /\ Callback)
    /\ \A r \in Requests : WF_vars(main # "crashed" /\ Request(r))
    /\ WF_vars(main # "crashed" /\ Worker /\ UNCHANGED <<appVars, cb, ipcVars>>)

Spec == Init /\ [][Next]_vars /\ Fairness

-----------------------------------------------------------------------------
(* The worker pushes an event only while the IPC server it pushes to exists: *)
(* publisher.stop() has joined it before server_.reset(), on the failure     *)
(* path of start() as well (TspFrameworkServer::start, stop).                *)
PushHitsServer == worker = "push" => "ipc_server" \in alive

(* A request inside the dispatcher or the relay finds them alive: the server *)
(* is stopped and joined before the relay is destroyed (cleanup).            *)
RequestTargetsAlive ==
    InServer # {} => {"relay", "framework_server", "ipc_server"} \subseteq alive

(* A failed initialize() leaves nothing behind: no object, no thread of the  *)
(* publisher, no subscription (rollbackInitialization).                      *)
RollbackComplete ==
    main = "failed" => /\ alive = {} /\ subscribed = {}
                       /\ publisher_stopped /\ worker \in {"none", "exited"}

(* Events accepted while the publisher runs reach its worker, through stop() *)
(* as well; no wakeup of publish_vehicle_message is lost.                    *)
EventsReachWorker ==
    \A n \in 1..MaxEvents :
       accepted >= n /\ running ~> handled >= n \/ main = "crashed"

(* Once the process begins to stop it ends, in every behaviour in which the  *)
(* notification of TspEventPublisher::stop() is not lost.                    *)
ShutdownEnds == <>MissedNotify \/ (unwinding # "no" ~> Ended)

(* No callback of the MQTT client runs on an object that is gone.            *)
CallbackTargetsAlive == Uses(cb.place) \subseteq alive
=============================================================================
