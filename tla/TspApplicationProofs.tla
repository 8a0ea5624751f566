------------------------- MODULE TspApplicationProofs -------------------------
(***************************************************************************)
(* The relay service starts, fails to start and stops in an order in which *)
(* no thread of its own meets an object that is gone, and a client's call  *)
(* is carried out at most once, for any clients, services and events.      *)
(*                                                                         *)
(* What a thread may meet depends on how far the main thread has come.     *)
(* ObjectInv says which objects exist at each of its places, ListenInv     *)
(* that requests are inside only while the server listens, PublisherInv    *)
(* that the worker runs only between start() and stop() of the publisher,  *)
(* and CallInv follows a call from the client to the gateway and back.     *)
(***************************************************************************)
EXTENDS TspApplication, TspEventPublisherProofs

(* The places at which the server listens, and those on the way down. *)
Serving == {"execute", "quiesce", "stop_keyprov", "stop_gateway", "join_gateway",
            "stop_registrar", "stop_publisher", "stop_server"}
Teardown == {"abandon", "drop_server", "quiesce", "stop_keyprov", "stop_gateway",
             "join_gateway", "stop_registrar", "stop_publisher", "stop_server",
             "drop_relay", "stop_mqtt"}
AfterGateway == {"stop_registrar", "stop_publisher", "stop_server", "drop_relay", "stop_mqtt"}

(* The objects that must exist by now, and those that must be gone. *)
ObjectInv ==
    /\ main = "config" => alive = {} /\ subscribed = {}
    /\ main = "local" => alive = {"mqtt"}
    /\ main \in {"construct", "gateway", "subscribe", "register", "keyprov", "server", "listen"}
          => "relay" \in alive
    /\ main \in {"gateway", "subscribe", "register", "keyprov", "server", "listen"}
          => "framework_server" \in alive
    /\ main = "listen" => "ipc_server" \in alive
    /\ main \in Teardown => unwinding # "no"
    /\ main \in {"abandon", "drop_server"} => unwinding = "rollback"
    /\ main = "drop_server" => "ipc_server" \notin alive
    /\ main \in Teardown \ {"abandon", "drop_server"} /\ unwinding = "rollback"
          => "framework_server" \notin alive /\ "ipc_server" \notin alive
    /\ "route_dispatcher" \in alive => gateway = "running" \/ main \in {"join_gateway", "crashed"}
    /\ main \in AfterGateway => "route_dispatcher" \notin alive
    /\ main = "stop_mqtt" => "relay" \notin alive
    /\ main = "failed" => alive = {} /\ subscribed = {}

(* The server listens from its start to its stop, and requests are inside    *)
(* only then.                                                                *)
ListenInv ==
    /\ listening => /\ {"relay", "framework_server", "ipc_server"} \subseteq alive
                    /\ main \in Serving \cup {"crashed"}
                    /\ main \in Serving \ {"execute"} => unwinding = "cleanup"
    /\ InServer # {} => listening

(* The publisher runs only while the IPC server exists, and its worker only  *)
(* until stop() has joined it.                                               *)
PublisherInv ==
    /\ publisher_stopped => worker \in {"none", "exited"}
    /\ "ipc_server" \notin alive \/ main = "stop_server" => publisher_stopped

(* A call is sent once, executed at most once and only on its way to the     *)
(* answer, and an answer Accepted comes from the gateway.                    *)
CallInv ==
    \A c \in Clients :
       /\ client[c] = "idle" => req[<<c, 1>>] = "none"
       /\ req[<<c, 2>>] = "none"
       /\ req[<<c, 1>>] \in {"none", "wire", "dispatch"} => executed[c] = 0
       /\ req[<<c, 1>>] = "gateway" => executed[c] = 1
       /\ executed[c] \in {0, 1}
       /\ reply[<<c, 1>>] = "Accepted" => executed[c] = 1
       /\ client[c] = "Accepted" => executed[c] = 1

AppInv == PubInv /\ TypeOK /\ ObjectInv /\ ListenInv /\ PublisherInv /\ CallInv

-----------------------------------------------------------------------------
(* What the threads of the process leave alone. *)

(* The variables of the main thread other than its place. *)
Built == <<init_stage, unwinding, alive, handlers, subscribed, gateway, stopping, listening>>

(* Only the main thread builds and takes down; the callback may crash. *)
LEMMA MainAlone ==
    ASSUME [Next]_vars
    PROVE  \/ Main \/ Shutdown
           \/ UNCHANGED Built /\ main' \in {main, "crashed"}
  BY DEF Next, Callback, CallbackBegins, CallbackEnters, CallbackDispatches,
     CallbackHandles, CallbackPublishes, CallbackNotifies, CallbackUndefined,
     CallbackGoes, Request, Client, appVars, vars, Built

(* Every step is one of the publisher, or leaves it alone. *)
LEMMA PublisherStep == ASSUME [Next]_vars PROVE [PubNext]_pubVars
<1>1. ASSUME Main PROVE [PubNext]_pubVars
  BY <1>1 DEF Main, InitializeMqtt, InitializeLocal, ConstructServer, StartGateway,
     SubscribeDownlink, RegisterKeyprov, StartKeyprov, StartServer, ServerListens,
     AbandonServer, DropServer, Quiesce, StopKeyprov, StopGateway, JoinGateway,
     StopRegistrar, StopEvents, StopServer, DropRelay, StopMqtt, OtherThreads, PubNext
<1>2. ASSUME Callback PROVE [PubNext]_pubVars
  BY <1>2 DEF Callback, CallbackEnters, CallbackDispatches, CallbackHandles,
     CallbackPublishes, CallbackNotifies, CallbackUndefined, PubNext
<1>. QED
  BY <1>1, <1>2 DEF Next, Shutdown, OtherThreads, CallbackBegins, Request, Client, PubNext, vars

(* Outside the main thread nobody starts or stops the publisher, and a       *)
(* worker that is not there does not move.                                   *)
LEMMA WorkerAlone ==
    ASSUME [Next]_vars, ~Main
    PROVE  /\ UNCHANGED <<running, stop>>
           /\ worker \in {"none", "exited"} => worker' = worker
  BY DEF Next, Shutdown, OtherThreads, Callback, CallbackBegins, CallbackEnters,
     CallbackDispatches, CallbackHandles, CallbackPublishes, CallbackNotifies,
     CallbackUndefined, PublishEnqueues, PublishFull, PublishNotifies, Notified, Enqueue,
     Request, Client, Worker, WorkerTakes, Taken, WorkerExits, WorkerSleeps, WorkerPushes,
     SpuriousWakeup, pubVars, vars

(* The requests move with a client, a request thread or the end of the       *)
(* server.                                                                   *)
LEMMA CallsAlone ==
    ASSUME [Next]_vars
    PROVE  \/ UNCHANGED ipcVars
           \/ StopServer
           \/ UNCHANGED appVars /\ \E c \in Clients : Client(c)
           \/ UNCHANGED appVars /\ \E r \in Requests : Request(r)
<1>1. ASSUME Main PROVE UNCHANGED ipcVars \/ StopServer
  BY <1>1 DEF Main, InitializeMqtt, InitializeLocal, ConstructServer, StartGateway,
     SubscribeDownlink, RegisterKeyprov, StartKeyprov, StartServer, ServerListens,
     AbandonServer, DropServer, Quiesce, StopKeyprov, StopGateway, JoinGateway,
     StopRegistrar, StopEvents, DropRelay, StopMqtt, OtherThreads
<1>2. ASSUME Callback PROVE UNCHANGED ipcVars
  BY <1>2 DEF Callback, CallbackEnters, CallbackDispatches, CallbackHandles,
     CallbackPublishes, CallbackNotifies, CallbackUndefined, CallbackGoes
<1>. QED
  BY <1>1, <1>2 DEF Next, Shutdown, OtherThreads, CallbackBegins, Request, Client, vars

-----------------------------------------------------------------------------
(* The objects. *)

AppTypeOK ==
    /\ main \in MainPlaces
    /\ init_stage \in {"None", "MqttClientReady", "RelayReady", "IpcStarted"}
    /\ unwinding \in {"no", "rollback", "cleanup"}
    /\ alive \subseteq Objects
    /\ handlers \subseteq {"fota", "keyprov"}
    /\ subscribed \subseteq {"routed", "readiness"}
    /\ gateway \in {"none", "new", "running", "stopping", "stopped"}
    /\ stopping \in BOOLEAN /\ listening \in BOOLEAN

(* The main thread stays in its domains. *)
LEMMA AppTypeStep == ASSUME AppTypeOK, [Next]_vars PROVE AppTypeOK'
<1>. USE DEF AppTypeOK, MainPlaces, Objects
<1>1. CASE InitializeMqtt BY <1>1 DEF InitializeMqtt
<1>2. CASE InitializeLocal BY <1>2 DEF InitializeLocal
<1>3. CASE ConstructServer BY <1>3 DEF ConstructServer
<1>4. CASE StartGateway BY <1>4 DEF StartGateway
<1>5. CASE SubscribeDownlink BY <1>5 DEF SubscribeDownlink
<1>6. CASE RegisterKeyprov BY <1>6 DEF RegisterKeyprov
<1>7. CASE StartKeyprov BY <1>7 DEF StartKeyprov
<1>8. CASE StartServer BY <1>8 DEF StartServer
<1>9. CASE ServerListens BY <1>9 DEF ServerListens
<1>10. CASE AbandonServer BY <1>10 DEF AbandonServer
<1>11. CASE DropServer BY <1>11 DEF DropServer
<1>12. CASE Quiesce BY <1>12 DEF Quiesce
<1>13. CASE StopKeyprov BY <1>13 DEF StopKeyprov
<1>14. CASE StopGateway BY <1>14 DEF StopGateway
<1>15. CASE JoinGateway BY <1>15 DEF JoinGateway
<1>16. CASE StopRegistrar BY <1>16 DEF StopRegistrar
<1>17. CASE StopEvents BY <1>17 DEF StopEvents
<1>18. CASE StopServer BY <1>18 DEF StopServer
<1>19. CASE DropRelay BY <1>19 DEF DropRelay
<1>20. CASE StopMqtt BY <1>20 DEF StopMqtt
<1>21. CASE Shutdown BY <1>21 DEF Shutdown
<1>22. CASE UNCHANGED Built /\ main' \in {main, "crashed"} BY <1>22 DEF Built
<1>. QED
  BY MainAlone, <1>1, <1>2, <1>3, <1>4, <1>5, <1>6, <1>7, <1>8, <1>9, <1>10, <1>11, <1>12,
     <1>13, <1>14, <1>15, <1>16, <1>17, <1>18, <1>19, <1>20, <1>21, <1>22 DEF Main

(* Building and taking down keep the objects in step with the main thread.   *)
LEMMA ObjectStep == ASSUME AppTypeOK, ObjectInv, [Next]_vars PROVE ObjectInv'
<1>. USE DEF ObjectInv, Teardown, AfterGateway
<1>1. CASE InitializeMqtt BY <1>1 DEF InitializeMqtt
<1>2. CASE InitializeLocal BY <1>2 DEF InitializeLocal
<1>3. CASE ConstructServer BY <1>3 DEF ConstructServer
<1>4. CASE StartGateway BY <1>4 DEF StartGateway
<1>5. CASE SubscribeDownlink BY <1>5 DEF SubscribeDownlink
<1>6. CASE RegisterKeyprov BY <1>6 DEF RegisterKeyprov
<1>7. CASE StartKeyprov BY <1>7 DEF StartKeyprov
<1>8. CASE StartServer BY <1>8 DEF StartServer
<1>9. CASE ServerListens BY <1>9 DEF ServerListens
<1>10. CASE AbandonServer BY <1>10 DEF AbandonServer
<1>11. CASE DropServer BY <1>11 DEF DropServer
<1>12. CASE Quiesce BY <1>12 DEF Quiesce
<1>13. CASE StopKeyprov BY <1>13 DEF StopKeyprov
<1>14. CASE StopGateway BY <1>14 DEF StopGateway
<1>15. CASE JoinGateway BY <1>15 DEF JoinGateway
<1>16. CASE StopRegistrar BY <1>16 DEF StopRegistrar
<1>17. CASE StopEvents BY <1>17 DEF StopEvents
<1>18. CASE StopServer BY <1>18 DEF StopServer
<1>19. CASE DropRelay BY <1>19 DEF DropRelay
<1>20. CASE StopMqtt BY <1>20 DEF StopMqtt, AppTypeOK, Objects
<1>21. CASE Shutdown BY <1>21 DEF Shutdown
<1>22. CASE UNCHANGED Built /\ main' \in {main, "crashed"} BY <1>22 DEF Built
<1>. QED
  BY MainAlone, <1>1, <1>2, <1>3, <1>4, <1>5, <1>6, <1>7, <1>8, <1>9, <1>10, <1>11, <1>12,
     <1>13, <1>14, <1>15, <1>16, <1>17, <1>18, <1>19, <1>20, <1>21, <1>22 DEF Main

(* The publisher's part of a step of the main thread. *)
LEMMA PublisherInvStep == ASSUME ObjectInv, PublisherInv, [Next]_vars PROVE PublisherInv'
<1>. USE DEF PublisherInv, publisher_stopped
<1>1. CASE StartServer BY <1>1 DEF StartServer, PublisherStarts
<1>2. CASE AbandonServer
  BY <1>2 DEF AbandonServer, StopPublisher, StopClearsRunning, StopNotifies, StopJoins,
     publisher_stopped, pubVars
<1>3. CASE StopEvents
  BY <1>3 DEF StopEvents, StopPublisher, StopClearsRunning, StopNotifies, StopJoins,
     publisher_stopped, pubVars
<1>4. CASE StopServer BY <1>4 DEF StopServer, pubVars
<1>5. CASE UNCHANGED pubVars /\ main' # "stop_server"
           /\ ("ipc_server" \in alive => "ipc_server" \in alive')
  BY <1>5 DEF pubVars
<1>6. ASSUME Main, ~StartServer, ~AbandonServer, ~StopEvents, ~StopServer PROVE PublisherInv'
  <2>1. InitializeMqtt => main = "config" /\ alive = {}
    BY DEF InitializeMqtt, ObjectInv
  <2>. QED
    BY <1>5, <1>6, <2>1 DEF Main, InitializeMqtt, InitializeLocal, ConstructServer, StartGateway,
       SubscribeDownlink, RegisterKeyprov, StartKeyprov, ServerListens, DropServer, Quiesce,
       StopKeyprov, StopGateway, JoinGateway, StopRegistrar, DropRelay, StopMqtt, OtherThreads
<1>7. ASSUME ~Main PROVE PublisherInv'
  <2>1. /\ UNCHANGED <<running, stop>>
        /\ worker \in {"none", "exited"} => worker' = worker
    BY <1>7, WorkerAlone
  <2>2. alive' = alive /\ (main' = "stop_server" => main = "stop_server")
    BY <1>7, MainAlone DEF Built, Shutdown
  <2>. QED
    BY <2>1, <2>2
<1>. QED
  BY <1>1, <1>2, <1>3, <1>4, <1>6, <1>7

-----------------------------------------------------------------------------
(* The calls. *)

(* exchangeVehicleMessage is not retried. *)
LEMMA SentOnce == ~should_retry("EXCHANGE_VEHICLE_MESSAGE")
  BY DEF should_retry, categorize

LEMMA RequestPair ==
    ASSUME NEW r \in Requests
    PROVE  r[1] \in Clients /\ r[2] \in {1, 2} /\ r = <<r[1], r[2]>>
  BY DEF Requests

(* The client's steps, the request threads' and the end of the server keep   *)
(* a call on its way.                                                        *)
LEMMA ClientStep ==
    ASSUME IpcTypeOK, CallInv, NEW c \in Clients, ClientCalls(c) \/ TransportFails(c)
    PROVE  /\ IpcTypeOK' /\ CallInv' /\ InServer' = InServer
<1>1. CASE ClientCalls(c)
  <2>1. /\ client[c] = "idle" /\ client' = [client EXCEPT ![c] = "calling"]
        /\ tries' = [tries EXCEPT ![c] = 1] /\ req' = [req EXCEPT ![<<c, 1>>] = "wire"]
        /\ UNCHANGED <<reply, executed>>
    BY <1>1 DEF ClientCalls, Send
  <2>2. <<c, 1>> \in Requests /\ req[<<c, 1>>] = "none"
    BY <2>1 DEF CallInv, Requests
  <2>3. IpcTypeOK'
    BY <2>1, <2>2 DEF IpcTypeOK, ReqPlaces
  <2>4. CallInv'
    <3>1. \A d \in Clients, n \in {1, 2} :
             <<d, n>> \in Requests /\ (<<d, n>> = <<c, 1>> <=> d = c /\ n = 1)
      BY DEF Requests
    <3>. SUFFICES ASSUME NEW d \in Clients
                  PROVE  /\ client'[d] = "idle" => req'[<<d, 1>>] = "none"
                         /\ req'[<<d, 2>>] = "none"
                         /\ req'[<<d, 1>>] \in {"none", "wire", "dispatch"} => executed[d] = 0
                         /\ req'[<<d, 1>>] = "gateway" => executed[d] = 1
                         /\ executed[d] \in {0, 1}
                         /\ reply[<<d, 1>>] = "Accepted" => executed[d] = 1
                         /\ client'[d] = "Accepted" => executed[d] = 1
      BY <2>1, Zenon DEF CallInv
    <3>2. req'[<<d, 2>>] = req[<<d, 2>>]
      BY <2>1, <3>1 DEF IpcTypeOK
    <3>3. CASE d = c
      <4>1. req'[<<c, 1>>] = "wire" /\ client'[c] = "calling" /\ executed[c] = 0
        BY <2>1, <2>2 DEF IpcTypeOK, CallInv
      <4>. QED
        BY <3>2, <3>3, <4>1 DEF CallInv
    <3>4. CASE d # c
      <4>1. req'[<<d, 1>>] = req[<<d, 1>>]
        BY <2>1, <3>1, <3>4 DEF IpcTypeOK
      <4>2. client'[d] = client[d]
        BY <2>1, <3>4 DEF IpcTypeOK
      <4>. QED
        BY <3>2, <4>1, <4>2 DEF CallInv
    <3>. QED
      BY <3>3, <3>4
  <2>5. InServer' = InServer
    BY <2>1, <2>2 DEF InServer, IpcTypeOK
  <2>. QED
    BY <2>3, <2>4, <2>5
<1>2. CASE TransportFails(c)
  <2>1. client' = [client EXCEPT ![c] = "Unavailable"] /\ UNCHANGED <<tries, req, reply, executed>>
    BY <1>2, SentOnce DEF TransportFails
  <2>2. client[c] # "idle"
    BY <1>2 DEF TransportFails
  <2>3. IpcTypeOK'
    BY <2>1 DEF IpcTypeOK
  <2>4. CallInv'
    BY <2>1, <2>2 DEF CallInv, IpcTypeOK
  <2>. QED
    BY <2>1, <2>3, <2>4 DEF InServer
<1>. QED
  BY <1>1, <1>2

(* A request thread moves one request, of a try that was sent. *)
LEMMA RequestMoves ==
    ASSUME IpcTypeOK, CallInv, NEW r \in Requests, Request(r)
    PROVE  /\ req[r] # "none" /\ r = <<r[1], 1>> /\ r[1] \in Clients
           /\ \E p \in ReqPlaces \ {"none", "wire"} : req' = [req EXCEPT ![r] = p]
           /\ UNCHANGED tries
<1>1. req[r] # "none"
  BY DEF Request, RequestArrives, DispatchRefuses, DispatchExchanges, ExchangeReturns,
     ResponseArrives
<1>2. r = <<r[1], 1>> /\ r[1] \in Clients
  BY <1>1, RequestPair DEF CallInv
<1>3. /\ \E p \in ReqPlaces \ {"none", "wire"} : req' = [req EXCEPT ![r] = p]
      /\ UNCHANGED tries
  BY DEF Request, RequestArrives, DispatchRefuses, DispatchExchanges, ExchangeReturns,
     ResponseArrives, Answer, ReqPlaces
<1>. QED
  BY <1>1, <1>2, <1>3

(* What a request thread does to its call. *)
LEMMA RequestStep ==
    ASSUME IpcTypeOK, CallInv, NEW r \in Requests, Request(r)
    PROVE  IpcTypeOK' /\ CallInv'
<1>. DEFINE c == r[1]
<1>1. r = <<c, 1>> /\ c \in Clients /\ UNCHANGED tries
  BY RequestMoves
<1>2. \A d \in Clients, n \in {1, 2} : <<d, n>> \in Requests /\ (<<d, n>> = r <=> d = c /\ n = 1)
  BY <1>1 DEF Requests
<1>. HIDE DEF c
<1>. USE DEF IpcTypeOK, Replies, RelayOutcomes, ReqPlaces
<1>3. CASE RequestArrives(r, listening)
  <2>1. /\ req[r] = "wire" /\ req' = [req EXCEPT ![r] = "dispatch"]
        /\ UNCHANGED <<client, tries, reply, executed>>
    BY <1>3 DEF RequestArrives
  <2>. QED
    BY <1>1, <1>2, <2>1 DEF CallInv
<1>4. CASE DispatchRefuses(r)
  <2>1. /\ req[r] = "dispatch" /\ req' = [req EXCEPT ![r] = "answered"]
        /\ reply' = [reply EXCEPT ![r] = "absent"] /\ UNCHANGED <<client, tries, executed>>
    BY <1>4 DEF DispatchRefuses, Answer
  <2>. QED
    BY <1>1, <1>2, <2>1 DEF CallInv
<1>5. CASE DispatchExchanges(r, stopping) /\ stopping
  <2>1. /\ req[r] = "dispatch" /\ req' = [req EXCEPT ![r] = "answered"]
        /\ reply' = [reply EXCEPT ![r] = "Stopping"] /\ UNCHANGED <<client, tries, executed>>
    BY <1>5 DEF DispatchExchanges, Answer
  <2>. QED
    BY <1>1, <1>2, <2>1 DEF CallInv
<1>6. CASE DispatchExchanges(r, stopping) /\ ~stopping
  <2>1. /\ req[r] = "dispatch" /\ req' = [req EXCEPT ![r] = "gateway"]
        /\ executed' = [executed EXCEPT ![c] = @ + 1] /\ UNCHANGED <<client, tries, reply>>
    BY <1>6 DEF DispatchExchanges, c
  <2>0. executed[c] = 0
    BY <1>1, <2>1 DEF CallInv
  <2>2. executed[c] = 0 /\ executed' \in [Clients -> Nat] /\ executed'[c] = 1
    BY <1>1, <2>0, <2>1
  <2>3. IpcTypeOK'
    BY <2>1, <2>2
  <2>4. \A d \in Clients \ {c} : executed'[d] = executed[d]
    BY <2>1
  <2>. QED
    BY <1>1, <1>2, <2>1, <2>2, <2>3, <2>4 DEF CallInv
<1>7. ASSUME NEW o \in RelayOutcomes, ExchangeReturns(r, o) PROVE IpcTypeOK' /\ CallInv'
  <2>1. /\ req[r] = "gateway" /\ req' = [req EXCEPT ![r] = "answered"]
        /\ reply' = [reply EXCEPT ![r] = o] /\ UNCHANGED <<client, tries, executed>>
    BY <1>7 DEF ExchangeReturns, Answer
  <2>2. executed[c] = 1
    BY <1>1, <2>1 DEF CallInv
  <2>. QED
    BY <1>1, <1>2, <2>1, <2>2 DEF CallInv
<1>8. CASE ResponseArrives(r)
  <2>1. PICK o \in {parse_outcome(reply[r]), "ProtocolError"} :
              \/ client' = client
              \/ client[c] = "calling" /\ client' = [client EXCEPT ![c] = o]
    BY <1>8 DEF ResponseArrives, c
  <2>r. /\ req[r] = "answered" /\ req' = [req EXCEPT ![r] = "done"]
        /\ UNCHANGED <<tries, reply, executed>>
    BY <1>8 DEF ResponseArrives
  <2>2. /\ o \in RelayOutcomes \cup {"Unknown", "ProtocolError"}
        /\ o = "Accepted" => reply[r] = "Accepted"
    BY DEF parse_outcome
  <2>3. o = "Accepted" => executed[c] = 1
    BY <1>1, <2>r, <2>2 DEF CallInv
  <2>4. IpcTypeOK'
    BY <1>1, <2>1, <2>r, <2>2
  <2>5. CallInv'
    BY <1>1, <1>2, <2>1, <2>r, <2>2, <2>3 DEF CallInv
  <2>. QED
    BY <2>4, <2>5
<1>. QED
  BY <1>3, <1>4, <1>5, <1>6, <1>7, <1>8 DEF Request

(* The end of the server cuts off the requests that are not inside. *)
LEMMA ServerStopsStep ==
    ASSUME IpcTypeOK, CallInv, ServerStops PROVE IpcTypeOK' /\ CallInv' /\ InServer' = {}
<1>1. /\ InServer = {} /\ UNCHANGED <<client, tries, reply, executed>>
      /\ req' = [r \in Requests |-> IF req[r] \in {"wire", "answered"} THEN "done" ELSE req[r]]
  BY DEF ServerStops
<1>2. IpcTypeOK'
  BY <1>1 DEF IpcTypeOK, ReqPlaces
<1>3. \A c \in Clients, n \in {1, 2} : <<c, n>> \in Requests
  BY DEF Requests
<1>4. CallInv'
  BY <1>1, <1>3 DEF CallInv
<1>5. InServer' = {}
  BY <1>1 DEF InServer
<1>. QED
  BY <1>2, <1>4, <1>5

LEMMA CallStep ==
    ASSUME IpcTypeOK, CallInv, [Next]_vars PROVE IpcTypeOK' /\ CallInv'
<1>1. CASE UNCHANGED ipcVars
  <2>1. IpcTypeOK'
    BY <1>1 DEF ipcVars, IpcTypeOK
  <2>2. CallInv'
    BY <1>1 DEF ipcVars, CallInv
  <2>. QED
    BY <2>1, <2>2
<1>2. CASE StopServer
  BY <1>2, ServerStopsStep DEF StopServer
<1>. QED
  BY <1>1, <1>2, CallsAlone, ClientStep, RequestStep DEF Client

(* Requests enter while the server listens, and it stops listening when the  *)
(* last of them has left.                                                    *)
LEMMA ListenStep ==
    ASSUME AppTypeOK, ObjectInv, ListenInv, IpcTypeOK, CallInv, [Next]_vars
    PROVE  ListenInv'
<1>. DEFINE Part1(m, l, a, u) ==
       l => /\ {"relay", "framework_server", "ipc_server"} \subseteq a
            /\ m \in Serving \cup {"crashed"}
            /\ m \in Serving \ {"execute"} => u = "cleanup"
<1>1. Part1(main', listening', alive', unwinding')
  <2>. USE DEF ListenInv, ObjectInv, Serving
  <2>1. CASE InitializeMqtt BY <2>1 DEF InitializeMqtt
  <2>2. CASE InitializeLocal BY <2>2 DEF InitializeLocal
  <2>3. CASE ConstructServer BY <2>3 DEF ConstructServer
  <2>4. CASE StartGateway BY <2>4 DEF StartGateway
  <2>5. CASE SubscribeDownlink BY <2>5 DEF SubscribeDownlink
  <2>6. CASE RegisterKeyprov BY <2>6 DEF RegisterKeyprov
  <2>7. CASE StartKeyprov BY <2>7 DEF StartKeyprov
  <2>8. CASE StartServer BY <2>8 DEF StartServer
  <2>9. CASE ServerListens BY <2>9 DEF ServerListens
  <2>10. CASE AbandonServer BY <2>10 DEF AbandonServer
  <2>11. CASE DropServer BY <2>11 DEF DropServer
  <2>12. CASE Quiesce BY <2>12 DEF Quiesce
  <2>13. CASE StopKeyprov BY <2>13 DEF StopKeyprov
  <2>14. CASE StopGateway BY <2>14 DEF StopGateway
  <2>15. CASE JoinGateway BY <2>15 DEF JoinGateway
  <2>16. CASE StopRegistrar BY <2>16 DEF StopRegistrar
  <2>17. CASE StopEvents BY <2>17 DEF StopEvents
  <2>18. CASE StopServer BY <2>18 DEF StopServer
  <2>19. CASE DropRelay BY <2>19 DEF DropRelay
  <2>20. CASE StopMqtt BY <2>20 DEF StopMqtt
  <2>21. CASE Shutdown BY <2>21 DEF Shutdown
  <2>22. CASE UNCHANGED Built /\ main' \in {main, "crashed"} BY <2>22 DEF Built
  <2>. QED
    BY MainAlone, <2>1, <2>2, <2>3, <2>4, <2>5, <2>6, <2>7, <2>8, <2>9, <2>10, <2>11, <2>12,
       <2>13, <2>14, <2>15, <2>16, <2>17, <2>18, <2>19, <2>20, <2>21, <2>22 DEF Main
<1>2. ASSUME InServer' # {} PROVE listening'
  <2>1. CASE UNCHANGED ipcVars
    <3>1. InServer' = InServer
      BY <2>1 DEF ipcVars, InServer
    <3>2. listening => listening' \/ StopServer
      BY DEF Next, Main, InitializeMqtt, InitializeLocal, ConstructServer, StartGateway,
         SubscribeDownlink, RegisterKeyprov, StartKeyprov, StartServer, ServerListens,
         AbandonServer, DropServer, Quiesce, StopKeyprov, StopGateway, JoinGateway,
         StopRegistrar, StopEvents, DropRelay, StopMqtt, Shutdown, Callback,
         CallbackBegins, CallbackEnters, CallbackDispatches, CallbackHandles,
         CallbackPublishes, CallbackNotifies, CallbackUndefined, CallbackGoes, Request,
         Client, appVars, vars
    <3>3. ~StopServer
      BY <1>2, ServerStopsStep DEF StopServer
    <3>. QED
      BY <1>2, <3>1, <3>2, <3>3 DEF ListenInv
  <2>2. CASE StopServer
    BY <1>2, <2>2, ServerStopsStep DEF StopServer
  <2>3. ASSUME UNCHANGED appVars, NEW c \in Clients, Client(c) PROVE listening'
    BY <1>2, <2>3, ClientStep DEF Client, ListenInv, appVars
  <2>4. ASSUME UNCHANGED appVars, NEW r \in Requests, Request(r) PROVE listening'
    <3>1. CASE req[r] \in {"dispatch", "gateway"}
      BY <2>4, <3>1 DEF ListenInv, InServer, appVars
    <3>2. CASE RequestArrives(r, listening)
      BY <2>4, <3>2 DEF RequestArrives, appVars
    <3>3. CASE ResponseArrives(r)
      <4>1. InServer' = InServer
        BY <3>3 DEF ResponseArrives, InServer, IpcTypeOK
      <4>. QED
        BY <1>2, <2>4, <4>1 DEF ListenInv, appVars
    <3>. QED
      BY <2>4, <3>1, <3>2, <3>3 DEF Request, DispatchRefuses, DispatchExchanges, ExchangeReturns
  <2>. QED
    BY <2>1, <2>2, <2>3, <2>4, CallsAlone
<1>. QED
  BY <1>1, <1>2 DEF ListenInv

(* The thread of the MQTT client is at one of its places. *)
LEMMA CallbackStep ==
    ASSUME cb \in [place: CbPlaces, kind: Kinds], [Next]_vars
    PROVE  cb' \in [place: CbPlaces, kind: Kinds]
<1>1. Idle \in [place: CbPlaces, kind: Kinds]
  BY DEF Idle, CbPlaces, Kinds
<1>2. ASSUME NEW p \in CbPlaces, CallbackGoes(p) PROVE cb' \in [place: CbPlaces, kind: Kinds]
  BY <1>1, <1>2 DEF CallbackGoes
<1>3. CASE Callback
  <2>1. cb' = cb \/ \E p \in CbPlaces : CallbackGoes(p)
    BY <1>3 DEF Callback, CallbackEnters, CallbackDispatches, CallbackHandles,
       CallbackPublishes, CallbackNotifies, CallbackUndefined, CbPlaces
  <2>. QED
    BY <2>1, <1>2
<1>4. ASSUME NEW k \in Kinds, CallbackBegins(k) PROVE cb' \in [place: CbPlaces, kind: Kinds]
  BY <1>4 DEF CallbackBegins, CbPlaces
<1>5. ASSUME Main \/ Shutdown PROVE cb' = cb
  BY <1>5 DEF Main, InitializeMqtt, InitializeLocal, ConstructServer, StartGateway,
     SubscribeDownlink, RegisterKeyprov, StartKeyprov, StartServer, ServerListens,
     AbandonServer, DropServer, Quiesce, StopKeyprov, StopGateway, JoinGateway,
     StopRegistrar, StopEvents, StopServer, DropRelay, StopMqtt, Shutdown, OtherThreads
<1>. QED
  BY <1>3, <1>4, <1>5 DEF Next, Request, Client, vars

-----------------------------------------------------------------------------
(* THEOREM.  Whatever the threads of the process do, and whenever start()    *)
(* fails or the signal comes, the composition of tsp_application.cpp keeps   *)
(* its objects, its publisher and its calls in step with the main thread.    *)
THEOREM ApplicationInvariance == Spec => []AppInv
<1>. DEFINE CbOK == cb \in [place: CbPlaces, kind: Kinds]
<1>t. TypeOK <=> PubTypeOK /\ IpcTypeOK /\ AppTypeOK /\ CbOK
  BY DEF TypeOK, AppTypeOK
<1>p. TypeOK' <=> (PubTypeOK /\ IpcTypeOK /\ AppTypeOK /\ CbOK)'
  BY DEF TypeOK, AppTypeOK
<1>1. Init => AppInv
  <2>. SUFFICES ASSUME Init PROVE AppInv
    OBVIOUS
  <2>1. PubInv /\ PubTypeOK
    BY PubStart DEF Init, PubInv
  <2>2. IpcTypeOK /\ CallInv
    BY DEF Init, IpcInit, IpcTypeOK, CallInv, Requests, Replies, ReqPlaces
  <2>3. AppTypeOK /\ CbOK
    BY DEF Init, AppTypeOK, Idle, CbPlaces, Kinds, MainPlaces, Objects
  <2>4. ObjectInv
    BY DEF Init, ObjectInv, Teardown, AfterGateway
  <2>5. ListenInv
    BY DEF Init, ListenInv, IpcInit, InServer
  <2>6. PublisherInv
    BY DEF Init, PubInit, PublisherInv, publisher_stopped
  <2>. QED
    BY <1>t, <2>1, <2>2, <2>3, <2>4, <2>5, <2>6 DEF AppInv
<1>2. AppInv /\ [Next]_vars => AppInv'
  <2>. SUFFICES ASSUME AppInv, [Next]_vars PROVE AppInv'
    OBVIOUS
  <2>0. PubTypeOK /\ IpcTypeOK /\ AppTypeOK /\ CbOK
    BY <1>t DEF AppInv
  <2>1. PubInv' /\ PubTypeOK'
    BY PublisherStep, PubStep DEF AppInv, PubInv
  <2>2. IpcTypeOK' /\ CallInv'
    BY <2>0, CallStep DEF AppInv
  <2>3. AppTypeOK' /\ CbOK'
    BY <2>0, AppTypeStep, CallbackStep
  <2>4. ObjectInv' /\ ListenInv' /\ PublisherInv'
    BY <2>0, ObjectStep, ListenStep, PublisherInvStep DEF AppInv
  <2>. QED
    BY <1>p, <2>1, <2>2, <2>3, <2>4 DEF AppInv
<1>. QED
  BY <1>1, <1>2, PTL DEF Spec

(* The type invariant of the composition. *)
THEOREM ApplicationTyped == Spec => []TypeOK
  BY ApplicationInvariance, PTL DEF AppInv

(* The publisher inside the application is the publisher on its own: the     *)
(* callback, the main thread and the worker use it only through its          *)
(* operations.                                                               *)
THEOREM ApplicationUsesPublisher == Spec => PubSpec
<1>1. Init => PubInit
  BY DEF Init
<1>2. [Next]_vars => [PubNext]_pubVars
  BY PublisherStep
<1>. QED
  BY <1>1, <1>2, PTL DEF Spec, PubSpec

(* The events of the vehicle messages are neither lost, repeated nor         *)
(* reordered between publish_vehicle_message and the worker.                 *)
THEOREM EventConservation == Spec => []EventsConserved
  BY ApplicationInvariance, PTL DEF AppInv, PubInv

(* service_count_ counts the queued events of each service, and no service   *)
(* exceeds its share of the queue.                                           *)
THEOREM CountConsistency == Spec => []CountMatchesQueue
  BY ApplicationInvariance, PTL DEF AppInv, PubInv

(* The worker never pushes an event to a server that server_.reset() has     *)
(* destroyed.                                                                *)
THEOREM PushSafety == Spec => []PushHitsServer
<1>1. AppInv => PushHitsServer
  BY DEF AppInv, PublisherInv, PushHitsServer
<1>. QED
  BY <1>1, ApplicationInvariance, PTL

(* No request is inside a dispatcher or a relay that is gone.                *)
THEOREM RequestSafety == Spec => []RequestTargetsAlive
<1>1. AppInv => RequestTargetsAlive
  BY DEF AppInv, ListenInv, RequestTargetsAlive
<1>. QED
  BY <1>1, ApplicationInvariance, PTL

(* rollbackInitialization() undoes what initialize() had done, wherever it   *)
(* failed.                                                                   *)
THEOREM RollbackSafety == Spec => []RollbackComplete
<1>1. AppInv => RollbackComplete
  BY DEF AppInv, ObjectInv, PublisherInv, RollbackComplete
<1>. QED
  BY <1>1, ApplicationInvariance, PTL

(* A call of exchangeVehicleMessage is carried out at most once, and is      *)
(* reported Accepted only if it was.                                         *)
THEOREM CallAtMostOnce == Spec => []ExchangedAtMostOnce
<1>1. AppInv => ExchangedAtMostOnce
  <2>. SUFFICES ASSUME AppInv, NEW c \in Clients
                PROVE  executed[c] <= 1 /\ (client[c] = "Accepted" => executed[c] = 1)
    BY DEF ExchangedAtMostOnce
  <2>1. executed[c] \in {0, 1} /\ (client[c] = "Accepted" => executed[c] = 1)
    BY DEF AppInv, CallInv
  <2>. QED
    BY <2>1
<1>. QED
  BY <1>1, ApplicationInvariance, PTL

=============================================================================
