-------------------------------- MODULE TspIpc --------------------------------
(***************************************************************************)
(* tsp_client.cpp, tsp_retry_policy.cpp and tsp_ipc_dispatcher.cpp: how a   *)
(* call of exchangeVehicleMessage travels to the relay and back.            *)
(*                                                                         *)
(* The framework client sends a request once, or a second time when the     *)
(* retry policy allows it.  A request that reached the server is served to  *)
(* its end whether or not the client still waits, so each try is a request  *)
(* of its own.  Whether the server listens and whether the relay is         *)
(* stopping is decided by the application, and is a parameter here.         *)
(***************************************************************************)
EXTENDS Naturals

CONSTANT Clients    \* one call of exchangeVehicleMessage each

VARIABLES
    client,    \* "idle", "calling", or the TransportOutcome the caller got
    tries,     \* requests sent for the call
    req,       \* where the request of each try is
    reply,     \* the outcome field of its response
    executed   \* history: calls of gateway_->exchange made for the call

ipcVars == <<client, tries, req, reply, executed>>

Requests == Clients \X {1, 2}
RelayOutcomes == {"Accepted", "Timeout", "Stopping"}
Replies == RelayOutcomes \cup {"absent"}
ReqPlaces == {"none", "wire", "dispatch", "gateway", "answered", "done"}

IpcTypeOK ==
    /\ client \in [Clients -> {"idle", "calling", "Unknown", "Unavailable",
                               "ProtocolError"} \cup RelayOutcomes]
    /\ tries \in [Clients -> 0..2]
    /\ req \in [Requests -> ReqPlaces]
    /\ reply \in [Requests -> Replies]
    /\ executed \in [Clients -> Nat]

IpcInit ==
    /\ client = [c \in Clients |-> "idle"]
    /\ tries = [c \in Clients |-> 0]
    /\ req = [r \in Requests |-> "none"]
    /\ reply = [r \in Requests |-> "absent"]
    /\ executed = [c \in Clients |-> 0]

-----------------------------------------------------------------------------
(* TspRetryPolicy *)

Methods == {"GET_NET_STATUS", "EXCHANGE_VEHICLE_MESSAGE",
            "SUBSCRIBE_VEHICLE_MESSAGE", "SUBSCRIBE_NET_STATUS"}

categorize(m) == IF m = "GET_NET_STATUS" THEN "kReadOnly" ELSE "kOneShot"

(* Mutant: requests are retried unless they subscribe. *)
should_retry_requests(m) == m \in {"GET_NET_STATUS", "EXCHANGE_VEHICLE_MESSAGE"}

should_retry(m) == categorize(m) = "kReadOnly"

-----------------------------------------------------------------------------
(* TspClient::Impl::exchange_vehicle_message *)

Send(c, n) ==
    /\ tries' = [tries EXCEPT ![c] = n]
    /\ req' = [req EXCEPT ![<<c, n>>] = "wire"]

ClientCalls(c) ==
    /\ client[c] = "idle"
    /\ client' = [client EXCEPT ![c] = "calling"]
    /\ Send(c, 1)
    /\ UNCHANGED <<reply, executed>>

(* No connection, a broken one, or no response in time: call() tries again,  *)
(* callOnce() does not.                                                      *)
TransportFails(c) ==
    /\ client[c] = "calling"
    /\ IF should_retry("EXCHANGE_VEHICLE_MESSAGE") /\ tries[c] = 1
       THEN Send(c, 2) /\ UNCHANGED client
       ELSE /\ client' = [client EXCEPT ![c] = "Unavailable"]
            /\ UNCHANGED <<tries, req>>
    /\ UNCHANGED <<reply, executed>>

(* Mutant: the field is taken as it is. *)
parse_outcome_raw(o) == o

(* A response without an outcome is Unknown. *)
parse_outcome(o) == IF o \in RelayOutcomes THEN o ELSE "Unknown"

(* The response reaches the client, unless it has given up on this try.  One *)
(* that does not parse is a protocol error.                                  *)
ResponseArrives(r) ==
    /\ req[r] = "answered"
    /\ req' = [req EXCEPT ![r] = "done"]
    /\ IF client[r[1]] = "calling" /\ tries[r[1]] = r[2]
       THEN \E o \in {parse_outcome(reply[r]), "ProtocolError"} :
               client' = [client EXCEPT ![r[1]] = o]
       ELSE UNCHANGED client
    /\ UNCHANGED <<tries, reply, executed>>

-----------------------------------------------------------------------------
(* The request handler of the server and TspIpcDispatcher *)

RequestArrives(r, listening) ==
    /\ req[r] = "wire"
    /\ listening
    /\ req' = [req EXCEPT ![r] = "dispatch"]
    /\ UNCHANGED <<client, tries, reply, executed>>

Answer(r, o) ==
    /\ req' = [req EXCEPT ![r] = "answered"]
    /\ reply' = [reply EXCEPT ![r] = o]

(* Invalid JSON, no envelope, an envelope above max_payload_bytes or not     *)
(* base64: an error response, which has no outcome field.                    *)
DispatchRefuses(r) ==
    /\ req[r] = "dispatch"
    /\ Answer(r, "absent")
    /\ UNCHANGED <<client, tries, executed>>

(* relay_->exchange: refused when the relay is stopping, else the gateway's. *)
DispatchExchanges(r, stopping) ==
    /\ req[r] = "dispatch"
    /\ \/ /\ stopping
          /\ Answer(r, "Stopping")
          /\ UNCHANGED executed
       \/ /\ ~stopping
          /\ req' = [req EXCEPT ![r] = "gateway"]
          /\ executed' = [executed EXCEPT ![r[1]] = @ + 1]
          /\ UNCHANGED reply
    /\ UNCHANGED <<client, tries>>

ExchangeReturns(r, o) ==
    /\ req[r] = "gateway"
    /\ Answer(r, o)
    /\ UNCHANGED <<client, tries, executed>>

(* Server::stop() closes the connections and joins the request threads. *)
InServer == {r \in Requests : req[r] \in {"dispatch", "gateway"}}

ServerStops ==
    /\ InServer = {}
    /\ req' = [r \in Requests |-> IF req[r] \in {"wire", "answered"} THEN "done" ELSE req[r]]
    /\ UNCHANGED <<client, tries, reply, executed>>

-----------------------------------------------------------------------------
(* However often the transport fails, a call of exchangeVehicleMessage makes *)
(* the gateway send at most one message, and reports Accepted only when it   *)
(* did (TspRetryPolicy, parse_outcome).                                      *)
ExchangedAtMostOnce ==
    \A c \in Clients :
       /\ executed[c] <= 1
       /\ client[c] = "Accepted" => executed[c] = 1
=============================================================================
