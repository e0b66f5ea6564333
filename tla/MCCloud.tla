------------------------------ MODULE MCCloud ------------------------------
(***************************************************************************)
(* The connections a server pushes through: the cloud's WebSocket and the  *)
(* MQTT transport.  A behaviour is in one of them (part).                  *)
(***************************************************************************)
EXTENDS MCCloudWebSocket

CONSTANTS g1, g2

VARIABLES part,
    mclosed, client, lock, waiters, lastReq, clients, handler, topics, published,
    arriving, mpc, req, ch, closing, nilClient, losses

mqttVars == <<mclosed, client, lock, waiters, lastReq, clients, handler, topics, published,
              arriving, mpc, req, ch, closing, nilClient, losses>>

Mqtt == INSTANCE MqttTransport WITH Threads <- {g1, g2}, AutoReconnect <- FALSE,
                                    MaxClients <- 2, MaxRequests <- 1, MaxLosses <- 1

MCInit ==
    /\ part \in {"websocket", "mqtt"}
    /\ Init /\ Mqtt!MInit

MCNext ==
    \/ part = "websocket" /\ Next /\ UNCHANGED <<part, mqttVars>>
    \/ part = "mqtt" /\ Mqtt!MNext /\ UNCHANGED <<part, vars>>

\* A part's fairness binds the behaviours of that part.
MCSpec ==
    /\ MCInit /\ [][MCNext]_<<part, vars, mqttVars>>
    /\ part = "websocket" => Fairness
    /\ part = "mqtt" => Mqtt!MFair

\* A call that waits when its client loses the connection is told (mqtt.go:140-170).
LossIsTold == Mqtt!LossIsTold
=============================================================================
