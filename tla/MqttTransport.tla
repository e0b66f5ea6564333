--------------------------- MODULE MqttTransport ---------------------------
(***************************************************************************)
(* transport/mqtt.go: goroutines that Call one MQTT transport, Connect and *)
(* Close, and the client library's goroutines that run its handlers.  Each *)
(* Connect that has to makes a new client of the library, which connects,  *)
(* loses its connection and, with m.opts.reconnect, connects again on its  *)
(* own.  An answer is published to the topic of this transport, for the    *)
(* clients that have subscribed to it by then.                             *)
(***************************************************************************)
EXTENDS Naturals, FiniteSets

CONSTANTS
    Threads,            \* goroutines that use the transport
    AutoReconnect,      \* m.opts.reconnect
    MaxClients,         \* bound: library clients made
    MaxRequests,        \* bound: requests
    MaxLosses           \* bound: connections lost

VARIABLES
    mclosed, client,    \* m.closed, m.client (a number, 0 for nil)
    lock,               \* m.connMu: {} or {thread}
    waiters,            \* m.pending: id -> {} or {thread}
    lastReq,            \* the last request id drawn
    clients,            \* library client -> "connecting", "up", "lost", "down" or "gone"
    handler,            \* library client -> the handler due: "none", "connected", "lost"
    topics,             \* library clients subscribed to the response topic
    published,          \* requests the device has not answered
    arriving,           \* answers on their way: <<client, id>>
    mpc, req, ch,       \* per thread: place, request in hand, its channel
    closing,            \* Close: "open", "sweep", "disconnect" or "done"
    nilClient,          \* a Publish on a nil client
    losses

mqttVars == <<mclosed, client, lock, waiters, lastReq, clients, handler, topics, published,
              arriving, mpc, req, ch, closing, nilClient, losses>>

NoReq == 0
NoAnswer == 0
BrokenChan == MaxRequests + 1

MInit ==
    /\ mclosed = FALSE /\ client = 0 /\ lock = {}
    /\ waiters = [i \in 1..MaxRequests |-> {}] /\ lastReq = 0
    /\ clients = [n \in 1..MaxClients |-> "new"]
    /\ handler = [n \in 1..MaxClients |-> "none"]
    /\ topics = {} /\ published = {} /\ arriving = {}
    /\ mpc = [t \in Threads |-> "idle"]
    /\ req = [t \in Threads |-> NoReq] /\ ch = [t \in Threads |-> NoAnswer]
    /\ closing = "open" /\ nilClient = FALSE /\ losses = 0

IsConnected ==
    /\ client # 0
    /\ clients[client] = "up" \/ (clients[client] = "lost" /\ AutoReconnect)

\* Channels of everyone in the map are closed and the map is emptied; an answer that
\* is in a channel stays there.
Sweep ==
    /\ ch' = [t \in Threads |->
                IF ch[t] = NoAnswer /\ \E i \in 1..MaxRequests : t \in waiters[i]
                THEN BrokenChan ELSE ch[t]]
    /\ waiters' = [i \in 1..MaxRequests |-> {}]

-----------------------------------------------------------------------------
(* Connect and Call.                                                       *)

CallBegin(t) ==
    /\ mpc[t] = "idle" /\ ~mclosed /\ lastReq < MaxRequests
    /\ lastReq' = lastReq + 1
    /\ req' = [req EXCEPT ![t] = lastReq + 1]
    /\ mpc' = [mpc EXCEPT ![t] = IF IsConnected THEN "register" ELSE "connect"]
    /\ UNCHANGED <<mclosed, client, lock, waiters, clients, handler, topics, published,
                   arriving, ch, closing, nilClient, losses>>

ConnectBegin(t) ==
    /\ mpc[t] = "idle"
    /\ mpc' = [mpc EXCEPT ![t] = "connect"]
    /\ UNCHANGED <<mclosed, client, lock, waiters, lastReq, clients, handler, topics,
                   published, arriving, req, ch, closing, nilClient, losses>>

Connected(t) == IF req[t] = NoReq THEN "idle" ELSE "register"

Leave(t) ==
    /\ mpc' = [mpc EXCEPT ![t] = "idle"]
    /\ req' = [req EXCEPT ![t] = NoReq]

Made == Cardinality({n \in 1..MaxClients : clients[n] # "new"})

\* Under connMu: an error when closed, nothing to do when connected, else a new client.
Connect(t) ==
    /\ mpc[t] = "connect" /\ lock = {}
    /\ \/ mclosed /\ Leave(t) /\ UNCHANGED <<client, lock, clients>>
       \/ /\ ~mclosed /\ IsConnected
          /\ mpc' = [mpc EXCEPT ![t] = Connected(t)]
          /\ UNCHANGED <<client, lock, clients, req>>
       \/ /\ ~mclosed /\ ~IsConnected /\ Made < MaxClients
          /\ client' = Made + 1
          /\ clients' = [clients EXCEPT ![Made + 1] = "connecting"]
          /\ lock' = {t}
          /\ mpc' = [mpc EXCEPT ![t] = "dial"]
          /\ UNCHANGED req
    /\ UNCHANGED <<mclosed, waiters, lastReq, handler, topics, published, arriving, ch,
                   closing, nilClient, losses>>

\* The token is done, or the context is and the client is left connecting.
ConnectReturns(t) ==
    /\ mpc[t] = "dial"
    /\ \/ /\ clients[client] \in {"up", "lost"}
          /\ mpc' = [mpc EXCEPT ![t] = Connected(t)]
          /\ UNCHANGED req
       \/ clients[client] \in {"connecting", "down"} /\ Leave(t)
    /\ lock' = {}
    /\ UNCHANGED <<mclosed, client, waiters, lastReq, clients, handler, topics, published,
                   arriving, ch, closing, nilClient, losses>>

\* Mutant of Register: without an entry in the map the id of an earlier one is reused.
RegisterFirst(t) ==
    /\ mpc[t] = "register"
    /\ waiters' = [waiters EXCEPT ![1] = {t}]
    /\ ch' = [ch EXCEPT ![t] = NoAnswer]
    /\ mpc' = [mpc EXCEPT ![t] = "publish"]
    /\ UNCHANGED <<mclosed, client, lock, lastReq, clients, handler, topics, published,
                   arriving, req, closing, nilClient, losses>>

Register(t) ==
    /\ mpc[t] = "register"
    /\ waiters' = [waiters EXCEPT ![req[t]] = {t}]
    /\ ch' = [ch EXCEPT ![t] = NoAnswer]
    /\ mpc' = [mpc EXCEPT ![t] = "publish"]
    /\ UNCHANGED <<mclosed, client, lock, lastReq, clients, handler, topics, published,
                   arriving, req, closing, nilClient, losses>>

\* On m.client as it is by now.  A client that is connecting again keeps the message
\* until it has.
Publish(t) ==
    /\ mpc[t] = "publish"
    /\ \/ client = 0 /\ nilClient' = TRUE /\ UNCHANGED <<mpc, published>>
       \/ /\ client # 0 /\ clients[client] = "up"
          /\ published' = published \cup {req[t]}
          /\ mpc' = [mpc EXCEPT ![t] = "wait"]
          /\ UNCHANGED nilClient
       \/ /\ client # 0 /\ ~IsConnected
          /\ mpc' = [mpc EXCEPT ![t] = "cleanup"]
          /\ UNCHANGED <<published, nilClient>>
    /\ UNCHANGED <<mclosed, client, lock, waiters, lastReq, clients, handler, topics,
                   arriving, req, ch, closing, losses>>

ContextDone(t) ==
    /\ mpc[t] \in {"publish", "wait"}
    /\ mpc' = [mpc EXCEPT ![t] = "cleanup"]
    /\ UNCHANGED <<mclosed, client, lock, waiters, lastReq, clients, handler, topics,
                   published, arriving, req, ch, closing, nilClient, losses>>

\* An answer, or the nil of a closed channel.
Receive(t) ==
    /\ mpc[t] = "wait" /\ ch[t] # NoAnswer
    /\ ch' = [ch EXCEPT ![t] = NoAnswer]
    /\ mpc' = [mpc EXCEPT ![t] = "cleanup"]
    /\ UNCHANGED <<mclosed, client, lock, waiters, lastReq, clients, handler, topics,
                   published, arriving, req, closing, nilClient, losses>>

Cleanup(t) ==
    /\ mpc[t] = "cleanup"
    /\ waiters' = [waiters EXCEPT ![req[t]] = {}]
    /\ ch' = [ch EXCEPT ![t] = NoAnswer]
    /\ Leave(t)
    /\ UNCHANGED <<mclosed, client, lock, lastReq, clients, handler, topics, published,
                   arriving, closing, nilClient, losses>>

-----------------------------------------------------------------------------
(* The library, the broker and the device.                                 *)

\* A client connects, for the first time or again.
Up(n) ==
    /\ clients[n] = "connecting" \/ (clients[n] = "lost" /\ AutoReconnect)
    /\ handler[n] = "none"
    /\ clients' = [clients EXCEPT ![n] = "up"]
    /\ handler' = [handler EXCEPT ![n] = "connected"]
    /\ UNCHANGED <<mclosed, client, lock, waiters, lastReq, topics, published, arriving,
                   mpc, req, ch, closing, nilClient, losses>>

Refused(n) ==
    /\ clients[n] = "connecting" /\ losses < MaxLosses
    /\ losses' = losses + 1
    /\ clients' = [clients EXCEPT ![n] = "down"]
    /\ UNCHANGED <<mclosed, client, lock, waiters, lastReq, handler, topics, published,
                   arriving, mpc, req, ch, closing, nilClient>>

\* The broker forgets the subscription with the connection.
Lost(n) ==
    /\ clients[n] = "up" /\ handler[n] = "none" /\ losses < MaxLosses
    /\ losses' = losses + 1
    /\ clients' = [clients EXCEPT ![n] = "lost"]
    /\ handler' = [handler EXCEPT ![n] = "lost"]
    /\ topics' = topics \ {n}
    /\ arriving' = {a \in arriving : a[1] # n}
    /\ UNCHANGED <<mclosed, client, lock, waiters, lastReq, published, mpc, req, ch,
                   closing, nilClient>>

onConnect(n) ==
    /\ handler[n] = "connected"
    /\ handler' = [handler EXCEPT ![n] = "none"]
    /\ topics' = IF clients[n] = "up" THEN topics \cup {n} ELSE topics
    /\ UNCHANGED <<mclosed, client, lock, waiters, lastReq, clients, published, arriving,
                   mpc, req, ch, closing, nilClient, losses>>

\* Mutant of onConnectionLost: nobody is told.
onConnectionLostSilent(n) ==
    /\ handler[n] = "lost"
    /\ handler' = [handler EXCEPT ![n] = "none"]
    /\ UNCHANGED <<mclosed, client, lock, waiters, ch, lastReq, clients, topics, published,
                   arriving, mpc, req, closing, nilClient, losses>>

onConnectionLost(n) ==
    /\ handler[n] = "lost"
    /\ handler' = [handler EXCEPT ![n] = "none"]
    /\ IF mclosed THEN UNCHANGED <<waiters, ch>> ELSE Sweep
    /\ UNCHANGED <<mclosed, client, lock, lastReq, clients, topics, published, arriving,
                   mpc, req, closing, nilClient, losses>>

Answer(i) ==
    /\ i \in published
    /\ published' = published \ {i}
    /\ arriving' = arriving \cup {<<n, i>> : n \in topics}
    /\ UNCHANGED <<mclosed, client, lock, waiters, lastReq, clients, handler, topics, mpc,
                   req, ch, closing, nilClient, losses>>

handleResponse(a) ==
    /\ a \in arriving
    /\ arriving' = arriving \ {a}
    /\ ch' = [t \in Threads |->
                IF t \in waiters[a[2]] /\ ch[t] = NoAnswer THEN a[2] ELSE ch[t]]
    /\ UNCHANGED <<mclosed, client, lock, waiters, lastReq, clients, handler, topics,
                   published, mpc, req, closing, nilClient, losses>>

-----------------------------------------------------------------------------
(* Close.                                                                  *)

CloseBegin ==
    /\ closing = "open" /\ ~mclosed
    /\ mclosed' = TRUE /\ closing' = "sweep"
    /\ UNCHANGED <<client, lock, waiters, lastReq, clients, handler, topics, published,
                   arriving, mpc, req, ch, nilClient, losses>>

CloseSweep ==
    /\ closing = "sweep" /\ closing' = "disconnect"
    /\ Sweep
    /\ UNCHANGED <<mclosed, client, lock, lastReq, clients, handler, topics, published,
                   arriving, mpc, req, nilClient, losses>>

CloseDisconnect ==
    /\ closing = "disconnect" /\ lock = {}
    /\ closing' = "done"
    /\ clients' = IF client = 0 THEN clients ELSE [clients EXCEPT ![client] = "gone"]
    /\ topics' = topics \ {client}
    /\ client' = 0
    /\ UNCHANGED <<mclosed, lock, waiters, lastReq, handler, published, arriving, mpc, req,
                   ch, nilClient, losses>>

CallStep(t) ==
    \/ Connect(t) \/ ConnectReturns(t) \/ Register(t) \/ Publish(t) \/ Receive(t) \/ Cleanup(t)

Handlers == \E n \in 1..MaxClients : onConnect(n) \/ onConnectionLost(n)

MNext ==
    /\ ~nilClient
    /\ \/ \E t \in Threads : CallBegin(t) \/ ConnectBegin(t) \/ ContextDone(t) \/ CallStep(t)
       \/ \E n \in 1..MaxClients : Up(n) \/ Refused(n) \/ Lost(n)
       \/ Handlers
       \/ \E i \in 1..MaxRequests : Answer(i)
       \/ \E a \in arriving : handleResponse(a)
       \/ CloseBegin \/ CloseSweep \/ CloseDisconnect

\* Goroutines run; contexts need not end, and nothing need ever connect or answer.
MFair == /\ WF_mqttVars(Handlers)
         /\ \A t \in Threads : WF_mqttVars(Receive(t) \/ Cleanup(t))

MSpec == MInit /\ [][MNext]_mqttVars /\ MFair

-----------------------------------------------------------------------------
MTypeOK ==
    /\ client \in 0..MaxClients /\ lock \subseteq Threads
    /\ \A i \in 1..MaxRequests : waiters[i] \subseteq Threads /\ Cardinality(waiters[i]) <= 1
    /\ topics \subseteq 1..MaxClients /\ published \subseteq 1..MaxRequests
    /\ \A t \in Threads :
          /\ mpc[t] \in {"idle", "connect", "dial", "register", "publish", "wait", "cleanup"}
          /\ req[t] \in 0..MaxRequests /\ ch[t] \in 0..BrokenChan

\* Calls through the broker, with answers that arrive late, twice or through a client
\* that was given up, are as the abstract Call.  (mqtt.go:237)
Calls == INSTANCE Correlator
            WITH Callers <- Threads, Requests <- 1..MaxRequests, NoRequest <- NoReq,
                 NoReply <- NoAnswer, Broken <- BrokenChan,
                 request <- req, reply <- ch, drawn <- 1..lastReq

MCorrelates == Calls!Spec

\* A call that was waiting when the connection of its client was lost does not wait for
\* its context: it is told.  (mqtt.go:150)
LossIsTold ==
    \A t \in Threads :
        (mpc[t] = "wait" /\ client # 0 /\ handler[client] = "lost" /\ ~mclosed)
            ~> (mpc[t] # "wait" \/ nilClient \/ mclosed)

\* transport.go:64: implementations "must be safe for concurrent use".
NoNilClient == ~nilClient

\* mqtt.go:68, Connect "must be called before making any RPC calls": when it has been,
\* the answer to a call finds the transport subscribed.
AnswersFindUs == \A t \in Threads : mpc[t] = "wait" /\ req[t] \in published => client \in topics

\* transport.go:71: Close "closes the transport connection and releases resources".
NothingLeft == closing = "done" => \A n \in 1..MaxClients : clients[n] # "up"
=============================================================================
