---------------------------- MODULE BoardSession ----------------------------
(***************************************************************************)
(* The board's MQTT/TLS client, firmware/src/main.c: the session loop of   *)
(* main(), mqtt_connect_and_subscribe(), mqtt_tls_net_connect(), the       *)
(* socket callbacks handed to wolfMQTT and the command callback, run       *)
(* against a link that may drop and a broker that may close.               *)
(*                                                                         *)
(* Time is left out here (BoardTimers has it): a timer is due or not, a    *)
(* blocking call answers in any of the ways it can.  One step is one call  *)
(* of the single thread, so the link, the broker and the host interleave   *)
(* between the calls.                                                      *)
(***************************************************************************)
EXTENDS Naturals, Sequences

CONSTANTS
    Fds,             \* socket numbers zsock_socket() can return
    NoFd,            \* the -1 of sock_ctx.fd
    Payloads,        \* command payloads, each the sequence of its chunks
    HandshakeTries,  \* most rounds of mqtt_tls_net_connect() before its deadline
    MaxFaults,       \* bound: spontaneous failures of a behaviour
    MaxCommands,     \* bound: commands the host sends
    MaxCounter       \* bound: telemetry samples of a behaviour

ASSUME NoFdAssumption == NoFd \notin Fds
ASSUME BoundsAssumption == /\ HandshakeTries \in Nat \ {0}
                           /\ MaxFaults \in Nat
                           /\ MaxCommands \in Nat
                           /\ MaxCounter \in Nat

Chunks == {"ping", "other"}

ASSUME PayloadsAssumption == Payloads \subseteq Seq(Chunks) \ {<<>>}

VARIABLES
    pc,              \* where the thread is
    tries,           \* rounds made by mqtt_tls_net_connect()
    fd,              \* sock_ctx.fd
    open,            \* sockets open in the kernel
    client,          \* mqtt_client: connected flag, TLS context present
    ctxs,            \* WOLFSSL_CTX objects allocated and not freed
    rx,              \* chunks of the message being read, still to be handed over
    ping_requested,
    counter,
    ble,             \* is the BLE/IPSP link passing packets
    conn,            \* the broker's end of the board's connection
    subscribed,      \* has the broker a subscription on that connection
    inbox,           \* messages the broker sent that the board has not read
    uplink,          \* packets the board published that the broker has not read
    received,        \* packets the broker has read, in order
    commands,        \* commands the host has sent
    faults,          \* spontaneous failures so far
    pings,           \* history: "ping" chunks handled
    pongs            \* history: pong publishes that returned success

thread  == <<pc, tries, rx>>
sockets == <<fd, open, client, ctxs>>
latch   == <<ping_requested, pings, pongs>>
network == <<ble, conn, subscribed, inbox, uplink, received>>
vars    == <<thread, sockets, latch, counter, network, commands, faults>>

Connecting == {"start", "net", "tls", "handshake", "again", "abort",
               "connect", "subscribe", "failed"}
Loop       == {"poll", "wait", "pong", "keepalive", "ping", "telemetry"}
PCs        == Connecting \cup Loop \cup {"close"}

Pong       == [kind |-> "pong", n |-> 0]
Counter(n) == [kind |-> "counter", n |-> n]
Packets    == [kind : {"pong", "counter"}, n : Nat]

FreshClient == [connected |-> FALSE, ctx |-> FALSE]
Usable      == ble /\ conn = "est"

ThreadOK ==
    /\ pc \in PCs
    /\ tries \in Nat
    /\ rx \in Seq(Chunks)
    /\ counter \in Nat

SocketsOK ==
    /\ fd \in Fds \cup {NoFd}
    /\ open \subseteq Fds
    /\ client \in [connected : BOOLEAN, ctx : BOOLEAN]
    /\ ctxs \in Nat

LatchOK == ping_requested \in BOOLEAN /\ pings \in Nat /\ pongs \in Nat

NetworkOK ==
    /\ ble \in BOOLEAN
    /\ conn \in {"none", "est", "closed"}
    /\ subscribed \in BOOLEAN
    /\ inbox \in Seq(Payloads)
    /\ uplink \in Seq(Packets)
    /\ received \in Seq(Packets)
    /\ commands \in Nat
    /\ faults \in Nat

TypeOK == ThreadOK /\ SocketsOK /\ LatchOK /\ NetworkOK

Init ==
    /\ pc = "start" /\ tries = 0 /\ rx = <<>>
    /\ fd = NoFd /\ open = {} /\ client = FreshClient /\ ctxs = 0
    /\ ping_requested = FALSE /\ pings = 0 /\ pongs = 0
    /\ counter = 0
    /\ ble = TRUE /\ conn = "none" /\ subscribed = FALSE
    /\ inbox = <<>> /\ uplink = <<>> /\ received = <<>>
    /\ commands = 0 /\ faults = 0

-----------------------------------------------------------------------------
(* Failures.  A call fails because the connection is unusable, or by       *)
(* itself, which counts against MaxFaults.                                 *)

Fault == faults < MaxFaults /\ faults' = faults + 1

FailUnless(ok) == \/ ~ok /\ UNCHANGED faults
                  \/ Fault

(* wolfMQTT's MqttClient_NetDisconnect: frees the TLS context, calls the   *)
(* net_disconnect callback, clears the connected flag.                     *)

BUG_net_disconnect ==       \* does not forget the closed socket
    open' = open \ {fd} /\ UNCHANGED fd

net_disconnect ==
    open' = open \ {fd} /\ fd' = NoFd

NetDisconnect ==
    /\ net_disconnect
    /\ client' = FreshClient
    /\ ctxs' = IF client.ctx THEN ctxs - 1 ELSE ctxs
    /\ conn' = "none" /\ subscribed' = FALSE /\ inbox' = <<>>
    /\ UNCHANGED <<ble, uplink, received>>

-----------------------------------------------------------------------------
(* mqtt_connect_and_subscribe()                                            *)

(* MqttClient_Init clears the whole client structure before it can fail. *)
MqttInit ==
    /\ pc = "start"
    /\ client' = FreshClient /\ tries' = 0
    /\ \/ pc' = "net" /\ UNCHANGED faults
       \/ pc' = "failed" /\ Fault
    /\ UNCHANGED <<fd, open, ctxs, rx, latch, counter, network, commands>>

NetConnectOk ==
    /\ pc = "net" /\ ble
    /\ \E f \in Fds \ open : fd' = f /\ open' = open \cup {f}
    /\ client' = [client EXCEPT !.connected = TRUE]
    /\ conn' = "est"
    /\ pc' = "tls"
    /\ UNCHANGED <<tries, ctxs, rx, latch, counter, ble, subscribed, inbox, uplink,
                   received, commands, faults>>

(* No socket, or zsock_connect failed and the new socket was closed again. *)
NetConnectFails ==
    /\ pc = "net"
    /\ fd' = NoFd
    /\ FailUnless(ble)
    /\ pc' = "abort"
    /\ UNCHANGED <<tries, open, client, ctxs, rx, latch, counter, network, commands>>

BUG_tls_setup_cb ==         \* a context whose CA fails to load is not freed
    /\ pc = "tls"
    /\ \/ /\ client' = [client EXCEPT !.ctx = TRUE] /\ ctxs' = ctxs + 1
          /\ pc' = "handshake" /\ UNCHANGED faults
       \/ /\ Fault /\ pc' = "abort" /\ ctxs' = ctxs + 1
          /\ UNCHANGED client
    /\ UNCHANGED <<tries, fd, open, rx, latch, counter, network, commands>>

(* Every failure of the callback leaves no context behind. *)
tls_setup_cb ==
    /\ pc = "tls"
    /\ \/ /\ client' = [client EXCEPT !.ctx = TRUE] /\ ctxs' = ctxs + 1
          /\ pc' = "handshake" /\ UNCHANGED faults
       \/ /\ Fault /\ pc' = "abort"
          /\ UNCHANGED <<client, ctxs>>
    /\ UNCHANGED <<tries, fd, open, rx, latch, counter, network, commands>>

HandshakeOk ==
    /\ pc = "handshake" /\ Usable
    /\ pc' = "connect"
    /\ UNCHANGED <<tries, rx, sockets, latch, counter, network, commands, faults>>

(* CONTINUE or TIMEOUT: wolfMQTT keeps the connection for the next round. *)
HandshakeContinues ==
    /\ pc = "handshake"
    /\ pc' = "again" /\ tries' = tries + 1
    /\ UNCHANGED <<rx, sockets, latch, counter, network, commands, faults>>

HandshakeFails ==
    /\ pc = "handshake"
    /\ FailUnless(Usable)
    /\ pc' = "abort"
    /\ UNCHANGED <<tries, rx, sockets, latch, counter, network, commands>>

(* The deadline test after k_sleep(); a round may take far longer than the *)
(* sleep, so the deadline can pass before HandshakeTries rounds.           *)
HandshakeDeadline ==
    /\ pc = "again"
    /\ \/ tries < HandshakeTries /\ pc' = "handshake"
       \/ pc' = "abort"
    /\ UNCHANGED <<tries, rx, sockets, latch, counter, network, commands, faults>>

BUG_AbortNetConnect ==      \* frees the context of tls_setup_cb() also if there is none
    /\ pc = "abort"
    /\ net_disconnect
    /\ client' = FreshClient /\ ctxs' = ctxs - 1
    /\ conn' = "none" /\ subscribed' = FALSE /\ inbox' = <<>>
    /\ pc' = "failed"
    /\ UNCHANGED <<tries, rx, latch, counter, ble, uplink, received, commands, faults>>

(* mqtt_tls_net_connect() disconnects before it returns an error. *)
AbortNetConnect ==
    /\ pc = "abort"
    /\ NetDisconnect
    /\ pc' = "failed"
    /\ UNCHANGED <<tries, rx, latch, counter, commands, faults>>

(* CONNECT accepted: the broker drops what is left of the board's earlier  *)
(* connection, which had the same client identifier.                       *)
ConnectOk ==
    /\ pc = "connect" /\ Usable
    /\ uplink' = <<>>
    /\ pc' = "subscribe"
    /\ UNCHANGED <<tries, rx, sockets, latch, counter, ble, conn, subscribed, inbox,
                   received, commands, faults>>

SubscribeOk ==
    /\ pc = "subscribe" /\ Usable
    /\ subscribed' = TRUE
    /\ pc' = "poll"
    /\ UNCHANGED <<tries, rx, sockets, latch, counter, ble, conn, inbox, uplink,
                   received, commands, faults>>

(* A SUBSCRIBE whose acknowledgement is lost may have been carried out. *)
ConnectOrSubscribeFails ==
    /\ pc \in {"connect", "subscribe"}
    /\ FailUnless(Usable)
    /\ \/ UNCHANGED subscribed
       \/ pc = "subscribe" /\ conn = "est" /\ subscribed' = TRUE
    /\ pc' = "failed"
    /\ UNCHANGED <<tries, rx, sockets, latch, counter, ble, conn, inbox, uplink,
                   received, commands>>

(* main(): MqttClient_NetDisconnect, MqttClient_DeInit, sleep, retry. *)
ConnectFailed ==
    /\ pc = "failed"
    /\ NetDisconnect
    /\ pc' = "start"
    /\ UNCHANGED <<tries, rx, latch, counter, commands, faults>>

-----------------------------------------------------------------------------
(* The inner loop of main()                                                *)

(* Nothing can arrive now: the call times out. *)
Quiet == ~ble \/ (conn = "est" /\ inbox = <<>>)

BUG_PollTimeout ==          \* an idle socket is taken for a dead one
    /\ pc = "poll" /\ Quiet
    /\ pc' = "close"
    /\ UNCHANGED <<tries, rx, sockets, latch, counter, network, commands, faults>>

PollTimeout ==
    /\ pc = "poll" /\ Quiet
    /\ pc' = "pong"
    /\ UNCHANGED <<tries, rx, sockets, latch, counter, network, commands, faults>>

(* POLLIN: a message, the end of the stream, or TLS records without data. *)
PollReadable ==
    /\ pc = "poll"
    /\ pc' = "wait"
    /\ UNCHANGED <<tries, rx, sockets, latch, counter, network, commands, faults>>

PollFails ==
    /\ pc = "poll"
    /\ FailUnless(Usable)
    /\ pc' = "close"
    /\ UNCHANGED <<tries, rx, sockets, latch, counter, network, commands>>

(* MqttClient_WaitMessage and MqttClient_Ping start reading a message. *)
TakeMessage ==
    /\ pc \in {"wait", "ping"}
    /\ rx = <<>> /\ inbox # <<>> /\ ble
    /\ rx' = Head(inbox) /\ inbox' = Tail(inbox)
    /\ UNCHANGED <<pc, tries, sockets, latch, counter, ble, conn, subscribed, uplink,
                   received, commands, faults>>

(* handle_command(): only "ping" touches state this program reads. *)
handle_command(chunk) ==
    IF chunk = "ping"
    THEN ping_requested' = TRUE /\ pings' = pings + 1
    ELSE UNCHANGED <<ping_requested, pings>>

(* mqtt_message_cb(): each buffer of a payload is taken for a command. *)
MessageCallback ==
    /\ pc \in {"wait", "ping"} /\ rx # <<>>
    /\ handle_command(Head(rx))
    /\ rx' = Tail(rx)
    /\ pc' = IF pc = "wait" /\ Tail(rx) = <<>> THEN "pong" ELSE pc
    /\ UNCHANGED <<tries, sockets, pongs, counter, network, commands, faults>>

WaitTimeout ==
    /\ pc = "wait" /\ rx = <<>> /\ Quiet
    /\ pc' = "pong"
    /\ UNCHANGED <<tries, rx, sockets, latch, counter, network, commands, faults>>

WaitFails ==
    /\ pc = "wait"
    /\ FailUnless(Usable)
    /\ pc' = "close" /\ rx' = <<>>
    /\ UNCHANGED <<tries, sockets, latch, counter, network, commands>>

(* MqttClient_Publish at QoS 0: success says the socket took the bytes. *)
PublishOk(packet) ==
    /\ uplink' = IF conn = "est" THEN Append(uplink, packet) ELSE uplink
    /\ UNCHANGED <<ble, conn, subscribed, inbox, received>>

NoPong ==
    /\ pc = "pong" /\ ~ping_requested
    /\ pc' = "keepalive"
    /\ UNCHANGED <<tries, rx, sockets, latch, counter, network, commands, faults>>

BUG_PublishPong ==          \* the latch is not cleared
    /\ pc = "pong" /\ ping_requested
    /\ PublishOk(Pong)
    /\ pongs' = pongs + 1
    /\ pc' = "keepalive"
    /\ UNCHANGED <<tries, rx, sockets, ping_requested, pings, counter, commands, faults>>

BUG_LosePong ==             \* the latch is cleared and nothing is published
    /\ pc = "pong" /\ ping_requested
    /\ ping_requested' = FALSE
    /\ pc' = "keepalive"
    /\ UNCHANGED <<tries, rx, sockets, pings, pongs, counter, network, commands, faults>>

PublishPong ==
    /\ pc = "pong" /\ ping_requested
    /\ ping_requested' = FALSE
    /\ PublishOk(Pong)
    /\ pongs' = pongs + 1
    /\ pc' = "keepalive"
    /\ UNCHANGED <<tries, rx, sockets, pings, counter, commands, faults>>

(* The latch is cleared before the publish, so this ping stays unanswered. *)
PongFails ==
    /\ pc = "pong" /\ ping_requested
    /\ ping_requested' = FALSE
    /\ FailUnless(Usable)
    /\ pc' = "close"
    /\ UNCHANGED <<tries, rx, sockets, pings, pongs, counter, network, commands>>

KeepaliveCheck ==
    /\ pc = "keepalive"
    /\ \/ pc' = "telemetry"                         \* not idle for long enough
       \/ pc' = "ping"
    /\ UNCHANGED <<tries, rx, sockets, latch, counter, network, commands, faults>>

PingOk ==
    /\ pc = "ping" /\ rx = <<>> /\ Usable
    /\ pc' = "telemetry"
    /\ UNCHANGED <<tries, rx, sockets, latch, counter, network, commands, faults>>

PingFails ==
    /\ pc = "ping"
    /\ FailUnless(Usable)
    /\ pc' = "close" /\ rx' = <<>>
    /\ UNCHANGED <<tries, sockets, latch, counter, network, commands>>

TelemetryNotDue ==
    /\ pc = "telemetry"
    /\ pc' = "poll"
    /\ UNCHANGED <<tries, rx, sockets, latch, counter, network, commands, faults>>

PublishCounter ==
    /\ pc = "telemetry" /\ counter < MaxCounter
    /\ counter' = counter + 1
    /\ PublishOk(Counter(counter))
    /\ pc' = "poll"
    /\ UNCHANGED <<tries, rx, sockets, latch, commands, faults>>

(* counter++ is evaluated before the call, so the number is used up. *)
PublishCounterFails ==
    /\ pc = "telemetry" /\ counter < MaxCounter
    /\ counter' = counter + 1
    /\ FailUnless(Usable)
    /\ pc' = "close"
    /\ UNCHANGED <<tries, rx, sockets, latch, network, commands>>

BUG_CloseSession ==         \* the sample counter starts again with the session
    /\ pc = "close"
    /\ NetDisconnect
    /\ pc' = "start"
    /\ counter' = 0
    /\ UNCHANGED <<tries, rx, latch, commands, faults>>

(* MqttClient_Disconnect, MqttClient_NetDisconnect, MqttClient_DeInit. *)
CloseSession ==
    /\ pc = "close"
    /\ NetDisconnect
    /\ pc' = "start"
    /\ UNCHANGED <<tries, rx, latch, counter, commands, faults>>

-----------------------------------------------------------------------------
(* The link, the broker and the host                                       *)

LinkDown ==
    /\ ble /\ Fault
    /\ ble' = FALSE
    /\ UNCHANGED <<thread, sockets, latch, counter, conn, subscribed, inbox, uplink,
                   received, commands>>

LinkUp ==
    /\ ~ble
    /\ ble' = TRUE
    /\ UNCHANGED <<thread, sockets, latch, counter, conn, subscribed, inbox, uplink,
                   received, commands, faults>>

(* What the broker already sent can still be read; what it has not read is *)
(* gone.                                                                   *)
BrokerCloses ==
    /\ conn = "est" /\ Fault
    /\ conn' = "closed" /\ subscribed' = FALSE /\ uplink' = <<>>
    /\ UNCHANGED <<thread, sockets, latch, counter, ble, inbox, received, commands>>

(* QoS 0, clean session: a command without a subscription goes nowhere. *)
HostSends(m) ==
    /\ commands < MaxCommands
    /\ commands' = commands + 1
    /\ inbox' = IF subscribed THEN Append(inbox, m) ELSE inbox
    /\ UNCHANGED <<thread, sockets, latch, counter, ble, conn, subscribed, uplink,
                   received, faults>>

BrokerReads ==
    /\ ble /\ uplink # <<>>
    /\ received' = Append(received, Head(uplink)) /\ uplink' = Tail(uplink)
    /\ UNCHANGED <<thread, sockets, latch, counter, ble, conn, subscribed, inbox,
                   commands, faults>>

(* The tail of a connection the board has closed may never arrive. *)
UplinkLost ==
    /\ conn = "none" /\ uplink # <<>>
    /\ uplink' = <<>>
    /\ UNCHANGED <<thread, sockets, latch, counter, ble, conn, subscribed, inbox,
                   received, commands, faults>>

-----------------------------------------------------------------------------

Handshake == HandshakeOk \/ HandshakeContinues \/ HandshakeFails \/ HandshakeDeadline

ConnectAndSubscribe ==
    \/ MqttInit
    \/ NetConnectOk \/ NetConnectFails
    \/ tls_setup_cb
    \/ Handshake
    \/ AbortNetConnect
    \/ ConnectOk \/ SubscribeOk \/ ConnectOrSubscribeFails
    \/ ConnectFailed

InnerLoop ==
    \/ PollTimeout \/ PollReadable \/ PollFails
    \/ TakeMessage \/ MessageCallback \/ WaitTimeout \/ WaitFails
    \/ NoPong \/ PublishPong \/ PongFails
    \/ KeepaliveCheck \/ PingOk \/ PingFails
    \/ TelemetryNotDue \/ PublishCounter \/ PublishCounterFails
    \/ CloseSession

Board == ConnectAndSubscribe \/ InnerLoop

Environment ==
    \/ LinkDown \/ LinkUp
    \/ BrokerCloses \/ BrokerReads \/ UplinkLost
    \/ \E m \in Payloads : HostSends(m)

Next == Board \/ Environment

Spec == Init /\ [][Next]_vars

(* The thread is always scheduled; an outage ends; the broker reads its    *)
(* socket; and a handshake that is attempted again and again over a usable *)
(* connection is completed at some point.                                  *)
Fairness ==
    /\ WF_vars(Board)
    /\ WF_vars(LinkUp)
    /\ WF_vars(BrokerReads)
    /\ SF_vars(HandshakeOk)

FairSpec == Spec /\ Fairness

-----------------------------------------------------------------------------
(* Properties                                                              *)

(* sock_ctx.fd names the one socket that is open, or no socket is open: no *)
(* path through the callbacks and the double NetDisconnect of a failed     *)
(* connect leaks a socket or closes one it does not own.                   *)
SocketOwned == open = IF fd = NoFd THEN {} ELSE {fd}

(* The client structure holds the only TLS context there is, and           *)
(* MqttClient_Init, which clears that structure, only runs when neither a  *)
(* context nor a socket is left from the session before.                   *)
ContextOwned ==
    /\ ctxs = IF client.ctx THEN 1 ELSE 0
    /\ pc = "start" => fd = NoFd /\ ctxs = 0

IsSample(packet) == packet.kind = "counter"

InOrder(packets) ==
    \A i, j \in DOMAIN packets :
        i < j /\ IsSample(packets[i]) /\ IsSample(packets[j]) => packets[i].n < packets[j].n

(* Samples reach the broker at most once and in order, over any number of  *)
(* sessions, whatever is lost between.                                     *)
SamplesIncrease == InOrder(received)

(* Every pong published, and the one still owed, goes back to a ping of    *)
(* its own, although ping_requested outlives the session that set it.      *)
PongsEarned == pongs + (IF ping_requested THEN 1 ELSE 0) <= pings

(* Liveness is stated from the point where no further failure happens. *)
Stable == ble /\ faults = MaxFaults

(* Once failures stop, main() gets back into the inner loop, for good. *)
Recovers == Stable ~> [](pc \in Loop)

PongsReceived == Len(SelectSeq(received, LAMBDA p : p.kind = "pong"))

PingOnItsWay ==
    \/ ping_requested
    \/ \E i \in DOMAIN rx : rx[i] = "ping"
    \/ \E i \in DOMAIN inbox : \E j \in DOMAIN inbox[i] : inbox[i][j] = "ping"

(* A ping that has reached a healthy session is answered with a pong that  *)
(* the broker receives.                                                    *)
PingAnswered ==
    \A k \in 0 .. MaxCommands :
        (Stable /\ conn = "est" /\ pc \in Loop /\ PingOnItsWay /\ PongsReceived = k)
            ~> PongsReceived > k
=============================================================================
