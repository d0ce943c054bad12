------------------------- MODULE BoardSessionProofs -------------------------
(***************************************************************************)
(* The safety of BoardSession for every set of sockets, every command and  *)
(* any number of failures.                                                 *)
(***************************************************************************)
EXTENDS BoardSession, TLAPS

(* What each place of the thread owns.  A session starts from nothing, the *)
(* socket comes first and the TLS context second, and from the handshake   *)
(* on both are there; only the two failure places may hold either.         *)
HasSocket  == fd # NoFd
HasContext == client.ctx

Ownership ==
    /\ pc \in {"start", "net"} => ~HasSocket /\ ~HasContext
    /\ pc = "tls" => HasSocket /\ ~HasContext
    /\ pc \notin {"start", "net", "tls", "abort", "failed"} => HasSocket /\ HasContext

ContextCounted == ctxs = IF client.ctx THEN 1 ELSE 0

ResourceInv == SocketsOK /\ SocketOwned /\ ContextCounted /\ Ownership

(* The actions that touch no socket and no context only move the thread    *)
(* between places that own the same.                                       *)
SameOwner ==
    /\ UNCHANGED sockets
    /\ \/ pc' = pc
       \/ pc' \in {"abort", "failed"}
       \/ /\ pc \notin {"start", "net", "tls", "abort", "failed"}
          /\ pc' \notin {"start", "net", "tls"}

LEMMA SameOwnerKeeps == ResourceInv /\ SameOwner => ResourceInv'
  BY DEF ResourceInv, SameOwner, SocketsOK, SocketOwned, ContextCounted, Ownership,
         HasSocket, HasContext, sockets

LEMMA DisconnectReleases ==
  ResourceInv /\ NetDisconnect
    => /\ fd' = NoFd /\ open' = {} /\ client' = FreshClient /\ ctxs' = 0
<1> SUFFICES ASSUME ResourceInv, NetDisconnect
             PROVE  fd' = NoFd /\ open' = {} /\ client' = FreshClient /\ ctxs' = 0
  OBVIOUS
<1>1. fd' = NoFd /\ client' = FreshClient
  BY DEF NetDisconnect, net_disconnect
<1>2. open' = {}
  BY NoFdAssumption DEF NetDisconnect, net_disconnect, ResourceInv, SocketsOK, SocketOwned
<1>3. ctxs' = 0
  BY DEF NetDisconnect, ResourceInv, ContextCounted
<1>4. QED
  BY <1>1, <1>2, <1>3

LEMMA DisconnectKeeps ==
  ResourceInv /\ NetDisconnect /\ pc' \in {"start", "failed"} => ResourceInv'
<1> SUFFICES ASSUME ResourceInv, NetDisconnect, pc' \in {"start", "failed"}
             PROVE  ResourceInv'
  OBVIOUS
<1>0. fd' = NoFd /\ open' = {} /\ client' = FreshClient /\ ctxs' = 0
  BY DisconnectReleases
<1>1. client' \in [connected : BOOLEAN, ctx : BOOLEAN] /\ ~client'.ctx
  BY <1>0 DEF FreshClient
<1>2. SocketsOK' /\ SocketOwned' /\ ContextCounted'
  BY <1>0, <1>1 DEF SocketsOK, SocketOwned, ContextCounted
<1>3. Ownership'
  BY <1>0, <1>1 DEF Ownership, HasSocket, HasContext
<1>4. QED
  BY <1>2, <1>3 DEF ResourceInv

LEMMA ResourceInit == Init => ResourceInv
  BY DEF Init, ResourceInv, SocketsOK, SocketOwned, ContextCounted, Ownership,
         HasSocket, HasContext, FreshClient

LEMMA ResourceNext == ResourceInv /\ [Next]_vars => ResourceInv'
<1> SUFFICES ASSUME ResourceInv, [Next]_vars PROVE ResourceInv'
  OBVIOUS
<1>1. CASE MqttInit
  BY <1>1 DEF MqttInit, ResourceInv, SocketsOK, SocketOwned, ContextCounted, Ownership,
              HasSocket, HasContext, FreshClient
<1>2. CASE NetConnectOk
  <2>1. PICK f \in Fds \ open : fd' = f /\ open' = open \cup {f}
    BY <1>2 DEF NetConnectOk
  <2>2. fd' # NoFd /\ open' = {fd'} /\ open' \subseteq Fds
    BY <1>2, <2>1, NoFdAssumption
       DEF NetConnectOk, ResourceInv, SocketsOK, SocketOwned, Ownership, HasSocket
  <2>3. /\ client'.ctx = client.ctx /\ ctxs' = ctxs
        /\ client' \in [connected : BOOLEAN, ctx : BOOLEAN]
    BY <1>2 DEF NetConnectOk, ResourceInv, SocketsOK
  <2>4. QED
    BY <1>2, <2>1, <2>2, <2>3
       DEF NetConnectOk, ResourceInv, SocketsOK, SocketOwned, ContextCounted, Ownership,
           HasSocket, HasContext
<1>3. CASE NetConnectFails
  BY <1>3 DEF NetConnectFails, ResourceInv, SocketsOK, SocketOwned, ContextCounted,
              Ownership, HasSocket, HasContext
<1>4. CASE tls_setup_cb
  <2>1. /\ fd' = fd /\ open' = open
        /\ client' \in [connected : BOOLEAN, ctx : BOOLEAN]
        /\ \/ client'.ctx /\ ctxs' = ctxs + 1 /\ pc' = "handshake"
           \/ client' = client /\ ctxs' = ctxs /\ pc' = "abort"
    BY <1>4 DEF tls_setup_cb, ResourceInv, SocketsOK
  <2>2. pc = "tls"
    BY <1>4 DEF tls_setup_cb
  <2>3. QED
    BY <2>1, <2>2 DEF ResourceInv, SocketsOK, SocketOwned, ContextCounted, Ownership,
                      HasSocket, HasContext
<1>5. CASE Handshake
  <2>1. SameOwner
    BY <1>5 DEF Handshake, HandshakeOk, HandshakeContinues, HandshakeFails,
                HandshakeDeadline, SameOwner
  <2>2. QED
    BY <2>1, SameOwnerKeeps
<1>6. CASE AbortNetConnect \/ ConnectFailed \/ CloseSession
  BY <1>6, DisconnectKeeps DEF AbortNetConnect, ConnectFailed, CloseSession
<1>7. CASE ConnectOk \/ SubscribeOk \/ ConnectOrSubscribeFails
  <2>1. SameOwner
    BY <1>7 DEF ConnectOk, SubscribeOk, ConnectOrSubscribeFails, SameOwner, sockets
  <2>2. QED
    BY <2>1, SameOwnerKeeps
<1>8. CASE PollTimeout \/ PollReadable \/ PollFails \/ NoPong \/ KeepaliveCheck
           \/ TakeMessage \/ MessageCallback \/ WaitTimeout \/ WaitFails
  <2>1. SameOwner
    BY <1>8 DEF PollTimeout, PollReadable, PollFails, NoPong, KeepaliveCheck, TakeMessage,
                MessageCallback, WaitTimeout, WaitFails, SameOwner, sockets
  <2>2. QED
    BY <2>1, SameOwnerKeeps
<1>9. CASE PublishPong \/ PongFails \/ PingOk \/ PingFails
           \/ TelemetryNotDue \/ PublishCounter \/ PublishCounterFails
  <2>1. SameOwner
    BY <1>9 DEF PublishPong, PongFails, PingOk, PingFails, TelemetryNotDue, PublishCounter,
                PublishCounterFails, SameOwner, sockets
  <2>2. QED
    BY <2>1, SameOwnerKeeps
<1>10. CASE Environment
  <2>1. SameOwner
    BY <1>10 DEF Environment, LinkDown, LinkUp, BrokerCloses, BrokerReads, UplinkLost,
                 HostSends, SameOwner, thread
  <2>2. QED
    BY <2>1, SameOwnerKeeps
<1>11. CASE UNCHANGED vars
  <2>1. SameOwner
    BY <1>11 DEF vars, thread, SameOwner
  <2>2. QED
    BY <2>1, SameOwnerKeeps
<1>12. QED
  BY <1>1, <1>2, <1>3, <1>4, <1>5, <1>6, <1>7, <1>8, <1>9, <1>10, <1>11
     DEF Next, Board, ConnectAndSubscribe, InnerLoop

THEOREM ResourceInvariant == Spec => []ResourceInv
  BY ResourceInit, ResourceNext, PTL DEF Spec

(* No path through net_connect(), net_disconnect(), the handshake loop and *)
(* main() leaks a socket or closes one the client does not own.            *)
THEOREM SocketIsOwned == Spec => []SocketOwned
<1>1. ResourceInv => SocketOwned
  BY DEF ResourceInv
<1>2. QED
  BY <1>1, ResourceInvariant, PTL

(* tls_setup_cb() never leaves a context behind, and MqttClient_Init never *)
(* clears a client structure that still holds one.                         *)
THEOREM ContextIsOwned == Spec => []ContextOwned
<1>1. ResourceInv => ContextOwned
  BY DEF ResourceInv, ContextOwned, ContextCounted, Ownership, HasSocket, HasContext
<1>2. QED
  BY <1>1, ResourceInvariant, PTL

-----------------------------------------------------------------------------
(* The latch: ping_requested and the two histories around it.  Three       *)
(* actions touch them, every other step leaves the three alone.            *)

LatchInv == LatchOK /\ PongsEarned

LatchStep == MessageCallback \/ PublishPong \/ PongFails \/ UNCHANGED latch

LEMMA LatchSteps == [Next]_vars => LatchStep
<1> SUFFICES ASSUME [Next]_vars PROVE LatchStep
  OBVIOUS
<1>1. CASE ConnectAndSubscribe
  BY <1>1 DEF ConnectAndSubscribe, MqttInit, NetConnectOk, NetConnectFails, tls_setup_cb,
              Handshake, HandshakeOk, HandshakeContinues, HandshakeFails, HandshakeDeadline,
              AbortNetConnect, ConnectOk, SubscribeOk, ConnectOrSubscribeFails,
              ConnectFailed, LatchStep
<1>2. CASE InnerLoop
  BY <1>2 DEF InnerLoop, PollTimeout, PollReadable, PollFails, TakeMessage, WaitTimeout,
              WaitFails, NoPong, KeepaliveCheck, PingOk, PingFails, TelemetryNotDue,
              PublishCounter, PublishCounterFails, CloseSession, LatchStep
<1>3. CASE Environment
  BY <1>3 DEF Environment, LinkDown, LinkUp, BrokerCloses, BrokerReads, UplinkLost,
              HostSends, LatchStep
<1>4. CASE UNCHANGED vars
  BY <1>4 DEF vars, LatchStep
<1>5. QED
  BY <1>1, <1>2, <1>3, <1>4 DEF Next, Board

LEMMA LatchNext == LatchInv /\ [Next]_vars => LatchInv'
<1> SUFFICES ASSUME LatchInv, LatchStep PROVE LatchInv'
  BY LatchSteps
<1> DEFINE Owed(latched) == IF latched THEN 1 ELSE 0
<1>0. /\ ping_requested \in BOOLEAN /\ pings \in Nat /\ pongs \in Nat
      /\ pongs + Owed(ping_requested) <= pings
  BY DEF LatchInv, LatchOK, PongsEarned
<1>1. CASE MessageCallback
  <2>1. \/ ping_requested' = TRUE /\ pings' = pings + 1 /\ pongs' = pongs
        \/ UNCHANGED latch
    BY <1>1 DEF MessageCallback, handle_command, latch
  <2>2. CASE ping_requested' = TRUE /\ pings' = pings + 1 /\ pongs' = pongs
    BY <1>0, <2>2 DEF LatchInv, LatchOK, PongsEarned
  <2>3. CASE UNCHANGED latch
    BY <2>3 DEF latch, LatchInv, LatchOK, PongsEarned
  <2>4. QED
    BY <2>1, <2>2, <2>3
<1>2. CASE PublishPong
  <2>1. ping_requested /\ ~ping_requested' /\ pings' = pings /\ pongs' = pongs + 1
    BY <1>2 DEF PublishPong
  <2>2. ping_requested' \in BOOLEAN
    BY <1>2 DEF PublishPong
  <2>3. Owed(ping_requested) = 1 /\ Owed(ping_requested') = 0
    BY <2>1
  <2>4. pings' \in Nat /\ pongs' \in Nat /\ pongs' + Owed(ping_requested') <= pings'
    BY <1>0, <2>1, <2>3
  <2>5. QED
    BY <2>2, <2>4 DEF LatchInv, LatchOK, PongsEarned
<1>3. CASE PongFails
  <2>1. ping_requested /\ ~ping_requested' /\ pings' = pings /\ pongs' = pongs
    BY <1>3 DEF PongFails
  <2>2. ping_requested' \in BOOLEAN
    BY <1>3 DEF PongFails
  <2>3. Owed(ping_requested) = 1 /\ Owed(ping_requested') = 0
    BY <2>1
  <2>4. pings' \in Nat /\ pongs' \in Nat /\ pongs' + Owed(ping_requested') <= pings'
    BY <1>0, <2>1, <2>3
  <2>5. QED
    BY <2>2, <2>4 DEF LatchInv, LatchOK, PongsEarned
<1>4. CASE UNCHANGED latch
  BY <1>4 DEF latch, LatchInv, LatchOK, PongsEarned
<1>5. QED
  BY <1>1, <1>2, <1>3, <1>4 DEF LatchStep

LEMMA LatchInit == Init => LatchInv
<1> SUFFICES ASSUME Init PROVE LatchInv
  OBVIOUS
<1>1. ~ping_requested /\ ping_requested \in BOOLEAN /\ pings = 0 /\ pongs = 0
  BY DEF Init
<1>2. pongs + (IF ping_requested THEN 1 ELSE 0) <= pings
  BY <1>1
<1>3. QED
  BY <1>1, <1>2 DEF LatchInv, LatchOK, PongsEarned

THEOREM LatchInvariant == Spec => []LatchInv
  BY LatchInit, LatchNext, PTL DEF Spec

(* A pong, published or still owed, is always the answer to a ping of its  *)
(* own: clearing the latch before the publish loses a pong at worst, and   *)
(* keeping it over a reconnect never sends one twice.                      *)
THEOREM PongsAreEarned == Spec => []PongsEarned
<1>1. LatchInv => PongsEarned
  BY DEF LatchInv
<1>2. QED
  BY <1>1, LatchInvariant, PTL

-----------------------------------------------------------------------------
(* Type correctness.  The sockets and the latch are typed by the two       *)
(* invariants above; the thread and the network are typed together, since  *)
(* a message moves from the network's inbox to the thread's rx.            *)

TypeInv == ThreadOK /\ NetworkOK

(* What every step but TakeMessage does to the thread's own variables. *)
Bookkeeping ==
    /\ pc' \in PCs
    /\ tries' \in {0, tries, tries + 1}
    /\ rx' = rx \/ rx' = <<>>
    /\ counter' \in {counter, counter + 1}
    /\ faults' \in {faults, faults + 1}

LEMMA EmptyIsTyped == \A S : <<>> \in Seq(S)
  OBVIOUS

LEMMA BookkeepingKeeps == TypeInv /\ Bookkeeping => ThreadOK' /\ faults' \in Nat
<1> SUFFICES ASSUME TypeInv, Bookkeeping PROVE ThreadOK' /\ faults' \in Nat
  OBVIOUS
<1>1. pc' \in PCs /\ tries' \in Nat /\ counter' \in Nat
  <2>1. tries \in Nat /\ counter \in Nat
    BY DEF TypeInv, ThreadOK
  <2>2. pc' \in PCs /\ tries' \in {0, tries, tries + 1} /\ counter' \in {counter, counter + 1}
    BY DEF Bookkeeping
  <2>3. QED
    BY <2>1, <2>2
<1>2. rx' \in Seq(Chunks)
  BY EmptyIsTyped DEF TypeInv, ThreadOK, Bookkeeping
<1>3. faults' \in Nat
  <2>1. faults \in Nat
    BY DEF TypeInv, NetworkOK
  <2>2. QED
    BY <2>1 DEF Bookkeeping
<1>4. QED
  BY <1>1, <1>2, <1>3 DEF ThreadOK

LEMMA DisconnectTyped ==
  ASSUME TypeInv, NetDisconnect, commands' \in Nat, faults' \in Nat
  PROVE  NetworkOK'
<1>1. /\ ble' = ble /\ uplink' = uplink /\ received' = received
      /\ conn' = "none" /\ inbox' = <<>>
  BY DEF NetDisconnect
<1>2. ble' \in BOOLEAN
  BY <1>1 DEF TypeInv, NetworkOK
<1>3. subscribed' \in BOOLEAN
  BY DEF NetDisconnect
<1>4. uplink' \in Seq(Packets) /\ received' \in Seq(Packets) /\ inbox' \in Seq(Payloads)
  BY <1>1 DEF TypeInv, NetworkOK
<1>5. QED
  BY <1>1, <1>2, <1>3, <1>4 DEF NetworkOK

LEMMA PublishTyped ==
  ASSUME TypeInv, NEW packet \in Packets, PublishOk(packet), commands' \in Nat, faults' \in Nat
  PROVE  NetworkOK'
<1>1. uplink' \in {uplink, Append(uplink, packet)}
  BY DEF PublishOk
<1>2. uplink' \in Seq(Packets)
  BY <1>1 DEF TypeInv, NetworkOK
<1>3. ble' \in BOOLEAN /\ subscribed' \in BOOLEAN
  BY DEF TypeInv, NetworkOK, PublishOk
<1>4. conn' = conn /\ inbox' = inbox /\ received' = received
  BY DEF PublishOk
<1>5. QED
  BY <1>2, <1>3, <1>4 DEF TypeInv, NetworkOK

LEMMA PayloadsAreChunks == Payloads \subseteq Seq(Chunks)
  BY PayloadsAssumption

LEMMA TypeNext == TypeInv /\ [Next]_vars => TypeInv'
<1> SUFFICES ASSUME TypeInv, [Next]_vars PROVE TypeInv'
  OBVIOUS
<1> USE DEF PCs, Connecting, Loop
<1>0. ThreadOK /\ NetworkOK /\ faults \in Nat /\ commands \in Nat
  BY DEF TypeInv, NetworkOK
<1>1. CASE MqttInit \/ NetConnectFails \/ tls_setup_cb \/ Handshake
  <2>1. Bookkeeping /\ UNCHANGED <<network, commands>>
    BY <1>0, <1>1 DEF MqttInit, NetConnectFails, tls_setup_cb, Handshake, HandshakeOk,
           HandshakeContinues, HandshakeFails, HandshakeDeadline, Fault, FailUnless,
           Bookkeeping, ThreadOK
  <2>2. QED
    BY <1>0, <2>1, BookkeepingKeeps DEF TypeInv, NetworkOK, network
<1>2. CASE NetConnectOk \/ ConnectOk \/ SubscribeOk \/ ConnectOrSubscribeFails
  <2>1. Bookkeeping /\ commands' = commands
    BY <1>0, <1>2 DEF NetConnectOk, ConnectOk, SubscribeOk, ConnectOrSubscribeFails, Fault,
           FailUnless, Bookkeeping, ThreadOK
  <2>2. /\ ble' = ble /\ conn' \in {conn, "est"} /\ subscribed' \in {subscribed, TRUE}
        /\ inbox' = inbox /\ (uplink' = uplink \/ uplink' = <<>>) /\ received' = received
    BY <1>2 DEF NetConnectOk, ConnectOk, SubscribeOk, ConnectOrSubscribeFails
  <2>3. conn' \in {"none", "est", "closed"} /\ uplink' \in Seq(Packets)
    BY <1>0, <2>2, EmptyIsTyped DEF NetworkOK
  <2>4. ble' \in BOOLEAN /\ subscribed' \in BOOLEAN
    <3>1. ble \in BOOLEAN /\ subscribed \in BOOLEAN
      BY <1>0 DEF NetworkOK
    <3>2. (subscribed' = subscribed \/ subscribed' = TRUE) /\ ble' = ble
      BY <2>2
    <3>3. QED
      BY <3>1, <3>2
  <2>5. QED
    BY <1>0, <2>1, <2>2, <2>3, <2>4, BookkeepingKeeps DEF TypeInv, NetworkOK
<1>3. CASE AbortNetConnect \/ ConnectFailed \/ CloseSession
  <2>1. Bookkeeping /\ NetDisconnect /\ commands' = commands
    BY <1>0, <1>3 DEF AbortNetConnect, ConnectFailed, CloseSession, Bookkeeping, ThreadOK
  <2>2. QED
    BY <1>0, <2>1, BookkeepingKeeps, DisconnectTyped DEF TypeInv
<1>4. CASE PollTimeout \/ PollReadable \/ PollFails \/ WaitTimeout \/ WaitFails \/ NoPong
           \/ PongFails \/ KeepaliveCheck \/ PingOk \/ PingFails \/ TelemetryNotDue
           \/ PublishCounterFails
  <2>1. Bookkeeping /\ UNCHANGED <<network, commands>>
    BY <1>0, <1>4 DEF PollTimeout, PollReadable, PollFails, WaitTimeout, WaitFails, NoPong,
           PongFails, KeepaliveCheck, PingOk, PingFails, TelemetryNotDue,
           PublishCounterFails, Fault, FailUnless, Bookkeeping, ThreadOK
  <2>2. QED
    BY <1>0, <2>1, BookkeepingKeeps DEF TypeInv, NetworkOK, network
<1>5. CASE TakeMessage
  <2>1. /\ rx' = Head(inbox) /\ inbox' = Tail(inbox) /\ inbox # <<>>
        /\ UNCHANGED <<pc, tries, counter, ble, conn, subscribed, uplink, received,
                       commands, faults>>
    BY <1>5 DEF TakeMessage
  <2>2. Head(inbox) \in Payloads /\ Tail(inbox) \in Seq(Payloads)
    BY <1>0, <2>1 DEF NetworkOK
  <2>3. QED
    BY <1>0, <2>1, <2>2, PayloadsAreChunks DEF TypeInv, ThreadOK, NetworkOK
<1>6. CASE MessageCallback
  <2>1. /\ rx # <<>> /\ rx' = Tail(rx) /\ pc' \in {pc, "pong"}
        /\ UNCHANGED <<tries, counter, network, commands, faults>>
    BY <1>6 DEF MessageCallback
  <2>2. QED
    BY <1>0, <2>1 DEF TypeInv, ThreadOK, NetworkOK, network
<1>7. CASE PublishPong \/ PublishCounter
  <2>1. Bookkeeping /\ UNCHANGED <<commands, faults>>
    BY <1>0, <1>7 DEF PublishPong, PublishCounter, Bookkeeping, ThreadOK
  <2>2. Pong \in Packets /\ Counter(counter) \in Packets
    BY <1>0 DEF Pong, Counter, Packets, ThreadOK
  <2>3. PublishOk(Pong) \/ PublishOk(Counter(counter))
    BY <1>7 DEF PublishPong, PublishCounter
  <2>4. QED
    BY <1>0, <2>1, <2>2, <2>3, BookkeepingKeeps, PublishTyped DEF TypeInv
<1>8. CASE Environment
  <2>1. Bookkeeping
    BY <1>0, <1>8 DEF Environment, LinkDown, LinkUp, BrokerCloses, BrokerReads, UplinkLost,
           HostSends, Fault, Bookkeeping, ThreadOK, thread
  <2>2. CASE LinkDown \/ LinkUp \/ BrokerCloses \/ UplinkLost
    <3>1. /\ conn' \in {conn, "closed"} /\ (uplink' = uplink \/ uplink' = <<>>)
          /\ UNCHANGED <<inbox, received, commands>>
      BY <2>2 DEF LinkDown, LinkUp, BrokerCloses, UplinkLost
    <3>2. ble' \in {ble, TRUE, FALSE} /\ subscribed' \in {subscribed, FALSE}
      BY <2>2 DEF LinkDown, LinkUp, BrokerCloses, UplinkLost
    <3>3. ble' \in BOOLEAN /\ subscribed' \in BOOLEAN
      <4>1. ble \in BOOLEAN /\ subscribed \in BOOLEAN
        BY <1>0 DEF NetworkOK
      <4>2. /\ ble' = ble \/ ble' = TRUE \/ ble' = FALSE
            /\ subscribed' = subscribed \/ subscribed' = FALSE
        BY <3>2
      <4>3. QED
        BY <4>1, <4>2
    <3>4. conn' \in {"none", "est", "closed"} /\ uplink' \in Seq(Packets)
      BY <1>0, <3>1, EmptyIsTyped DEF NetworkOK
    <3>5. QED
      BY <1>0, <2>1, <3>1, <3>3, <3>4, BookkeepingKeeps DEF TypeInv, NetworkOK
  <2>3. CASE BrokerReads
    BY <1>0, <2>1, <2>3, BookkeepingKeeps DEF BrokerReads, TypeInv, NetworkOK
  <2>4. ASSUME NEW m \in Payloads, HostSends(m) PROVE TypeInv'
    BY <1>0, <2>1, <2>4, BookkeepingKeeps DEF HostSends, TypeInv, NetworkOK
  <2>5. QED
    BY <1>8, <2>2, <2>3, <2>4 DEF Environment
<1>9. CASE UNCHANGED vars
  BY <1>0, <1>9 DEF vars, thread, network, TypeInv, ThreadOK, NetworkOK
<1>10. QED
  BY <1>1, <1>2, <1>3, <1>4, <1>5, <1>6, <1>7, <1>8, <1>9
     DEF Next, Board, ConnectAndSubscribe, InnerLoop

LEMMA TypeInit == Init => TypeInv
<1> SUFFICES ASSUME Init PROVE TypeInv
  OBVIOUS
<1>1. ThreadOK
  BY DEF Init, ThreadOK, PCs, Connecting
<1>2. ble \in BOOLEAN /\ subscribed \in BOOLEAN
  BY DEF Init
<1>3. /\ conn = "none" /\ inbox = <<>> /\ uplink = <<>> /\ received = <<>>
      /\ commands = 0 /\ faults = 0
  BY DEF Init
<1>4. QED
  BY <1>1, <1>2, <1>3 DEF TypeInv, NetworkOK

(* Every variable of the session loop keeps its type, whatever fails. *)
THEOREM TypesAreCorrect == Spec => []TypeOK
<1>1. Spec => []TypeInv
  BY TypeInit, TypeNext, PTL DEF Spec
<1>2. TypeInv /\ ResourceInv /\ LatchInv => TypeOK
  BY DEF TypeInv, ResourceInv, LatchInv, TypeOK
<1>3. QED
  BY <1>1, <1>2, ResourceInvariant, LatchInvariant, PTL
=============================================================================
