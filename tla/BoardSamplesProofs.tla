------------------------- MODULE BoardSamplesProofs -------------------------
(***************************************************************************)
(* The telemetry samples of BoardSession: whatever sessions fail and       *)
(* whatever packets are lost, the broker reads them in the order taken and *)
(* none of them twice; and none is lost without a failure.  For that, what *)
(* a session starts from and what the inner loop may rely on.              *)
(***************************************************************************)
EXTENDS BoardSessionProofs

(* Every sample of s was taken before the count reached n. *)
Below(s, n) == \A i \in DOMAIN s : IsSample(s[i]) => s[i].n < n

Precede(s, t) ==
    \A i \in DOMAIN s : \A j \in DOMAIN t :
        IsSample(s[i]) /\ IsSample(t[j]) => s[i].n < t[j].n

(* SamplesIncrease alone is not inductive: the samples under way must be   *)
(* in order too, be later than those received and earlier than the next.   *)
SampleInv ==
    /\ InOrder(received) /\ InOrder(uplink)
    /\ Precede(received, uplink)
    /\ Below(received, counter) /\ Below(uplink, counter)

LEMMA NumbersAreNat ==
  ASSUME NEW s \in Seq(Packets)
  PROVE  \A i \in DOMAIN s : s[i].n \in Nat
<1>1. \A i \in DOMAIN s : s[i] \in Packets
  OBVIOUS
<1>2. QED
  BY <1>1 DEF Packets

LEMMA BelowGrows ==
  ASSUME NEW s \in Seq(Packets), NEW n \in Nat, Below(s, n)
  PROVE  Below(s, n + 1)
<1>1. SUFFICES ASSUME NEW i \in DOMAIN s, IsSample(s[i]) PROVE s[i].n < n + 1
  BY DEF Below
<1>2. s[i].n \in Nat /\ s[i].n < n
  BY <1>1, NumbersAreNat DEF Below
<1>3. QED
  BY <1>2

LEMMA EmptyInOrder ==
  ASSUME NEW s \in Seq(Packets), NEW n \in Nat
  PROVE  InOrder(<<>>) /\ Precede(s, <<>>) /\ Below(<<>>, n)
  BY DEF InOrder, Precede, Below

(* A pong is no sample. *)
LEMMA AppendPong ==
  ASSUME NEW s \in Seq(Packets), NEW r \in Seq(Packets), NEW n \in Nat,
         InOrder(s), Precede(r, s), Below(s, n)
  PROVE  /\ InOrder(Append(s, Pong)) /\ Precede(r, Append(s, Pong))
         /\ Below(Append(s, Pong), n)
<1> DEFINE t == Append(s, Pong)
<1>1. /\ DOMAIN t = 1 .. Len(s) + 1 /\ DOMAIN s = 1 .. Len(s) /\ Len(s) \in Nat
      /\ \A i \in 1 .. Len(s) : t[i] = s[i]
      /\ t[Len(s) + 1] = Pong
  OBVIOUS
<1>2. ~IsSample(Pong)
  BY DEF IsSample, Pong
<1>3. \A i \in DOMAIN t : IsSample(t[i]) => i \in DOMAIN s /\ t[i] = s[i]
  BY <1>1, <1>2
<1> HIDE DEF t
<1>4. InOrder(t) /\ Precede(r, t) /\ Below(t, n)
  BY <1>3 DEF InOrder, Precede, Below
<1>5. QED
  BY <1>4 DEF t

(* A new sample is later than everything before it. *)
LEMMA AppendSample ==
  ASSUME NEW s \in Seq(Packets), NEW r \in Seq(Packets), NEW n \in Nat,
         InOrder(s), Precede(r, s), Below(s, n), Below(r, n)
  PROVE  /\ InOrder(Append(s, Counter(n))) /\ Precede(r, Append(s, Counter(n)))
         /\ Below(Append(s, Counter(n)), n + 1)
<1> DEFINE t == Append(s, Counter(n))
<1>1. /\ DOMAIN t = 1 .. Len(s) + 1 /\ DOMAIN s = 1 .. Len(s) /\ Len(s) \in Nat
      /\ \A i \in 1 .. Len(s) : t[i] = s[i]
      /\ t[Len(s) + 1] = Counter(n)
  OBVIOUS
<1>2. Counter(n).n = n
  BY DEF Counter
<1>3. \A i \in DOMAIN t : (i \in DOMAIN s /\ t[i] = s[i]) \/ (i = Len(s) + 1 /\ t[i].n = n)
  BY <1>1, <1>2
<1>4. \A i \in DOMAIN s : s[i].n \in Nat
  BY NumbersAreNat
<1> HIDE DEF t
<1>5. InOrder(t)
  BY <1>1, <1>3 DEF InOrder, Below
<1>6. Precede(r, t)
  BY <1>3 DEF Precede, Below
<1>7. Below(t, n + 1)
  BY <1>3, <1>4 DEF Below
<1>8. QED
  BY <1>5, <1>6, <1>7 DEF t

(* The broker reads the oldest packet under way. *)
LEMMA HeadMoves ==
  ASSUME NEW s \in Seq(Packets), NEW r \in Seq(Packets), NEW n \in Nat, s # <<>>,
         InOrder(s), InOrder(r), Precede(r, s), Below(s, n), Below(r, n)
  PROVE  LET q == Append(r, Head(s))
         IN  /\ InOrder(q) /\ InOrder(Tail(s)) /\ Precede(q, Tail(s))
             /\ Below(q, n) /\ Below(Tail(s), n)
<1> DEFINE q == Append(r, Head(s))
           t == Tail(s)
<1>1. /\ DOMAIN q = 1 .. Len(r) + 1 /\ DOMAIN r = 1 .. Len(r) /\ Len(r) \in Nat
      /\ \A i \in 1 .. Len(r) : q[i] = r[i]
      /\ q[Len(r) + 1] = s[1]
  OBVIOUS
<1>2. /\ DOMAIN s = 1 .. Len(s) /\ Len(s) \in Nat \ {0} /\ DOMAIN t = 1 .. Len(s) - 1
      /\ \A i \in 1 .. Len(s) - 1 : t[i] = s[i + 1]
  OBVIOUS
<1>3. \A i \in DOMAIN q : (i \in DOMAIN r /\ q[i] = r[i]) \/ (i = Len(r) + 1 /\ q[i] = s[1])
  BY <1>1
<1>4. 1 \in DOMAIN s /\ \A i \in DOMAIN t : i + 1 \in DOMAIN s /\ t[i] = s[i + 1] /\ 1 < i + 1
  BY <1>2
<1>5. \A i, j \in DOMAIN t : i < j => i + 1 < j + 1
  BY <1>2
<1> HIDE DEF q, t
<1>6. InOrder(q)
  BY <1>1, <1>3, <1>4 DEF InOrder, Precede
<1>7. InOrder(t)
  BY <1>4, <1>5 DEF InOrder
<1>8. Precede(q, t)
  BY <1>3, <1>4 DEF Precede, InOrder
<1>9. Below(q, n) /\ Below(t, n)
  BY <1>3, <1>4 DEF Below
<1>10. QED
  BY <1>6, <1>7, <1>8, <1>9 DEF q, t

-----------------------------------------------------------------------------

(* What a step may do to the samples. *)
SampleStep ==
    \/ UNCHANGED <<received, uplink>> /\ counter' \in {counter, counter + 1}
    \/ UNCHANGED <<received, counter>> /\ uplink' = <<>>
    \/ UNCHANGED <<received, counter>> /\ uplink' = Append(uplink, Pong)
    \/ /\ UNCHANGED received /\ counter' = counter + 1
       /\ uplink' = Append(uplink, Counter(counter))
    \/ BrokerReads

LEMMA SampleSteps == [Next]_vars => SampleStep
<1> SUFFICES ASSUME [Next]_vars PROVE SampleStep
  OBVIOUS
<1>1. CASE ConnectAndSubscribe
  BY <1>1 DEF ConnectAndSubscribe, MqttInit, NetConnectOk, NetConnectFails, tls_setup_cb,
              Handshake, HandshakeOk, HandshakeContinues, HandshakeFails, HandshakeDeadline,
              AbortNetConnect, ConnectOk, SubscribeOk, ConnectOrSubscribeFails,
              ConnectFailed, NetDisconnect, network, SampleStep
<1>2. CASE PublishPong \/ PublishCounter
  BY <1>2 DEF PublishPong, PublishCounter, PublishOk, SampleStep
<1>3. CASE InnerLoop /\ ~PublishPong /\ ~PublishCounter
  BY <1>3 DEF InnerLoop, PollTimeout, PollReadable, PollFails, TakeMessage, MessageCallback,
              WaitTimeout, WaitFails, NoPong, PongFails, KeepaliveCheck, PingOk, PingFails,
              TelemetryNotDue, PublishCounterFails, CloseSession, NetDisconnect, network,
              SampleStep
<1>4. CASE Environment
  BY <1>4 DEF Environment, LinkDown, LinkUp, BrokerCloses, UplinkLost, HostSends, SampleStep
<1>5. CASE UNCHANGED vars
  BY <1>5 DEF vars, network, SampleStep
<1>6. QED
  BY <1>1, <1>2, <1>3, <1>4, <1>5 DEF Next, Board, InnerLoop

LEMMA SampleNext == TypeInv /\ SampleInv /\ [Next]_vars => SampleInv'
<1> SUFFICES ASSUME TypeInv, SampleInv, SampleStep PROVE SampleInv'
  BY SampleSteps
<1>0. uplink \in Seq(Packets) /\ received \in Seq(Packets) /\ counter \in Nat
  BY DEF TypeInv, ThreadOK, NetworkOK
<1> USE <1>0
<1>1. CASE UNCHANGED <<received, uplink>> /\ counter' \in {counter, counter + 1}
  BY <1>1, BelowGrows DEF SampleInv
<1>2. CASE UNCHANGED <<received, counter>> /\ uplink' = <<>>
  BY <1>2, EmptyInOrder DEF SampleInv
<1>3. CASE UNCHANGED <<received, counter>> /\ uplink' = Append(uplink, Pong)
  BY <1>3, AppendPong DEF SampleInv
<1>4. CASE /\ UNCHANGED received /\ counter' = counter + 1
           /\ uplink' = Append(uplink, Counter(counter))
  BY <1>4, AppendSample, BelowGrows DEF SampleInv
<1>5. CASE BrokerReads
  <2>1. /\ uplink # <<>> /\ counter' = counter
        /\ received' = Append(received, Head(uplink)) /\ uplink' = Tail(uplink)
    BY <1>5 DEF BrokerReads
  <2>2. QED
    BY <2>1, HeadMoves DEF SampleInv
<1>6. QED
  BY <1>1, <1>2, <1>3, <1>4, <1>5 DEF SampleStep

LEMMA SampleInit == Init => SampleInv
  BY DEF Init, SampleInv, InOrder, Precede, Below

LEMMA TypesAlways == Spec => []TypeInv
  BY TypeInit, TypeNext, PTL DEF Spec

(* The broker reads the samples in the order taken and none twice, over    *)
(* any number of sessions: the counter is kept by main(), not by a session.*)
THEOREM SamplesAreInOrder == Spec => []SamplesIncrease
<1>1. Spec => []SampleInv
  BY TypesAlways, SampleInit, SampleNext, PTL DEF Spec
<1>2. SampleInv => SamplesIncrease
  BY DEF SampleInv, SamplesIncrease
<1>3. QED
  BY <1>1, <1>2, PTL

-----------------------------------------------------------------------------
(* What a session starts from, and what the inner loop runs on             *)

Between == {"start", "net", "abort", "failed"}

(* How far a session has come with the broker.                             *)
ConnInv ==
    /\ pc \in {"start", "net"} => conn = "none"
    /\ pc \notin Between => conn # "none" /\ client.connected
    /\ conn = "none" => ~subscribed /\ inbox = <<>>
    /\ subscribed => conn = "est" /\ pc \in Loop \cup {"failed", "close"}
    /\ pc \in Loop /\ conn = "est" => subscribed
    /\ pc \notin Loop \cup {"failed", "close"} => inbox = <<>>

(* Actions of the thread that leave the connection alone.                  *)
SameConn ==
    /\ UNCHANGED <<client, conn, subscribed, inbox>>
    /\ \/ pc' = pc
       \/ pc' = "abort" /\ pc \notin Loop \cup {"failed", "close"}
       \/ pc' = "failed"
       \/ pc \in {"tls", "handshake", "again"} /\ pc' \in {"handshake", "again", "connect"}
       \/ pc = "connect" /\ pc' = "subscribe"
       \/ pc \in Loop /\ pc' \in Loop \cup {"close"}
       \/ pc = "start" /\ pc' = "net"

LEMMA SameConnKeeps == ConnInv /\ SameConn => ConnInv'
<1> SUFFICES ASSUME ConnInv, SameConn PROVE ConnInv'
  OBVIOUS
<1> USE DEF ConnInv, SameConn, Between, Loop
<1>1. QED
  OBVIOUS

LEMMA ConnNext == ResourceInv /\ ConnInv /\ [Next]_vars => ConnInv'
<1> SUFFICES ASSUME ResourceInv, ConnInv, [Next]_vars PROVE ConnInv'
  OBVIOUS
<1>t. client \in [connected : BOOLEAN, ctx : BOOLEAN]
  BY DEF ResourceInv, SocketsOK
<1>1. CASE MqttInit \/ NetConnectFails
  <2>1. /\ UNCHANGED <<conn, subscribed, inbox>>
        /\ pc \in {"start", "net"} /\ pc' \in {"net", "failed", "abort"}
    BY <1>1 DEF MqttInit, NetConnectFails, network
  <2>2. QED
    BY <1>1, <2>1 DEF ConnInv, Between, Loop, MqttInit, NetConnectFails
<1>2. CASE NetConnectOk
  <2>1. /\ client'.connected /\ conn' = "est" /\ pc = "net" /\ pc' = "tls"
        /\ UNCHANGED <<subscribed, inbox>>
    BY <1>t, <1>2 DEF NetConnectOk
  <2>2. QED
    BY <2>1 DEF ConnInv, Between, Loop
<1>3. CASE tls_setup_cb
  <2>1. /\ client'.connected = client.connected /\ pc = "tls"
        /\ pc' \in {"handshake", "abort"} /\ UNCHANGED <<conn, subscribed, inbox>>
    BY <1>t, <1>3 DEF tls_setup_cb, network
  <2>2. QED
    BY <2>1 DEF ConnInv, Between, Loop
<1>4. CASE Handshake \/ ConnectOk
  <2>1. SameConn
    BY <1>4 DEF Handshake, HandshakeOk, HandshakeContinues, HandshakeFails, HandshakeDeadline,
                ConnectOk, SameConn, sockets, network, Loop
  <2>2. QED
    BY <2>1, SameConnKeeps
<1>5. CASE AbortNetConnect \/ ConnectFailed \/ CloseSession
  <2>1. /\ conn' = "none" /\ ~subscribed' /\ inbox' = <<>> /\ pc' \in {"failed", "start"}
    BY <1>5 DEF AbortNetConnect, ConnectFailed, CloseSession, NetDisconnect
  <2>2. QED
    BY <2>1 DEF ConnInv, Between, Loop
<1>6. CASE SubscribeOk \/ ConnectOrSubscribeFails
  <2>1. /\ UNCHANGED <<client, conn, inbox>>
        /\ pc \in {"connect", "subscribe"}
        /\ \/ pc = "subscribe" /\ pc' = "poll" /\ subscribed' /\ conn = "est"
           \/ pc' = "failed" /\ (UNCHANGED subscribed \/ (conn = "est" /\ subscribed'))
    BY <1>6 DEF SubscribeOk, ConnectOrSubscribeFails, Usable, sockets
  <2>2. QED
    BY <2>1 DEF ConnInv, Between, Loop
<1>7. CASE PollTimeout \/ PollReadable \/ PollFails \/ NoPong \/ KeepaliveCheck
           \/ MessageCallback \/ WaitTimeout \/ WaitFails \/ PublishPong \/ PongFails
           \/ PingOk \/ PingFails \/ TelemetryNotDue \/ PublishCounter
           \/ PublishCounterFails
  <2>1. SameConn
    BY <1>7 DEF PollTimeout, PollReadable, PollFails, NoPong, KeepaliveCheck, MessageCallback,
                WaitTimeout, WaitFails, PublishPong, PongFails, PublishOk, PingOk, PingFails,
                TelemetryNotDue, PublishCounter, PublishCounterFails, SameConn, sockets,
                network, Loop
  <2>2. QED
    BY <2>1, SameConnKeeps
<1>8. CASE TakeMessage
  <2>1. /\ pc \in {"wait", "ping"} /\ inbox # <<>> /\ UNCHANGED <<pc, client, conn, subscribed>>
    BY <1>8 DEF TakeMessage, sockets
  <2>2. QED
    BY <2>1 DEF ConnInv, Between, Loop
<1>9. CASE BrokerCloses
  <2>1. /\ conn = "est" /\ conn' = "closed" /\ ~subscribed'
        /\ UNCHANGED <<pc, client, inbox>>
    BY <1>9 DEF BrokerCloses, thread, sockets
  <2>2. QED
    BY <2>1 DEF ConnInv, Between, Loop
<1>10. CASE \E m \in Payloads : HostSends(m)
  <2>1. /\ UNCHANGED <<pc, client, conn, subscribed>> /\ (~subscribed => inbox' = inbox)
    BY <1>10 DEF HostSends, thread, sockets
  <2>2. QED
    BY <2>1 DEF ConnInv, Between, Loop
<1>11. CASE LinkDown \/ LinkUp \/ BrokerReads \/ UplinkLost \/ UNCHANGED vars
  <2>1. SameConn
    BY <1>11 DEF LinkDown, LinkUp, BrokerReads, UplinkLost, vars, thread, sockets, network,
                 SameConn
  <2>2. QED
    BY <2>1, SameConnKeeps
<1>12. QED
  BY <1>1, <1>2, <1>3, <1>4, <1>5, <1>6, <1>7, <1>8, <1>9, <1>10, <1>11
     DEF Next, Board, ConnectAndSubscribe, InnerLoop, Environment

LEMMA ConnAlways == Spec => []ConnInv
<1>1. Init => ConnInv
  BY DEF Init, ConnInv, Between, Loop
<1>2. QED
  BY <1>1, ConnNext, ResourceInvariant, PTL DEF Spec

(* The inner loop runs on a socket, a TLS context and a client that is     *)
(* connected, and a broker that is still there has its subscription; until *)
(* then the session has read nothing and has nothing to read: a message of *)
(* an earlier session is never handed to mqtt_message_cb() in a later one. *)
SessionsAreWhole ==
    /\ pc \in Loop => /\ fd # NoFd /\ client.ctx /\ client.connected
                      /\ conn = "closed" \/ (conn = "est" /\ subscribed)
    /\ pc \in {"start", "net", "tls", "handshake", "again", "connect", "subscribe"}
          => inbox = <<>> /\ ~subscribed

THEOREM LoopIsConnected == Spec => []SessionsAreWhole
<1>1. TypeInv /\ ResourceInv /\ ConnInv => SessionsAreWhole
  <2>1. NetworkOK /\ Ownership /\ ConnInv => SessionsAreWhole
    BY DEF NetworkOK, Ownership, HasSocket, HasContext, ConnInv, SessionsAreWhole, Between,
           Loop
  <2>2. QED
    BY <2>1 DEF TypeInv, ResourceInv
<1>2. QED
  BY <1>1, TypesAlways, ResourceInvariant, ConnAlways, PTL

-----------------------------------------------------------------------------
(* Without a failure no sample is lost                                     *)

Holds(s, n) == \E k \in DOMAIN s : s[k] = Counter(n)

Arriving == \A n \in 0 .. counter - 1 : Holds(received, n) \/ Holds(uplink, n)

(* Without a failure the first session that gets into the inner loop stays *)
(* there, so no sample has been taken before.                              *)
Undisturbed ==
    /\ ble /\ conn # "closed" /\ pc # "close"
    /\ pc \in Connecting => counter = 0

LEMMA FaultlessStep ==
  ASSUME TypeInv, [Next]_vars, faults' = 0
  PROVE  faults = 0 /\ ~Fault
<1>1. faults \in Nat
  BY DEF TypeInv, NetworkOK
<1>2. ~Fault
  BY <1>1 DEF Fault
<1>3. faults' = faults
  BY <1>2 DEF Next, Board, ConnectAndSubscribe, InnerLoop, Environment, MqttInit,
         NetConnectOk, NetConnectFails, tls_setup_cb, Handshake, HandshakeOk,
         HandshakeContinues, HandshakeFails, HandshakeDeadline, AbortNetConnect, ConnectOk,
         SubscribeOk, ConnectOrSubscribeFails, ConnectFailed, PollTimeout, PollReadable,
         PollFails, TakeMessage, MessageCallback, WaitTimeout, WaitFails, NoPong, PublishPong,
         PongFails, KeepaliveCheck, PingOk, PingFails, TelemetryNotDue, PublishCounter,
         PublishCounterFails, CloseSession, LinkDown, LinkUp, BrokerCloses, HostSends,
         BrokerReads, UplinkLost, FailUnless, vars
<1>4. QED
  BY <1>2, <1>3

(* The steps that are left, and what they do to the samples.               *)
LEMMA UndisturbedSteps ==
  ASSUME TypeInv, ConnInv, Undisturbed, [Next]_vars, ~Fault
  PROVE  /\ Undisturbed'
         /\ \/ counter' = 0
            \/ UNCHANGED <<received, counter, uplink>>
            \/ UNCHANGED <<received, counter>> /\ uplink' = Append(uplink, Pong)
            \/ /\ UNCHANGED received /\ counter' = counter + 1
               /\ uplink' = Append(uplink, Counter(counter))
            \/ BrokerReads
<1> DEFINE Keeps == UNCHANGED <<received, counter, uplink>>
<1> USE DEF Undisturbed
<1>t. pc \in PCs /\ conn \in {"none", "est", "closed"}
  BY DEF TypeInv, ThreadOK, NetworkOK
<1>u. pc \in Loop => conn = "est" /\ Usable
  BY <1>t DEF ConnInv, Between, Loop, Usable
<1>1. CASE ConnectAndSubscribe
  <2>1. /\ pc \in Connecting /\ UNCHANGED <<ble, counter>> /\ pc' # "close"
        /\ conn' \in {conn, "est", "none"}
    BY <1>1 DEF ConnectAndSubscribe, MqttInit, NetConnectOk, NetConnectFails, tls_setup_cb,
                Handshake, HandshakeOk, HandshakeContinues, HandshakeFails,
                HandshakeDeadline, AbortNetConnect, ConnectOk, SubscribeOk,
                ConnectOrSubscribeFails, ConnectFailed, NetDisconnect, network, Connecting
  <2>2. QED
    BY <2>1
<1>2. CASE PublishPong \/ PublishCounter
  <2>1. /\ pc \in Loop /\ pc' \in Loop /\ UNCHANGED <<ble, conn>>
    BY <1>2 DEF PublishPong, PublishCounter, PublishOk, Loop
  <2>2. \/ UNCHANGED <<received, counter>> /\ uplink' = Append(uplink, Pong)
        \/ /\ UNCHANGED received /\ counter' = counter + 1
           /\ uplink' = Append(uplink, Counter(counter))
    BY <1>2, <1>u, <2>1 DEF PublishPong, PublishCounter, PublishOk
  <2>3. pc' \notin Connecting \cup {"close"}
    BY <2>1 DEF Loop, Connecting
  <2>4. QED
    BY <2>1, <2>2, <2>3
<1>3. CASE InnerLoop /\ ~PublishPong /\ ~PublishCounter
  <2>1. ~(PollFails \/ WaitFails \/ PongFails \/ PingFails \/ PublishCounterFails)
    BY <1>u DEF PollFails, WaitFails, PongFails, PingFails, PublishCounterFails, FailUnless,
                Loop
  <2>2. pc \in Loop /\ pc' \in Loop /\ UNCHANGED <<ble, conn>> /\ Keeps
    BY <1>3, <2>1 DEF InnerLoop, PollTimeout, PollReadable, TakeMessage, MessageCallback,
                WaitTimeout, NoPong, KeepaliveCheck, PingOk, TelemetryNotDue, CloseSession,
                network, Loop
  <2>3. pc' \notin Connecting \cup {"close"}
    BY <2>2 DEF Loop, Connecting
  <2>4. QED
    BY <2>2, <2>3
<1>4. CASE UplinkLost
  <2>1. pc \in Connecting
    BY <1>t, <1>u, <1>4 DEF UplinkLost, PCs
  <2>2. counter' = 0 /\ UNCHANGED <<pc, ble, conn>>
    BY <1>4, <2>1 DEF UplinkLost, thread
  <2>3. QED
    BY <2>2
<1>5. CASE BrokerReads
  BY <1>5 DEF BrokerReads, thread
<1>6. CASE LinkDown \/ BrokerCloses
  BY <1>6 DEF LinkDown, BrokerCloses
<1>7. CASE LinkUp \/ (\E m \in Payloads : HostSends(m)) \/ UNCHANGED vars
  BY <1>7 DEF LinkUp, HostSends, vars, thread, network
<1>8. QED
  BY <1>1, <1>2, <1>3, <1>4, <1>5, <1>6, <1>7 DEF Next, Board, Environment, InnerLoop

LEMMA ArrivingAppends ==
  ASSUME NEW s \in Seq(Packets), NEW p \in Packets, NEW n
  PROVE  /\ Holds(s, n) => Holds(Append(s, p), n)
         /\ p = Counter(n) => Holds(Append(s, p), n)
<1>1. /\ DOMAIN Append(s, p) = 1 .. Len(s) + 1 /\ DOMAIN s = 1 .. Len(s) /\ Len(s) \in Nat
      /\ \A k \in 1 .. Len(s) : Append(s, p)[k] = s[k]
      /\ Append(s, p)[Len(s) + 1] = p
  OBVIOUS
<1>2. Len(s) + 1 \in DOMAIN Append(s, p) /\ DOMAIN s \subseteq DOMAIN Append(s, p)
  BY <1>1
<1>3. QED
  BY <1>1, <1>2, Zenon DEF Holds

LEMMA ArrivingMoves ==
  ASSUME NEW s \in Seq(Packets), NEW r \in Seq(Packets), s # <<>>, NEW n,
         Holds(r, n) \/ Holds(s, n)
  PROVE  Holds(Append(r, Head(s)), n) \/ Holds(Tail(s), n)
<1>1. CASE Holds(r, n)
  BY <1>1 DEF Holds
<1>2. CASE Holds(s, n)
  <2>1. PICK k \in 1 .. Len(s) : s[k] = Counter(n)
    BY <1>2 DEF Holds
  <2>2. CASE k = 1
    <3>1. Append(r, Head(s))[Len(r) + 1] = Counter(n) /\ Len(r) + 1 \in DOMAIN Append(r, Head(s))
      BY <2>1, <2>2
    <3>2. QED
      BY <3>1 DEF Holds
  <2>3. CASE k # 1
    <3>1. k - 1 \in DOMAIN Tail(s) /\ Tail(s)[k - 1] = s[k]
      BY <2>1, <2>3
    <3>2. QED
      BY <2>1, <3>1 DEF Holds
  <2>4. QED
    BY <2>2, <2>3
<1>3. QED
  BY <1>1, <1>2

LEMMA ArrivingNext ==
  ASSUME TypeInv, ConnInv, Undisturbed, Arriving, [Next]_vars, ~Fault
  PROVE  Arriving'
<1>t. received \in Seq(Packets) /\ uplink \in Seq(Packets) /\ counter \in Nat
  BY DEF TypeInv, ThreadOK, NetworkOK
<1>1. CASE counter' = 0
  BY <1>1 DEF Arriving
<1>2. CASE UNCHANGED <<received, counter, uplink>>
  BY <1>2 DEF Arriving
<1>3. CASE UNCHANGED <<received, counter>> /\ uplink' = Append(uplink, Pong)
  <2>1. Pong \in Packets
    BY DEF Pong, Packets
  <2>2. QED
    BY <1>3, <1>t, <2>1, ArrivingAppends DEF Arriving
<1>4. CASE /\ UNCHANGED received /\ counter' = counter + 1
           /\ uplink' = Append(uplink, Counter(counter))
  <2>1. Counter(counter) \in Packets
    BY <1>t DEF Counter, Packets
  <2>2. SUFFICES ASSUME NEW n \in 0 .. counter' - 1
                 PROVE  Holds(received', n) \/ Holds(uplink', n)
    BY DEF Arriving
  <2>3. n \in 0 .. counter - 1 \/ n = counter
    BY <1>4, <1>t
  <2>4. QED
    BY <1>4, <1>t, <2>1, <2>3, ArrivingAppends DEF Arriving
<1>5. CASE BrokerReads
  <2>1. /\ uplink # <<>> /\ counter' = counter
        /\ received' = Append(received, Head(uplink)) /\ uplink' = Tail(uplink)
    BY <1>5 DEF BrokerReads
  <2>2. QED
    BY <1>t, <2>1, ArrivingMoves DEF Arriving
<1>6. QED
  BY <1>1, <1>2, <1>3, <1>4, <1>5, UndisturbedSteps

(* It takes a failing call, a broker that closes or a link that drops to   *)
(* end a session or to lose a sample: without one the board never gets to  *)
(* MqttClient_Disconnect, and each sample has been read by the broker or   *)
(* is under way to it.                                                     *)
NothingLost == pc # "close" /\ Arriving

THEOREM OnlyFailuresLoseSamples == Spec => [](faults = 0 => NothingLost)
<1> DEFINE I == faults = 0 => Undisturbed /\ Arriving
<1>1. Init => I
  BY DEF Init, Undisturbed, Arriving
<1>2. TypeInv /\ ConnInv /\ I /\ [Next]_vars => I'
  <2> SUFFICES ASSUME TypeInv, ConnInv, I, [Next]_vars, faults' = 0
               PROVE  Undisturbed' /\ Arriving'
    OBVIOUS
  <2>1. faults = 0 /\ ~Fault
    BY FaultlessStep
  <2>2. QED
    BY <2>1, UndisturbedSteps, ArrivingNext
<1>3. I => (faults = 0 => NothingLost)
  BY DEF Undisturbed, NothingLost
<1>4. QED
  BY <1>1, <1>2, <1>3, TypesAlways, ConnAlways, PTL DEF Spec
=============================================================================
