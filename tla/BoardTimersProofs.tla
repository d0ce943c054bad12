-------------------------- MODULE BoardTimersProofs --------------------------
(***************************************************************************)
(* The timing properties of BoardTimers for every value of the constants.  *)
(***************************************************************************)
EXTENDS BoardTimers, TLAPS

(* Where the iteration is bounds both stamps: `Late' is the most that the  *)
(* sample can be overdue there, `Quietest' the longest the board can have  *)
(* been without a transmission.  Neither TelemetryPrompt nor PingUnreachable*)
(* is inductive without them.                                              *)
Late ==
    /\ pc = "pause"     => due >= 0
    /\ pc = "poll"      => due >= -Pause
    /\ pc = "wait"      => due >= -(Pause + PollTimeout)
    /\ pc = "pong"      => due >= -Stretch
    /\ pc = "keepalive" => due >= -(Stretch + MaxCall)
    /\ pc = "telemetry" => due >= -Iteration
    /\ pc = "closed"    => due = 0

(* A sample resets both stamps and a pong only last_mqtt_tx, so the idle   *)
(* time never exceeds what has elapsed of the telemetry interval.          *)
Linked == pc # "closed" => idle <= TelemetryInterval - due

Quietest ==
    /\ pc = "poll" => idle <= TelemetryInterval + Pause
    /\ pc = "wait" => idle <= TelemetryInterval + Pause + PollTimeout
    /\ pc \in {"pong", "keepalive", "telemetry"} => idle <= TelemetryInterval + Stretch
    /\ pc = "closed" => idle = 0

(* The packet left before the call returned that set last_mqtt_tx. *)
GapBound == gap <= idle + MaxCall

(* The two halves of TypeOK, which different provers decide. *)
Stamps ==
    /\ pc \in {"poll", "wait", "pong", "keepalive", "telemetry", "pause", "closed"}
    /\ idle \in Nat
    /\ due \in Int /\ due <= TelemetryInterval
    /\ gap \in Nat

Flags ==
    /\ ping_requested \in BOOLEAN
    /\ overrun \in BOOLEAN
    /\ unanswered \in BOOLEAN

TimerBounds == Stamps /\ Late /\ Linked /\ Quietest /\ GapBound

TimerInv == TimerBounds /\ Flags

LEMMA TimerInvInit == Init => TimerInv
<1>1. Init => TimerBounds
  BY TimesAssumption
     DEF Init, TimerBounds, Stamps, Late, Linked, Quietest, GapBound, Stretch, Iteration
<1>2. Init => Flags
  BY DEF Init, Flags
<1>3. QED
  BY <1>1, <1>2 DEF TimerInv

LEMMA FlagsNext == Flags /\ [Next]_vars => Flags'
<1> SUFFICES ASSUME Flags, [Next]_vars PROVE Flags'
  OBVIOUS
<1> USE DEF Flags, Silent, Transmits
<1>1. CASE Poll
  BY <1>1, Zenon DEF Poll
<1>2. CASE WaitMessage
  BY <1>2, Zenon DEF WaitMessage
<1>3. CASE PublishPong
  BY <1>3, Zenon DEF PublishPong
<1>4. CASE NotIdle
  BY <1>4, Zenon DEF NotIdle
<1>5. CASE Ping
  BY <1>5, Zenon DEF Ping
<1>6. CASE PublishCounter
  BY <1>6, Zenon DEF PublishCounter
<1>7. CASE Sleep
  BY <1>7, Zenon DEF Sleep
<1>8. CASE Break
  BY <1>8, Zenon DEF Break
<1>9. CASE NewSession
  BY <1>9, Zenon DEF NewSession
<1>10. CASE UNCHANGED vars
  BY <1>10, Zenon DEF vars
<1>11. QED
  BY <1>1, <1>2, <1>3, <1>4, <1>5, <1>6, <1>7, <1>8, <1>9, <1>10 DEF Next

LEMMA BoundsNext == TimerBounds /\ [Next]_vars => TimerBounds'
<1> SUFFICES ASSUME TimerBounds, [Next]_vars PROVE TimerBounds'
  OBVIOUS
<1> USE TimesAssumption
    DEF TimerBounds, Stamps, Late, Linked, Quietest, GapBound, Stretch, Iteration
<1>1. CASE Poll
  BY <1>1 DEF Poll, Silent
<1>2. CASE WaitMessage
  <2>1. PICK d \in 0 .. MaxWait : idle' = idle + d /\ due' = due - d /\ gap' = gap + d
    BY <1>2 DEF WaitMessage, Silent
  <2>2. pc = "wait" /\ pc' = "pong"
    BY <1>2 DEF WaitMessage
  <2>3. QED
    BY <2>1, <2>2
<1>3. CASE PublishPong
  <2>1. pc = "pong" /\ pc' = "keepalive"
    BY <1>3 DEF PublishPong
  <2>2. \/ idle' = idle /\ due' = due /\ gap' = gap
        \/ \E d \in 0 .. MaxCall : idle' = 0 /\ gap' = 0 /\ due' = due - d
    BY <1>3 DEF PublishPong, Silent, Transmits
  <2>3. QED
    BY <2>1, <2>2
<1>4. CASE NotIdle
  BY <1>4 DEF NotIdle
<1>5. CASE Ping
  <2>1. pc = "keepalive" /\ pc' = "telemetry"
    BY <1>5 DEF Ping
  <2>2. \E d \in 0 .. MaxCall : \E ago \in 0 .. d : idle' = 0 /\ gap' = ago /\ due' = due - d
    BY <1>5 DEF Ping, Transmits
  <2>3. QED
    BY <2>1, <2>2
<1>6. CASE PublishCounter
  <2>1. pc = "telemetry" /\ pc' = "pause"
    BY <1>6 DEF PublishCounter
  <2>2. \/ due > 0 /\ idle' = idle /\ due' = due /\ gap' = gap
        \/ idle' = 0 /\ gap' = 0 /\ due' = TelemetryInterval
    BY <1>6 DEF PublishCounter, Silent, Transmits
  <2>3. QED
    BY <2>1, <2>2
<1>7. CASE Sleep
  BY <1>7 DEF Sleep, Silent
<1>8. CASE Break
  <2>1. pc' = "closed" /\ idle' = 0 /\ due' = 0 /\ gap' = 0
    BY <1>8 DEF Break
  <2>2. QED
    BY <2>1
<1>9. CASE NewSession
  BY <1>9 DEF NewSession, Stamped
<1>10. CASE UNCHANGED vars
  BY <1>10 DEF vars
<1>11. QED
  BY <1>1, <1>2, <1>3, <1>4, <1>5, <1>6, <1>7, <1>8, <1>9, <1>10 DEF Next

THEOREM TimerInvariant == Spec => []TimerInv
<1>1. TimerInv /\ [Next]_vars => TimerInv'
  BY FlagsNext, BoundsNext DEF TimerInv
<1>2. QED
  BY <1>1, TimerInvInit, PTL DEF Spec

(* The stamps, the flags and the program counter of the inner loop keep    *)
(* their types: main() never sees a negative idle time.                    *)
THEOREM TimersTypeCorrect == Spec => []TypeOK
<1>1. TimerInv => TypeOK
  BY Zenon DEF TimerInv, TimerBounds, Stamps, Flags, TypeOK
<1>2. QED
  BY <1>1, TimerInvariant, PTL

(* A due sample is published within one iteration of main()'s inner loop,  *)
(* whatever the lengths of its calls.                                      *)
THEOREM TelemetryIsPrompt == Spec => []TelemetryPrompt
<1>1. TimerInv => TelemetryPrompt
  BY TimesAssumption
     DEF TimerInv, TimerBounds, Stamps, Late, TelemetryPrompt, Stretch, Iteration
<1>2. QED
  BY <1>1, TimerInvariant, PTL

(* MqttClient_Ping is never called while an iteration is shorter than the  *)
(* difference of the two intervals, as with the source's 10 s and 20 s.    *)
THEOREM PingIsUnreachable == Spec => []PingUnreachable
<1>1. TimerInv => PingUnreachable
  BY TimesAssumption DEF TimerInv, TimerBounds, Stamps, Quietest, PingUnreachable, Stretch
<1>2. QED
  BY <1>1, TimerInvariant, PTL

(* Whenever the board pings, its next sample is overdue in the same        *)
(* iteration.                                                              *)
THEOREM PingIsRedundant == Spec => []PingRedundant
<1>1. TimerInv => PingRedundant
  BY TimesAssumption DEF TimerInv, TimerBounds, Stamps, Linked, PingRedundant
<1>2. QED
  BY <1>1, TimerInvariant, PTL

-----------------------------------------------------------------------------
(* The keep alive that CONNECT announces has to leave room for one silent  *)
(* iteration, the call that ends it and the call before it.                *)
Roomy == TelemetryInterval + Stretch + MaxCall + MaxCall <= KeepAlive

LEMMA OverrunNext ==
  ASSUME Roomy
  PROVE  TimerInv /\ ~overrun /\ [Next]_vars => ~overrun'
<1> SUFFICES ASSUME TimerInv, ~overrun, [Next]_vars PROVE ~overrun'
  OBVIOUS
<1> DEFINE InTime(d, ago) == gap + d - ago <= KeepAlive
<1>1. ASSUME pc \in {"pong", "keepalive", "telemetry"},
             NEW d \in 0 .. MaxCall, NEW ago \in 0 .. d
      PROVE  InTime(d, ago)
  BY <1>1, TimesAssumption
     DEF Roomy, TimerInv, TimerBounds, Stamps, Quietest, GapBound, Stretch
<1>2. ASSUME pc \in {"pong", "telemetry"}, NEW d \in 0 .. MaxCall
      PROVE  InTime(d, 0)
  <2>1. 0 \in 0 .. d
    BY TimesAssumption
  <2>2. QED
    BY <1>1, <1>2, <2>1
<1>3. CASE PublishPong
  <2>1. pc \in {"pong", "telemetry"}
    BY <1>3 DEF PublishPong
  <2>2. \/ overrun' = overrun
        \/ \E d \in 0 .. MaxCall : overrun' = (overrun \/ ~InTime(d, 0))
    <3>1. ASSUME NEW d \in 0 .. MaxCall
          PROVE  (gap + d - 0 > KeepAlive) = ~InTime(d, 0)
      BY TimesAssumption DEF TimerInv, TimerBounds, Stamps
    <3>2. QED
      BY <1>3, <3>1, Zenon DEF PublishPong, Silent, Transmits
  <2>3. QED
    BY <1>2, <2>1, <2>2, Zenon
<1>4. CASE Ping
  <2>1. pc \in {"pong", "keepalive", "telemetry"}
    BY <1>4 DEF Ping
  <2>2. \E d \in 0 .. MaxCall : \E ago \in 0 .. d : overrun' = (overrun \/ ~InTime(d, ago))
    <3>1. ASSUME NEW d \in 0 .. MaxCall, NEW ago \in 0 .. d
          PROVE  (gap + d - ago > KeepAlive) = ~InTime(d, ago)
      BY TimesAssumption DEF TimerInv, TimerBounds, Stamps
    <3>2. QED
      BY <1>4, <3>1, Zenon DEF Ping, Transmits
  <2>3. QED
    BY <1>1, <2>1, <2>2, Zenon
<1>5. CASE PublishCounter
  <2>1. pc \in {"pong", "telemetry"}
    BY <1>5 DEF PublishCounter
  <2>2. \/ overrun' = overrun
        \/ \E d \in 0 .. MaxCall : overrun' = (overrun \/ ~InTime(d, 0))
    <3>1. ASSUME NEW d \in 0 .. MaxCall
          PROVE  (gap + d - 0 > KeepAlive) = ~InTime(d, 0)
      BY TimesAssumption DEF TimerInv, TimerBounds, Stamps
    <3>2. QED
      BY <1>5, <3>1, Zenon DEF PublishCounter, Silent, Transmits
  <2>3. QED
    BY <1>2, <2>1, <2>2, Zenon
<1>6. CASE Poll \/ WaitMessage \/ NotIdle \/ Sleep \/ Break \/ NewSession \/ UNCHANGED vars
  BY <1>6, Zenon DEF Poll, WaitMessage, NotIdle, Sleep, Break, NewSession, Silent, vars
<1>7. QED
  BY <1>3, <1>4, <1>5, <1>6 DEF Next

(* The broker hears from the board at least every KeepAlive whenever the   *)
(* constants leave that room, as the source's do.                          *)
THEOREM KeepAliveIsKept ==
  ASSUME Roomy
  PROVE  Spec => []KeepAliveKept
<1>1. Init => ~overrun
  BY DEF Init
<1>2. TimerInv /\ ~overrun => KeepAliveKept
  <2> SUFFICES ASSUME TimerInv, ~overrun PROVE gap <= KeepAlive
    BY DEF KeepAliveKept
  <2>1. idle <= TelemetryInterval + Stretch
    BY TimesAssumption
       DEF TimerInv, TimerBounds, Stamps, Quietest, Late, Linked, Stretch
  <2>2. QED
    BY <2>1, TimesAssumption DEF TimerInv, TimerBounds, Stamps, GapBound, Roomy, Stretch
<1>3. QED
  BY <1>1, <1>2, TimerInvariant, OverrunNext, PTL DEF Spec

(* The values of the source, in milliseconds; MaxWait is the network's.    *)
Shipped ==
    /\ PollTimeout = 500 /\ WaitTimeout = 1000 /\ MaxCall = 5000 /\ Pause = 100
    /\ TelemetryInterval = 10000 /\ PingIdle = 20000 /\ KeepAlive = 30000

(* The board as it is shipped keeps the connection alive by its samples,   *)
(* and never calls MqttClient_Ping, as long as no MqttClient_WaitMessage   *)
(* takes 9.4 seconds; its timeout of one second is for each read of it.    *)
SamplesKeepAlive == KeepAliveKept /\ (pc = "keepalive" => idle < PingIdle)

THEOREM ShippedTimersHold ==
  ASSUME Shipped, MaxWait < 9400
  PROVE  Spec => []SamplesKeepAlive
<1>1. Roomy /\ TelemetryInterval + Stretch < PingIdle
  BY TimesAssumption DEF Shipped, Roomy, Stretch
<1>2. KeepAliveKept /\ PingUnreachable => SamplesKeepAlive
  BY <1>1 DEF SamplesKeepAlive, PingUnreachable
<1>3. Spec => []KeepAliveKept
  BY <1>1, KeepAliveIsKept
<1>4. QED
  BY <1>2, <1>3, PingIsUnreachable, PTL
=============================================================================
