---------------------------- MODULE BoardTimers ----------------------------
(***************************************************************************)
(* The timers of main()'s inner loop in firmware/src/main.c: how long each *)
(* call of an iteration takes, the last_mqtt_tx and next_telemetry time    *)
(* stamps, and the silence the broker sees.  BoardSession has the sockets, *)
(* the sessions and the messages.                                          *)
(*                                                                         *)
(* All times are counted in one unit; k_uptime_get() itself is not kept,   *)
(* only its distance to the two stamps, so nothing has to be bounded.      *)
(***************************************************************************)
EXTENDS Integers

CONSTANTS
    PollTimeout,        \* MQTT_POLL_TIMEOUT_MS
    WaitTimeout,        \* MQTT_WAIT_TIMEOUT_MS
    MaxWait,            \* longest MqttClient_WaitMessage: its timeout is per read
    MaxCall,            \* longest publish or ping: MQTT_CMD_TIMEOUT_MS
    Pause,              \* the k_sleep() that ends an iteration
    TelemetryInterval,  \* MQTT_TELEMETRY_INTERVAL_MS
    PingIdle,           \* MQTT_PING_IDLE_MS
    KeepAlive           \* MQTT_KEEPALIVE_SEC

ASSUME TimesAssumption ==
    /\ PollTimeout \in Nat /\ WaitTimeout \in Nat /\ MaxWait \in Nat
    /\ MaxCall \in Nat /\ Pause \in Nat /\ TelemetryInterval \in Nat
    /\ PingIdle \in Nat /\ KeepAlive \in Nat
    /\ WaitTimeout <= MaxWait

VARIABLES
    pc,
    idle,            \* k_uptime_get() - last_mqtt_tx
    due,             \* next_telemetry - k_uptime_get()
    ping_requested,
    gap,             \* time since the board's last packet left
    overrun,         \* history: a silence was longer than KeepAlive
    unanswered       \* history: WaitMessage timed out and no MQTT ping since

vars == <<pc, idle, due, ping_requested, gap, overrun, unanswered>>

TypeOK ==
    /\ pc \in {"poll", "wait", "pong", "keepalive", "telemetry", "pause", "closed"}
    /\ idle \in Nat
    /\ due \in Int /\ due <= TelemetryInterval
    /\ ping_requested \in BOOLEAN
    /\ gap \in Nat
    /\ overrun \in BOOLEAN
    /\ unanswered \in BOOLEAN

(* mqtt_connect_and_subscribe() has just returned: both stamps are set, the *)
(* SUBSCRIBE left at most MaxCall ago.                                      *)
Stamped ==
    /\ pc' = "poll" /\ idle' = 0 /\ due' = TelemetryInterval
    /\ gap' \in 0 .. MaxCall

Init ==
    /\ pc = "poll" /\ idle = 0 /\ due = TelemetryInterval
    /\ gap \in 0 .. MaxCall
    /\ ping_requested = FALSE /\ overrun = FALSE /\ unanswered = FALSE

Silent(d) ==
    /\ idle' = idle + d /\ due' = due - d /\ gap' = gap + d
    /\ UNCHANGED overrun

(* A call that takes d and whose packet leaves `ago' before it returns. *)
Transmits(d, ago) ==
    /\ idle' = 0 /\ gap' = ago
    /\ overrun' = (overrun \/ gap + d - ago > KeepAlive)

-----------------------------------------------------------------------------

BUG_Poll ==                 \* an idle poll goes straight to the next iteration
    /\ pc = "poll"
    /\ \/ \E d \in 0 .. PollTimeout : Silent(d) /\ pc' = "wait"
       \/ Silent(PollTimeout) /\ pc' = "poll"
    /\ UNCHANGED <<ping_requested, unanswered>>

Poll ==
    /\ pc = "poll"
    /\ \/ \E d \in 0 .. PollTimeout : Silent(d) /\ pc' = "wait"
       \/ Silent(PollTimeout) /\ pc' = "pong"
    /\ UNCHANGED <<ping_requested, unanswered>>

(* A command arrives, or the read times out; neither ends the iteration. *)
WaitMessage ==
    /\ pc = "wait"
    /\ \E d \in 0 .. MaxWait :
         /\ Silent(d)
         /\ \/ ping_requested' \in {ping_requested, TRUE} /\ UNCHANGED unanswered
            \/ d >= WaitTimeout /\ unanswered' = TRUE /\ UNCHANGED ping_requested
    /\ pc' = "pong"

BUG_PublishPong ==          \* a pong ends the iteration
    /\ pc = "pong"
    /\ \/ ~ping_requested /\ Silent(0) /\ pc' = "keepalive"
       \/ /\ ping_requested /\ pc' = "pause"
          /\ \E d \in 0 .. MaxCall : Transmits(d, 0) /\ due' = due - d
    /\ ping_requested' = FALSE
    /\ UNCHANGED unanswered

PublishPong ==
    /\ pc = "pong"
    /\ \/ ~ping_requested /\ Silent(0)
       \/ /\ ping_requested
          /\ \E d \in 0 .. MaxCall : Transmits(d, 0) /\ due' = due - d
    /\ ping_requested' = FALSE
    /\ pc' = "keepalive"
    /\ UNCHANGED unanswered

NotIdle ==
    /\ pc = "keepalive" /\ idle < PingIdle
    /\ pc' = "telemetry"
    /\ UNCHANGED <<idle, due, ping_requested, gap, overrun, unanswered>>

(* MqttClient_Ping: the request leaves, then the answer is awaited; other  *)
(* messages are handed to the callback meanwhile.                          *)
Ping ==
    /\ pc = "keepalive" /\ idle >= PingIdle
    /\ \E d \in 0 .. MaxCall : \E ago \in 0 .. d : Transmits(d, ago) /\ due' = due - d
    /\ ping_requested' \in {ping_requested, TRUE}
    /\ unanswered' = FALSE
    /\ pc' = "telemetry"

BUG_PublishCounter ==       \* last_mqtt_tx is not set after a sample
    /\ pc = "telemetry"
    /\ \/ due > 0 /\ Silent(0)
       \/ /\ due <= 0
          /\ \E d \in 0 .. MaxCall :
               /\ idle' = idle + d /\ gap' = 0 /\ due' = TelemetryInterval
               /\ UNCHANGED overrun
    /\ pc' = "pause"
    /\ UNCHANGED <<ping_requested, unanswered>>

PublishCounter ==
    /\ pc = "telemetry"
    /\ \/ due > 0 /\ Silent(0)
       \/ due <= 0 /\ \E d \in 0 .. MaxCall : Transmits(d, 0) /\ due' = TelemetryInterval
    /\ pc' = "pause"
    /\ UNCHANGED <<ping_requested, unanswered>>

BUG_Sleep ==                \* next_telemetry is moved on by the time slept
    /\ pc = "pause"
    /\ idle' = idle + Pause /\ gap' = gap + Pause /\ due' = due + Pause
    /\ pc' = "poll"
    /\ UNCHANGED <<ping_requested, unanswered, overrun>>

Sleep ==
    /\ pc = "pause"
    /\ Silent(Pause)
    /\ pc' = "poll"
    /\ UNCHANGED <<ping_requested, unanswered>>

(* A call that fails ends the session; its timers do not matter any more.  *)
(* A pong request is cleared before its publish fails; a command can be    *)
(* handed over before the read that follows it fails.                      *)
Break ==
    /\ \/ pc = "poll" /\ UNCHANGED ping_requested
       \/ pc = "wait" /\ ping_requested' \in {ping_requested, TRUE}
       \/ pc = "pong" /\ ping_requested /\ ping_requested' = FALSE
       \/ pc = "keepalive" /\ idle >= PingIdle /\ ping_requested' \in {ping_requested, TRUE}
       \/ pc = "telemetry" /\ due <= 0 /\ UNCHANGED ping_requested
    /\ pc' = "closed"
    /\ idle' = 0 /\ due' = 0 /\ gap' = 0 /\ unanswered' = FALSE
    /\ UNCHANGED overrun

(* ping_requested is a static variable: it outlives the session. *)
NewSession ==
    /\ pc = "closed"
    /\ Stamped
    /\ UNCHANGED <<ping_requested, overrun, unanswered>>

Next ==
    \/ Poll \/ WaitMessage \/ PublishPong \/ NotIdle \/ Ping
    \/ PublishCounter \/ Sleep \/ Break \/ NewSession

Spec == Init /\ [][Next]_vars

-----------------------------------------------------------------------------
(* Properties                                                              *)

(* An iteration's longest silent stretch, and its longest stretch at all. *)
Stretch   == Pause + PollTimeout + MaxWait
Iteration == Stretch + MaxCall + MaxCall

(* The broker hears from the board at least every KeepAlive, the time the  *)
(* CONNECT announced, however the calls of the iterations drag on.         *)
KeepAliveKept == ~overrun /\ gap <= KeepAlive

(* A sample that is due is published within one iteration, however many    *)
(* pings and commands are served first.                                    *)
TelemetryPrompt == due >= -Iteration

(* Telemetry resets last_mqtt_tx, so as long as an iteration cannot stall  *)
(* for the difference of the two intervals MqttClient_Ping is never called.*)
PingUnreachable ==
    (TelemetryInterval + Stretch < PingIdle /\ pc = "keepalive") => idle < PingIdle

(* When a stall does make the board ping, a sample is already overdue: the *)
(* explicit keepalive never is what keeps the connection alive.            *)
PingRedundant ==
    (TelemetryInterval <= PingIdle /\ pc = "keepalive" /\ idle >= PingIdle) => due <= 0

(* README, Implementation Notes: "when MqttClient_WaitMessage() returns a  *)
(* timeout, the firmware sends MqttClient_Ping()".                         *)
PingsOnTimeout == pc = "pause" => ~unanswered
=============================================================================
