-------------------------- MODULE BrokerSupervisor --------------------------
(***************************************************************************)
(* The broker commands of scripts/board_console.sh and the supervisor that *)
(* start_broker() leaves in the background: it starts the broker as a      *)
(* coprocess, reads its log and starts it again after a TLS handshake      *)
(* timeout or a listen failure.                                            *)
(*                                                                         *)
(* BROKER_PROC_PID is the shell of the coprocess, not the broker it runs:  *)
(* a broker whose shell is killed goes on without a reader of its log, and *)
(* ends when it next prints.  It is called left here.  And bash drops the  *)
(* descriptors of a coprocess as soon as it has reaped its shell: a read   *)
(* that starts later is an unbound variable, at which "set -u" ends the    *)
(* supervisor, with lines of the broker unread.                            *)
(***************************************************************************)

VARIABLES
    prompt,             \* is the console at its prompt, or has it ended
    BROKER_PID,         \* does the console hold the pid of a supervisor
    supervisor,         \* what the supervisor is doing
    recover_reason,
    broker,             \* the broker of the coprocess
    line,               \* what it has printed last, if not read yet
    left,               \* does a broker listen whose shell has been killed
    foreign,            \* does another program listen on the port
    gave_up,            \* history: has a supervisor ended by itself
    deaf                \* history: has a broker outlived the signal of a stop

vars == <<prompt, BROKER_PID, supervisor, recover_reason, broker, line, left, foreign,
          gave_up, deaf>>

Reasons == {"none", "timeout", "listen"}

TypeOK ==
    /\ prompt \in BOOLEAN /\ BROKER_PID \in BOOLEAN
    /\ supervisor \in {"none", "clean", "start", "read", "kill", "recover"}
    /\ recover_reason \in Reasons
    /\ broker \in {"none", "starting", "listening", "exited"}
    /\ line \in Reasons
    /\ left \in BOOLEAN /\ foreign \in BOOLEAN /\ ~(left /\ foreign)
    /\ broker = "listening" => ~left /\ ~foreign
    /\ gave_up \in BOOLEAN /\ deaf \in BOOLEAN

Init ==
    /\ prompt = TRUE /\ BROKER_PID = FALSE
    /\ supervisor = "none" /\ recover_reason = "none"
    /\ broker = "none" /\ line = "none" /\ left = FALSE /\ foreign \in BOOLEAN
    /\ gave_up = FALSE /\ deaf = FALSE

PortBusy == broker = "listening" \/ left \/ foreign

-----------------------------------------------------------------------------
(* The console                                                             *)

broker_running == BROKER_PID /\ supervisor # "none"

(* Refused while a supervisor runs or the port does not become free.       *)
start_broker ==
    /\ prompt /\ ~broker_running /\ ~PortBusy
    /\ BROKER_PID' = TRUE /\ supervisor' = "clean" /\ recover_reason' = "none"
    /\ UNCHANGED <<prompt, broker, line, left, foreign, gave_up, deaf>>

BUG_Stop ==                 \* signals the supervisor, not its process group
    IF broker_running
    THEN /\ supervisor' = "none" /\ recover_reason' = "none"
         /\ UNCHANGED <<broker, line, left, deaf>>
    ELSE UNCHANGED <<supervisor, recover_reason, broker, line, left, deaf>>

(* TERM goes to the whole process group, so to a broker that has been left *)
(* by its shell, too.  The wait, and the KILL after it, only look at the   *)
(* supervisor, which ends at once: a broker that does not is left.  The    *)
(* port may be busy then, which only fails the command.                    *)
Stop ==
    IF broker_running
    THEN /\ supervisor' = "none" /\ recover_reason' = "none"
         /\ broker' = "none" /\ line' = "none"
         /\ left' \in {FALSE, left \/ broker = "listening"}
         /\ deaf' = (deaf \/ left')
    ELSE UNCHANGED <<supervisor, recover_reason, broker, line, left, deaf>>

(* "broker off", and cleanup() at the end of the console.  A supervisor    *)
(* that has ended by itself, and its brokers, are signalled nothing.       *)
stop_broker ==
    /\ prompt /\ Stop /\ BROKER_PID' = FALSE
    /\ prompt' \in BOOLEAN
    /\ UNCHANGED <<foreign, gave_up>>

console == <<prompt, BROKER_PID>>

-----------------------------------------------------------------------------
(* The supervisor                                                          *)

(* kill_port_state() and wait_port_available(), whose failure is ignored.  *)
CleanPort ==
    /\ supervisor = "clean" /\ supervisor' = "start"
    /\ UNCHANGED <<console, recover_reason, broker, line, left, foreign, gave_up,
                   deaf>>

StartBroker ==
    /\ supervisor = "start" /\ supervisor' = "read"
    /\ recover_reason' = "none" /\ broker' = "starting" /\ line' = "none"
    /\ UNCHANGED <<console, left, foreign, gave_up, deaf>>

BUG_ReadLine ==             \* leaves the loop without a reason to recover
    /\ supervisor = "read" /\ line # "none"
    /\ supervisor' = "kill" /\ line' = "none"
    /\ UNCHANGED <<console, recover_reason, broker, left, foreign, gave_up, deaf>>

ReadLine ==
    /\ supervisor = "read" /\ line # "none"
    /\ supervisor' = "kill" /\ recover_reason' = line /\ line' = "none"
    /\ UNCHANGED <<console, broker, left, foreign, gave_up, deaf>>

(* A read that has waited for a line returns at the end of the log.        *)
ReadEnd ==
    /\ supervisor = "read" /\ line = "none" /\ broker = "exited"
    /\ supervisor' = "kill"
    /\ UNCHANGED <<console, recover_reason, broker, line, left, foreign, gave_up, deaf>>

(* The coprocess has been reaped before the next read.                     *)
ReadUnbound ==
    /\ supervisor = "read" /\ broker = "exited"
    /\ supervisor' = "none" /\ gave_up' = TRUE /\ broker' = "none" /\ line' = "none"
    /\ UNCHANGED <<console, recover_reason, left, foreign, deaf>>

(* The shell of the broker is killed and waited for; a broker that listens *)
(* is left.  Without a reason to recover the supervisor ends.              *)
KillBroker ==
    /\ supervisor = "kill"
    /\ supervisor' = (IF recover_reason = "none" THEN "none" ELSE "recover")
    /\ gave_up' = (gave_up \/ recover_reason = "none")
    /\ broker' = "none" /\ line' = "none" /\ left' = (left \/ broker = "listening")
    /\ UNCHANGED <<console, recover_reason, foreign, deaf>>

(* The link is set up again, or the port waited for; neither may fail it.  *)
Recover ==
    /\ supervisor = "recover" /\ supervisor' = "clean"
    /\ UNCHANGED <<console, recover_reason, broker, line, left, foreign, gave_up, deaf>>

-----------------------------------------------------------------------------
(* The brokers and the port                                                *)

BUG_Bind ==                 \* SO_REUSEPORT: binds whoever listens
    /\ broker = "starting" /\ broker' = "listening"
    /\ UNCHANGED <<console, supervisor, recover_reason, line, left, foreign, gave_up, deaf>>

Bind ==
    /\ broker = "starting"
    /\ IF PortBusy THEN broker' = "exited" /\ line' = "listen"
                   ELSE broker' = "listening" /\ UNCHANGED line
    /\ UNCHANGED <<console, supervisor, recover_reason, left, foreign, gave_up, deaf>>

HandshakeTimeout ==
    /\ broker = "listening" /\ line = "none"
    /\ line' = "timeout"
    /\ UNCHANGED <<console, supervisor, recover_reason, broker, left, foreign, gave_up, deaf>>

BrokerExits ==
    /\ broker \in {"starting", "listening"}
    /\ broker' = "exited"
    /\ UNCHANGED <<console, supervisor, recover_reason, line, left, foreign, gave_up, deaf>>

(* A broker that has been left prints and ends, or goes on in silence.     *)
LeftEnds ==
    /\ left /\ left' = FALSE
    /\ UNCHANGED <<console, supervisor, recover_reason, broker, line, foreign, gave_up, deaf>>

ForeignPort ==
    /\ foreign \/ ~PortBusy
    /\ foreign' = ~foreign
    /\ UNCHANGED <<console, supervisor, recover_reason, broker, line, left, gave_up,
                   deaf>>

Supervisor == CleanPort \/ StartBroker \/ ReadLine \/ ReadEnd \/ ReadUnbound \/ KillBroker \/ Recover
Broker     == Bind \/ HandshakeTimeout \/ BrokerExits \/ LeftEnds

Next == start_broker \/ stop_broker \/ Supervisor \/ Broker \/ ForeignPort

Spec == Init /\ [][Next]_vars

(* The supervisor takes its next step: its waits have deadlines, or end    *)
(* with a shell that it has killed or a command that returns.              *)
FairSpec == Spec /\ WF_vars(Supervisor)

-----------------------------------------------------------------------------
(* Properties                                                              *)

(* README.md:356: "The broker started by `broker on` is automatically      *)
(* stopped when board_console.sh exits".  None is left behind then, nor    *)
(* after "broker off", unless a supervisor has ended by itself before or a *)
(* broker does not end when it is told to.                                 *)
NothingLeft == BROKER_PID \/ gave_up \/ deaf \/ (broker = "none" /\ ~left)

(* README.md:359-362: after a handshake timeout the console "starts the    *)
(* broker again": it does, unless it is stopped meanwhile or the broker    *)
(* ends before the line is read.  That the new broker can listen, and that *)
(* it will be started once more if it cannot, is not said.                 *)
TimeoutsRestart ==
    line = "timeout" ~> \/ supervisor = "start" \/ ~BROKER_PID
                        \/ supervisor = "read" /\ broker = "exited"

(* README.md:360: "the console stops that broker instance, clears stale    *)
(* TCP state, runs `connect` again [...] and starts the broker again".     *)
InstanceStopped == supervisor = "start" => ~left
=============================================================================
