----------------------- MODULE BrokerSupervisorProofs -----------------------
(***************************************************************************)
(* What the console and its broker supervisor keep, for every behaviour of *)
(* BrokerSupervisor: its state is finite, but the proof says why it holds. *)
(***************************************************************************)
EXTENDS BrokerSupervisor, TLAPS

(* A broker runs under a supervisor, and a supervisor under the pid that   *)
(* the console holds: a pid without a supervisor is one that has given up, *)
(* and a loop left without a reason is one whose broker has ended.         *)
Supervised ==
    /\ supervisor \in {"none", "clean", "start", "recover"} => broker = "none" /\ line = "none"
    /\ supervisor # "none" => BROKER_PID
    /\ BROKER_PID /\ supervisor = "none" => gave_up
    /\ left => BROKER_PID \/ gave_up \/ deaf
    /\ supervisor = "kill" /\ recover_reason = "none" => broker = "exited"

Inv == TypeOK /\ Supervised

(* No step of the console, the supervisor or a broker breaks it.           *)
LEMMA InvStep == Inv /\ [Next]_vars => Inv'
<1> SUFFICES ASSUME Inv, [Next]_vars PROVE Inv'
  OBVIOUS
<1> USE DEF Inv, TypeOK, Supervised, Reasons, console
<1>1. CASE start_broker
  BY <1>1 DEF start_broker, broker_running, PortBusy
<1>2. CASE stop_broker
  BY <1>2 DEF stop_broker, Stop, broker_running
<1>3. CASE CleanPort
  BY <1>3 DEF CleanPort
<1>4. CASE StartBroker
  BY <1>4 DEF StartBroker
<1>5. CASE ReadLine
  BY <1>5 DEF ReadLine
<1>6. CASE ReadEnd
  BY <1>6 DEF ReadEnd
<1>7. CASE ReadUnbound
  BY <1>7 DEF ReadUnbound
<1>8. CASE KillBroker
  BY <1>8 DEF KillBroker
<1>9. CASE Recover
  BY <1>9 DEF Recover
<1>10. CASE Bind
  BY <1>10 DEF Bind, PortBusy
<1>11. CASE HandshakeTimeout
  BY <1>11 DEF HandshakeTimeout
<1>12. CASE BrokerExits
  BY <1>12 DEF BrokerExits
<1>13. CASE LeftEnds
  BY <1>13 DEF LeftEnds
<1>14. CASE ForeignPort
  BY <1>14 DEF ForeignPort, PortBusy
<1>15. CASE UNCHANGED vars
  BY <1>15 DEF vars
<1> QED
  BY <1>1, <1>2, <1>3, <1>4, <1>5, <1>6, <1>7, <1>8, <1>9, <1>10, <1>11, <1>12, <1>13,
     <1>14, <1>15 DEF Next, Supervisor, Broker

(* The initial state satisfies it, so every state does.                    *)
LEMMA SupervisedAlways == Spec => []Inv
<1>1. Init => Inv
  BY DEF Init, Inv, TypeOK, Supervised, TimeoutsRestart, Reasons
<1> QED
  BY <1>1, InvStep, PTL DEF Spec

(* Type correctness; among the types, that the broker of the supervisor    *)
(* never listens on a port that another program, or a broker that has been *)
(* left there, holds (Bind, and who may take the port).                    *)
THEOREM SupervisorTypes == Spec => []TypeOK
<1>1. Inv => TypeOK
  BY DEF Inv
<1> QED
  BY <1>1, SupervisedAlways, PTL

(* stop_broker(), from "broker off" or cleanup(), leaves no broker behind  *)
(* unless a supervisor has ended by itself before, or a broker has         *)
(* outlived the signal of a stop.                                          *)
THEOREM StopLeavesNothing == Spec => []NothingLeft
<1>1. Inv => NothingLeft
  BY DEF Inv, TypeOK, Supervised, NothingLeft
<1> QED
  BY <1>1, SupervisedAlways, PTL

(* The loop of the supervisor (board_console.sh:916-956) ends by itself    *)
(* only when the broker it has started last has ended: never beside one    *)
(* that listens, or that has yet to find out whether it can.               *)
EndsWithItsBroker ==
    supervisor # "none" /\ supervisor' = "none" /\ BROKER_PID' => broker = "exited"

THEOREM SupervisorEndsWithItsBroker == Spec => [][EndsWithItsBroker]_vars
<1>1. Inv /\ [Next]_vars => [EndsWithItsBroker]_vars
  <2> SUFFICES ASSUME Inv, Next, supervisor # "none", supervisor' = "none", BROKER_PID'
               PROVE  broker = "exited"
    BY DEF EndsWithItsBroker
  <2>1. ~start_broker /\ ~stop_broker
    BY DEF start_broker, stop_broker
  <2>2. ~Broker /\ ~ForeignPort
    BY DEF Broker, Bind, HandshakeTimeout, BrokerExits, LeftEnds, ForeignPort
  <2>3. ReadUnbound \/ KillBroker
    BY <2>1, <2>2 DEF Next, Supervisor, CleanPort, StartBroker, ReadLine, ReadEnd, Recover
  <2> QED
    BY <2>3 DEF ReadUnbound, KillBroker, Inv, Supervised
<1> QED
  BY <1>1, SupervisedAlways, PTL DEF Spec
=============================================================================
