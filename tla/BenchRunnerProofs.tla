-------------------------- MODULE BenchRunnerProofs --------------------------
(***************************************************************************)
(* BenchRunner for every set of cases, every split into sessions and any   *)
(* number of faults: its types, the rows it leaves, that it implements     *)
(* ResultLog, and what a measured row has been measured with.              *)
(***************************************************************************)
EXTENDS BenchRunner, SequenceTheorems, TLAPS

Between  == {"next", "done"}

(* Only a board with an image boots; a session has a job, and a broker has *)
(* a session.                                                              *)
Bootable  == board.stage # "idle" => image \in Images
InSession == /\ pc \notin Between => job \in Jobs
             /\ pc \in Between \cup {"cleanup", "broker", "record"} => proc = "none"

TypeInv == TypeOK /\ Bootable /\ InSession

LEMMA Sizes ==
  /\ FirmwareTotal \in Nat
  /\ \A k \in Int : BatchWarmup(k) \in Int
<1>1. Total \in Nat /\ SessionAttemptLimit \in Nat /\ Warmups \in Nat
  BY RunnerAssumption DEF Total
<1>2. FirmwareTotal \in Nat
  BY <1>1 DEF FirmwareTotal
<1>3. ASSUME NEW k \in Int PROVE BatchWarmup(k) \in Int
  <2>1. Consumed(k) \in Int
    BY <1>1 DEF Consumed
  <2>2. BatchSize(k) \in Int
    BY <1>1, <2>1 DEF BatchSize, Least
  <2>3. QED
    BY <1>1, <2>1, <2>2 DEF BatchWarmup, Least
<1>4. QED
  BY <1>2, <1>3

LEMMA JobsTyped ==
  ASSUME NEW j \in Jobs
  PROVE  /\ j.case \in Cases /\ Profile[j.case] \in Images
         /\ BatchWarmup(j.batch) \in Int /\ j # NoJob
<1>1. j.case \in Cases /\ j.batch \in Int
  BY DEF Jobs
<1>2. QED
  BY <1>1, Sizes, CasesAssumption DEF NoJob

-----------------------------------------------------------------------------
(* Rows                                                                    *)

(* What recording a session does: a row for each of some lines, at least   *)
(* one; those of a failed session or one without lines say nothing of the  *)
(* board.                                                                  *)
Recorded(status, warmups, lines) ==
    /\ pc = "record" /\ pc' = "next"
    /\ AddRows(status, warmups, lines)
    /\ lines # <<>> /\ lines \in Seq(Lines \cup {NoLine}) /\ warmups \in Int
    /\ status \in {"measured", "timeout", "error"}
    /\ status = "measured" => ~failed /\ lines = captured
    /\ failed => UNCHANGED flashed_key
    /\ ~failed => flashed_key' = IF flash_needed THEN Profile[job.case] ELSE flashed_key
    /\ untracked' = (untracked \/ (failed /\ flash_needed))
    /\ UNCHANGED <<schedule, failed, device, broker, captured, faults, unreset>>

LEMMA Recording ==
  ASSUME TypeInv, RecordSession \/ RecordError
  PROVE  \E status, warmups, lines : Recorded(status, warmups, lines)
<1>1. job \in Jobs /\ pc = "record" /\ captured \in Seq(Lines) /\ BatchWarmup(job.batch) \in Int
  BY JobsTyped DEF TypeInv, TypeOK, InSession, Between, RecordSession, RecordError
<1>2. /\ <<NoLine>> # <<>> /\ <<NoLine>> \in Seq(Lines \cup {NoLine})
      /\ captured \in Seq(Lines \cup {NoLine})
  BY <1>1
<1>b. failed \in BOOLEAN /\ untracked \in BOOLEAN
  BY DEF TypeInv, TypeOK
<1>3. CASE RecordSession
  <2>1. untracked' = (untracked \/ (failed /\ flash_needed))
    BY <1>3, <1>b DEF RecordSession
  <2>2. CASE captured = <<>>
    <3>1. Recorded("timeout", BatchWarmup(job.batch), <<NoLine>>)
      BY <1>1, <1>2, <1>3, <2>1, <2>2 DEF RecordSession, Recorded
    <3>2. QED
      BY <3>1
  <2>3. CASE captured # <<>>
    <3>1. Recorded("measured", BatchWarmup(job.batch), captured)
      BY <1>1, <1>2, <1>3, <2>1, <2>3 DEF RecordSession, Recorded
    <3>2. QED
      BY <3>1
  <2>4. QED
    BY <2>2, <2>3
<1>4. CASE RecordError
  <2>1. untracked' = (untracked \/ (failed /\ flash_needed))
    BY <1>4, <1>b DEF RecordError
  <2>2. Recorded("error", 0, <<NoLine>>)
    BY <1>1, <1>2, <1>4, <2>1 DEF RecordError, Recorded
  <2>3. QED
    BY <2>2
<1>5. QED
  BY <1>3, <1>4

(* The rows of the other cases stay; those of the job's case are followed  *)
(* by one for each line.                                                   *)
LEMMA RowsAdded ==
  ASSUME TypeInv, NEW status, NEW warmups, NEW lines, Recorded(status, warmups, lines)
  PROVE  LET c == job.case IN
         /\ c \in Cases /\ job \in Jobs
         /\ attempts' \in [Cases -> Seq(Rows)]
         /\ next_attempt_index' = [next_attempt_index EXCEPT ![c] = @ + Len(lines)]
         /\ Len(lines) \in Nat \ {0}
         /\ \A d \in Cases \ {c} : attempts'[d] = attempts[d]
         /\ Len(attempts'[c]) = Len(attempts[c]) + Len(lines)
         /\ \A k \in 1 .. Len(attempts[c]) : attempts'[c][k] = attempts[c][k]
         /\ \A k \in Len(attempts[c]) + 1 .. Len(attempts'[c]) :
               LET i == k - Len(attempts[c]) IN
               /\ i \in 1 .. Len(lines)
               /\ attempts'[c][k] = [index |-> next_attempt_index[c] + i - 1,
                                     warmup |-> i <= warmups, status |-> status,
                                     job |-> job, line |-> lines[i]]
<1> DEFINE c    == job.case
           News == renumber_session_attempts(status, warmups, lines)
<1>1. job \in Jobs /\ c \in Cases /\ lines \in Seq(Lines \cup {NoLine}) /\ lines # <<>>
  BY JobsTyped DEF TypeInv, InSession, Between, Recorded
<1>2. Len(lines) \in Nat \ {0} /\ \A k \in 1 .. Len(lines) : lines[k] \in Lines \cup {NoLine}
  BY <1>1, EmptySeq, ElementOfSeq
<1>3. /\ attempts \in [Cases -> Seq(Rows)] /\ next_attempt_index \in [Cases -> Nat]
      /\ attempts[c] \in Seq(Rows) /\ next_attempt_index[c] \in Nat
  BY <1>1 DEF TypeInv, TypeOK
<1>4. ASSUME NEW k \in 1 .. Len(lines)
      PROVE  [index |-> next_attempt_index[c] + k - 1, warmup |-> k <= warmups,
              status |-> status, job |-> job, line |-> lines[k]] \in Rows
  <2>1. next_attempt_index[c] + k - 1 \in Nat
    BY <1>2, <1>3
  <2>2. (k <= warmups) \in BOOLEAN
    BY DEF Recorded
  <2>3. QED
    BY <1>1, <1>2, <2>1, <2>2 DEF Rows, Recorded
<1>5. News \in Seq(Rows) /\ Len(News) = Len(lines)
      /\ \A k \in 1 .. Len(lines) :
            News[k] = [index |-> next_attempt_index[c] + k - 1, warmup |-> k <= warmups,
                       status |-> status, job |-> job, line |-> lines[k]]
  BY <1>2, <1>4, IsASeq DEF renumber_session_attempts
<1>6. attempts' = [attempts EXCEPT ![c] = attempts[c] \o News]
  BY <1>1, <1>3 DEF Recorded, AddRows
<1>7. /\ attempts[c] \o News \in Seq(Rows)
      /\ Len(attempts[c] \o News) = Len(attempts[c]) + Len(News)
      /\ \A k \in 1 .. Len(attempts[c]) + Len(News) :
            (attempts[c] \o News)[k] = IF k <= Len(attempts[c]) THEN attempts[c][k]
                                       ELSE News[k - Len(attempts[c])]
  BY <1>3, <1>5, ConcatProperties
<1>8. Len(attempts[c]) \in Nat /\ attempts'[c] = attempts[c] \o News
  BY <1>1, <1>3, <1>6
<1> HIDE DEF News
<1>9. \A k \in 1 .. Len(attempts[c]) : attempts'[c][k] = attempts[c][k]
  BY <1>2, <1>5, <1>7, <1>8
<1>10. \A k \in Len(attempts[c]) + 1 .. Len(attempts'[c]) :
          /\ k - Len(attempts[c]) \in 1 .. Len(lines)
          /\ attempts'[c][k] = News[k - Len(attempts[c])]
  BY <1>2, <1>5, <1>7, <1>8
<1>11. attempts' \in [Cases -> Seq(Rows)] /\ \A d \in Cases \ {c} : attempts'[d] = attempts[d]
  BY <1>1, <1>3, <1>6, <1>7
<1>12. next_attempt_index' = [next_attempt_index EXCEPT ![c] = @ + Len(lines)]
  BY DEF Recorded, AddRows
<1>13. QED
  BY <1>1, <1>2, <1>5, <1>7, <1>8, <1>9, <1>10, <1>11, <1>12

-----------------------------------------------------------------------------
(* Types                                                                   *)

Flags ==
    /\ reset_after_case \in BOOLEAN /\ failed \in BOOLEAN /\ flash_needed \in BOOLEAN
    /\ link \in BOOLEAN
    /\ unremoved \in BOOLEAN /\ untracked \in BOOLEAN /\ unreset \in BOOLEAN

LEMMA FlagsNext == Flags /\ [Next]_vars => Flags'
<1> SUFFICES ASSUME Flags, [Next]_vars PROVE Flags'
  OBVIOUS
<1> USE DEF Flags
<1>1. CASE PickJob \/ AllDone
  BY <1>1 DEF PickJob, AllDone, schedule, device, broker, results
<1>2. CASE cleanup_case_session
  BY <1>2 DEF cleanup_case_session, RemoveBroker, schedule, results
<1>3. CASE start_broker
  BY <1>3 DEF start_broker, schedule, device, results
<1>4. CASE BrokerReady \/ BrokerNotReady \/ StartSerial \/ SessionRaises \/ wait_for_attempts
  BY <1>4 DEF BrokerReady, BrokerNotReady, StartSerial, SessionRaises, wait_for_attempts, Raise,
              schedule, device, broker, results
<1>5. CASE FlashOk \/ FlashFails \/ reset_device
  BY <1>5 DEF FlashOk, FlashFails, reset_device, Raise, schedule, broker, results
<1>6. CASE BenchStart \/ IpspConnected \/ BenchReady \/ BoardPinged
  BY <1>6 DEF BenchStart, IpspConnected, BenchReady, BoardPinged, Proceed, schedule, broker,
              results
<1>7. CASE EndSession
  BY <1>7 DEF EndSession, Resets, LeavesBoard, RemoveBroker, schedule, results
<1>8. CASE RecordSession \/ RecordError
  BY <1>8 DEF RecordSession, RecordError, schedule, device, broker
<1>9. CASE BoardStarts \/ BoardMeasures
  BY <1>9 DEF BoardStarts, BoardMeasures, schedule, broker, results
<1>10. CASE BrokerOpens \/ BrokerListens \/ BrokerBindFails \/ BrokerDies
  BY <1>10 DEF BrokerOpens, BrokerListens, BrokerBindFails, BrokerDies, schedule,
               device, results, world
<1>11. CASE UNCHANGED vars
  BY <1>11 DEF vars, schedule, device, broker, results
<1>12. QED
  BY <1>1, <1>2, <1>3, <1>4, <1>5, <1>6, <1>7, <1>8, <1>9, <1>10, <1>11
     DEF Next, Runner, Board, Broker

Boards == [stage : {"idle", "booted", "running"}, left : 0 .. FirmwareTotal,
           job : Jobs \cup {NoJob}]

LEMMA TypeInit == Init => TypeInv
<1> SUFFICES ASSUME Init PROVE TypeInv
  OBVIOUS
<1>1. image \in Images \cup {Erased} /\ flashed_key = Erased
      /\ reset_after_case \in BOOLEAN /\ port \in Cases \cup {NoCase}
  BY Zenon DEF Init
<1>2. board \in [stage : {"idle", "booted", "running"}, left : 0 .. FirmwareTotal,
                 job : Jobs \cup {NoJob}]
  BY Sizes DEF Init
<1>3. attempts \in [Cases -> Seq(Rows)] /\ next_attempt_index \in [Cases -> Nat]
      /\ broker_log \subseteq Cases
  BY DEF Init
<1>4. captured \in Seq(Lines) /\ jobs \subseteq Jobs /\ job \in Jobs \cup {NoJob}
  BY DEF Init
<1>5. faults \in 0 .. MaxFaults
  BY RunnerAssumption DEF Init
<1>6. TypeOK
  BY <1>1, <1>2, <1>3, <1>4, <1>5 DEF Init, TypeOK, PCs
<1>7. Bootable /\ InSession
  BY DEF Init, Bootable, InSession, Between
<1>8. QED
  BY <1>6, <1>7 DEF TypeInv

LEMMA BoardTyped ==
  ASSUME TypeInv
  PROVE  /\ job \in Jobs => Rebooted \in Boards
         /\ Rebooted.stage # "idle" => image \in Images
         /\ board.stage # "idle" => Line \in Lines
<1>1. job \in Jobs => Rebooted \in Boards
  BY Sizes DEF Rebooted, Boards
<1>2. Rebooted.stage # "idle" => image \in Images
  BY DEF Rebooted, TypeInv, TypeOK
<1>3. board.stage # "idle" => Line \in Lines
  <2>1. board.job \in Jobs \cup {NoJob} /\ port \in Cases \cup {NoCase}
    BY DEF TypeInv, TypeOK
  <2>2. (IF link THEN port ELSE NoCase) \in Cases \cup {NoCase}
    BY <2>1
  <2>3. QED
    BY <2>1, <2>2 DEF Line, Lines, TypeInv, Bootable
<1>4. QED
  BY <1>1, <1>2, <1>3

Image   == image \in Images \cup {Erased} /\ board \in Boards
           /\ (board.stage # "idle" => image \in Images)
Brokers == /\ proc \in {"none", "starting", "opening", "listening", "exited"}
           /\ port \in Cases \cup {NoCase}
           /\ broker_log \subseteq Cases
Rowed   == /\ captured \in Seq(Lines) /\ attempts \in [Cases -> Seq(Rows)]
           /\ next_attempt_index \in [Cases -> Nat]

LEMMA TypeNext == TypeInv /\ [Next]_vars => TypeInv'
<1> SUFFICES ASSUME TypeInv, [Next]_vars PROVE TypeInv'
  OBVIOUS
<1>0. Flags'
  BY FlagsNext DEF TypeInv, TypeOK, Flags
<1>t. /\ pc \in PCs /\ jobs \subseteq Jobs /\ job \in Jobs \cup {NoJob}
      /\ flashed_key \in Images \cup {Erased} /\ faults \in 0 .. MaxFaults /\ Image
      /\ Brokers /\ Rowed /\ InSession
  BY DEF TypeInv, TypeOK, Image, Bootable, Brokers, Rowed, Boards
<1> SUFFICES
      /\ pc' \in PCs /\ jobs' \subseteq Jobs /\ job' \in Jobs \cup {NoJob}
      /\ flashed_key' \in Images \cup {Erased} /\ faults' \in 0 .. MaxFaults /\ Image'
      /\ Brokers' /\ Rowed' /\ InSession'
  BY <1>0 DEF TypeInv, TypeOK, Image, Bootable, Brokers, Rowed, Boards, Flags
<1> USE <1>t DEF Image, Brokers, Rowed, InSession, Between, PCs, Capturing
<1>f. ASSUME Fault PROVE faults' \in 0 .. MaxFaults
  BY <1>f, RunnerAssumption DEF Fault
<1>1. CASE PickJob
  BY <1>1 DEF PickJob, device, broker, results
<1>2. CASE AllDone
  BY <1>2 DEF AllDone, schedule, device, broker, results
<1>3. CASE cleanup_case_session
  <2>1. faults' \in 0 .. MaxFaults /\ port' \in Cases \cup {NoCase}
    BY <1>3, <1>f DEF cleanup_case_session, RemoveBroker
  <2>2. QED
    BY <1>3, <2>1 DEF cleanup_case_session, schedule, results
<1>4. CASE start_broker
  <2>1. faults' \in 0 .. MaxFaults /\ port' \in Cases \cup {NoCase}
        /\ proc' \in {"starting", "exited"}
    BY <1>4, <1>f DEF start_broker
  <2>2. QED
    BY <1>4, <2>1 DEF start_broker, schedule, device, results
<1>5. CASE BrokerReady \/ BrokerNotReady
  BY <1>5 DEF BrokerReady, BrokerNotReady, Raise, schedule, device, broker, results
<1>6. CASE FlashOk
  <2>1. pc = "flash" /\ job \in Jobs /\ Profile[job.case] \in Images
    BY <1>6, JobsTyped DEF FlashOk
  <2>2. image' \in Images \cup {Erased} /\ (board'.stage # "idle" => image' \in Images)
        /\ board' \in Boards
    BY <1>6, <2>1 DEF FlashOk, Boards
  <2>3. QED
    BY <1>6, <2>2 DEF FlashOk, schedule, broker, results
<1>7. CASE FlashFails
  <2>1. pc = "flash" /\ job \in Jobs /\ Profile[job.case] \in Images
    BY <1>7, JobsTyped DEF FlashFails
  <2>2. image' \in Images \cup {Erased} /\ (board'.stage # "idle" => image' \in Images)
        /\ board' \in Boards
    BY <1>7, <2>1 DEF FlashFails, Boards
  <2>3. QED
    BY <1>7, <1>f, <2>2 DEF FlashFails, Raise, schedule, broker, results
<1>8. CASE StartSerial
  BY <1>8 DEF StartSerial, schedule, device, broker, results
<1>9. CASE reset_device
  <2>1. board' = Rebooted /\ job \in Jobs /\ image' = image /\ link' = FALSE
    BY <1>9 DEF reset_device
  <2>2. QED
    BY <1>9, <2>1, BoardTyped DEF reset_device, schedule, broker, results
<1>10. CASE BenchStart \/ IpspConnected \/ BenchReady \/ BoardPinged
  BY <1>10 DEF BenchStart, IpspConnected, BenchReady, BoardPinged, Proceed, schedule, broker,
               results
<1>11. CASE SessionRaises
  BY <1>11, <1>f DEF SessionRaises, Raise, schedule, device, broker, results
<1>12. CASE wait_for_attempts
  BY <1>12, <1>f DEF wait_for_attempts, schedule, device, broker, results
<1>13. CASE EndSession
  <2>1. pc = "finally" /\ job \in Jobs
    BY <1>13 DEF EndSession, Resets, LeavesBoard
  <2>2. /\ board' \in {board, Rebooted} /\ link' \in {link, FALSE}
        /\ faults' \in 0 .. MaxFaults /\ port' \in {port, NoCase}
        /\ failed' \in {failed, TRUE} /\ unreset' \in {unreset, TRUE}
    <3>1. faults + 2 <= MaxFaults => faults + 2 \in 0 .. MaxFaults
      BY RunnerAssumption
    <3>b. failed \in BOOLEAN /\ reset_after_case \in BOOLEAN
      BY DEF TypeInv, TypeOK
    <3>2. QED
      BY <1>13, <1>f, <3>1, <3>b DEF EndSession, Resets, LeavesBoard, RemoveBroker
  <2>3. QED
    BY <1>13, <2>1, <2>2, BoardTyped DEF EndSession, Resets, LeavesBoard, schedule,
                                         results
<1>14. CASE RecordSession \/ RecordError
  <2>1. PICK status, warmups, lines : Recorded(status, warmups, lines)
    BY <1>14, Recording
  <2>2. /\ attempts' \in [Cases -> Seq(Rows)] /\ Len(lines) \in Nat /\ job \in Jobs
        /\ next_attempt_index' = [next_attempt_index EXCEPT ![job.case] = @ + Len(lines)]
        /\ job.case \in Cases
    BY <2>1, RowsAdded
  <2>3. next_attempt_index' \in [Cases -> Nat]
    BY <2>2
  <2>4. untracked' \in BOOLEAN /\ flashed_key' \in Images \cup {Erased}
    BY <2>1, <2>2, JobsTyped DEF Recorded
  <2>5. QED
    BY <2>1, <2>2, <2>3, <2>4 DEF Recorded, schedule, device, broker
<1>15. CASE BoardStarts
  BY <1>15 DEF BoardStarts, Boards, schedule, broker, results
<1>16. CASE BoardMeasures
  <2>0. board.left - 1 \in 0 .. FirmwareTotal
    BY <1>16, Sizes DEF BoardMeasures, Boards
  <2>1. board' \in Boards /\ board'.stage = board.stage
    BY <1>16, <2>0 DEF BoardMeasures, Boards
  <2>2. captured' \in Seq(Lines)
    BY <1>16, BoardTyped DEF BoardMeasures
  <2>3. QED
    BY <1>16, <2>1, <2>2 DEF BoardMeasures, schedule, broker, results
<1>17. CASE BrokerOpens \/ BrokerListens \/ BrokerBindFails
  <2>1. proc' \in {"opening", "listening", "exited"} /\ port' \in {port, job.case}
    BY <1>17 DEF BrokerOpens, BrokerListens, BrokerBindFails, world
  <2>2. port' \in Cases \cup {NoCase}
    BY <1>17, <2>1, JobsTyped, CasesAssumption DEF BrokerOpens, BrokerListens,
                                                   BrokerBindFails, NoJob, world
  <2>3. broker_log' \subseteq Cases
    <3>1. job.case \in Cases
      BY <1>17, JobsTyped DEF BrokerOpens, BrokerListens, BrokerBindFails
    <3>2. QED
      BY <1>17, <3>1 DEF BrokerOpens, BrokerListens, BrokerBindFails
  <2>4. QED
    BY <1>17, <2>1, <2>2, <2>3 DEF BrokerOpens, BrokerListens, BrokerBindFails,
                                   schedule, device, results, world
<1>18. CASE BrokerDies
  BY <1>18, <1>f DEF BrokerDies, schedule, device, results, world
<1>19. CASE UNCHANGED vars
  BY <1>19 DEF vars, schedule, device, broker, results
<1>20. QED
  BY <1>1, <1>2, <1>3, <1>4, <1>5, <1>6, <1>7, <1>8, <1>9, <1>10, <1>11, <1>12, <1>13, <1>14,
     <1>15, <1>16, <1>17, <1>18, <1>19 DEF Next, Runner, Board, Broker

THEOREM Typed == Spec => []TypeInv
  BY TypeInit, TypeNext, PTL DEF Spec

(* Every variable keeps its type, however the sessions fail.               *)
THEOREM TypesKept == Spec => []TypeOK
  BY Typed, PTL DEF TypeInv

-----------------------------------------------------------------------------
(* The rows of a case                                                      *)

(* Every other step leaves the rows as they are, and takes no session from *)
(* the schedule unless it is to be the next.                               *)
LEMMA Steps ==
  ASSUME TypeInv, [Next]_vars
  PROVE  \/ \E status, warmups, lines : Recorded(status, warmups, lines)
         \/ PickJob /\ UNCHANGED results
         \/ /\ UNCHANGED <<jobs, job, flash_needed, results>>
            /\ pc' \in Between <=> pc \in Between
<1>1. CASE RecordSession \/ RecordError
  BY <1>1, Recording
<1>2. CASE PickJob
  BY <1>2 DEF PickJob
<1>3. CASE AllDone \/ UNCHANGED vars
  BY <1>3 DEF AllDone, vars, schedule, Between
<1>4. CASE \/ cleanup_case_session \/ start_broker \/ BrokerReady \/ BrokerNotReady
           \/ FlashOk \/ FlashFails \/ StartSerial \/ reset_device
  BY <1>4 DEF cleanup_case_session, start_broker, BrokerReady, BrokerNotReady, FlashOk,
              FlashFails, StartSerial, reset_device, Raise, schedule, Between
<1>5. CASE \/ BenchStart \/ IpspConnected \/ BenchReady \/ BoardPinged
           \/ SessionRaises \/ wait_for_attempts \/ EndSession
  BY <1>5 DEF BenchStart, IpspConnected, BenchReady, BoardPinged, Proceed,
              SessionRaises, wait_for_attempts, EndSession, Resets, LeavesBoard, Raise,
              schedule, Between
<1>6. CASE Board \/ Broker
  BY <1>6 DEF Board, Broker, BoardStarts, BoardMeasures, BrokerOpens, BrokerListens,
              BrokerBindFails, BrokerDies, schedule, Between, world
<1>7. QED
  BY <1>1, <1>2, <1>3, <1>4, <1>5, <1>6 DEF Next, Runner

(* A session's rows come behind those of its case and are numbered on.     *)
LEMMA RowsGrow ==
  ASSUME TypeInv, RowsNumbered,
         NEW status, NEW warmups, NEW lines, Recorded(status, warmups, lines),
         NEW c, c = job.case
  PROVE  /\ c \in Cases /\ job \in Jobs
         /\ \A d \in Cases \ {c} : /\ attempts'[d] = attempts[d]
                                  /\ next_attempt_index'[d] = next_attempt_index[d]
         /\ next_attempt_index'[c] = Len(attempts'[c]) + 1
         /\ Len(attempts'[c]) > Len(attempts[c])
         /\ attempts[c] \in Seq(Rows) /\ attempts'[c] \in Seq(Rows)
         /\ \A k \in DOMAIN attempts[c] : /\ k \in DOMAIN attempts'[c]
                                         /\ attempts'[c][k] = attempts[c][k]
         /\ \A k \in DOMAIN attempts'[c] \ DOMAIN attempts[c] :
               attempts'[c][k].index = k /\ attempts'[c][k].job = job
<1> DEFINE old == Len(attempts[c])
           all == Len(attempts'[c])
<1>1. c \in Cases /\ job \in Jobs /\ Len(lines) \in Nat \ {0}
  BY RowsAdded
<1>2. attempts' \in [Cases -> Seq(Rows)] /\ attempts \in [Cases -> Seq(Rows)]
  BY RowsAdded DEF TypeInv, TypeOK
<1>3. /\ old \in Nat /\ DOMAIN attempts[c] = 1 .. old
      /\ all \in Nat /\ DOMAIN attempts'[c] = 1 .. all
  BY <1>1, <1>2, LenProperties
<1>4. all = old + Len(lines)
  BY RowsAdded
<1>5. next_attempt_index' = [next_attempt_index EXCEPT ![c] = @ + Len(lines)]
  BY RowsAdded
<1>6. next_attempt_index \in [Cases -> Nat] /\ next_attempt_index[c] = old + 1
  BY <1>1 DEF TypeInv, TypeOK, RowsNumbered
<1>7. next_attempt_index'[c] = all + 1
  BY <1>1, <1>3, <1>4, <1>5, <1>6
<1>8. \A d \in Cases \ {c} : next_attempt_index'[d] = next_attempt_index[d]
  BY <1>5, <1>6
<1>9. \A d \in Cases \ {c} : attempts'[d] = attempts[d]
  BY RowsAdded
<1>10. ASSUME NEW k \in DOMAIN attempts[c]
       PROVE  k \in DOMAIN attempts'[c] /\ attempts'[c][k] = attempts[c][k]
  <2>1. \A n \in 1 .. Len(attempts[c]) : attempts'[c][n] = attempts[c][n]
    BY RowsAdded
  <2>2. k \in 1 .. old /\ k \in 1 .. all
    BY <1>1, <1>3, <1>4
  <2>3. QED
    BY <1>3, <2>1, <2>2
<1>11. ASSUME NEW k \in DOMAIN attempts'[c] \ DOMAIN attempts[c]
       PROVE  attempts'[c][k].index = k /\ attempts'[c][k].job = job
  <2>1. k \in old + 1 .. all
    BY <1>1, <1>3, <1>4
  <2>2. attempts'[c][k] = [index |-> next_attempt_index[c] + (k - old) - 1,
                           warmup |-> (k - old) <= warmups, status |-> status,
                           job |-> job, line |-> lines[k - old]]
    <3>1. \A n \in Len(attempts[c]) + 1 .. Len(attempts'[c]) :
             attempts'[c][n] = [index |-> next_attempt_index[c] + (n - Len(attempts[c])) - 1,
                                warmup |-> (n - Len(attempts[c])) <= warmups,
                                status |-> status, job |-> job,
                                line |-> lines[n - Len(attempts[c])]]
      BY RowsAdded
    <3>2. QED
      BY <2>1, <3>1
  <2>3. next_attempt_index[c] + (k - old) - 1 = k
    BY <1>3, <1>6, <2>1
  <2>4. QED
    BY <2>2, <2>3
<1>12. all > old
  BY <1>1, <1>3, <1>4
<1>13. QED
  BY <1>1, <1>2, <1>7, <1>8, <1>9, <1>10, <1>11, <1>12

HasRow(j) == \E k \in DOMAIN attempts[j.case] : attempts[j.case][k].job = j

(* A session that is not on the schedule has a row, or is being run.       *)
RowsInv ==
    /\ TypeInv /\ RowsNumbered
    /\ \A j \in Jobs \ jobs : HasRow(j) \/ (pc \notin Between /\ j = job)
    /\ pc \notin Between => job \notin jobs

LEMMA RowsNext == RowsInv /\ [Next]_vars => RowsInv'
<1> SUFFICES ASSUME RowsInv, [Next]_vars PROVE RowsInv'
  OBVIOUS
<1>t. TypeInv /\ TypeInv' /\ RowsNumbered
  BY TypeNext DEF RowsInv
<1>1. ASSUME NEW status, NEW warmups, NEW lines, Recorded(status, warmups, lines)
      PROVE  RowsInv'
  <2>1. PICK c : c = job.case
    OBVIOUS
  <2>2. /\ c \in Cases /\ job \in Jobs
        /\ \A d \in Cases \ {c} : /\ attempts'[d] = attempts[d]
                                 /\ next_attempt_index'[d] = next_attempt_index[d]
        /\ next_attempt_index'[c] = Len(attempts'[c]) + 1
        /\ Len(attempts'[c]) > Len(attempts[c])
        /\ attempts[c] \in Seq(Rows) /\ attempts'[c] \in Seq(Rows)
    BY <1>1, <1>t, <2>1, RowsGrow
  <2>3. \A k \in DOMAIN attempts[c] : /\ k \in DOMAIN attempts'[c]
                                     /\ attempts'[c][k] = attempts[c][k]
    BY <1>1, <1>t, <2>1, RowsGrow
  <2>4. \A k \in DOMAIN attempts'[c] \ DOMAIN attempts[c] :
           attempts'[c][k].index = k /\ attempts'[c][k].job = job
    BY <1>1, <1>t, <2>1, RowsGrow
  <2>5. RowsNumbered'
    <3>1. ASSUME NEW d \in Cases, d # c
          PROVE  /\ \A k \in DOMAIN attempts'[d] : attempts'[d][k].index = k
                 /\ next_attempt_index'[d] = Len(attempts'[d]) + 1
      BY <1>t, <2>2, <3>1 DEF RowsNumbered
    <3>2. ASSUME NEW k \in DOMAIN attempts'[c] PROVE attempts'[c][k].index = k
      BY <1>t, <2>2, <2>3, <2>4 DEF RowsNumbered
    <3>3. QED
      BY <2>2, <3>1, <3>2 DEF RowsNumbered
  <2>6. pc \notin Between /\ pc' \in Between /\ jobs' = jobs /\ job' = job
    BY <1>1 DEF Recorded, schedule, Between
  <2>7. \E k \in DOMAIN attempts'[job.case] : attempts'[job.case][k].job = job
    <3>1. Len(attempts'[c]) \in DOMAIN attempts'[c] \ DOMAIN attempts[c]
      BY <2>2, LenProperties
    <3>2. QED
      BY <2>1, <2>4, <3>1
  <2>8. ASSUME NEW j \in Jobs, HasRow(j)
        PROVE  \E k \in DOMAIN attempts'[j.case] : attempts'[j.case][k].job = j
    <3>1. j.case \in Cases
      BY JobsTyped
    <3>2. CASE j.case = c
      BY <2>3, <2>8, <3>2 DEF HasRow
    <3>3. CASE j.case # c
      BY <2>2, <2>8, <3>1, <3>3 DEF HasRow
    <3>4. QED
      BY <3>2, <3>3
  <2>9. ASSUME NEW j \in Jobs \ jobs'
        PROVE  \E k \in DOMAIN attempts'[j.case] : attempts'[j.case][k].job = j
    <3>1. CASE j = job
      BY <2>7, <3>1
    <3>2. CASE HasRow(j)
      BY <2>8, <3>2
    <3>3. QED
      BY <2>6, <2>9, <3>1, <3>2 DEF RowsInv
  <2>10. QED
    BY <1>t, <2>5, <2>6, <2>9 DEF RowsInv, HasRow
<1>2. CASE PickJob /\ UNCHANGED results
  <2>1. PICK j \in jobs : job' = j /\ jobs' = jobs \ {j} /\ pc = "next" /\ pc' = "cleanup"
    BY <1>2 DEF PickJob
  <2>2. UNCHANGED <<attempts, next_attempt_index>>
    BY <1>2 DEF results
  <2>3. RowsNumbered'
    BY <2>2 DEF RowsInv, RowsNumbered
  <2>4. QED
    BY <1>t, <2>1, <2>2, <2>3 DEF RowsInv, HasRow, Between
<1>3. CASE UNCHANGED <<jobs, job, flash_needed, results>> /\ (pc' \in Between <=> pc \in Between)
  <2>1. UNCHANGED <<attempts, next_attempt_index, jobs, job>>
    BY <1>3 DEF results
  <2>2. RowsNumbered'
    BY <2>1 DEF RowsInv, RowsNumbered
  <2>3. QED
    BY <1>t, <1>3, <2>1, <2>2 DEF RowsInv, HasRow
<1>4. QED
  BY <1>t, <1>1, <1>2, <1>3, Steps

LEMMA RowsInit == Init => RowsInv
<1> SUFFICES ASSUME Init PROVE RowsInv
  OBVIOUS
<1>1. RowsNumbered
  <2>1. \A c \in Cases : attempts[c] = <<>> /\ next_attempt_index[c] = 1
    BY DEF Init
  <2>0. <<>> \in Seq(Rows) /\ Len(<<>>) = 0
    BY EmptySeq
  <2>e. DOMAIN <<>> = 1 .. Len(<<>>)
    BY <2>0, LenProperties, Zenon
  <2>2. \A c \in Cases : Len(attempts[c]) = 0 /\ DOMAIN attempts[c] = 1 .. 0
    BY <2>0, <2>1, <2>e, Zenon
  <2>n. \A c \in Cases : next_attempt_index[c] = 1
    BY <2>1
  <2>3. \A c \in Cases : next_attempt_index[c] = Len(attempts[c]) + 1
    <3>1. SUFFICES ASSUME NEW c \in Cases PROVE next_attempt_index[c] = Len(attempts[c]) + 1
      OBVIOUS
    <3>2. Len(attempts[c]) = 0 /\ next_attempt_index[c] = 1
      BY <2>2, <2>n
    <3>3. QED
      BY <3>2
  <2>4. QED
    <3>1. ASSUME NEW c \in Cases, NEW k \in DOMAIN attempts[c] PROVE FALSE
      <4>1. k \in 1 .. 0
        BY <2>2, <3>1
      <4>2. QED
        BY <4>1
    <3>2. QED
      BY <2>3, <3>1 DEF RowsNumbered
<1>2. jobs = Jobs /\ pc \in Between
  BY DEF Init, Between
<1>3. QED
  BY <1>1, <1>2, TypeInit DEF RowsInv

THEOREM RowsInvariant == Spec => []RowsInv
  BY RowsInit, RowsNext, PTL DEF Spec

(* The rows of a case are numbered from 1 without a gap, whatever mixture  *)
(* of lines, timeouts and errors its sessions leave.                       *)
THEOREM RowsAreNumbered == Spec => []RowsNumbered
  BY RowsInvariant, PTL DEF RowsInv

(* No session that has been run is missing from its case.                  *)
THEOREM SessionsAreRecorded == Spec => []SessionsRecorded
<1>1. RowsInv => SessionsRecorded
  BY DEF RowsInv, SessionsRecorded, HasRow, Between
<1>2. QED
  BY <1>1, RowsInvariant, PTL

-----------------------------------------------------------------------------
(* The results log                                                         *)

RowOf(row)   == [index |-> row.index, session |-> row.job]
Pending      == jobs \cup (IF pc \in {"next", "done"} THEN {} ELSE {job})
LogOf(seq)   == [k \in DOMAIN seq |-> RowOf(seq[k])]
LogRows      == [c \in Cases |-> LogOf(attempts[c])]

LEMMA LogOfRows ==
  ASSUME NEW seq \in Seq(Rows)
  PROVE  /\ Len(LogOf(seq)) = Len(seq) /\ Len(seq) \in Nat
         /\ DOMAIN LogOf(seq) = 1 .. Len(seq) /\ LogOf(seq) \in Seq({RowOf(r) : r \in Rows})
         /\ \A k \in 1 .. Len(seq) : LogOf(seq)[k] = RowOf(seq[k])
<1>1. Len(seq) \in Nat /\ DOMAIN seq = 1 .. Len(seq)
  BY LenProperties
<1>2. LogOf(seq) = [k \in 1 .. Len(seq) |-> RowOf(seq[k])]
  BY <1>1 DEF LogOf
<1>3. \A k \in 1 .. Len(seq) : RowOf(seq[k]) \in {RowOf(r) : r \in Rows}
  BY <1>1, ElementOfSeq
<1>4. Len([k \in 1 .. Len(seq) |-> RowOf(seq[k])]) = Len(seq)
  BY <1>1, <1>3
<1>5. [k \in 1 .. Len(seq) |-> RowOf(seq[k])] \in Seq({RowOf(r) : r \in Rows})
  BY <1>1, <1>3
<1>6. QED
  BY <1>1, <1>2, <1>4, <1>5

LEMMA RefinedStep ==
  ASSUME RowsInv, [Next]_vars
  PROVE  \/ \E j \in Pending :
               /\ Pending' = Pending \ {j}
               /\ Results!Extends(LogRows'[j.case], LogRows[j.case], j)
               /\ \A c \in Cases \ {j.case} : LogRows'[c] = LogRows[c]
         \/ UNCHANGED <<Pending, LogRows>>
<1>t. TypeInv /\ TypeInv' /\ RowsNumbered
  BY TypeNext DEF RowsInv
<1>1. ASSUME NEW status, NEW warmups, NEW lines, Recorded(status, warmups, lines)
      PROVE  /\ job \in Pending /\ Pending' = Pending \ {job}
             /\ Results!Extends(LogRows'[job.case], LogRows[job.case], job)
             /\ \A c \in Cases \ {job.case} : LogRows'[c] = LogRows[c]
  <2>1. PICK c : c = job.case
    OBVIOUS
  <2>2. job \in Pending /\ Pending' = Pending \ {job}
    BY <1>1 DEF Recorded, schedule, Pending, RowsInv, Between
  <2>3. /\ c \in Cases /\ job \in Jobs
        /\ \A d \in Cases \ {c} : attempts'[d] = attempts[d]
        /\ Len(attempts'[c]) > Len(attempts[c])
        /\ attempts[c] \in Seq(Rows) /\ attempts'[c] \in Seq(Rows)
    BY <1>1, <1>t, <2>1, RowsGrow
  <2>4. /\ LogRows[c] = LogOf(attempts[c]) /\ LogRows'[c] = LogOf(attempts'[c])
        /\ Len(LogRows[c]) = Len(attempts[c]) /\ Len(LogRows'[c]) = Len(attempts'[c])
        /\ DOMAIN LogRows[c] = DOMAIN attempts[c] /\ DOMAIN LogRows'[c] = DOMAIN attempts'[c]
    BY <2>3, LogOfRows DEF LogRows, LogOf
  <2>5. \A k \in DOMAIN attempts[c] : k \in DOMAIN attempts'[c] /\ attempts'[c][k] = attempts[c][k]
    BY <1>1, <1>t, <2>1, RowsGrow
  <2>6. \A k \in DOMAIN attempts'[c] \ DOMAIN attempts[c] :
           attempts'[c][k].index = k /\ attempts'[c][k].job = job
    BY <1>1, <1>t, <2>1, RowsGrow
  <2>7. \A k \in DOMAIN LogRows[c] : LogRows'[c][k] = LogRows[c][k]
    BY <2>4, <2>5 DEF LogOf
  <2>8. \A k \in DOMAIN LogRows'[c] \ DOMAIN LogRows[c] :
           LogRows'[c][k] = [index |-> k, session |-> job]
    BY <2>4, <2>6 DEF LogOf, RowOf
  <2>9. Results!Extends(LogRows'[c], LogRows[c], job)
    BY <2>3, <2>4, <2>7, <2>8 DEF Results!Extends
  <2>10. \A d \in Cases \ {c} : LogRows'[d] = LogRows[d]
    BY <2>3 DEF LogRows, LogOf
  <2>11. QED
    BY <2>1, <2>2, <2>9, <2>10
<1>2. CASE PickJob /\ UNCHANGED results
  <2>1. Pending' = Pending
    BY <1>2 DEF PickJob, Pending
  <2>2. QED
    BY <1>2, <2>1 DEF results, LogRows
<1>3. CASE UNCHANGED <<jobs, job, flash_needed, results>> /\ (pc' \in Between <=> pc \in Between)
  BY <1>3 DEF results, LogRows, Pending, Between
<1>4. QED
  BY <1>t, <1>1, <1>2, <1>3, Steps

(* The runner implements ResultLog: each session is reported once, behind  *)
(* the rows there are, with the next numbers.                              *)
THEOREM ResultsReported == Spec => ResultLogSpec
<1>1. Init => Results!Init
  <2> SUFFICES ASSUME Init PROVE Results!Init
    OBVIOUS
  <2>1. jobs = Jobs /\ pc = "next" /\ attempts = [c \in Cases |-> <<>>]
    BY DEF Init
  <2>2. \A c \in Cases : LogOf(attempts[c]) = <<>>
    <3>1. <<>> \in Seq(Rows) /\ Len(<<>>) = 0
      OBVIOUS
    <3>2. LogOf(<<>>) \in Seq({RowOf(r) : r \in Rows}) /\ Len(LogOf(<<>>)) = 0
      BY <3>1, LogOfRows
    <3>3. QED
      BY <2>1, <3>2, EmptySeq
  <2>3. QED
    BY <2>1, <2>2 DEF Results!Init, LogOf, RowOf
<1>2. RowsInv /\ [Next]_vars => [Results!Next]_(Results!vars)
  BY RefinedStep DEF Results!Next, Results!Report, Results!vars, Pending, LogRows, LogOf, RowOf
<1>3. QED
  BY <1>1, <1>2, RowsInvariant, PTL DEF Spec, ResultLogSpec, Results!Spec

-----------------------------------------------------------------------------
(* What the measured rows have been measured with                          *)

(* A measured row that is new holds a line of the session, as captured.    *)
LEMMA MeasuredGrow ==
  ASSUME TypeInv, RowsNumbered,
         NEW status, NEW warmups, NEW lines, Recorded(status, warmups, lines),
         NEW c \in Cases, NEW k \in Measured(c)'
  PROVE  \/ k \in Measured(c) /\ attempts'[c][k] = attempts[c][k]
         \/ /\ c = job.case /\ attempts'[c][k].job = job
            /\ \E i \in DOMAIN captured : attempts'[c][k].line = captured[i]
<1>1. k \in DOMAIN attempts'[c] /\ attempts'[c][k].status = "measured"
  BY DEF Measured
<1>2. CASE c # job.case
  <2>1. attempts'[c] = attempts[c]
    BY <1>2, RowsGrow
  <2>2. QED
    BY <1>1, <2>1 DEF Measured
<1>3. CASE c = job.case /\ k \in DOMAIN attempts[c]
  <2>1. attempts'[c][k] = attempts[c][k]
    BY <1>3, RowsGrow
  <2>2. QED
    BY <1>1, <1>3, <2>1 DEF Measured
<1>4. CASE c = job.case /\ k \notin DOMAIN attempts[c]
  <2>1. attempts'[c][k].job = job
    BY <1>1, <1>4, RowsGrow
  <2>2. /\ attempts[c] \in Seq(Rows) /\ attempts'[c] \in Seq(Rows)
        /\ Len(attempts'[c]) > Len(attempts[c])
    BY <1>4, RowsGrow
  <2>3. Len(attempts'[c]) = Len(attempts[c]) + Len(lines)
    BY <1>4, RowsAdded
  <2>4. k \in Len(attempts[c]) + 1 .. Len(attempts'[c])
    BY <1>1, <1>4, <2>2, LenProperties
  <2>5. \A n \in Len(attempts[c]) + 1 .. Len(attempts'[c]) :
           /\ n - Len(attempts[c]) \in 1 .. Len(lines)
           /\ attempts'[c][n] = [index |-> next_attempt_index[c] + (n - Len(attempts[c])) - 1,
                                 warmup |-> (n - Len(attempts[c])) <= warmups,
                                 status |-> status, job |-> job,
                                 line |-> lines[n - Len(attempts[c])]]
    BY <1>4, RowsAdded
  <2>6. k - Len(attempts[c]) \in 1 .. Len(lines) /\ attempts'[c][k].status = status
        /\ attempts'[c][k].line = lines[k - Len(attempts[c])]
    <3>1. /\ k - Len(attempts[c]) \in 1 .. Len(lines)
          /\ attempts'[c][k] = [index |-> next_attempt_index[c] + (k - Len(attempts[c])) - 1,
                                warmup |-> (k - Len(attempts[c])) <= warmups,
                                status |-> status, job |-> job,
                                line |-> lines[k - Len(attempts[c])]]
      BY <2>4, <2>5, Zenon
    <3>2. QED
      BY <3>1
  <2>7. lines = captured /\ captured \in Seq(Lines)
    BY <1>1, <2>6 DEF Recorded, TypeInv, TypeOK
  <2>8. k - Len(attempts[c]) \in DOMAIN captured
    BY <2>6, <2>7, LenProperties
  <2>9. QED
    BY <1>4, <2>1, <2>6, <2>7, <2>8
<1>5. QED
  BY <1>2, <1>3, <1>4

Flashing  == {"serial"} \cup Capturing
AfterFlash == Flashing \cup {"finally", "record"}

(* What the runner believes is on the board is, but between flashing and   *)
(* the record of it; and what is measured with is the case's image.        *)
Firmware ==
    /\ (pc \notin AfterFlash \/ ~flash_needed) /\ flashed_key # Erased
          => image = flashed_key
    /\ pc \in Flashing \/ (pc \in {"finally", "record"} /\ ~failed)
          => image = Profile[job.case]
    /\ pc \notin Between => (flash_needed <=> flashed_key # Profile[job.case])
    /\ pc \notin Between =>
          \A k \in DOMAIN captured : captured[k].image = Profile[job.case]
    /\ \A c \in Cases : \A k \in Measured(c) : attempts[c][k].line.image = Profile[c]

FirmwareInv == ~untracked => Firmware

(* A session that was to flash and has failed has left the board alone.    *)
Kept ==
    /\ failed => pc \in {"finally", "record"} \cup Between
    /\ pc \in {"finally", "record"} /\ failed /\ flash_needed /\ flashed_key # Erased
          => image = flashed_key

LEMMA FirmwareInit == Init => Firmware /\ Kept
<1> SUFFICES ASSUME Init PROVE Firmware /\ Kept
  OBVIOUS
<1>1. \A c \in Cases : Measured(c) = {}
  <2>1. SUFFICES ASSUME NEW c \in Cases PROVE Measured(c) = {}
    OBVIOUS
  <2>2. attempts[c] = <<>> /\ DOMAIN <<>> = {}
    BY DEF Init
  <2>3. QED
    BY <2>2 DEF Measured
<1>2. pc = "next" /\ flashed_key = Erased
  BY DEF Init
<1>3. QED
  BY <1>1, <1>2 DEF Firmware, Kept, Flashing, Capturing, Between

LEMMA OnlyRecords == [Next]_vars => RecordSession \/ RecordError \/ UNCHANGED results
BY DEF Next, Runner, Board, Broker, PickJob, AllDone, cleanup_case_session,
       start_broker, BrokerReady, BrokerNotReady, FlashOk, FlashFails, StartSerial,
       reset_device, BenchStart, IpspConnected, BenchReady, BoardPinged, Proceed,
       SessionRaises, wait_for_attempts, EndSession, Resets, LeavesBoard, BoardStarts,
       BoardMeasures, BrokerOpens, BrokerListens, BrokerBindFails, BrokerDies, vars,
       world

(* A step keeps that, but for the record of a session that has failed      *)
(* after it began to flash.                                                *)
LEMMA FirmwareStep ==
  ASSUME RowsInv, Firmware, [Next]_vars, RecordError => Kept \/ ~flash_needed
  PROVE  Firmware'
<1>t. TypeInv /\ TypeInv' /\ RowsNumbered
  BY TypeNext DEF RowsInv
<1>b. failed \in BOOLEAN /\ reset_after_case \in BOOLEAN
  BY <1>t DEF TypeInv, TypeOK
<1>1. ASSUME NEW status, NEW warmups, NEW lines, Recorded(status, warmups, lines),
             failed => Kept \/ ~flash_needed
      PROVE  Firmware'
  <2>2. pc = "record" /\ pc' = "next" /\ image' = image /\ job \in Jobs
    BY <1>1, <1>t DEF Recorded, device, TypeInv, InSession, Between
  <2>3. flashed_key' # Erased => image = flashed_key'
    <3>1. CASE failed
      BY <1>1, <2>2, <3>1 DEF Firmware, Kept, Recorded
    <3>2. CASE ~failed
      BY <1>1, <2>2, <3>2 DEF Firmware, Recorded
    <3>3. QED
      BY <3>1, <3>2
  <2>4. ASSUME NEW c \in Cases, NEW k \in Measured(c)'
        PROVE  attempts'[c][k].line.image = Profile[c]
    <3>1. CASE k \in Measured(c) /\ attempts'[c][k] = attempts[c][k]
      BY <3>1 DEF Firmware
    <3>2. CASE c = job.case /\ \E i \in DOMAIN captured : attempts'[c][k].line = captured[i]
      BY <2>2, <3>2 DEF Firmware, Between
    <3>3. QED
      BY <1>1, <1>t, <2>4, <3>1, <3>2, MeasuredGrow
  <2>5. QED
    BY <2>2, <2>3, <2>4 DEF Firmware, Flashing, Capturing, Between
<1>2. CASE UNCHANGED results /\ ~(RecordSession \/ RecordError)
  <2>1. UNCHANGED <<attempts, flashed_key>>
    BY <1>2 DEF results
  <2> USE DEF Firmware, Flashing, AfterFlash, Capturing, Between
  <2>2. \A c \in Cases : \A k \in Measured(c)' : attempts'[c][k].line.image = Profile[c]
    BY <2>1 DEF Measured
  <2>3. CASE PickJob
    <3>1. image' = image /\ pc = "next" /\ pc' = "cleanup" /\ captured' = <<>>
          /\ flash_needed' = (flashed_key # Profile[job'.case])
      BY <2>3 DEF PickJob, device
    <3>2. DOMAIN captured' = {}
      BY <3>1
    <3>3. QED
      BY <2>1, <2>2, <3>1, <3>2
  <2>4. CASE FlashOk
    <3>1. /\ pc = "flash" /\ pc' = "serial" /\ UNCHANGED <<job, flash_needed, captured>>
          /\ image' = IF flash_needed THEN Profile[job.case] ELSE image
      BY <2>4 DEF FlashOk, schedule
    <3>2. Profile[job.case] # Erased
      BY <1>t, <3>1, JobsTyped, CasesAssumption DEF TypeInv, InSession
    <3>3. image' = Profile[job.case]
      BY <2>1, <3>1, <3>2
    <3>4. QED
      BY <2>1, <2>2, <3>1, <3>3
  <2>5. CASE FlashFails
    <3>1. /\ pc = "flash" /\ pc' = "finally" /\ failed' /\ flash_needed
          /\ UNCHANGED <<job, flash_needed, captured>>
      BY <2>5 DEF FlashFails, Raise, schedule
    <3>2. QED
      BY <2>1, <2>2, <3>1
  <2>6. CASE BoardMeasures
    <3>1. UNCHANGED <<pc, job, flash_needed, failed, image>>
      BY <2>6 DEF BoardMeasures, schedule
    <3>2. CASE pc \in Capturing
      <4>1. captured' = Append(captured, Line) /\ Line.image = Profile[job.case]
        BY <2>1, <2>6, <3>2 DEF BoardMeasures, Line
      <4>2. captured \in Seq(Lines)
        BY <1>t DEF TypeInv, TypeOK
      <4>3. \A k \in DOMAIN captured' : captured'[k] = Line
               \/ (k \in DOMAIN captured /\ captured'[k] = captured[k])
        BY <4>1, <4>2
      <4>4. \A k \in DOMAIN captured' : captured'[k].image = Profile[job.case]
        BY <2>1, <3>2, <4>1, <4>3
      <4>5. QED
        BY <2>1, <2>2, <3>1, <4>4
    <3>3. CASE pc \notin Capturing
      <4>1. captured' = captured
        BY <2>6, <3>3 DEF BoardMeasures
      <4>2. QED
        BY <2>1, <2>2, <3>1, <4>1
    <3>4. QED
      BY <3>2, <3>3
  <2>7. CASE BrokerNotReady \/ SessionRaises
    <3>1. /\ pc' = "finally" /\ failed' /\ pc \notin {"next", "done", "finally", "record"}
          /\ UNCHANGED <<job, flash_needed, captured, image>>
      BY <2>7 DEF BrokerNotReady, SessionRaises, Raise, schedule, device
    <3>2. QED
      BY <2>1, <2>2, <3>1
  <2>8. CASE EndSession
    <3>1. /\ pc = "finally" /\ pc' = "record" /\ failed' \in {failed, TRUE}
          /\ UNCHANGED <<job, flash_needed, captured, image>>
      BY <1>b, <2>8 DEF EndSession, Resets, LeavesBoard, schedule
    <3>2. QED
      BY <2>1, <2>2, <3>1
  <2>9. CASE \/ AllDone \/ cleanup_case_session \/ start_broker \/ BrokerReady \/ StartSerial
             \/ reset_device \/ BenchStart \/ IpspConnected \/ BenchReady \/ BoardPinged
             \/ wait_for_attempts
    <3>1. /\ UNCHANGED <<job, flash_needed, captured, image, failed>>
          /\ \/ pc \notin AfterFlash /\ pc' \notin AfterFlash
                /\ (pc' \in Between <=> pc \in Between)
             \/ pc \in Flashing /\ pc' \in AfterFlash
      BY <2>9 DEF AllDone, cleanup_case_session, start_broker, BrokerReady, StartSerial,
                  reset_device, BenchStart, IpspConnected, BenchReady, BoardPinged, Proceed,
                  wait_for_attempts, schedule, device
    <3>2. QED
      BY <2>1, <2>2, <3>1
  <2>10. CASE BoardStarts \/ Broker \/ UNCHANGED vars
    <3>1. UNCHANGED <<pc, job, flash_needed, captured, image, failed>>
      BY <2>10 DEF BoardStarts, Broker, BrokerOpens, BrokerListens, BrokerBindFails,
                   BrokerDies, vars, schedule, device, world
    <3>2. QED
      BY <2>1, <2>2, <3>1
  <2>11. QED
    BY <1>2, <2>3, <2>4, <2>5, <2>6, <2>7, <2>8, <2>9, <2>10 DEF Next, Runner, Board
<1>3. CASE RecordSession \/ RecordError
  <2>1. failed => Kept \/ ~flash_needed
    BY <1>3 DEF RecordSession
  <2>2. QED
    BY <1>1, <1>t, <1>3, <2>1, Recording
<1>4. QED
  BY <1>2, <1>3, OnlyRecords

LEMMA FirmwareNext == RowsInv /\ FirmwareInv /\ [Next]_vars => FirmwareInv'
<1> SUFFICES ASSUME RowsInv, FirmwareInv, [Next]_vars, ~untracked' PROVE Firmware'
  BY DEF FirmwareInv
<1>1. untracked \in BOOLEAN
  BY DEF RowsInv, TypeInv, TypeOK
<1>2. CASE RecordSession \/ RecordError
  <2>1. ~untracked /\ (RecordError => ~flash_needed)
    BY <1>1, <1>2 DEF RecordSession, RecordError
  <2>2. QED
    BY <2>1, FirmwareStep DEF FirmwareInv
<1>3. CASE UNCHANGED results /\ ~(RecordSession \/ RecordError)
  <2>1. ~untracked
    BY <1>3 DEF results
  <2>2. QED
    BY <1>3, <2>1, FirmwareStep DEF FirmwareInv
<1>4. QED
  BY <1>2, <1>3, OnlyRecords

(* A case is measured with the firmware built for it, as long as no        *)
(* session has failed that was to flash the board.                         *)
THEOREM MeasuredWithItsFirmware == Spec => []MeasuredWithFirmware
<1>0. Init => FirmwareInv
  BY FirmwareInit DEF FirmwareInv
<1>1. FirmwareInv => MeasuredWithFirmware
  BY DEF FirmwareInv, Firmware, MeasuredWithFirmware
<1>2. QED
  BY <1>1, <1>0, FirmwareNext, RowsInvariant, PTL DEF Spec

(* A session that was to flash the board fails when it has begun to.       *)
FailsFlashed ==
    flash_needed /\ pc \in {"flash"} \cup AfterFlash /\ ~failed /\ failed'

LEMMA KeptNext ==
  ASSUME TypeInv, Firmware, Kept, [Next]_vars, ~FailsFlashed
  PROVE  Kept'
<1> USE DEF Kept, Firmware, FailsFlashed, AfterFlash, Flashing, Capturing, Between
<1>t. failed \in BOOLEAN
  BY DEF TypeInv, TypeOK
<1>1. CASE PickJob
  BY <1>1 DEF PickJob
<1>2. CASE BrokerNotReady \/ SessionRaises \/ FlashFails
  <2>1. pc' = "finally" /\ failed' /\ UNCHANGED <<flash_needed, flashed_key>>
        /\ (pc = "wait" => image' = image) /\ pc \in {"wait", "flash"} \cup Flashing
    BY <1>2 DEF BrokerNotReady, SessionRaises, FlashFails, Raise, schedule, device, results
  <2>2. ~failed
    BY <2>1
  <2>3. QED
    BY <2>1, <2>2
<1>3. CASE EndSession
  <2>1. /\ pc = "finally" /\ pc' = "record" /\ UNCHANGED <<image, flash_needed, flashed_key>>
    BY <1>3 DEF EndSession, Resets, LeavesBoard, schedule, results
  <2>2. QED
    BY <2>1
<1>4. CASE RecordSession \/ RecordError
  BY <1>4 DEF RecordSession, RecordError
<1>5. CASE \/ AllDone \/ cleanup_case_session \/ start_broker \/ BrokerReady \/ FlashOk
           \/ StartSerial \/ reset_device \/ BenchStart \/ IpspConnected \/ BenchReady
           \/ BoardPinged \/ wait_for_attempts
  <2>1. UNCHANGED failed /\ pc \notin {"finally", "record"}
        /\ (pc \in Between => pc' \in Between)
    BY <1>5 DEF AllDone, cleanup_case_session, start_broker, BrokerReady, FlashOk, StartSerial,
                reset_device, BenchStart, IpspConnected, BenchReady, BoardPinged, Proceed,
                wait_for_attempts
  <2>2. QED
    BY <2>1
<1>6. CASE Board \/ Broker \/ UNCHANGED vars
  <2>1. UNCHANGED <<pc, failed, flash_needed, image, flashed_key>>
    BY <1>6 DEF Board, BoardStarts, BoardMeasures, Broker, BrokerOpens, BrokerListens,
                BrokerBindFails, BrokerDies, vars, schedule, device, results, world
  <2>2. QED
    BY <2>1
<1>7. QED
  BY <1>1, <1>2, <1>3, <1>4, <1>5, <1>6 DEF Next, Runner

LEMMA FirmwareKept ==
  RowsInv /\ Firmware /\ Kept /\ [Next]_vars /\ ~FailsFlashed => Firmware' /\ Kept'
BY FirmwareStep, KeptNext DEF RowsInv

(* benchmarking/README.md's word on flashing holds of every run in which   *)
(* no session fails between the first command that flashes the board and   *)
(* the record of it; brokers that do not listen, boards that do not answer *)
(* and lost lines do not matter to it.                                     *)
THEOREM FlashedSessionsFit == Spec /\ [][~FailsFlashed]_vars => []RightFirmware
<1>1. Firmware => RightFirmware
  BY DEF Firmware, RightFirmware
<1>2. ASSUME UNCHANGED vars PROVE ~FailsFlashed
  <2>1. failed' = failed
    BY <1>2 DEF vars
  <2>2. QED
    BY <2>1 DEF FailsFlashed
<1>3. RowsInv /\ Firmware /\ Kept /\ [Next]_vars /\ [~FailsFlashed]_vars
         => (Firmware /\ Kept)'
  BY <1>2, FirmwareKept
<1>4. QED
  BY <1>1, <1>3, FirmwareInit, RowsInvariant, PTL DEF Spec

LEMMA FaultsGrow ==
  ASSUME TypeInv, [Next]_vars
  PROVE  faults \in Nat /\ faults' \in {faults, faults + 1, faults + 2}
<1>1. faults \in Nat
  BY RunnerAssumption DEF TypeInv, TypeOK
<1>2. faults' \in {faults, faults + 1, faults + 2}
  BY DEF Next, Runner, Board, Broker, PickJob, AllDone, cleanup_case_session,
         RemoveBroker, start_broker, BrokerReady, BrokerNotReady, FlashOk, FlashFails,
         StartSerial, reset_device, BenchStart, IpspConnected, BenchReady, BoardPinged,
         Proceed, SessionRaises, wait_for_attempts, EndSession, Resets, LeavesBoard,
         RecordSession, RecordError, BoardStarts, BoardMeasures, BrokerOpens,
         BrokerListens, BrokerBindFails, BrokerDies, vars, Fault, world
<1>3. QED
  BY <1>1, <1>2

(* Without a failing command a board that was reset boots, and no session  *)
(* fails once it has begun to flash.                                       *)
Boots == pc = "boot" => board.stage # "idle"

LEMMA BootsNext ==
  ASSUME TypeInv, TypeInv', Firmware, Boots, [Next]_vars, faults' = 0
  PROVE  faults = 0 /\ ~FailsFlashed /\ Boots'
<1>t. faults \in Nat /\ image \in Images \cup {Erased} /\ board \in Boards
  BY RunnerAssumption DEF TypeInv, TypeOK, Boards
<1>1. faults = 0 /\ ~Fault
  BY <1>t, FaultsGrow DEF Fault
<1>2. ~FailsFlashed
  <2> SUFFICES ASSUME pc \in {"flash"} \cup AfterFlash, failed' # failed PROVE FALSE
    BY DEF FailsFlashed
  <2> USE DEF AfterFlash, Flashing, Capturing
  <2>1. ~SessionRaises
    BY <1>1 DEF SessionRaises, Boots
  <2>2. ~(FlashFails \/ EndSession)
    <3>1. faults + 2 # 0
      BY <1>1
    <3>2. failed \in BOOLEAN /\ reset_after_case \in BOOLEAN
      BY DEF TypeInv, TypeOK
    <3>3. ASSUME EndSession PROVE failed' = failed
      BY <1>1, <3>1, <3>2, <3>3 DEF EndSession, Resets, LeavesBoard
    <3>4. QED
      BY <1>1, <3>3 DEF FlashFails
  <2>3. QED
    BY <2>1, <2>2 DEF Next, Runner, Board, Broker, PickJob, AllDone,
                      cleanup_case_session, start_broker, BrokerReady, BrokerNotReady,
                      FlashOk, StartSerial, reset_device, BenchStart, IpspConnected,
                      BenchReady, BoardPinged, Proceed, wait_for_attempts,
                      RecordSession, RecordError, BoardStarts, BoardMeasures,
                      BrokerOpens, BrokerListens, BrokerBindFails, BrokerDies, vars,
                      world
<1>3. Boots'
  <2>1. CASE reset_device
    <3>1. pc = "reset" /\ job \in Jobs /\ board' = Rebooted
      BY <2>1 DEF reset_device, TypeInv, InSession, Between
    <3>2. image = Profile[job.case] /\ Profile[job.case] \in Images
      BY <3>1, JobsTyped DEF Firmware, Flashing, Capturing
    <3>3. image # Erased
      BY <3>2, CasesAssumption
    <3>4. QED
      BY <3>1, <3>3 DEF Boots, Rebooted
  <2>2. CASE BoardStarts \/ BoardMeasures
    BY <1>t, <2>2 DEF BoardStarts, BoardMeasures, Boots, Boards
  <2>3. CASE ~(reset_device \/ BoardStarts \/ BoardMeasures)
    <3>1. pc' = "boot" => pc = "boot" /\ board' = board
      BY <2>3 DEF Next, Runner, Board, Broker, PickJob, AllDone, cleanup_case_session,
                  start_broker, BrokerReady, BrokerNotReady, FlashOk, FlashFails,
                  StartSerial, BenchStart, IpspConnected, BenchReady, BoardPinged,
                  Proceed, SessionRaises, wait_for_attempts, EndSession, Resets,
                  LeavesBoard, RecordSession, RecordError, BrokerOpens, BrokerListens,
                  BrokerBindFails, BrokerDies, vars, device, Raise, world
    <3>2. QED
      BY <3>1 DEF Boots
  <2>4. QED
    BY <2>1, <2>2, <2>3
<1>4. QED
  BY <1>1, <1>2, <1>3

(* Without a failing command every measured row is measured with the       *)
(* firmware of its case: the README's word on flashing.                    *)
THEOREM FaultlessRunsFit == Spec => [](faults = 0 => RightFirmware)
<1> DEFINE I == faults = 0 => Firmware /\ Kept /\ Boots
<1>1. Init => I
  BY FirmwareInit DEF Init, Boots
<1>2. RowsInv /\ RowsInv' /\ I /\ [Next]_vars => I'
  <2> SUFFICES ASSUME RowsInv, RowsInv', I, [Next]_vars, faults' = 0
               PROVE  Firmware' /\ Kept' /\ Boots'
    OBVIOUS
  <2>1. faults = 0
    BY FaultsGrow DEF RowsInv
  <2>2. ~FailsFlashed /\ Boots'
    BY <2>1, BootsNext DEF RowsInv
  <2>3. QED
    BY <2>1, <2>2, FirmwareKept
<1>3. I => (faults = 0 => RightFirmware)
  BY DEF Firmware, RightFirmware
<1>4. QED
  BY <1>1, <1>2, <1>3, RowsInvariant, PTL DEF Spec

(* A board is reset before and after a session: none runs or is linked     *)
(* until the session links it, unless a reset has been left out.           *)
Started == {"boot", "ipsp", "ready", "ping", "attempts"}

SessionInv ==
    /\ pc \in Started => board.job = job
    /\ ~unreset =>
         /\ pc \notin Started \cup {"finally"} => board.stage # "running" /\ ~link
         /\ pc \notin Between => \A k \in DOMAIN captured : captured[k].job = job
         /\ \A c \in Cases : \A k \in Measured(c) : attempts[c][k].line.job = attempts[c][k].job

LEMMA SessionInit == Init => SessionInv
<1> SUFFICES ASSUME Init PROVE SessionInv
  OBVIOUS
<1>1. \A c \in Cases : Measured(c) = {}
  <2>1. SUFFICES ASSUME NEW c \in Cases PROVE Measured(c) = {}
    OBVIOUS
  <2>2. attempts[c] = <<>> /\ DOMAIN <<>> = {}
    BY DEF Init
  <2>3. QED
    BY <2>2 DEF Measured
<1>2. pc = "next" /\ board.stage = "idle" /\ ~link
  BY DEF Init
<1>3. QED
  BY <1>1, <1>2 DEF SessionInv, Started, Between

LEMMA SessionNext == RowsInv /\ SessionInv /\ [Next]_vars => SessionInv'
<1> SUFFICES ASSUME RowsInv, SessionInv, [Next]_vars PROVE SessionInv'
  OBVIOUS
<1>t. TypeInv /\ TypeInv' /\ RowsNumbered
  BY TypeNext DEF RowsInv
<1>1. ASSUME NEW status, NEW warmups, NEW lines, Recorded(status, warmups, lines)
      PROVE  SessionInv'
  <2>1. pc = "record" /\ pc' = "next" /\ UNCHANGED <<board, link, unreset>>
    BY <1>1 DEF Recorded, device
  <2>2. ASSUME ~unreset, NEW c \in Cases, NEW k \in Measured(c)'
        PROVE  attempts'[c][k].line.job = attempts'[c][k].job
    <3>1. CASE k \in Measured(c) /\ attempts'[c][k] = attempts[c][k]
      BY <2>2, <3>1 DEF SessionInv
    <3>2. CASE /\ attempts'[c][k].job = job
               /\ \E i \in DOMAIN captured : attempts'[c][k].line = captured[i]
      BY <2>1, <2>2, <3>2 DEF SessionInv, Between
    <3>3. QED
      BY <1>1, <1>t, <2>2, <3>1, <3>2, MeasuredGrow
  <2>3. QED
    BY <2>1, <2>2 DEF SessionInv, Started, Between
<1>2. CASE UNCHANGED results
  <2> USE DEF SessionInv, Started, Between
  <2>1. ~unreset => \A c \in Cases : \A k \in Measured(c)' :
                       attempts'[c][k].line.job = attempts'[c][k].job
    BY <1>2 DEF results, Measured
  <2>2. unreset' = unreset \/ unreset' = TRUE
    BY DEF Next, Runner, Board, Broker, PickJob, AllDone, cleanup_case_session,
           start_broker, BrokerReady, BrokerNotReady, FlashOk, FlashFails, StartSerial,
           reset_device, BenchStart, IpspConnected, BenchReady, BoardPinged, Proceed,
           SessionRaises, wait_for_attempts, EndSession, Resets, LeavesBoard,
           RecordSession, RecordError, BoardStarts, BoardMeasures, BrokerOpens,
           BrokerListens, BrokerBindFails, BrokerDies, vars, world
  <2>3. CASE PickJob
    <3>1. /\ pc = "next" /\ pc' = "cleanup" /\ captured' = <<>>
          /\ UNCHANGED <<board, link, unreset>>
      BY <2>3 DEF PickJob, device
    <3>2. DOMAIN captured' = {}
      BY <3>1
    <3>3. QED
      BY <2>1, <3>1, <3>2
  <2>4. CASE cleanup_case_session \/ FlashOk \/ FlashFails
    <3>1. /\ pc \notin Started \cup Between /\ pc' \notin Started \cup Between
          /\ pc # "finally"
          /\ UNCHANGED <<job, captured, unreset>>
      BY <2>4 DEF cleanup_case_session, FlashOk, FlashFails, Raise, schedule
    <3>2. /\ board'.stage = board.stage \/ board'.stage = "idle"
          /\ link' => link
      BY <1>t, <2>4 DEF cleanup_case_session, FlashOk, FlashFails, TypeInv, TypeOK
    <3>3. QED
      BY <2>1, <3>1, <3>2
  <2>5. CASE reset_device
    <3>1. /\ pc = "reset" /\ pc' = "boot" /\ UNCHANGED <<job, captured, unreset>>
          /\ board'.job = job
      BY <2>5 DEF reset_device, schedule, Rebooted
    <3>2. QED
      BY <2>1, <3>1
  <2>6. CASE \/ BenchStart \/ IpspConnected \/ BenchReady \/ BoardPinged \/ SessionRaises
             \/ wait_for_attempts \/ BrokerNotReady
    <3>1. /\ pc \notin Between /\ (pc' = "finally" \/ (pc \in Started /\ pc' \in Started))
          /\ UNCHANGED <<job, board, captured, unreset>>
      BY <2>6 DEF BenchStart, IpspConnected, BenchReady, BoardPinged, Proceed, SessionRaises,
                  wait_for_attempts, BrokerNotReady, Raise, schedule, device
    <3>2. QED
      BY <2>1, <3>1
  <2>7. CASE EndSession
    <3>1. /\ pc = "finally" /\ pc' = "record" /\ UNCHANGED <<job, captured>>
          /\ \/ board' = Rebooted /\ link' = FALSE /\ unreset' = unreset
             \/ unreset' = TRUE
      BY <2>7 DEF EndSession, Resets, LeavesBoard, schedule
    <3>2. Rebooted.stage # "running"
      BY DEF Rebooted
    <3>3. QED
      BY <2>1, <3>1, <3>2
  <2>8. CASE BoardStarts
    <3>1. /\ link /\ UNCHANGED <<pc, job, captured, link, unreset>> /\ board'.job = board.job
      BY <1>t, <2>8 DEF BoardStarts, schedule, TypeInv, TypeOK
    <3>2. QED
      BY <2>1, <3>1
  <2>9. CASE BoardMeasures
    <3>1. /\ board.stage = "running" /\ UNCHANGED <<pc, job, link, unreset>>
          /\ board'.job = board.job /\ board'.stage = board.stage
      BY <1>t, <2>9 DEF BoardMeasures, schedule, TypeInv, TypeOK
    <3>2. CASE pc \in Capturing
      <4>1. captured' = Append(captured, Line) /\ Line.job = board.job
        BY <2>9, <3>2 DEF BoardMeasures, Line
      <4>2. captured \in Seq(Lines)
        BY <1>t DEF TypeInv, TypeOK
      <4>3. \A k \in DOMAIN captured' : captured'[k] = Line
               \/ (k \in DOMAIN captured /\ captured'[k] = captured[k])
        BY <4>1, <4>2
      <4>4. ~unreset => \A k \in DOMAIN captured' : captured'[k].job = job
        BY <3>1, <3>2, <4>1, <4>3 DEF Capturing
      <4>5. QED
        BY <2>1, <3>1, <4>4
    <3>3. CASE pc \notin Capturing
      <4>1. captured' = captured
        BY <2>9, <3>3 DEF BoardMeasures
      <4>2. QED
        BY <2>1, <3>1, <4>1
    <3>4. QED
      BY <3>2, <3>3
  <2>10. CASE AllDone \/ start_broker \/ BrokerReady \/ StartSerial
    <3>1. /\ pc \notin Started \cup {"finally"} /\ pc' \notin Started \cup {"finally"}
          /\ (pc' \in Between <=> pc \in Between)
          /\ UNCHANGED <<job, board, link, captured, unreset>>
      BY <2>10 DEF AllDone, start_broker, BrokerReady, StartSerial, schedule, device
    <3>2. QED
      BY <2>1, <3>1
  <2>11. CASE Broker \/ UNCHANGED vars
    <3>1. UNCHANGED <<pc, job, board, link, captured, unreset>>
      BY <2>11 DEF Broker, BrokerOpens, BrokerListens, BrokerBindFails, BrokerDies,
                   vars, schedule, device, world
    <3>2. QED
      BY <2>1, <3>1
  <2>12. CASE RecordSession \/ RecordError
    BY <1>1, <1>t, <2>12, Recording
  <2>13. QED
    BY <2>3, <2>4, <2>5, <2>6, <2>7, <2>8, <2>9, <2>10, <2>11, <2>12 DEF Next, Runner, Board
<1>3. QED
  BY <1>t, <1>1, <1>2, Steps

(* The rows of a session have been measured in it, as long as each session *)
(* has ended with a reset of the board.                                    *)
THEOREM MeasuredInItsSession == Spec => []MeasuredInSession
<1>1. SessionInv => MeasuredInSession
  BY DEF SessionInv, MeasuredInSession
<1>2. QED
  BY <1>1, SessionInit, SessionNext, RowsInvariant, PTL DEF Spec

(* With --reset-after-case it takes a failing command to leave a board     *)
(* without its reset: otherwise every measured row comes from the boot of  *)
(* its own session.                                                        *)
RowsFromTheirBoot ==
    \A c \in Cases : \A k \in Measured(c) : attempts[c][k].line.job = attempts[c][k].job

THEOREM FaultlessSessionsReset ==
  Spec => [](reset_after_case /\ faults = 0 => RowsFromTheirBoot)
<1> DEFINE I == reset_after_case /\ faults = 0 => ~unreset
<1>1. Init => I
  BY DEF Init
<1>2. TypeInv /\ I /\ [Next]_vars => I'
  <2> SUFFICES ASSUME TypeInv, I, [Next]_vars, reset_after_case', faults' = 0 PROVE ~unreset'
    OBVIOUS
  <2>1. faults = 0 /\ ~Fault
    BY FaultsGrow DEF Fault
  <2>2. reset_after_case
    BY DEF Next, Runner, Board, Broker, PickJob, AllDone, cleanup_case_session,
           start_broker, BrokerReady, BrokerNotReady, FlashOk, FlashFails, StartSerial,
           reset_device, BenchStart, IpspConnected, BenchReady, BoardPinged, Proceed,
           SessionRaises, wait_for_attempts, EndSession, Resets, LeavesBoard,
           RecordSession, RecordError, BoardStarts, BoardMeasures, BrokerOpens,
           BrokerListens, BrokerBindFails, BrokerDies, vars, schedule, world
  <2>e. ASSUME EndSession PROVE unreset' = unreset
    <3>1. faults + 2 # 0
      BY <2>1
    <3>2. QED
      BY <2>1, <2>2, <2>e, <3>1 DEF EndSession, Resets, schedule
  <2>3. unreset' = unreset
    BY <2>1, <2>2, <2>e DEF Next, Runner, Board, Broker, PickJob, AllDone,
                      cleanup_case_session, start_broker, BrokerReady, BrokerNotReady,
                      FlashOk, FlashFails, StartSerial, reset_device, BenchStart,
                      IpspConnected, BenchReady, BoardPinged, Proceed, SessionRaises,
                      wait_for_attempts, RecordSession,
                      RecordError, BoardStarts, BoardMeasures, BrokerOpens,
                      BrokerListens, BrokerBindFails, BrokerDies, vars, world
  <2>4. QED
    BY <2>1, <2>2, <2>3
<1>3. I /\ MeasuredInSession => (reset_after_case /\ faults = 0 => RowsFromTheirBoot)
  BY DEF MeasuredInSession, RowsFromTheirBoot
<1>4. QED
  BY <1>1, <1>2, <1>3, Typed, MeasuredInItsSession, PTL DEF Spec

(* Unless a container has been left, the port is the session's broker's or *)
(* nobody's once the clean-up has run, and so is what has been measured.   *)
BrokerInv ==
    ~unremoved =>
        /\ pc \notin Between \cup {"cleanup"} => port \in {job.case, NoCase}
        /\ pc \notin Between =>
              \A k \in DOMAIN captured : captured[k].broker \in {job.case, NoCase}
        /\ \A c \in Cases : \A k \in Measured(c) : attempts[c][k].line.broker \in {c, NoCase}

LEMMA BrokerInit == Init => BrokerInv
<1> SUFFICES ASSUME Init PROVE BrokerInv
  OBVIOUS
<1>1. \A c \in Cases : Measured(c) = {}
  <2>1. SUFFICES ASSUME NEW c \in Cases PROVE Measured(c) = {}
    OBVIOUS
  <2>2. attempts[c] = <<>> /\ DOMAIN <<>> = {}
    BY DEF Init
  <2>3. QED
    BY <2>2 DEF Measured
<1>2. pc = "next"
  BY DEF Init
<1>3. QED
  BY <1>1, <1>2 DEF BrokerInv, Between

(* A container that has been left stays a part of the run's history.       *)
LEMMA UnremovedStays == [Next]_vars => unremoved' = unremoved \/ unremoved' = TRUE
BY DEF Next, Runner, Board, Broker, PickJob, AllDone, cleanup_case_session, RemoveBroker,
       start_broker, BrokerReady, BrokerNotReady, FlashOk, FlashFails, StartSerial,
       reset_device, BenchStart, IpspConnected, BenchReady, BoardPinged, Proceed,
       SessionRaises, wait_for_attempts, EndSession, RecordSession, RecordError,
       BoardStarts, BoardMeasures, BrokerOpens, BrokerListens, BrokerBindFails, BrokerDies,
       vars, broker, world

LEMMA BrokerNext == RowsInv /\ BrokerInv /\ [Next]_vars => BrokerInv'
<1> SUFFICES ASSUME RowsInv, BrokerInv, [Next]_vars, ~unremoved, ~unremoved' PROVE BrokerInv'
  BY UnremovedStays DEF BrokerInv
<1>t. TypeInv /\ TypeInv' /\ RowsNumbered
  BY TypeNext DEF RowsInv
<1>1. ASSUME NEW status, NEW warmups, NEW lines, Recorded(status, warmups, lines)
      PROVE  BrokerInv'
  <2>1. pc = "record" /\ pc' = "next"
    BY <1>1 DEF Recorded
  <2>2. ASSUME NEW c \in Cases, NEW k \in Measured(c)'
        PROVE  attempts'[c][k].line.broker \in {c, NoCase}
    <3>1. CASE k \in Measured(c) /\ attempts'[c][k] = attempts[c][k]
      BY <2>2, <3>1 DEF BrokerInv
    <3>2. CASE c = job.case /\ \E i \in DOMAIN captured : attempts'[c][k].line = captured[i]
      BY <2>1, <2>2, <3>2 DEF BrokerInv, Between
    <3>3. QED
      BY <1>1, <1>t, <2>2, <3>1, <3>2, MeasuredGrow
  <2>3. QED
    BY <2>1, <2>2 DEF BrokerInv, Between
<1>2. CASE UNCHANGED results
  <2> USE DEF BrokerInv, Between
  <2>1. \A c \in Cases : \A k \in Measured(c)' : attempts'[c][k].line.broker \in {c, NoCase}
    BY <1>2 DEF results, Measured
  <2>2. CASE PickJob
    <3>1. pc' = "cleanup" /\ captured' = <<>>
      BY <2>2 DEF PickJob
    <3>2. DOMAIN captured' = {}
      BY <3>1
    <3>3. QED
      BY <2>1, <3>1, <3>2
  <2>3. CASE cleanup_case_session
    <3>1. /\ pc = "cleanup" /\ pc' = "broker" /\ port' = NoCase
          /\ UNCHANGED <<job, captured>>
      BY <2>3 DEF cleanup_case_session, RemoveBroker, schedule
    <3>2. QED
      BY <2>1, <3>1
  <2>4. CASE start_broker \/ EndSession
    <3>1. /\ pc \in {"broker", "finally"} /\ pc' \in {"wait", "record"}
          /\ UNCHANGED <<job, captured>> /\ port' \in {port, NoCase}
      BY <2>4 DEF start_broker, EndSession, RemoveBroker, schedule
    <3>2. QED
      BY <2>1, <3>1
  <2>5. CASE \/ AllDone \/ BrokerReady \/ BrokerNotReady \/ FlashOk \/ FlashFails \/ StartSerial
             \/ reset_device \/ BenchStart \/ IpspConnected \/ BenchReady \/ BoardPinged
             \/ SessionRaises \/ wait_for_attempts \/ BoardStarts \/ UNCHANGED vars
    <3>1. /\ UNCHANGED <<job, captured, port>>
          /\ \/ pc' = pc
             \/ pc' = "done"
             \/ pc \notin Between \cup {"cleanup"} /\ pc' \notin Between \cup {"cleanup"}
      BY <2>5 DEF AllDone, BrokerReady, BrokerNotReady, FlashOk, FlashFails, StartSerial,
                  reset_device, BenchStart, IpspConnected, BenchReady, BoardPinged, Proceed,
                  SessionRaises, wait_for_attempts, BoardStarts, Raise, vars, schedule, broker
    <3>2. QED
      BY <2>1, <3>1
  <2>6. CASE BoardMeasures
    <3>1. UNCHANGED <<pc, job, port>>
      BY <2>6 DEF BoardMeasures, schedule, broker
    <3>2. CASE pc \in Capturing
      <4>1. captured' = Append(captured, Line) /\ Line.broker \in {port, NoCase}
        BY <2>6, <3>2 DEF BoardMeasures, Line
      <4>2. captured \in Seq(Lines)
        BY <1>t DEF TypeInv, TypeOK
      <4>3. \A k \in DOMAIN captured' : captured'[k] = Line
               \/ (k \in DOMAIN captured /\ captured'[k] = captured[k])
        BY <4>1, <4>2
      <4>4. \A k \in DOMAIN captured' : captured'[k].broker \in {job.case, NoCase}
        BY <3>2, <4>1, <4>3 DEF Capturing
      <4>5. QED
        BY <2>1, <3>1, <4>4
    <3>3. CASE pc \notin Capturing
      <4>1. captured' = captured
        BY <2>6, <3>3 DEF BoardMeasures
      <4>2. QED
        BY <2>1, <3>1, <4>1
    <3>4. QED
      BY <3>2, <3>3
  <2>7. CASE Broker
    <3>1. UNCHANGED <<pc, job, captured>> /\ port' \in {port, job.case, NoCase}
      BY <2>7 DEF Broker, BrokerOpens, BrokerListens, BrokerBindFails, BrokerDies, world,
                  schedule
    <3>2. QED
      BY <2>1, <3>1
  <2>8. CASE RecordSession \/ RecordError
    BY <1>1, <1>t, <2>8, Recording
  <2>9. QED
    BY <2>2, <2>3, <2>4, <2>5, <2>6, <2>7, <2>8 DEF Next, Runner, Board
<1>3. QED
  BY <1>t, <1>1, <1>2, Steps

(* What a case is measured against is its own broker or none, as long as   *)
(* every clean-up has removed the broker it was to remove.                 *)
THEOREM MeasuredAgainstItsBroker == Spec => []MeasuredWithBroker
<1>1. BrokerInv => MeasuredWithBroker
  BY DEF BrokerInv, MeasuredWithBroker
<1>2. QED
  BY <1>1, BrokerInit, BrokerNext, RowsInvariant, PTL DEF Spec

-----------------------------------------------------------------------------
(* Whose text reads as ready                                               *)

(* A case with one session writes its log in that session only.            *)
OneSession == SessionsPerCase = 1 /\ BatchCount = 1

LogInv ==
    OneSession =>
        /\ pc \notin Between => job \notin jobs
        /\ \A j \in jobs : j.case \notin broker_log
        /\ pc \in {"cleanup", "broker"} => job.case \notin broker_log
        /\ pc \notin Between /\ job.case \in broker_log => proc # "starting"
        /\ pc = "flash" => job.case \in broker_log

LEMMA OneJob == ASSUME OneSession, NEW i \in Jobs, NEW j \in Jobs, i # j
                PROVE  i.case # j.case
BY DEF OneSession, Jobs

LEMMA LogNext == TypeInv /\ LogInv /\ [Next]_vars => LogInv'
<1> SUFFICES ASSUME TypeInv, LogInv, [Next]_vars, OneSession PROVE LogInv'
  BY DEF LogInv
<1> USE DEF LogInv, Between
<1>t. /\ jobs \subseteq Jobs /\ (pc \notin Between => job \in Jobs)
      /\ pc \in Between \cup {"cleanup", "broker", "record"} => proc = "none"
  BY DEF TypeInv, TypeOK, InSession
<1>1. CASE PickJob
  <2>1. /\ pc = "next" /\ pc' = "cleanup" /\ job' \in jobs /\ jobs' = jobs \ {job'}
        /\ UNCHANGED <<broker_log, proc>>
    BY <1>1 DEF PickJob, broker
  <2>2. QED
    BY <2>1
<1>2. CASE start_broker
  <2>1. /\ pc = "broker" /\ pc' = "wait" /\ UNCHANGED <<jobs, job, broker_log>>
    BY <1>2 DEF start_broker, schedule
  <2>2. QED
    BY <2>1
<1>3. CASE EndSession
  <2>1. /\ pc = "finally" /\ pc' = "record" /\ proc' = "none"
        /\ UNCHANGED <<jobs, job, broker_log>>
    BY <1>3 DEF EndSession, schedule
  <2>2. QED
    BY <2>1
<1>4. CASE Broker
  <2>1. /\ UNCHANGED <<pc, jobs, job>> /\ proc # "none"
        /\ \/ broker_log' = broker_log
           \/ broker_log' = broker_log \cup {job.case}
        /\ proc' # "starting"
    BY <1>4 DEF Broker, BrokerOpens, BrokerListens, BrokerBindFails, BrokerDies,
                schedule, world
  <2>2. pc \notin Between \cup {"cleanup", "broker", "record"} /\ job \in Jobs
    BY <1>t, <2>1
  <2>3. ASSUME NEW j \in jobs PROVE j.case \notin broker_log'
    <3>1. j.case # job.case
      BY <1>t, <2>2, OneJob
    <3>2. QED
      BY <2>1, <3>1
  <2>4. QED
    BY <2>1, <2>2, <2>3
<1>5. CASE RecordSession \/ RecordError
  <2>1. pc = "record" /\ pc' = "next" /\ UNCHANGED <<jobs, job, broker_log, proc>>
    BY <1>5 DEF RecordSession, RecordError, schedule, broker
  <2>2. QED
    BY <2>1
<1>6. CASE AllDone \/ cleanup_case_session
  <2>1. /\ UNCHANGED <<jobs, job, proc, broker_log>>
        /\ \/ pc = "next" /\ pc' = "done"
           \/ pc = "cleanup" /\ pc' = "broker"
    <3>1. CASE AllDone
      BY <3>1 DEF AllDone, schedule, broker
    <3>2. CASE cleanup_case_session
      BY <3>2 DEF cleanup_case_session, schedule
    <3>3. QED
      BY <1>6, <3>1, <3>2
  <2>2. QED
    BY <2>1
<1>7. CASE \/ BrokerReady \/ BrokerNotReady \/ FlashOk \/ FlashFails \/ StartSerial
           \/ reset_device \/ BenchStart \/ IpspConnected \/ BenchReady \/ BoardPinged
           \/ SessionRaises \/ wait_for_attempts
  <2>1. /\ UNCHANGED <<jobs, job, proc, broker_log>>
        /\ pc' \notin Between \cup {"cleanup", "broker", "record"} /\ pc \notin Between
        /\ pc' = "flash" => job.case \in broker_log
    BY <1>7 DEF BrokerReady, BrokerNotReady, FlashOk, FlashFails, StartSerial, reset_device,
                BenchStart, IpspConnected, BenchReady, BoardPinged, Proceed, SessionRaises,
                wait_for_attempts, Raise, schedule, broker
  <2>2. QED
    BY <2>1
<1>8. CASE Board \/ UNCHANGED vars
  <2>1. UNCHANGED <<pc, jobs, job, proc, broker_log>>
    BY <1>8 DEF Board, BoardStarts, BoardMeasures, vars, schedule, broker
  <2>2. QED
    BY <2>1
<1>9. QED
  BY <1>1, <1>2, <1>3, <1>4, <1>5, <1>6, <1>7, <1>8 DEF Next, Runner

(* With one session a case, and no split by --session-attempt-limit, the   *)
(* text that lets a session go on is that of its own broker, never one     *)
(* that an earlier session has left in the log.  It says no more: the text *)
(* comes before the port is bound, and a broker that cannot bind it has    *)
(* written it, too.                                                        *)
THEOREM SingleSessionsReadTheirBroker == Spec => [](OneSession => BrokerListensFirst)
<1>1. Init => LogInv
  BY DEF Init, LogInv, Between
<1>2. LogInv => (OneSession => BrokerListensFirst)
  BY DEF LogInv, BrokerListensFirst, Between
<1>3. QED
  BY <1>1, <1>2, LogNext, Typed, PTL DEF Spec
=============================================================================
