----------------------------- MODULE BenchRunner -----------------------------
(***************************************************************************)
(* The benchmark runner, benchmarking/run_benchmarks.py: main()'s loop over *)
(* the shuffled session jobs, run_scheduled_session() and run_case_session()*)
(* with the broker, the flashing, the serial capture and the rows of each  *)
(* case, against a board that measures by itself once it is linked.        *)
(*                                                                         *)
(* A line of the board is kept as where it was measured: the image on the  *)
(* board, the broker that had the port, the session that booted the board. *)
(* The cases are prepared already; the firmware is built not to reboot     *)
(* between attempts (BenchAttempts has that), and --skip-flash is not set. *)
(***************************************************************************)
EXTENDS Integers, Sequences

CONSTANTS
    Cases,
    NoCase,
    Images,              \* firmware images that can be built
    Erased,              \* what is on a board that cannot boot
    Profile,             \* firmware_key of each case, the image built for it
    Warmups,             \* warmup_iterations of a case
    Iterations,          \* iterations of a case
    SessionAttemptLimit, \* --session-attempt-limit, 0 for none
    SessionsPerCase,     \* --sessions-per-case
    MaxFaults            \* bound: commands that fail and brokers that die

Total == Warmups + Iterations

ASSUME CasesAssumption == NoCase \notin Cases /\ Erased \notin Images
                          /\ Profile \in [Cases -> Images]
ASSUME RunnerAssumption ==
    /\ Warmups \in Nat /\ Iterations \in Nat \ {0}
    /\ SessionAttemptLimit \in Nat /\ SessionsPerCase \in Nat \ {0}
    /\ MaxFaults \in Nat

(* attempt_batches() and the size the firmware of a split case is built for. *)
Split          == SessionAttemptLimit > 0 /\ Total > SessionAttemptLimit
Least(a, b)    == IF a < b THEN a ELSE b
BatchCount     == IF Split
                  THEN (Total + SessionAttemptLimit - 1) \div SessionAttemptLimit
                  ELSE 1
Consumed(k)    == (k - 1) * SessionAttemptLimit
BatchSize(k)   == IF Split THEN Least(SessionAttemptLimit, Total - Consumed(k)) ELSE Total
BatchWarmup(k) == IF Consumed(k) < Warmups
                  THEN Least(Warmups - Consumed(k), BatchSize(k)) ELSE 0
FirmwareTotal  == IF Split THEN SessionAttemptLimit ELSE Total

Jobs  == [case : Cases, repeat : 1 .. SessionsPerCase, batch : 1 .. BatchCount]
NoJob == [case |-> NoCase, repeat |-> 0, batch |-> 0]

VARIABLES
    reset_after_case,    \* --reset-after-case, fixed for the run
    pc,
    jobs,                \* session jobs still to run
    job,                 \* the one running
    failed,              \* has an exception been raised in this session
    flash_needed,
    flashed_key,         \* args._flashed_firmware_key
    image,               \* what is in the board's flash
    board,               \* its stage, attempts left, and the job that booted it
    link,                \* is the IPSP link up
    proc,                \* the session's broker process
    port,                \* whose broker listens on the port
    broker_log,          \* cases whose broker.log has the text that reads as ready
    captured,            \* SerialCapture.attempts
    attempts,            \* rows of each case
    next_attempt_index,
    faults,
    unremoved,           \* history: a clean-up has left a broker's container
    untracked,           \* history: a session that had to flash has failed
    unreset              \* history: a session has ended without a reset of the board

schedule == <<jobs, job, flash_needed, reset_after_case>>
device   == <<image, board, link>>
broker   == <<proc, port, broker_log, unremoved>>
results  == <<attempts, next_attempt_index, flashed_key, untracked>>
vars     == <<pc, schedule, failed, device, broker, captured, results, faults, unreset>>

Capturing == {"reset", "boot", "ipsp", "ready", "ping", "attempts"}
PCs       == {"next", "cleanup", "broker", "wait", "flash", "serial", "finally", "record",
              "done"} \cup Capturing

Lines   == [image : Images, broker : Cases \cup {NoCase}, job : Jobs \cup {NoJob}]
NoLine  == [image |-> Erased, broker |-> NoCase, job |-> NoJob]
Rows    == [index : Nat, warmup : BOOLEAN, status : {"measured", "timeout", "error"},
            job : Jobs, line : Lines \cup {NoLine}]

TypeOK ==
    /\ reset_after_case \in BOOLEAN
    /\ pc \in PCs
    /\ jobs \subseteq Jobs /\ job \in Jobs \cup {NoJob}
    /\ failed \in BOOLEAN /\ flash_needed \in BOOLEAN
    /\ flashed_key \in Images \cup {Erased}
    /\ image \in Images \cup {Erased}
    /\ board \in [stage : {"idle", "booted", "running"}, left : 0 .. FirmwareTotal,
                  job : Jobs \cup {NoJob}]
    /\ link \in BOOLEAN
    /\ proc \in {"none", "starting", "opening", "listening", "exited"}
    /\ port \in Cases \cup {NoCase}
    /\ broker_log \subseteq Cases
    /\ captured \in Seq(Lines)
    /\ attempts \in [Cases -> Seq(Rows)]
    /\ next_attempt_index \in [Cases -> Nat]
    /\ faults \in 0 .. MaxFaults
    /\ unremoved \in BOOLEAN /\ untracked \in BOOLEAN /\ unreset \in BOOLEAN

(* An interrupted run may have left a broker behind. *)
Init ==
    /\ reset_after_case \in BOOLEAN
    /\ pc = "next" /\ jobs = Jobs /\ job = NoJob
    /\ failed = FALSE /\ flash_needed = FALSE /\ flashed_key = Erased
    /\ image \in Images \cup {Erased}
    /\ board = [stage |-> "idle", left |-> 0, job |-> NoJob]
    /\ link = FALSE
    /\ proc = "none" /\ port \in Cases \cup {NoCase} /\ broker_log = {}
    /\ captured = <<>>
    /\ attempts = [c \in Cases |-> <<>>] /\ next_attempt_index = [c \in Cases |-> 1]
    /\ faults = 0 /\ unremoved = FALSE /\ untracked = FALSE /\ unreset = FALSE

Fault == faults < MaxFaults /\ faults' = faults + 1

(* An exception: the finally clause of run_case_session() comes next. *)
Raise == pc' = "finally" /\ failed' = TRUE

-----------------------------------------------------------------------------
(* Choosing a session                                                      *)

BUG_PickJob ==              \* flashes the first session of the run only
    /\ pc = "next"
    /\ \E j \in jobs :
         /\ job' = j /\ jobs' = jobs \ {j}
         /\ flash_needed' = (flashed_key = Erased)
    /\ failed' = FALSE /\ captured' = <<>>
    /\ pc' = "cleanup"
    /\ UNCHANGED <<reset_after_case, device, broker, results, faults, unreset>>

(* The schedule is shuffled: any job may be the next. *)
PickJob ==
    /\ pc = "next"
    /\ \E j \in jobs :
         /\ job' = j /\ jobs' = jobs \ {j}
         /\ flash_needed' = (flashed_key # Profile[j.case])
    /\ failed' = FALSE /\ captured' = <<>>
    /\ pc' = "cleanup"
    /\ UNCHANGED <<reset_after_case, device, broker, results, faults, unreset>>

AllDone ==
    /\ pc = "next" /\ jobs = {}
    /\ pc' = "done"
    /\ UNCHANGED <<schedule, failed, device, broker, captured, results, faults, unreset>>

(* Containers are removed and the link taken down; neither is checked.     *)
(* Without sudo the link is left alone.                                    *)
RemoveBroker == \/ port' = NoCase /\ UNCHANGED <<faults, unremoved>>
                \/ port # NoCase /\ Fault /\ unremoved' = TRUE /\ UNCHANGED port

BUG_cleanup_case_session == \* takes the link down only
    /\ pc = "cleanup"
    /\ link' \in {link, FALSE}
    /\ pc' = "broker"
    /\ UNCHANGED <<schedule, failed, image, board, broker, captured, results, faults, unreset>>

cleanup_case_session ==
    /\ pc = "cleanup"
    /\ RemoveBroker
    /\ link' \in {link, FALSE}
    /\ pc' = "broker"
    /\ UNCHANGED <<schedule, failed, image, board, proc, broker_log, captured, results, unreset>>

-----------------------------------------------------------------------------
(* The broker of the session                                               *)

(* A container of this name that cannot be removed makes the new one fail. *)
start_broker ==
    /\ pc = "broker"
    /\ \/ port' = (IF port = job.case THEN NoCase ELSE port)
          /\ proc' = "starting" /\ UNCHANGED faults
       \/ port = job.case /\ Fault
          /\ proc' = "exited" /\ UNCHANGED port
    /\ pc' = "wait"
    /\ UNCHANGED <<schedule, failed, device, broker_log, unremoved, captured, results, unreset>>

world == <<pc, schedule, failed, device, unremoved, captured, results, unreset>>

(* Mosquitto says "Opening ipv6 listen socket on port" before it binds it, *)
(* so that is in the log also when the port is taken.                      *)
BrokerOpens ==
    /\ proc = "starting"
    /\ proc' = "opening" /\ broker_log' = broker_log \cup {job.case}
    /\ UNCHANGED <<world, port, faults>>

BrokerListens ==
    /\ proc = "opening" /\ port = NoCase
    /\ proc' = "listening" /\ port' = job.case
    /\ UNCHANGED <<world, broker_log, faults>>

BrokerBindFails ==
    /\ proc = "opening" /\ port # NoCase
    /\ proc' = "exited"
    /\ UNCHANGED <<world, port, broker_log, faults>>

BrokerDies ==
    /\ proc \in {"starting", "opening", "listening"} /\ Fault
    /\ proc' = "exited"
    /\ port' = IF proc = "listening" THEN NoCase ELSE port
    /\ UNCHANGED <<world, broker_log>>

(* wait_for_broker_ready() reads the whole log of the case, which all      *)
(* sessions of the case append to, and asks for the text that says ready   *)
(* before it asks for one that names a failure.                            *)
BrokerReady ==
    /\ pc = "wait" /\ job.case \in broker_log
    /\ pc' = "flash"
    /\ UNCHANGED <<schedule, failed, device, broker, captured, results, faults, unreset>>

BUG_BrokerNotReady ==       \* waits for as long as the process runs
    /\ pc = "wait" /\ job.case \notin broker_log /\ proc = "exited"
    /\ Raise
    /\ UNCHANGED <<schedule, device, broker, captured, results, faults, unreset>>

(* A process that has exited, or the timeout.  A log that names a failed   *)
(* bind has the text that says ready, too.                                 *)
BrokerNotReady ==
    /\ pc = "wait" /\ job.case \notin broker_log
    /\ Raise
    /\ UNCHANGED <<schedule, device, broker, captured, results, faults, unreset>>

-----------------------------------------------------------------------------
(* The board                                                               *)

(* flash_firmware(reset=False). *)
FlashOk ==
    /\ pc = "flash"
    /\ image' = IF flash_needed THEN Profile[job.case] ELSE image
    /\ board' = IF flash_needed THEN [board EXCEPT !.stage = "idle"] ELSE board
    /\ pc' = "serial"
    /\ UNCHANGED <<schedule, failed, link, broker, captured, results, faults, unreset>>

(* Fails before the first of two programming commands, in it, or after it. *)
FlashFails ==
    /\ pc = "flash" /\ flash_needed /\ Fault
    /\ \/ UNCHANGED <<image, board>>
       \/ image' \in {Erased, Profile[job.case]} /\ board' = [board EXCEPT !.stage = "idle"]
    /\ Raise
    /\ UNCHANGED <<schedule, link, broker, captured, results, unreset>>

StartSerial ==
    /\ pc = "serial"
    /\ pc' = "reset"
    /\ UNCHANGED <<schedule, failed, device, broker, captured, results, faults, unreset>>

Rebooted == [stage |-> IF image = Erased THEN "idle" ELSE "booted",
             left |-> FirmwareTotal, job |-> job]

reset_device ==
    /\ pc = "reset"
    /\ board' = Rebooted /\ link' = FALSE
    /\ pc' = "boot"
    /\ UNCHANGED <<schedule, failed, image, broker, captured, results, faults, unreset>>

(* The board and its lines: it measures once the link is there, and goes   *)
(* on, with failures to report, when link or broker are gone.              *)
BoardStarts ==
    /\ board.stage = "booted" /\ link
    /\ board' = [board EXCEPT !.stage = "running"]
    /\ UNCHANGED <<pc, schedule, failed, image, link, broker, captured, results, faults, unreset>>

Line == [image |-> image, broker |-> IF link THEN port ELSE NoCase, job |-> board.job]

BUG_BoardMeasures ==        \* one attempt more than the firmware was built for
    /\ board.stage = "running" /\ board.left >= 0
    /\ board' = [board EXCEPT !.left = @ - 1]
    /\ captured' = IF pc \in Capturing THEN Append(captured, Line) ELSE captured
    /\ UNCHANGED <<pc, schedule, failed, image, link, broker, results, faults, unreset>>

BoardMeasures ==
    /\ board.stage = "running" /\ board.left > 0
    /\ board' = [board EXCEPT !.left = @ - 1]
    /\ captured' = IF pc \in Capturing THEN Append(captured, Line) ELSE captured
    /\ UNCHANGED <<pc, schedule, failed, image, link, broker, results, faults, unreset>>

(* BENCH_START, the IPSP link, BENCH_READY and the ping, one after another. *)
Proceed(from, to) ==
    /\ pc = from /\ pc' = to
    /\ UNCHANGED <<schedule, failed, image, board, broker, captured, results, faults, unreset>>

BenchStart     == board.stage # "idle" /\ Proceed("boot", "ipsp") /\ UNCHANGED link
IpspConnected  == board.stage # "idle" /\ Proceed("ipsp", "ready") /\ link' = TRUE
BenchReady     == board.stage = "running" /\ Proceed("ready", "ping") /\ UNCHANGED link
BoardPinged    == link /\ Proceed("ping", "attempts") /\ UNCHANGED link

(* One of these four, or the reset, fails: exit status or timeout. *)
SessionRaises ==
    /\ pc \in {"reset", "boot", "ipsp", "ready", "ping"}
    /\ \/ Fault
       \/ pc = "boot" /\ board.stage = "idle" /\ UNCHANGED faults
    /\ Raise
    /\ UNCHANGED <<schedule, device, broker, captured, results, unreset>>

(* Enough lines, or the session timeout. *)
wait_for_attempts ==
    /\ pc = "attempts"
    /\ \/ Len(captured) >= BatchSize(job.batch) /\ UNCHANGED faults
       \/ Len(captured) < BatchSize(job.batch) /\ Fault
    /\ pc' = "finally"
    /\ UNCHANGED <<schedule, failed, device, broker, captured, results, unreset>>

-----------------------------------------------------------------------------
(* The end of a session                                                    *)

BUG_EndSession ==           \* the board is left running
    /\ pc = "finally"
    /\ proc' = "none" /\ RemoveBroker
    /\ link' \in {link, FALSE}
    /\ pc' = "record"
    /\ UNCHANGED <<schedule, failed, image, board, broker_log, captured, results, unreset>>

Resets == /\ board' = Rebooted /\ link' = FALSE
          /\ UNCHANGED <<failed, unreset>>

(* Without --reset-after-case, or when reset_device() raises: that takes   *)
(* the place of the result of the session.                                 *)
LeavesBoard == /\ link' \in {link, FALSE} /\ UNCHANGED board
               /\ failed' = (failed \/ reset_after_case) /\ unreset' = TRUE

(* The finally clause: the broker is stopped, the container removed, the   *)
(* link taken down, the board reset.                                       *)
EndSession ==
    /\ pc = "finally"
    /\ proc' = "none"
    /\ \/ /\ RemoveBroker
          /\ IF reset_after_case THEN Resets ELSE LeavesBoard
       \/ /\ reset_after_case /\ LeavesBoard
          /\ \/ port' = NoCase /\ Fault /\ UNCHANGED unremoved
             \/ /\ port # NoCase /\ UNCHANGED port /\ unremoved' = TRUE
                /\ faults + 2 <= MaxFaults /\ faults' = faults + 2
    /\ pc' = "record"
    /\ UNCHANGED <<schedule, image, broker_log, captured, results>>

renumber_session_attempts(status, warmups, lines) ==
    [k \in 1 .. Len(lines) |->
        [index |-> next_attempt_index[job.case] + k - 1, warmup |-> k <= warmups,
         status |-> status, job |-> job, line |-> lines[k]]]

AddRows(status, warmups, lines) ==
    /\ attempts' = [attempts EXCEPT ![job.case] =
                        @ \o renumber_session_attempts(status, warmups, lines)]
    /\ next_attempt_index' = [next_attempt_index EXCEPT ![job.case] = @ + Len(lines)]

BUG_RecordSession ==        \* a session without lines leaves no row
    /\ pc = "record" /\ ~failed
    /\ flashed_key' = IF flash_needed THEN Profile[job.case] ELSE flashed_key
    /\ AddRows("measured", BatchWarmup(job.batch), captured)
    /\ pc' = "next"
    /\ UNCHANGED <<schedule, failed, device, broker, captured, faults, untracked, unreset>>

(* run_scheduled_session(), after the session. *)
RecordSession ==
    /\ pc = "record" /\ ~failed
    /\ flashed_key' = IF flash_needed THEN Profile[job.case] ELSE flashed_key
    /\ IF captured = <<>>
       THEN AddRows("timeout", BatchWarmup(job.batch), <<NoLine>>)
       ELSE AddRows("measured", BatchWarmup(job.batch), captured)
    /\ pc' = "next"
    /\ UNCHANGED <<schedule, failed, device, broker, captured, faults, untracked, unreset>>

BUG_RecordError ==          \* the error row uses no index up
    /\ pc = "record" /\ failed
    /\ attempts' = [attempts EXCEPT ![job.case] = Append(@,
                        [index |-> next_attempt_index[job.case], warmup |-> FALSE,
                         status |-> "error", job |-> job, line |-> NoLine])]
    /\ untracked' = (untracked \/ flash_needed)
    /\ pc' = "next"
    /\ UNCHANGED <<schedule, failed, device, broker, captured, faults, flashed_key,
                   next_attempt_index, unreset>>

(* The except clause of main(): flashed_key stays as it was. *)
RecordError ==
    /\ pc = "record" /\ failed
    /\ AddRows("error", 0, <<NoLine>>)
    /\ untracked' = (untracked \/ flash_needed)
    /\ pc' = "next"
    /\ UNCHANGED <<schedule, failed, device, broker, captured, faults, flashed_key, unreset>>

-----------------------------------------------------------------------------

Runner ==
    \/ PickJob \/ AllDone
    \/ cleanup_case_session \/ start_broker \/ BrokerReady \/ BrokerNotReady
    \/ FlashOk \/ FlashFails \/ StartSerial \/ reset_device
    \/ BenchStart \/ IpspConnected \/ BenchReady \/ BoardPinged \/ SessionRaises
    \/ wait_for_attempts
    \/ EndSession \/ RecordSession \/ RecordError

Board  == BoardStarts \/ BoardMeasures
Broker == BrokerOpens \/ BrokerListens \/ BrokerBindFails \/ BrokerDies

Next == Runner \/ Board \/ Broker

Spec == Init /\ [][Next]_vars

(* The runner's waits end by themselves, at their timeouts; the board runs. *)
FairSpec == Spec /\ WF_vars(Runner) /\ WF_vars(Board)

-----------------------------------------------------------------------------
(* Properties                                                              *)

(* schemas.md: attempt_index is 1-based over all rows of the case, however *)
(* many lines, timeouts and errors its sessions ended with.                *)
RowsNumbered ==
    \A c \in Cases :
        /\ \A k \in DOMAIN attempts[c] : attempts[c][k].index = k
        /\ next_attempt_index[c] = Len(attempts[c]) + 1

(* Every session that has been run has left a row with its case, whatever  *)
(* it died of.                                                             *)
SessionsRecorded ==
    pc = "next" =>
        \A j \in Jobs \ jobs : \E k \in DOMAIN attempts[j.case] : attempts[j.case][k].job = j

Measured(c) == {k \in DOMAIN attempts[c] : attempts[c][k].status = "measured"}

(* A case is measured with the firmware built for it, unless a session has *)
(* failed that was to flash the board.                                     *)
MeasuredWithFirmware ==
    untracked \/ \A c \in Cases : \A k \in Measured(c) : attempts[c][k].line.image = Profile[c]

(* The lines of a session come from the boot that session made, unless the *)
(* board was not reset at the end of an earlier one: those of an earlier   *)
(* boot can still be on the serial line.                                   *)
MeasuredInSession ==
    unreset \/ \A c \in Cases : \A k \in Measured(c) :
                   attempts[c][k].line.job = attempts[c][k].job

(* A case is measured against its own broker, or none that listens, unless *)
(* a clean-up has left a container: the broker that was to be removed then *)
(* has the port, and that the new one cannot bind it stops nothing.        *)
MeasuredWithBroker ==
    unremoved \/ \A c \in Cases : \A k \in Measured(c) :
                     attempts[c][k].line.broker \in {c, NoCase}

(* benchmarking/README.md: "Flash the board with `nrfutil` only when the   *)
(* firmware profile changed", so what runs is always the profile's image.  *)
RightFirmware == \A c \in Cases : \A k \in Measured(c) : attempts[c][k].line.image = Profile[c]

(* benchmarking/README.md on --broker-ready-timeout-sec: "max wait for the *)
(* Docker broker to listen".  A broker that has not said yet that it is    *)
(* going to open its port does not listen.                                 *)
BrokerListensFirst == pc = "flash" => proc # "starting"

(* The results are those of ResultLog: a session is pending from the plan  *)
(* to its rows, and a row counts with its index and its session.           *)
Results == INSTANCE ResultLog WITH
    Sessions <- Jobs,
    pending  <- jobs \cup (IF pc \in {"next", "done"} THEN {} ELSE {job}),
    rows     <- [c \in Cases |-> [k \in DOMAIN attempts[c] |->
                    [index |-> attempts[c][k].index, session |-> attempts[c][k].job]]]

(* Each session is reported once, whatever it died of, in rows that are    *)
(* appended to its case, numbered on and never changed.                    *)
ResultLogSpec == Results!Spec

(* The run comes to its end. *)
RunCompletes == <>(pc = "done")
=============================================================================
