---------------------------- MODULE CaseSession ----------------------------
(***************************************************************************)
(* One session of benchmarking/run_benchmarks.py from the reset of the     *)
(* board to its rows: run_case_session() with the capture thread of        *)
(* SerialCapture, the retries of ensure_ipsp_connected() and               *)
(* require_board_ping(), the parsing of lines and their renumbering.       *)
(* BenchRunner has the sessions around it, with this one in a few steps.   *)
(*                                                                         *)
(* The board runs the batch of benchmarking/firmware/src/main.c, see       *)
(* BenchAttempts, and prints to a UART that may lose a byte of a line.     *)
(***************************************************************************)
EXTENDS Naturals, Sequences

CONSTANTS
    Warmups, Iterations,     \* of the session
    FirmwareWarmups,         \* of the board's batch
    Total,                   \* attempts of the board's batch
    ConnectRetries,          \* --ipsp-connect-retries
    PingRetries,             \* --ipsp-ping-retries
    MaxLosses,               \* bound: lines that lose a byte
    MaxFaults                \* bound: failing commands, late answers, link drops

ASSUME SessionAssumption ==
    /\ Warmups \in Nat /\ Iterations \in Nat /\ Warmups + Iterations > 0
    /\ Total \in Nat \ {0} /\ FirmwareWarmups \in 0 .. Warmups
    /\ ConnectRetries \in Nat \ {0} /\ PingRetries \in Nat \ {0}
    /\ MaxLosses \in Nat /\ MaxFaults \in Nat

VARIABLES
    pc,
    tries, pings,    \* retries so far
    bt0,             \* the host's interface: none, left by an earlier link, or of this one
    linked,          \* has the board an IPSP link
    reboots,         \* is the firmware built to reboot after an attempt
    board,           \* its stage and the attempt it is at
    retained,        \* the attempt reboot_state resumes with, 1 when it has none
    wire,            \* lines the capture thread has not read
    partial,         \* text whose newline the UART has lost
    lines,           \* SerialCapture.lines
    attempts,        \* SerialCapture.attempts
    result,          \* rows of the session
    losses, faults,
    stray            \* history: has the board printed before it was reset

uart   == <<wire, partial, losses, stray>>
device == <<board, retained, reboots>>
serial == <<lines, attempts>>
vars   == <<pc, tries, pings, bt0, linked, device, uart, serial, result, faults>>

Expected == Warmups + Iterations

Texts == {"BENCH_START", "BENCH_READY"}
Lines == [texts : SUBSET Texts, attempt : 0 .. Total]
Blank == [texts |-> {}, attempt |-> 0]

Stages == {"booting", "waiting", "settling", "measuring", "done"}

Waiting == {"boot", "connect", "ready", "ping", "attempts"}
Ended   == {"stopped", "raised"}

TypeOK ==
    /\ pc \in {"reset"} \cup Waiting \cup Ended
    /\ tries \in 0 .. ConnectRetries /\ pings \in 0 .. PingRetries
    /\ bt0 \in {"none", "stale", "up"} /\ linked \in BOOLEAN /\ reboots \in BOOLEAN
    /\ board \in [stage : Stages, next : 1 .. Total + 1]
    /\ retained \in 1 .. Total
    /\ wire \in Seq(Lines) /\ partial \in Lines /\ lines \in Seq(Lines)
    /\ attempts \in Seq(1 .. Total)
    /\ result \in Seq([attempt : 1 .. Total, warmup : BOOLEAN])
    /\ losses \in Nat /\ faults \in Nat /\ stray \in BOOLEAN

(* The serial capture has begun.  The board has been reset at the end of   *)
(* the session before and waits for a link, or it was not and still runs.  *)
Init ==
    /\ pc = "reset" /\ tries = 0 /\ pings = 0
    /\ bt0 \in {"none", "stale"} /\ reboots \in BOOLEAN
    /\ retained \in 1 .. Total /\ (~reboots => retained = 1)
    /\ \/ board = [stage |-> "waiting", next |-> 1] /\ linked = FALSE
       \/ board \in [stage : {"measuring"}, next : 1 .. Total] /\ linked \in BOOLEAN
    /\ wire = <<>> /\ partial = Blank /\ lines = <<>> /\ attempts = <<>> /\ result = <<>>
    /\ losses = 0 /\ faults = 0 /\ stray = FALSE

Fault == faults < MaxFaults /\ faults' = faults + 1

-----------------------------------------------------------------------------
(* The board                                                               *)

Merge(a, b) == [texts   |-> a.texts \cup b.texts,
                attempt |-> IF a.attempt # 0 THEN a.attempt ELSE b.attempt]

(* A line arrives; without its marker, which neither wait_for_text() nor   *)
(* parse_attempt_line() recognises then; or without its newline, and the   *)
(* next line is a part of it: of two attempts only the first is parsed.    *)
Prints(line) ==
    /\ stray' = (stray \/ pc = "reset")
    /\ \/ wire' = Append(wire, Merge(partial, line)) /\ partial' = Blank /\ UNCHANGED losses
       \/ /\ losses < MaxLosses /\ losses' = losses + 1
          /\ \/ wire' = Append(wire, partial) /\ partial' = Blank
             \/ partial' = Merge(partial, line) /\ UNCHANGED wire

host == <<pc, tries, pings, serial, result>>

BoardStarts ==
    /\ board.stage = "booting" /\ Prints([Blank EXCEPT !.texts = {"BENCH_START"}])
    /\ board' = [board EXCEPT !.stage = "waiting"]
    /\ UNCHANGED <<host, bt0, linked, retained, reboots, faults>>

BoardReady ==
    /\ board.stage = "waiting" /\ linked /\ Prints([Blank EXCEPT !.texts = {"BENCH_READY"}])
    /\ board' = [board EXCEPT !.stage = "settling"]
    /\ UNCHANGED <<host, bt0, linked, retained, reboots, faults>>

BUG_BoardBegins ==              \* each boot begins the batch
    /\ board.stage = "settling"
    /\ board' = [stage |-> "measuring", next |-> 1]
    /\ UNCHANGED <<host, bt0, linked, retained, reboots, uart, faults>>

(* After the initial delay: bench_start_attempt().                         *)
BoardBegins ==
    /\ board.stage = "settling"
    /\ board' = [stage |-> "measuring", next |-> IF reboots THEN retained ELSE 1]
    /\ UNCHANGED <<host, bt0, linked, retained, reboots, uart, faults>>

reboot ==
    /\ board' = [stage |-> "booting", next |-> 1] /\ linked' = FALSE
    /\ bt0' = IF linked THEN "stale" ELSE bt0

BUG_bench_store_next_attempt == \* not cleared after the last attempt
    IF reboots THEN board.next + 1 ELSE 1

bench_store_next_attempt == IF reboots /\ board.next < Total THEN board.next + 1 ELSE 1

BUG_BoardMeasures ==            \* the reboot option is not in the build
    /\ board.stage = "measuring" /\ Prints([Blank EXCEPT !.attempt = board.next])
    /\ retained' = bench_store_next_attempt
    /\ board' = [stage |-> IF board.next = Total THEN "done" ELSE "measuring",
                 next  |-> board.next + 1]
    /\ UNCHANGED <<bt0, linked, host, reboots, faults>>

(* An attempt, successful or not, and the reboot of a batch not at its     *)
(* end: the link goes with it.                                             *)
BoardMeasures ==
    /\ board.stage = "measuring" /\ Prints([Blank EXCEPT !.attempt = board.next])
    /\ retained' = bench_store_next_attempt
    /\ IF board.next = Total
       THEN board' = [stage |-> "done", next |-> Total + 1] /\ UNCHANGED <<bt0, linked>>
       ELSE IF reboots THEN reboot
       ELSE board' = [board EXCEPT !.next = @ + 1] /\ UNCHANGED <<bt0, linked>>
    /\ UNCHANGED <<host, reboots, faults>>

LinkDrops ==
    /\ linked /\ Fault
    /\ linked' = FALSE /\ bt0' = "stale"
    /\ UNCHANGED <<host, device, uart>>

-----------------------------------------------------------------------------
(* The capture thread                                                      *)

parse_attempt_line(line) == IF line.attempt = 0 THEN <<>> ELSE <<line.attempt>>

(* SerialCapture._run(): a line goes to the queue and is parsed.           *)
Capture ==
    /\ pc \notin Ended /\ wire # <<>>
    /\ wire' = Tail(wire)
    /\ lines' = Append(lines, Head(wire))
    /\ attempts' = attempts \o parse_attempt_line(Head(wire))
    /\ UNCHANGED <<pc, tries, pings, bt0, linked, device, partial, losses, stray, result, faults>>

-----------------------------------------------------------------------------
(* run_case_session()                                                      *)

env == <<device, uart, attempts>>

reset_device ==
    /\ pc = "reset"
    /\ \/ reboot /\ pc' = "boot" /\ UNCHANGED faults
       \/ Fault /\ pc' = "raised" /\ UNCHANGED <<board, linked, bt0>>
    /\ UNCHANGED <<tries, pings, retained, reboots, uart, lines, attempts, result>>

Wait(at, text, to) ==
    /\ pc = at /\ lines # <<>>
    /\ lines' = Tail(lines)
    /\ pc' = IF text \in Head(lines).texts THEN to ELSE at
    /\ UNCHANGED <<tries, pings, bt0, linked, env, result, faults>>

BenchStart == Wait("boot", "BENCH_START", "connect")
BenchReady == Wait("ready", "BENCH_READY", "ping")

(* Nothing is to come on the serial line unless the link changes.          *)
Quiet ==
    /\ wire = <<>> /\ (lines = <<>> \/ pc = "attempts")
    /\ board.stage = "done" \/ (board.stage = "waiting" /\ ~linked)

BUG_TextTimeout ==                  \* looks at the clock only after a line
    /\ pc \in {"boot", "ready"} /\ ~Quiet /\ Fault
    /\ pc' = "raised"
    /\ UNCHANGED <<tries, pings, bt0, linked, env, lines, result>>

(* The board's silence lasts, or the timeout comes before its next line.   *)
TextTimeout ==
    /\ pc \in {"boot", "ready"}
    /\ IF Quiet THEN UNCHANGED faults ELSE Fault
    /\ pc' = "raised"
    /\ UNCHANGED <<tries, pings, bt0, linked, env, lines, result>>

(* host/ipsp_connect.sh drops any link and asks for a new one; a bt0 that  *)
(* is still there passes for it, and then wait_for_ipsp_ready() looks at   *)
(* nothing but bt0.  The board can be connected to once it has booted.     *)
ensure_ipsp_connected ==
    /\ pc = "connect" /\ tries < ConnectRetries /\ tries' = tries + 1
    /\ \/ /\ board.stage # "booting"
          /\ linked' = TRUE /\ bt0' = "up" /\ pc' = "ready" /\ UNCHANGED faults
       \/ /\ bt0 # "none"
          /\ linked' = FALSE /\ bt0' = "stale" /\ pc' = "ready" /\ UNCHANGED faults
       \/ /\ Fault /\ bt0' = "none" /\ linked' = FALSE /\ UNCHANGED pc
       \/ /\ board.stage # "booting"                    \* the address stays tentative
          /\ Fault /\ bt0' = "up" /\ linked' = TRUE /\ UNCHANGED pc
    /\ UNCHANGED <<pings, env, lines, result>>

IpspGivenUp ==
    /\ pc = "connect" /\ tries = ConnectRetries /\ pc' = "raised"
    /\ UNCHANGED <<tries, pings, bt0, linked, env, lines, result, faults>>

require_board_ping ==
    /\ pc = "ping" /\ pings' = pings + 1
    /\ \/ linked /\ pc' = "attempts" /\ UNCHANGED faults
       \/ /\ IF linked THEN Fault ELSE UNCHANGED faults
          /\ pc' = IF pings' = PingRetries THEN "raised" ELSE "ping"
    /\ UNCHANGED <<tries, bt0, linked, env, lines, result>>

BUG_renumber_session_attempts ==    \* an attempt more than the warm-ups counts as one
    [k \in DOMAIN attempts |-> [attempt |-> attempts[k], warmup |-> k + 1 <= Warmups]]

renumber_session_attempts ==
    [k \in DOMAIN attempts |-> [attempt |-> attempts[k], warmup |-> k <= Warmups]]

BUG_wait_for_attempts ==            \* does not count the warm-ups
    /\ pc = "attempts"
    /\ IF Len(attempts) >= Iterations \/ Quiet THEN UNCHANGED faults ELSE Fault
    /\ result' = renumber_session_attempts
    /\ pc' = "stopped"
    /\ UNCHANGED <<tries, pings, bt0, linked, env, lines>>

(* All the rows there are by now; at the timeout, too.                     *)
wait_for_attempts ==
    /\ pc = "attempts"
    /\ IF Len(attempts) >= Expected \/ Quiet THEN UNCHANGED faults ELSE Fault
    /\ result' = renumber_session_attempts
    /\ pc' = "stopped"
    /\ UNCHANGED <<tries, pings, bt0, linked, env, lines>>

Runner ==
    \/ reset_device \/ BenchStart \/ BenchReady \/ TextTimeout
    \/ ensure_ipsp_connected \/ IpspGivenUp \/ require_board_ping \/ wait_for_attempts

Board == BoardStarts \/ BoardReady \/ BoardBegins \/ BoardMeasures

Next == Runner \/ Board \/ LinkDrops \/ Capture

Spec == Init /\ [][Next]_vars

(* The runner, the capture thread and the board each keep running.         *)
FairSpec == Spec /\ WF_vars(Runner) /\ WF_vars(Board) /\ WF_vars(Capture)

-----------------------------------------------------------------------------
(* Properties                                                              *)

(* No warm-up of the board is counted as a measurement, however many lines *)
(* are lost or joined and wherever in its batch a rebooted board resumes,  *)
(* as long as the board prints nothing before the session resets it.       *)
WarmupsExcluded ==
    ~stray => \A k \in DOMAIN result : result[k].attempt <= FirmwareWarmups => result[k].warmup

(* No attempt of the board makes two rows of a session, and they are in    *)
(* the order they were measured in, although the board may have rebooted   *)
(* and been connected to several times.                                    *)
MeasuredOnce ==
    ~stray => \A j, k \in DOMAIN attempts : j < k => attempts[j] < attempts[k]

(* Without a lost byte, a reboot or a fault, a session that stops has the  *)
(* board's first attempts, all that were asked for as far as there are.    *)
SessionComplete ==
    /\ pc = "stopped" /\ ~reboots /\ ~stray /\ losses = 0 /\ faults = 0
    => /\ Len(result) >= Expected \/ Len(result) = Total
       /\ \A k \in DOMAIN result : result[k].attempt = k

(* Firmware that reboots after an attempt is measured at most once for     *)
(* each time the runner connects to it: a session collects no more rows    *)
(* than it takes attempts to connect.                                      *)
OneRowPerLink == reboots /\ ~stray => Len(attempts) <= tries

(* Whatever the board, the link and the UART do, the session ends.         *)
SessionEnds == <>(pc \in Ended)
=============================================================================
