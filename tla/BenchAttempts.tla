---------------------------- MODULE BenchAttempts ----------------------------
(***************************************************************************)
(* The benchmark firmware, benchmarking/firmware/src/main.c: main()'s loop *)
(* over the attempts of a batch, run_one_attempt_with_retries(),           *)
(* run_one_attempt() with the socket and the TLS context it uses, and the  *)
(* reboot_state record in uninitialised RAM that carries the batch over a  *)
(* reboot.  The host may reset the board between any two steps.            *)
(*                                                                         *)
(* Timings are left out: of the metrics of a try only the error code and   *)
(* whether there was a TLS error are kept.                                 *)
(***************************************************************************)
EXTENDS Naturals

CONSTANTS
    Total,           \* CONFIG_APP_BENCH_WARMUP_ITERATIONS + CONFIG_APP_BENCH_ITERATIONS
    ConnectRetries,  \* CONFIG_APP_BENCH_CONNECT_RETRIES
    Pqm4,            \* is the pqm4 backend built in
    HandshakeRounds, \* bound: rounds of mqtt_tls_net_connect() before its deadline
    MaxResets,       \* bound: resets by the host
    MaxDrops         \* bound: losses of the link

ASSUME BatchAssumption ==
    /\ Total \in Nat \ {0}
    /\ ConnectRetries \in Nat \ {0}
    /\ Pqm4 \in BOOLEAN
    /\ HandshakeRounds \in Nat /\ MaxResets \in Nat /\ MaxDrops \in Nat

VARIABLES
    reboot_after,    \* CONFIG_APP_BENCH_REBOOT_AFTER_ATTEMPT, fixed by the build
    pc,              \* where the main thread is
    link,            \* is the IPSP link up
    retained,        \* reboot_state, kept over a reset
    i,               \* the attempt being made
    try_index,
    rounds,          \* rounds of the handshake
    rc,
    metrics,
    first,           \* first_tls_error_metrics, NoMetrics while have_tls_error is false
    sock,            \* is sock_ctx.fd an open socket
    ctx,             \* does mqtt_client hold a TLS context
    allocated,       \* TLS contexts allocated through wolfSSL and not freed
    outcomes,        \* history: how the tries of this attempt ended
    last,            \* history: index of the last BENCH_ATTEMPT line
    lines,           \* history: BENCH_ATTEMPT lines since the board booted
    disturbed,       \* history: has the host reset the board since the last line
    resets, drops

batch   == <<retained, i, last, lines, disturbed>>
attempt == <<try_index, first, outcomes>>
conn    == <<sock, ctx, allocated>>
env     == <<link, resets, drops, reboot_after>>
vars    == <<pc, batch, attempt, rounds, rc, metrics, conn, env>>

PCs == {"boot", "fatal", "waitnet", "try", "net", "tls", "handshake", "mqtt", "finish",
        "tried", "report", "store", "reboot", "pause", "ending", "done"}

Failures == {"timeout", "error"}
Codes    == {"success"} \cup Failures
Metrics  == [error : Codes, tls : BOOLEAN]

NoMetrics    == [error |-> "success", tls |-> FALSE]
Failed(c, t) == [error |-> c, tls |-> t]

Cleared   == [magic |-> FALSE, total |-> 0, next |-> 0]
Resume(n) == [magic |-> TRUE, total |-> Total, next |-> n]

(* bench_start_attempt() goes on with the batch it finds. *)
Resumable(r) == r.magic /\ r.total = Total /\ r.next \in 1 .. Total

TypeOK ==
    /\ reboot_after \in BOOLEAN
    /\ pc \in PCs
    /\ link \in BOOLEAN
    /\ retained \in [magic : BOOLEAN, total : Nat, next : Nat]
    /\ i \in 0 .. Total
    /\ try_index \in 0 .. ConnectRetries
    /\ rounds \in Nat
    /\ rc \in Codes
    /\ metrics \in Metrics /\ first \in Metrics
    /\ sock \in BOOLEAN /\ ctx \in BOOLEAN
    /\ allocated \in Nat
    /\ outcomes \subseteq [rc : Codes, metrics : Metrics]
    /\ last \in 0 .. Total
    /\ lines \in Nat
    /\ disturbed \in BOOLEAN
    /\ resets \in Nat /\ drops \in Nat

(* RAM holds anything at power on, and what another build left later on;   *)
(* not the magic number together with this batch's size and a fitting index.*)
Init ==
    /\ reboot_after \in BOOLEAN
    /\ retained \in [magic : BOOLEAN, total : {0, Total, Total + 1}, next : 0 .. Total + 1]
    /\ ~Resumable(retained)
    /\ pc = "boot" /\ link = FALSE
    /\ i = 0 /\ try_index = 0 /\ rounds = 0 /\ rc = "error"
    /\ metrics = NoMetrics /\ first = NoMetrics /\ outcomes = {}
    /\ sock = FALSE /\ ctx = FALSE /\ allocated = 0
    /\ last = 0 /\ lines = 0 /\ disturbed = FALSE
    /\ resets = 0 /\ drops = 0

-----------------------------------------------------------------------------
(* Restarting                                                              *)

(* A cold reboot: all but reboot_state starts again, the link is lost. *)
Restart ==
    /\ pc' = "boot" /\ link' = FALSE
    /\ i' = 0 /\ try_index' = 0 /\ rounds' = 0 /\ rc' = "error"
    /\ metrics' = NoMetrics /\ first' = NoMetrics /\ outcomes' = {}
    /\ sock' = FALSE /\ ctx' = FALSE /\ allocated' = 0
    /\ lines' = 0
    /\ UNCHANGED <<retained, last, reboot_after, drops>>

HostReset ==
    /\ resets < MaxResets
    /\ resets' = resets + 1 /\ disturbed' = TRUE
    /\ Restart

SysReboot ==
    /\ pc = "reboot"
    /\ Restart
    /\ UNCHANGED <<resets, disturbed>>

-----------------------------------------------------------------------------
(* main() up to the first attempt                                          *)

Boot ==
    /\ pc = "boot"
    /\ pc' = "waitnet"
    /\ UNCHANGED <<batch, attempt, rounds, rc, metrics, conn, env>>

BackendFatal ==
    /\ pc = "boot" /\ Pqm4
    /\ pc' = "fatal"
    /\ UNCHANGED <<batch, attempt, rounds, rc, metrics, conn, env>>

(* The prologue of run_one_attempt_with_retries(). *)
BeginAttempt(n) ==
    /\ i' = n /\ try_index' = 1
    /\ first' = NoMetrics /\ outcomes' = {}
    /\ pc' = "try"

BUG_bench_start_attempt ==  \* every boot starts the batch over
    IF reboot_after
    THEN retained' = Resume(1) /\ BeginAttempt(1)
    ELSE UNCHANGED retained /\ BeginAttempt(1)

bench_start_attempt ==
    IF reboot_after
    THEN /\ retained' = IF Resumable(retained) THEN retained ELSE Resume(1)
         /\ BeginAttempt(retained'.next)
    ELSE UNCHANGED retained /\ BeginAttempt(1)

StartBatch ==
    /\ pc = "waitnet" /\ link
    /\ bench_start_attempt
    /\ UNCHANGED <<last, lines, disturbed, rounds, rc, metrics, conn, env>>

-----------------------------------------------------------------------------
(* run_one_attempt()                                                       *)

(* Closes the socket, and clears mqtt_client without freeing anything. *)
reset_benchmark_client_state ==
    sock' = FALSE /\ ctx' = FALSE /\ UNCHANGED allocated

(* MqttClient_NetDisconnect frees the TLS context, then calls net_disconnect. *)
NetDisconnect ==
    /\ sock' = FALSE /\ ctx' = FALSE
    /\ allocated' = IF ctx THEN allocated - 1 ELSE allocated

Tried(r, m) == outcomes' = outcomes \cup {[rc |-> r, metrics |-> m]}

BeginTry ==
    /\ pc = "try"
    /\ reset_benchmark_client_state
    /\ rounds' = 0
    /\ \/ /\ pc' = "net" /\ metrics' = NoMetrics
          /\ UNCHANGED <<rc, outcomes>>
       \/ /\ pc' = "tried" /\ rc' = "error" /\ metrics' = Failed("error", FALSE)  \* MqttClient_Init
          /\ Tried(rc', metrics')
    /\ UNCHANGED <<batch, try_index, first, env>>

NetConnectOk ==
    /\ pc = "net" /\ link
    /\ sock' = TRUE
    /\ pc' = "tls"
    /\ UNCHANGED <<batch, attempt, rounds, rc, metrics, ctx, allocated, env>>

(* mqtt_tls_net_connect() records the error and disconnects. *)
ConnectFails(code, tls) ==
    /\ metrics' = Failed(code, tls) /\ rc' = code
    /\ NetDisconnect
    /\ pc' = "finish"
    /\ UNCHANGED <<batch, attempt, rounds, env>>

NetConnectFails == pc = "net" /\ ConnectFails("error", FALSE)

TlsSetupOk ==
    /\ pc = "tls"
    /\ ctx' = TRUE /\ allocated' = allocated + 1
    /\ pc' = "handshake"
    /\ UNCHANGED <<batch, attempt, rounds, rc, metrics, sock, env>>

(* tls_setup_cb() frees its context before it fails. *)
TlsSetupFails == pc = "tls" /\ ConnectFails("error", FALSE)

HandshakeOk ==
    /\ pc = "handshake" /\ link
    /\ pc' = "mqtt"
    /\ UNCHANGED <<batch, attempt, rounds, rc, metrics, conn, env>>

HandshakeContinues ==
    /\ pc = "handshake" /\ rounds < HandshakeRounds
    /\ rounds' = rounds + 1
    /\ UNCHANGED <<pc, batch, attempt, rc, metrics, conn, env>>

HandshakeFails ==
    /\ pc = "handshake"
    /\ \E code \in Failures, tls \in BOOLEAN : ConnectFails(code, tls)

(* mqtt_connect_subscribe_publish(): CONNECT, SUBSCRIBE and PUBLISH. *)
MqttOk ==
    /\ pc = "mqtt" /\ link
    /\ rc' = "success"
    /\ pc' = "finish"
    /\ UNCHANGED <<batch, attempt, rounds, metrics, conn, env>>

MqttFails ==
    /\ pc = "mqtt"
    /\ \E code \in Failures : rc' = code /\ metrics' = [metrics EXCEPT !.error = code]
    /\ pc' = "finish"
    /\ UNCHANGED <<batch, attempt, rounds, conn, env>>

BUG_FinishTry ==            \* the client is cleared without MqttClient_NetDisconnect
    /\ pc = "finish"
    /\ reset_benchmark_client_state
    /\ Tried(rc, metrics)
    /\ pc' = "tried"
    /\ UNCHANGED <<batch, try_index, first, rounds, rc, metrics, env>>

(* Disconnects once more, then resets the client, which is clean by now. *)
FinishTry ==
    /\ pc = "finish"
    /\ NetDisconnect
    /\ Tried(rc, metrics)
    /\ pc' = "tried"
    /\ UNCHANGED <<batch, try_index, first, rounds, rc, metrics, env>>

-----------------------------------------------------------------------------
(* run_one_attempt_with_retries()                                          *)

FirstTlsError == IF first = NoMetrics /\ metrics.tls THEN metrics ELSE first

TrySucceeded ==
    /\ pc = "tried" /\ rc = "success"
    /\ pc' = "report"
    /\ UNCHANGED <<batch, attempt, rounds, rc, metrics, conn, env>>

BUG_TryAgain ==             \* one try too many
    /\ pc = "tried" /\ rc # "success" /\ try_index <= ConnectRetries
    /\ first' = FirstTlsError
    /\ try_index' = try_index + 1
    /\ pc' = "try"
    /\ UNCHANGED <<batch, outcomes, rounds, rc, metrics, conn, env>>

TryAgain ==
    /\ pc = "tried" /\ rc # "success" /\ try_index < ConnectRetries
    /\ first' = FirstTlsError
    /\ try_index' = try_index + 1
    /\ pc' = "try"
    /\ UNCHANGED <<batch, outcomes, rounds, rc, metrics, conn, env>>

BUG_GiveUp ==               \* the first TLS error replaces the metrics, not the code
    /\ pc = "tried" /\ rc # "success" /\ try_index = ConnectRetries
    /\ first' = FirstTlsError
    /\ metrics' = IF first'.tls /\ ~metrics.tls THEN first' ELSE metrics
    /\ pc' = "report"
    /\ UNCHANGED <<batch, try_index, outcomes, rounds, rc, conn, env>>

GiveUp ==
    /\ pc = "tried" /\ rc # "success" /\ try_index = ConnectRetries
    /\ first' = FirstTlsError
    /\ \/ /\ first'.tls /\ ~metrics.tls
          /\ metrics' = first' /\ rc' = first'.error
       \/ /\ ~(first'.tls /\ ~metrics.tls)
          /\ UNCHANGED <<metrics, rc>>
    /\ pc' = "report"
    /\ UNCHANGED <<batch, try_index, outcomes, rounds, conn, env>>

-----------------------------------------------------------------------------
(* main()'s loop                                                           *)

(* The BENCH_ATTEMPT line. *)
Report ==
    /\ pc = "report"
    /\ last' = i /\ lines' = lines + 1 /\ disturbed' = FALSE
    /\ pc' = "store"
    /\ UNCHANGED <<retained, i, attempt, rounds, rc, metrics, conn, env>>

BUG_bench_store_next_attempt(n) ==  \* a batch at its end is kept
    retained' = IF reboot_after /\ n <= Total THEN Resume(n) ELSE retained

BUG_StoreSkips(n) ==                \* stores one attempt too many
    retained' = IF ~reboot_after THEN retained
                ELSE IF n + 1 > Total THEN Cleared ELSE Resume(n + 1)

bench_store_next_attempt(n) ==
    retained' = IF ~reboot_after THEN retained
                ELSE IF n > Total THEN Cleared ELSE Resume(n)

BUG_StoreNext ==            \* no reboot between two attempts
    /\ pc = "store"
    /\ bench_store_next_attempt(i + 1)
    /\ pc' = "pause"
    /\ UNCHANGED <<i, last, lines, disturbed, attempt, rounds, rc, metrics, conn, env>>

StoreNext ==
    /\ pc = "store"
    /\ bench_store_next_attempt(i + 1)
    /\ pc' = IF reboot_after /\ i < Total THEN "reboot" ELSE "pause"
    /\ UNCHANGED <<i, last, lines, disturbed, attempt, rounds, rc, metrics, conn, env>>

NextAttempt ==
    /\ pc = "pause"
    /\ \/ i < Total /\ BeginAttempt(i + 1)
       \/ i = Total /\ pc' = "ending" /\ UNCHANGED <<i, attempt>>
    /\ UNCHANGED <<retained, last, lines, disturbed, rounds, rc, metrics, conn, env>>

(* BENCH_DONE, and sleeping for good. *)
Done ==
    /\ pc = "ending"
    /\ bench_store_next_attempt(Total + 1)
    /\ pc' = "done"
    /\ UNCHANGED <<i, last, lines, disturbed, attempt, rounds, rc, metrics, conn, env>>

-----------------------------------------------------------------------------
(* The link                                                                *)

LinkUp ==
    /\ ~link
    /\ link' = TRUE
    /\ UNCHANGED <<pc, batch, attempt, rounds, rc, metrics, conn, resets, drops, reboot_after>>

LinkDown ==
    /\ link /\ drops < MaxDrops
    /\ link' = FALSE /\ drops' = drops + 1
    /\ UNCHANGED <<pc, batch, attempt, rounds, rc, metrics, conn, resets, reboot_after>>

-----------------------------------------------------------------------------

RunOneAttempt ==
    \/ BeginTry
    \/ NetConnectOk \/ NetConnectFails
    \/ TlsSetupOk \/ TlsSetupFails
    \/ HandshakeOk \/ HandshakeContinues \/ HandshakeFails
    \/ MqttOk \/ MqttFails
    \/ FinishTry
    \/ TrySucceeded \/ TryAgain \/ GiveUp

Main ==
    \/ Boot \/ BackendFatal \/ StartBatch
    \/ Report \/ StoreNext \/ SysReboot
    \/ NextAttempt \/ Done

Board == Main \/ RunOneAttempt

Next == Board \/ HostReset \/ LinkUp \/ LinkDown

Spec == Init /\ [][Next]_vars

(* The main thread is always scheduled.  Nobody has to bring the link up:  *)
(* run_case_session() connects once, and not again after a sys_reboot().   *)
FairSpec == Spec /\ WF_vars(Board)

-----------------------------------------------------------------------------
(* Properties                                                              *)

(* The lines of a batch come in order, none missing and none twice, over   *)
(* the reboots in between; one reset by the host excuses one jump back.    *)
Log == INSTANCE AttemptLog WITH Total <- Total, last <- last, disturbed <- disturbed
AttemptLogSpec == Log!Spec

(* A line gives the numbers and the code of one and the same try, and a    *)
(* failed attempt in which any try saw a TLS error reports a TLS error.    *)
ReportTruthful ==
    pc = "report" =>
        /\ [rc |-> rc, metrics |-> metrics] \in outcomes
        /\ (rc # "success" /\ \E o \in outcomes : o.metrics.tls) => metrics.tls

(* Between two tries nothing of the last one is left: no open socket, no   *)
(* TLS context, also none that mqtt_client has lost sight of.              *)
ResourcesReturned ==
    /\ pc \notin {"net", "tls", "handshake", "mqtt", "finish"} => ~sock /\ allocated = 0
    /\ pc = "net" => ~sock

(* Built to reboot, the firmware measures every attempt on a fresh boot. *)
FreshBoot == reboot_after => lines <= 1

(* A finished batch is forgotten: the next boot starts a new one. *)
FinishedBatchForgotten == reboot_after /\ pc = "done" => ~Resumable(retained)

(* The option's help text: "reboot firmware after each BENCH_ATTEMPT line". *)
RebootsAfterEachLine == reboot_after /\ pc = "done" => lines = 0

(* Once the host leaves the board alone, the batch is completed, whatever  *)
(* fails in its attempts, or the board waits after a boot for a link that  *)
(* nobody sets up: a link lost later, during a try, holds nothing up.      *)
(* Only the pqm4 backend may not start.                                    *)
BatchEndsOrWaits == <>[](\/ pc = "fatal"
                         \/ pc = "done" /\ last = Total
                         \/ pc = "waitnet" /\ ~link)
=============================================================================
