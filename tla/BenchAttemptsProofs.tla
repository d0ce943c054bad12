------------------------- MODULE BenchAttemptsProofs -------------------------
(***************************************************************************)
(* BenchAttempts for batches of every size, every number of retries and    *)
(* any number of resets: its types, what a try leaves behind, what a line  *)
(* reports, and that it implements AttemptLog.                             *)
(***************************************************************************)
EXTENDS BenchAttempts, TLAPS

Idle       == {"boot", "fatal", "waitnet"}
Attempting == {"try", "net", "tls", "handshake", "mqtt", "finish", "tried", "report"}
Ended      == {"ending", "done"}

-----------------------------------------------------------------------------
(* Types                                                                   *)

ControlOK ==
    /\ pc \in PCs
    /\ i \in 0 .. Total /\ try_index \in 0 .. ConnectRetries
    /\ rounds \in Nat /\ lines \in Nat /\ resets \in Nat /\ drops \in Nat
    /\ last \in 0 .. Total

StoreOK == retained \in [magic : BOOLEAN, total : Nat, next : Nat]

FlagsOK ==
    /\ reboot_after \in BOOLEAN /\ link \in BOOLEAN /\ disturbed \in BOOLEAN
    /\ sock \in BOOLEAN /\ ctx \in BOOLEAN

ResultOK ==
    /\ rc \in Codes /\ metrics \in Metrics /\ first \in Metrics
    /\ outcomes \subseteq [rc : Codes, metrics : Metrics]

LEMMA FlagsNext == FlagsOK /\ [Next]_vars => FlagsOK'
<1> SUFFICES ASSUME FlagsOK, [Next]_vars PROVE FlagsOK'
  OBVIOUS
<1> USE DEF FlagsOK
<1>1. CASE HostReset \/ SysReboot
  BY <1>1 DEF HostReset, SysReboot, Restart
<1>2. CASE Boot \/ BackendFatal \/ StartBatch \/ Report \/ StoreNext \/ NextAttempt \/ Done
  BY <1>2 DEF Boot, BackendFatal, StartBatch, Report, StoreNext, NextAttempt, Done, batch,
              conn, env
<1>3. CASE BeginTry \/ NetConnectOk \/ TlsSetupOk \/ FinishTry
  BY <1>3 DEF BeginTry, reset_benchmark_client_state, NetConnectOk, TlsSetupOk, FinishTry,
              NetDisconnect, batch, env
<1>4. CASE NetConnectFails \/ TlsSetupFails \/ HandshakeFails
  BY <1>4 DEF NetConnectFails, TlsSetupFails, HandshakeFails, ConnectFails, NetDisconnect,
              batch, env
<1>5. CASE HandshakeOk \/ HandshakeContinues \/ MqttOk \/ MqttFails
           \/ TrySucceeded \/ TryAgain \/ GiveUp
  BY <1>5 DEF HandshakeOk, HandshakeContinues, MqttOk, MqttFails, TrySucceeded, TryAgain,
              GiveUp, batch, conn, env
<1>6. CASE LinkUp \/ LinkDown \/ UNCHANGED vars
  BY <1>6 DEF LinkUp, LinkDown, vars, batch, conn, env
<1>7. QED
  BY <1>1, <1>2, <1>3, <1>4, <1>5, <1>6 DEF Next, Board, Main, RunOneAttempt

LEMMA ResultNext == ResultOK /\ [Next]_vars => ResultOK'
<1> SUFFICES ASSUME ResultOK, [Next]_vars PROVE ResultOK'
  OBVIOUS
<1>0. NoMetrics \in Metrics /\ \A c \in Codes, t \in BOOLEAN : Failed(c, t) \in Metrics
  BY DEF NoMetrics, Failed, Metrics, Codes
<1>1. CASE HostReset \/ SysReboot
  BY <1>0, <1>1 DEF HostReset, SysReboot, Restart, ResultOK, Codes, Failures
<1>2. CASE Boot \/ BackendFatal \/ Report \/ StoreNext \/ Done \/ LinkUp \/ LinkDown
           \/ UNCHANGED vars
  BY <1>2 DEF Boot, BackendFatal, Report, StoreNext, Done, LinkUp, LinkDown, vars, attempt,
              ResultOK
<1>3. CASE StartBatch \/ NextAttempt
  <2>1. /\ rc' = rc /\ metrics' = metrics
        /\ first' = first \/ first' = NoMetrics
        /\ outcomes' = outcomes \/ outcomes' = {}
    BY <1>3 DEF StartBatch, bench_start_attempt, NextAttempt, BeginAttempt, attempt
  <2>2. QED
    BY <1>0, <2>1 DEF ResultOK
<1>4. CASE BeginTry
  <2>1. first' = first /\ rc' \in Codes /\ metrics' \in Metrics
    BY <1>0, <1>4 DEF BeginTry, ResultOK, Codes, Failures
  <2>2. outcomes' = outcomes \/ outcomes' = outcomes \cup {[rc |-> rc', metrics |-> metrics']}
    BY <1>4 DEF BeginTry, Tried
  <2>3. QED
    BY <2>1, <2>2 DEF ResultOK
<1>5. CASE NetConnectFails \/ TlsSetupFails \/ HandshakeFails
  <2>1. PICK code \in Failures, tls \in BOOLEAN : ConnectFails(code, tls)
    BY <1>5 DEF NetConnectFails, TlsSetupFails, HandshakeFails, Failures
  <2>2. QED
    BY <1>0, <2>1 DEF ConnectFails, ResultOK, attempt, Codes
<1>6. CASE NetConnectOk \/ TlsSetupOk \/ HandshakeOk \/ HandshakeContinues \/ MqttOk
           \/ TrySucceeded
  BY <1>6 DEF NetConnectOk, TlsSetupOk, HandshakeOk, HandshakeContinues, MqttOk, TrySucceeded,
              attempt, ResultOK, Codes
<1>7. CASE MqttFails
  BY <1>7 DEF MqttFails, attempt, ResultOK, Codes, Metrics
<1>8. CASE FinishTry
  BY <1>8 DEF FinishTry, Tried, ResultOK
<1>9. CASE TryAgain
  BY <1>9 DEF TryAgain, FirstTlsError, ResultOK
<1>10. CASE GiveUp
  BY <1>10 DEF GiveUp, FirstTlsError, ResultOK, Metrics
<1>11. QED
  BY <1>1, <1>2, <1>3, <1>4, <1>5, <1>6, <1>7, <1>8, <1>9, <1>10
     DEF Next, Board, Main, RunOneAttempt

Records == [magic : BOOLEAN, total : Nat, next : Nat]

LEMMA ResumeTyped == Cleared \in Records /\ \A n \in Nat : Resume(n) \in Records
  BY BatchAssumption DEF Cleared, Resume, Records

(* Only three steps write reboot_state, and what they write is a record of *)
(* this batch or the cleared one.                                          *)
LEMMA StoreSteps ==
  ASSUME [Next]_vars
  PROVE  \/ retained' = retained
         \/ /\ StartBatch /\ reboot_after /\ ~Resumable(retained)
            /\ retained' = Resume(1)
         \/ /\ StoreNext /\ reboot_after
            /\ \/ i + 1 > Total /\ retained' = Cleared
               \/ ~(i + 1 > Total) /\ retained' = Resume(i + 1)
         \/ /\ Done /\ reboot_after
            /\ \/ Total + 1 > Total /\ retained' = Cleared
               \/ ~(Total + 1 > Total) /\ retained' = Resume(Total + 1)
<1>1. retained' # retained => StartBatch \/ StoreNext \/ Done
  BY DEF Next, Board, Main, RunOneAttempt, HostReset, SysReboot, Restart, Boot, BackendFatal,
         Report, NextAttempt, BeginTry, NetConnectOk, NetConnectFails, TlsSetupOk,
         TlsSetupFails, HandshakeOk, HandshakeContinues, HandshakeFails, ConnectFails, MqttOk,
         MqttFails, FinishTry, TrySucceeded, TryAgain, GiveUp, LinkUp, LinkDown, vars, batch
<1>2. StartBatch => \/ retained' = retained
                    \/ reboot_after /\ ~Resumable(retained) /\ retained' = Resume(1)
  BY DEF StartBatch, bench_start_attempt
<1>3. StoreNext => \/ retained' = retained
                   \/ /\ reboot_after
                      /\ \/ i + 1 > Total /\ retained' = Cleared
                         \/ ~(i + 1 > Total) /\ retained' = Resume(i + 1)
  BY DEF StoreNext, bench_store_next_attempt
<1>4. Done => \/ retained' = retained
              \/ /\ reboot_after
                 /\ \/ Total + 1 > Total /\ retained' = Cleared
                    \/ ~(Total + 1 > Total) /\ retained' = Resume(Total + 1)
  BY DEF Done, bench_store_next_attempt
<1>5. QED
  BY <1>1, <1>2, <1>3, <1>4

LEMMA StoreTyped == StoreOK /\ ControlOK /\ [Next]_vars => StoreOK'
<1> SUFFICES ASSUME StoreOK, ControlOK, [Next]_vars PROVE StoreOK'
  OBVIOUS
<1>1. i + 1 \in Nat /\ Total + 1 \in Nat /\ 1 \in Nat
  BY BatchAssumption DEF ControlOK
<1>2. \/ retained' \in {retained, Cleared, Resume(1)}
      \/ retained' \in {Resume(i + 1), Resume(Total + 1)}
  BY StoreSteps
<1>3. retained' = retained \/ retained' \in Records
  BY <1>1, <1>2, ResumeTyped
<1>4. QED
  BY <1>3 DEF StoreOK, Records

LEMMA ControlNext == StoreOK /\ ControlOK /\ [Next]_vars => ControlOK'
<1> SUFFICES ASSUME StoreOK, ControlOK, [Next]_vars PROVE ControlOK'
  OBVIOUS
<1> USE BatchAssumption DEF PCs, ControlOK
<1>1. CASE HostReset
  BY <1>1 DEF HostReset, Restart
<1>2. CASE SysReboot
  BY <1>2 DEF SysReboot, Restart
<1>3. CASE StartBatch
  <2>1. PICK n \in 1 .. Total : BeginAttempt(n)
    BY <1>3 DEF StartBatch, bench_start_attempt, Resumable, Resume
  <2>2. QED
    BY <1>3, <2>1 DEF StartBatch, BeginAttempt, env
<1>4. CASE Boot \/ BackendFatal \/ Done
  BY <1>4 DEF Boot, BackendFatal, Done, batch, attempt, env
<1>13. CASE Report
  BY <1>13 DEF Report, attempt, env
<1>5. CASE StoreNext
  BY <1>5 DEF StoreNext, attempt, env
<1>6. CASE NextAttempt
  <2>1. UNCHANGED <<last, lines, rounds, resets, drops>>
    BY <1>6 DEF NextAttempt, env
  <2>2. CASE i < Total /\ BeginAttempt(i + 1)
    BY <2>1, <2>2 DEF BeginAttempt
  <2>3. CASE pc' = "ending" /\ UNCHANGED <<i, attempt>>
    BY <2>1, <2>3 DEF attempt
  <2>4. QED
    BY <1>6, <2>2, <2>3 DEF NextAttempt
<1>7. CASE BeginTry
  <2>1. pc' \in {"net", "tried"} /\ rounds' = 0 /\ UNCHANGED <<batch, try_index, env>>
    BY <1>7 DEF BeginTry
  <2>2. QED
    BY <2>1 DEF batch, env
<1>14. CASE NetConnectOk \/ TlsSetupOk \/ HandshakeOk \/ MqttOk \/ MqttFails \/ FinishTry
  <2>1. /\ pc' \in {"tls", "handshake", "mqtt", "finish", "tried"}
        /\ UNCHANGED <<batch, try_index, rounds, env>>
    BY <1>14 DEF NetConnectOk, TlsSetupOk, HandshakeOk, MqttOk, MqttFails, FinishTry, attempt
  <2>2. QED
    BY <2>1 DEF batch, env
<1>15. CASE HandshakeContinues
  BY <1>15 DEF HandshakeContinues, batch, attempt, env
<1>8. CASE NetConnectFails \/ TlsSetupFails \/ HandshakeFails
  <2>1. pc' = "finish" /\ UNCHANGED <<batch, attempt, rounds, env>>
    BY <1>8 DEF NetConnectFails, TlsSetupFails, HandshakeFails, ConnectFails
  <2>2. QED
    BY <2>1 DEF batch, attempt, env
<1>9. CASE TrySucceeded \/ GiveUp
  BY <1>9 DEF TrySucceeded, GiveUp, batch, attempt, env
<1>10. CASE TryAgain
  BY <1>10 DEF TryAgain, batch, env
<1>11. CASE LinkUp \/ LinkDown \/ UNCHANGED vars
  BY <1>11 DEF LinkUp, LinkDown, vars, batch, attempt, env
<1>12. QED
  BY <1>1, <1>2, <1>3, <1>4, <1>5, <1>6, <1>7, <1>8, <1>9, <1>10, <1>11, <1>13, <1>14, <1>15
     DEF Next, Board, Main, RunOneAttempt

-----------------------------------------------------------------------------
(* What a try leaves behind.  The context is counted while mqtt_client     *)
(* holds it; the socket and the context are there only while a try runs.   *)

ResInv ==
    /\ allocated = IF ctx THEN 1 ELSE 0
    /\ pc \notin {"handshake", "mqtt", "finish"} => ~ctx
    /\ pc \notin {"tls", "handshake", "mqtt", "finish"} => ~sock

LEMMA NetDisconnectReleases ==
  ResInv /\ NetDisconnect => ~sock' /\ ~ctx' /\ allocated' = 0
  BY DEF ResInv, NetDisconnect

LEMMA CleanKeeps == ~sock' /\ ~ctx' /\ allocated' = 0 => ResInv'
  BY DEF ResInv

LEMMA ResNext == ResInv /\ [Next]_vars => ResInv'
<1> SUFFICES ASSUME ResInv, [Next]_vars PROVE ResInv'
  OBVIOUS
<1>1. CASE HostReset \/ SysReboot
  <2>1. ~sock' /\ ~ctx' /\ allocated' = 0
    BY <1>1 DEF HostReset, SysReboot, Restart
  <2>2. QED
    BY <2>1, CleanKeeps
<1>2. CASE NetConnectFails \/ TlsSetupFails \/ HandshakeFails \/ FinishTry
  <2>1. NetDisconnect
    BY <1>2 DEF NetConnectFails, TlsSetupFails, HandshakeFails, ConnectFails, FinishTry
  <2>2. QED
    BY <2>1, NetDisconnectReleases, CleanKeeps
<1>3. CASE BeginTry
  <2>1. ~sock' /\ ~ctx' /\ allocated' = allocated /\ ~ctx
    BY <1>3 DEF BeginTry, reset_benchmark_client_state, ResInv
  <2>2. allocated = 0
    BY <2>1 DEF ResInv
  <2>3. QED
    BY <2>1, <2>2, CleanKeeps
<1>4. CASE NetConnectOk
  <2>1. pc' = "tls" /\ ~ctx /\ UNCHANGED <<ctx, allocated>>
    BY <1>4 DEF NetConnectOk, ResInv
  <2>2. QED
    BY <2>1 DEF ResInv
<1>5. CASE TlsSetupOk
  <2>1. pc' = "handshake" /\ ~ctx /\ ctx' /\ allocated' = allocated + 1
    BY <1>5 DEF TlsSetupOk, ResInv
  <2>2. allocated = 0
    BY <2>1 DEF ResInv
  <2>3. QED
    BY <2>1, <2>2 DEF ResInv
<1>6. CASE HandshakeOk \/ HandshakeContinues \/ MqttOk \/ MqttFails
  <2>1. pc' \in {"handshake", "mqtt", "finish"} /\ UNCHANGED conn
    BY <1>6 DEF HandshakeOk, HandshakeContinues, MqttOk, MqttFails
  <2>2. QED
    BY <2>1 DEF ResInv, conn
<1>7. CASE Boot \/ BackendFatal \/ StartBatch \/ Report \/ StoreNext \/ NextAttempt \/ Done
           \/ TrySucceeded \/ TryAgain \/ GiveUp
  <2>1. pc \notin {"tls", "handshake", "mqtt", "finish"} /\ UNCHANGED conn
    BY <1>7 DEF Boot, BackendFatal, StartBatch, Report, StoreNext, NextAttempt, Done,
                TrySucceeded, TryAgain, GiveUp
  <2>2. QED
    BY <2>1 DEF ResInv, conn
<1>8. CASE LinkUp \/ LinkDown \/ UNCHANGED vars
  BY <1>8 DEF LinkUp, LinkDown, vars, conn, ResInv
<1>9. QED
  BY <1>1, <1>2, <1>3, <1>4, <1>5, <1>6, <1>7, <1>8 DEF Next, Board, Main, RunOneAttempt

-----------------------------------------------------------------------------
(* What a line reports.  Until a try fails its metrics are clear; from     *)
(* then on they go with its code; and a TLS error any try has seen is kept *)
(* in first or is the one of the try just made.                            *)

Outcome(r, m) == [rc |-> r, metrics |-> m]

ReportInv ==
    /\ pc \in {"net", "tls", "handshake", "mqtt"} => metrics = NoMetrics
    /\ pc \in {"finish", "tried"} => rc = metrics.error
    /\ pc \in {"tried", "report"} => Outcome(rc, metrics) \in outcomes
    /\ first = NoMetrics \/ (first.tls /\ Outcome(first.error, first) \in outcomes)
    /\ (\E o \in outcomes : o.metrics.tls) => first.tls \/ (pc = "tried" /\ metrics.tls)
    /\ pc \in {"finish", "tried"} => (metrics.tls => rc # "success")
    /\ pc = "report" /\ rc # "success" => (first.tls => metrics.tls)

LEMMA ReportNext == ResultOK /\ ReportInv /\ [Next]_vars => ReportInv'
<1> SUFFICES ASSUME ResultOK, ReportInv, [Next]_vars PROVE ReportInv'
  OBVIOUS
<1>1. CASE HostReset \/ SysReboot
  BY <1>1 DEF HostReset, SysReboot, Restart, ReportInv
<1>2. CASE StartBatch \/ NextAttempt \/ Boot \/ BackendFatal \/ StoreNext \/ Done \/ Report
  <2>1. /\ pc \notin {"tried"}
        /\ pc' \notin {"net", "tls", "handshake", "mqtt", "finish", "tried", "report"}
    BY <1>2 DEF StartBatch, bench_start_attempt, NextAttempt, BeginAttempt, Boot, BackendFatal,
                StoreNext, Done, Report
  <2>2. \/ first' = NoMetrics /\ outcomes' = {}
        \/ UNCHANGED <<first, outcomes>>
    BY <1>2 DEF StartBatch, bench_start_attempt, NextAttempt, BeginAttempt, Boot, BackendFatal,
                StoreNext, Done, Report, attempt
  <2>3. QED
    BY <2>1, <2>2 DEF ReportInv
<1>3. CASE BeginTry
  <2>1. CASE pc' = "net" /\ metrics' = NoMetrics
    BY <1>3, <2>1 DEF BeginTry, ReportInv
  <2>2. CASE pc' = "tried" /\ rc' = "error" /\ metrics' = Failed("error", FALSE) /\ Tried(rc', metrics')
    <3>1. /\ Outcome(rc', metrics') \in outcomes' /\ first' = first
          /\ outcomes' = outcomes \cup {Outcome(rc', metrics')}
          /\ rc' = metrics'.error /\ ~metrics'.tls /\ pc # "tried"
      BY <1>3, <2>2 DEF BeginTry, Tried, Outcome, Failed
    <3>2. \A o \in outcomes' : o \in outcomes \/ o.metrics = metrics'
      BY <3>1 DEF Outcome
    <3>3. QED
      BY <2>2, <3>1, <3>2 DEF ReportInv
  <2>3. QED
    BY <1>3, <2>1, <2>2 DEF BeginTry
<1>4. CASE NetConnectOk \/ TlsSetupOk \/ HandshakeOk \/ HandshakeContinues
  <2>1. /\ pc \in {"net", "tls", "handshake"} /\ pc' \in {"tls", "handshake", "mqtt"}
        /\ UNCHANGED <<metrics, first, outcomes>>
    BY <1>4 DEF NetConnectOk, TlsSetupOk, HandshakeOk, HandshakeContinues, attempt
  <2>2. QED
    BY <2>1 DEF ReportInv
<1>5. CASE NetConnectFails \/ TlsSetupFails \/ HandshakeFails
  <2>1. PICK code \in Failures, tls \in BOOLEAN : ConnectFails(code, tls)
    BY <1>5 DEF NetConnectFails, TlsSetupFails, HandshakeFails, Failures
  <2>2. pc \in {"net", "tls", "handshake"} /\ UNCHANGED <<first, outcomes>>
    BY <1>5, <2>1 DEF NetConnectFails, TlsSetupFails, HandshakeFails, ConnectFails, attempt
  <2>3. pc' = "finish" /\ rc' = metrics'.error /\ rc' # "success"
    BY <2>1 DEF ConnectFails, Failed, Failures
  <2>4. QED
    BY <2>2, <2>3 DEF ReportInv
<1>6. CASE MqttOk \/ MqttFails
  <2>1. pc = "mqtt" /\ pc' = "finish" /\ UNCHANGED <<first, outcomes>> /\ metrics = NoMetrics
    BY <1>6 DEF MqttOk, MqttFails, attempt, ReportInv
  <2>2. rc' = metrics'.error /\ ~metrics'.tls
    BY <1>6, <2>1 DEF MqttOk, MqttFails, NoMetrics
  <2>3. QED
    BY <2>1, <2>2 DEF ReportInv
<1>7. CASE FinishTry
  <2>1. /\ pc = "finish" /\ pc' = "tried" /\ UNCHANGED <<first, rc, metrics>>
        /\ outcomes' = outcomes \cup {Outcome(rc, metrics)}
    BY <1>7 DEF FinishTry, Tried, Outcome
  <2>2. \A o \in outcomes' : o \in outcomes \/ o.metrics = metrics
    BY <2>1 DEF Outcome
  <2>3. QED
    BY <2>1, <2>2 DEF ReportInv
<1>8. CASE TrySucceeded
  BY <1>8 DEF TrySucceeded, ReportInv, attempt
<1>9. CASE TryAgain
  <2>1. pc = "tried" /\ pc' = "try" /\ UNCHANGED <<outcomes, rc, metrics>> /\ first' = FirstTlsError
    BY <1>9 DEF TryAgain
  <2>2. QED
    BY <2>1 DEF FirstTlsError, ReportInv
<1>10. CASE GiveUp
  <2>1. /\ pc = "tried" /\ pc' = "report" /\ outcomes' = outcomes /\ first' = FirstTlsError
        /\ rc # "success"
    BY <1>10 DEF GiveUp
  <2>2. first'.tls => Outcome(first'.error, first') \in outcomes
    BY <2>1 DEF FirstTlsError, ReportInv, NoMetrics
  <2>3. first' = NoMetrics \/ first'.tls
    BY <2>1 DEF FirstTlsError, ReportInv
  <2>4. (\E o \in outcomes : o.metrics.tls) => first'.tls
    BY <2>1 DEF FirstTlsError, ReportInv, NoMetrics
  <2>5. \/ first'.tls /\ ~metrics.tls /\ metrics' = first' /\ rc' = first'.error
        \/ ~(first'.tls /\ ~metrics.tls) /\ metrics' = metrics /\ rc' = rc
    BY <1>10 DEF GiveUp
  <2>6. Outcome(rc', metrics') \in outcomes' /\ (first'.tls => metrics'.tls)
    BY <2>1, <2>2, <2>5 DEF ReportInv
  <2>7. QED
    BY <2>1, <2>2, <2>3, <2>4, <2>6 DEF ReportInv
<1>11. CASE LinkUp \/ LinkDown \/ UNCHANGED vars
  BY <1>11 DEF LinkUp, LinkDown, vars, attempt, ReportInv
<1>12. QED
  BY <1>1, <1>2, <1>3, <1>4, <1>5, <1>6, <1>7, <1>8, <1>9, <1>10, <1>11
     DEF Next, Board, Main, RunOneAttempt

-----------------------------------------------------------------------------
(* The order of the lines.  The attempt that is due follows the last line; *)
(* after a reset it may also be that attempt again, or the first.  What    *)
(* carries this over a reboot is reboot_state: built to reboot, the        *)
(* firmware has it point at the attempt being made, then at the next, and  *)
(* clears it with the last.                                                *)

Due(n) == n = last + 1 \/ (disturbed /\ n \in {1, last})

Reported == {"store", "reboot", "pause", "ending", "done"}

FirstOfBoot == IF reboot_after /\ Resumable(retained) THEN retained.next ELSE 1

LogInv ==
    /\ pc \in Idle => Due(FirstOfBoot)
    /\ pc \in Attempting => i \in 1 .. Total /\ Due(i)
    /\ pc \in Reported => i \in 1 .. Total /\ i = last /\ ~disturbed
    /\ pc \in Ended => i = Total
    /\ pc = "reboot" => reboot_after /\ i < Total

StoredInv ==
    reboot_after =>
        /\ pc \in Attempting \cup {"store"} => retained = Resume(i)
        /\ pc = "reboot" => retained = Resume(i + 1)
        /\ pc \in {"pause", "ending", "done"} => retained = Cleared /\ i = Total
        /\ pc \in Idle \cup Attempting => lines = 0
        /\ pc \in Reported => lines = 1

LEMMA ResumableRecords ==
  /\ ~Resumable(Cleared)
  /\ \A n \in 1 .. Total : Resumable(Resume(n)) /\ Resume(n).next = n
  BY BatchAssumption DEF Resumable, Cleared, Resume

(* A try leaves the record of the batch alone. *)
LEMMA TriesKeepBatch ==
  RunOneAttempt =>
    pc \in Attempting /\ pc' \in Attempting /\ UNCHANGED <<batch, reboot_after>>
<1> SUFFICES ASSUME RunOneAttempt
             PROVE  pc \in Attempting /\ pc' \in Attempting /\ UNCHANGED <<batch, reboot_after>>
  OBVIOUS
<1>1. CASE BeginTry \/ NetConnectOk \/ TlsSetupOk \/ HandshakeOk \/ HandshakeContinues
  BY <1>1 DEF BeginTry, NetConnectOk, TlsSetupOk, HandshakeOk, HandshakeContinues, Attempting,
              env
<1>2. CASE NetConnectFails \/ TlsSetupFails \/ HandshakeFails
  BY <1>2 DEF NetConnectFails, TlsSetupFails, HandshakeFails, ConnectFails, Attempting, env
<1>3. CASE MqttOk \/ MqttFails \/ FinishTry \/ TrySucceeded \/ TryAgain \/ GiveUp
  BY <1>3 DEF MqttOk, MqttFails, FinishTry, TrySucceeded, TryAgain, GiveUp, Attempting, env
<1>4. QED
  BY <1>1, <1>2, <1>3 DEF RunOneAttempt

(* Neither does a change of the link, nor the boot up to the first attempt. *)
LEMMA OthersKeepBatch ==
  /\ LinkUp \/ LinkDown \/ UNCHANGED vars => UNCHANGED <<pc, batch, reboot_after>>
  /\ Boot \/ BackendFatal => /\ pc \in Idle /\ pc' \in Idle
                             /\ UNCHANGED <<batch, reboot_after>>
  BY DEF LinkUp, LinkDown, vars, Boot, BackendFatal, env, Idle

LEMMA KeptBatch ==
  ASSUME LogInv, StoredInv, UNCHANGED <<batch, reboot_after>>,
         \/ pc' = pc
         \/ pc \in Idle /\ pc' \in Idle
         \/ pc \in Attempting /\ pc' \in Attempting
  PROVE  LogInv' /\ StoredInv'
<1>1. UNCHANGED <<retained, i, last, lines, disturbed, reboot_after>>
  BY DEF batch
<1>2. Idle \cap Attempting = {} /\ Reported \cap (Idle \cup Attempting) = {}
  BY DEF Idle, Attempting, Reported
<1>3. LogInv'
  BY <1>1, <1>2 DEF LogInv, Due, FirstOfBoot, Reported, Ended
<1>4. StoredInv'
  BY <1>1, <1>2 DEF StoredInv, Reported
<1>5. QED
  BY <1>3, <1>4

LEMMA StartsBatch == StoreOK /\ LogInv /\ StoredInv /\ StartBatch => LogInv' /\ StoredInv'
<1> SUFFICES ASSUME StoreOK, LogInv, StoredInv, StartBatch PROVE LogInv' /\ StoredInv'
  OBVIOUS
<1>1. pc = "waitnet" /\ pc' = "try" /\ UNCHANGED <<last, lines, disturbed, reboot_after>>
  BY DEF StartBatch, bench_start_attempt, BeginAttempt, env
<1>2. i' = FirstOfBoot /\ i' \in 1 .. Total /\ (reboot_after => retained' = Resume(i'))
  <2>1. CASE ~reboot_after
    BY <2>1, BatchAssumption DEF StartBatch, bench_start_attempt, BeginAttempt, FirstOfBoot
  <2>2. CASE reboot_after /\ Resumable(retained)
    <3>1. retained' = retained /\ i' = retained.next
      BY <2>2 DEF StartBatch, bench_start_attempt, BeginAttempt
    <3>2. retained.next \in 1 .. Total
      BY <2>2 DEF Resumable
    <3>3. retained = Resume(retained.next)
      BY <2>2 DEF Resumable, Resume, StoreOK
    <3>4. QED
      BY <2>2, <3>1, <3>2, <3>3 DEF FirstOfBoot
  <2>3. CASE reboot_after /\ ~Resumable(retained)
    <3>1. retained' = Resume(1) /\ i' = Resume(1).next
      BY <2>3 DEF StartBatch, bench_start_attempt, BeginAttempt
    <3>2. QED
      BY <2>3, <3>1, ResumableRecords, BatchAssumption DEF FirstOfBoot, Resume
  <2>4. QED
    BY <2>1, <2>2, <2>3
<1>3. Due(FirstOfBoot) /\ (reboot_after => lines = 0)
  BY <1>1 DEF LogInv, StoredInv, Idle
<1>4. LogInv'
  BY <1>1, <1>2, <1>3 DEF LogInv, Due, Idle, Attempting, Reported, Ended
<1>5. StoredInv'
  BY <1>1, <1>2, <1>3 DEF StoredInv, Idle, Attempting, Reported
<1>6. QED
  BY <1>4, <1>5

LEMMA Reports == ControlOK /\ LogInv /\ StoredInv /\ Report => LogInv' /\ StoredInv'
<1> SUFFICES ASSUME ControlOK, LogInv, StoredInv, Report PROVE LogInv' /\ StoredInv'
  OBVIOUS
<1>1. /\ pc = "report" /\ pc' = "store" /\ last' = i /\ lines' = lines + 1 /\ disturbed' = FALSE
      /\ UNCHANGED <<retained, i, reboot_after>>
  BY DEF Report, env
<1>2. i \in 1 .. Total
  BY <1>1 DEF LogInv, Attempting
<1>3. reboot_after => retained = Resume(i) /\ lines = 0
  BY <1>1 DEF StoredInv, Attempting
<1>4. LogInv'
  BY <1>1, <1>2 DEF LogInv, Idle, Attempting, Reported, Ended
<1>5. StoredInv'
  BY <1>1, <1>3 DEF StoredInv, Idle, Attempting, Reported
<1>6. QED
  BY <1>4, <1>5

LEMMA StoresNext == ControlOK /\ LogInv /\ StoredInv /\ StoreNext => LogInv' /\ StoredInv'
<1> SUFFICES ASSUME ControlOK, LogInv, StoredInv, StoreNext PROVE LogInv' /\ StoredInv'
  OBVIOUS
<1>1. /\ pc = "store" /\ UNCHANGED <<i, last, lines, disturbed, reboot_after>>
      /\ i \in 1 .. Total /\ i = last /\ ~disturbed
      /\ reboot_after => lines = 1
  BY DEF StoreNext, env, LogInv, StoredInv, Reported
<1>2. CASE reboot_after /\ i < Total
  <2>1. pc' = "reboot" /\ ~(i + 1 > Total)
    BY <1>1, <1>2, BatchAssumption DEF StoreNext
  <2>2. retained' = Resume(i + 1)
    BY <1>2, <2>1 DEF StoreNext, bench_store_next_attempt
  <2>3. QED
    BY <1>1, <1>2, <2>1, <2>2 DEF LogInv, StoredInv, Idle, Attempting, Reported, Ended
<1>3. CASE ~(reboot_after /\ i < Total)
  <2>1. pc' = "pause" /\ (reboot_after => i = Total /\ i + 1 > Total)
    BY <1>1, <1>3, BatchAssumption DEF StoreNext
  <2>2. reboot_after => retained' = Cleared
    BY <2>1 DEF StoreNext, bench_store_next_attempt
  <2>3. QED
    BY <1>1, <2>1, <2>2 DEF LogInv, StoredInv, Idle, Attempting, Reported, Ended
<1>4. QED
  BY <1>2, <1>3

LEMMA GoesOn == ControlOK /\ LogInv /\ StoredInv /\ NextAttempt => LogInv' /\ StoredInv'
<1> SUFFICES ASSUME ControlOK, LogInv, StoredInv, NextAttempt PROVE LogInv' /\ StoredInv'
  OBVIOUS
<1>1. /\ pc = "pause" /\ UNCHANGED <<retained, last, lines, disturbed, reboot_after>>
      /\ i \in 1 .. Total /\ i = last /\ ~disturbed
      /\ reboot_after => i = Total /\ retained = Cleared /\ lines = 1
  BY DEF NextAttempt, env, LogInv, StoredInv, Reported
<1>2. CASE i < Total /\ BeginAttempt(i + 1)
  <2>1. pc' = "try" /\ i' = i + 1 /\ i' \in 1 .. Total /\ i' = last + 1 /\ ~reboot_after
    BY <1>1, <1>2, BatchAssumption DEF BeginAttempt
  <2>2. QED
    BY <1>1, <2>1 DEF LogInv, Due, StoredInv, Idle, Attempting, Reported, Ended
<1>3. CASE i = Total /\ pc' = "ending" /\ UNCHANGED <<i, attempt>>
  BY <1>1, <1>3 DEF LogInv, StoredInv, Idle, Attempting, Reported, Ended
<1>4. QED
  BY <1>2, <1>3 DEF NextAttempt

LEMMA Finishes == ControlOK /\ LogInv /\ StoredInv /\ Done => LogInv' /\ StoredInv'
<1> SUFFICES ASSUME ControlOK, LogInv, StoredInv, Done PROVE LogInv' /\ StoredInv'
  OBVIOUS
<1>1. /\ pc = "ending" /\ pc' = "done" /\ UNCHANGED <<i, last, lines, disturbed, reboot_after>>
      /\ i \in 1 .. Total /\ i = last /\ ~disturbed /\ i = Total
      /\ reboot_after => lines = 1
  BY DEF Done, env, LogInv, StoredInv, Reported, Ended
<1>2. reboot_after => retained' = Cleared
  BY BatchAssumption DEF Done, bench_store_next_attempt
<1>3. QED
  BY <1>1, <1>2 DEF LogInv, StoredInv, Idle, Attempting, Reported, Ended

(* Whatever the board was doing when the host reset it, reboot_state names *)
(* the attempt that was due, or the one after the last line, or none.      *)
LEMMA Resets == ControlOK /\ LogInv /\ StoredInv /\ HostReset => LogInv' /\ StoredInv'
<1> SUFFICES ASSUME ControlOK, LogInv, StoredInv, HostReset PROVE LogInv' /\ StoredInv'
  OBVIOUS
<1>1. /\ pc' = "boot" /\ lines' = 0 /\ disturbed' = TRUE
      /\ UNCHANGED <<retained, last, reboot_after>>
  BY DEF HostReset, Restart
<1>2. FirstOfBoot' = FirstOfBoot
  BY <1>1 DEF FirstOfBoot
<1>3. FirstOfBoot \in {1, last, last + 1}
  <2>1. CASE ~(reboot_after /\ Resumable(retained))
    BY <2>1 DEF FirstOfBoot
  <2>2. CASE reboot_after /\ Resumable(retained) /\ pc \in Idle
    BY <2>2 DEF LogInv, Due
  <2>3. CASE reboot_after /\ Resumable(retained) /\ pc \in Attempting
    BY <2>3, ResumableRecords DEF LogInv, StoredInv, Due, FirstOfBoot
  <2>4. CASE reboot_after /\ Resumable(retained) /\ pc \in {"store", "reboot"}
    <3>1. i = last /\ (retained = Resume(i) \/ retained = Resume(i + 1))
      BY <2>4 DEF LogInv, StoredInv, Reported
    <3>2. QED
      BY <2>4, <3>1 DEF FirstOfBoot, Resume
  <2>5. CASE reboot_after /\ pc \in {"pause", "ending", "done"}
    BY <2>5, ResumableRecords DEF StoredInv, FirstOfBoot
  <2>6. QED
    BY <2>1, <2>2, <2>3, <2>4, <2>5 DEF ControlOK, PCs, Idle, Attempting
<1>4. LogInv'
  BY <1>1, <1>2, <1>3 DEF LogInv, Due, Idle, Attempting, Reported, Ended
<1>5. StoredInv'
  BY <1>1 DEF StoredInv, Idle, Attempting, Reported
<1>6. QED
  BY <1>4, <1>5

LEMMA Reboots == ControlOK /\ LogInv /\ StoredInv /\ SysReboot => LogInv' /\ StoredInv'
<1> SUFFICES ASSUME ControlOK, LogInv, StoredInv, SysReboot PROVE LogInv' /\ StoredInv'
  OBVIOUS
<1>1. /\ pc = "reboot" /\ pc' = "boot" /\ lines' = 0
      /\ UNCHANGED <<retained, last, disturbed, reboot_after>>
  BY DEF SysReboot, Restart
<1>2. reboot_after /\ retained = Resume(i + 1) /\ i = last /\ i + 1 \in 1 .. Total
  BY <1>1, BatchAssumption DEF LogInv, StoredInv, Reported
<1>3. FirstOfBoot' = last' + 1
  BY <1>1, <1>2, ResumableRecords DEF FirstOfBoot
<1>4. LogInv'
  BY <1>1, <1>3 DEF LogInv, Due, Idle, Attempting, Reported, Ended
<1>5. StoredInv'
  BY <1>1 DEF StoredInv, Idle, Attempting, Reported
<1>6. QED
  BY <1>4, <1>5

LEMMA LogNext ==
  StoreOK /\ ControlOK /\ LogInv /\ StoredInv /\ [Next]_vars => LogInv' /\ StoredInv'
  BY TriesKeepBatch, OthersKeepBatch, KeptBatch, StartsBatch, Reports, StoresNext, GoesOn,
     Finishes, Resets, Reboots DEF Next, Board, Main

-----------------------------------------------------------------------------
(* The invariant of the specification, and what follows from it            *)

Invariant ==
    /\ ControlOK /\ StoreOK /\ FlagsOK /\ ResultOK
    /\ ResInv /\ ReportInv
    /\ LogInv /\ StoredInv

LEMMA InvariantInit == Init => Invariant
<1> SUFFICES ASSUME Init PROVE Invariant
  OBVIOUS
<1> USE BatchAssumption DEF Init
<1>1. ControlOK
  BY DEF ControlOK, PCs
<1>7. FlagsOK
  BY DEF FlagsOK
<1>2. StoreOK
  <2>1. {0, Total, Total + 1} \subseteq Nat /\ 0 .. Total + 1 \subseteq Nat
    OBVIOUS
  <2>2. QED
    BY <2>1 DEF StoreOK
<1>3. ResultOK
  BY DEF ResultOK, Codes, Failures, Metrics, NoMetrics
<1>4. ResInv /\ ReportInv
  BY DEF ResInv, ReportInv
<1>5. LogInv /\ StoredInv
  BY DEF LogInv, StoredInv, Due, FirstOfBoot, Idle, Attempting, Reported, Ended
<1>6. QED
  BY <1>1, <1>2, <1>3, <1>4, <1>5, <1>7 DEF Invariant

LEMMA InvariantNext == Invariant /\ [Next]_vars => Invariant'
  BY FlagsNext, ResultNext, StoreTyped, ControlNext, ResNext, ReportNext, LogNext
     DEF Invariant

(* The strengthening all the theorems below rest on. *)
THEOREM BatchInvariant == Spec => []Invariant
  BY InvariantInit, InvariantNext, PTL DEF Spec

(* Every variable keeps to its type: the index main() is at stays in the   *)
(* batch, the tries within CONFIG_APP_BENCH_CONNECT_RETRIES, and freeing   *)
(* never takes the count of TLS contexts below zero.                       *)
THEOREM BatchTypeCorrect == Spec => []TypeOK
<1>1. Invariant => TypeOK
  <2> SUFFICES ASSUME Invariant PROVE TypeOK
    OBVIOUS
  <2>1. allocated \in Nat
    BY DEF Invariant, ResInv
  <2>2. QED
    BY <2>1 DEF Invariant, ControlOK, StoreOK, FlagsOK, ResultOK, TypeOK
<1>2. QED
  BY <1>1, BatchInvariant, PTL

(* run_one_attempt() returns what it took on every path: between two tries *)
(* there is no open socket and no TLS context.                             *)
THEOREM TriesReturnResources == Spec => []ResourcesReturned
<1>1. Invariant => ResourcesReturned
  BY DEF Invariant, ResInv, ResourcesReturned
<1>2. QED
  BY <1>1, BatchInvariant, PTL

(* The numbers and the code of a BENCH_ATTEMPT line are those of one try,  *)
(* and a TLS error of any try of a failed attempt reaches the line.        *)
THEOREM LinesAreTruthful == Spec => []ReportTruthful
<1>1. Invariant => ReportTruthful
  BY DEF Invariant, ReportInv, Outcome, ReportTruthful
<1>2. QED
  BY <1>1, BatchInvariant, PTL

(* Built with APP_BENCH_REBOOT_AFTER_ATTEMPT, no boot says two lines. *)
THEOREM AttemptsAreFresh == Spec => []FreshBoot
<1>1. Invariant => FreshBoot
  BY DEF Invariant, ControlOK, PCs, StoredInv, FreshBoot, Idle, Attempting, Reported
<1>2. QED
  BY <1>1, BatchInvariant, PTL

(* At BENCH_DONE reboot_state no longer resumes the batch. *)
THEOREM FinishedIsForgotten == Spec => []FinishedBatchForgotten
<1>1. Invariant => FinishedBatchForgotten
  BY ResumableRecords DEF Invariant, StoredInv, FinishedBatchForgotten
<1>2. QED
  BY <1>1, BatchInvariant, PTL

(* What is true of the option's help text: after each line but the last    *)
(* main() goes on to sys_reboot() and to nothing else; and a board that    *)
(* says BENCH_DONE has said the last line, not cut short by a reset.       *)
StaysAtTheEnd ==
    /\ reboot_after /\ lines > 0 /\ pc \notin {"store", "reboot"}
          => pc \in {"pause", "ending", "done"} /\ last = Total
    /\ pc = "done" => last = Total /\ ~disturbed

THEOREM RebootsButForTheLast == Spec => []StaysAtTheEnd
<1>1. Invariant => StaysAtTheEnd
  BY DEF Invariant, ControlOK, PCs, LogInv, StoredInv, StaysAtTheEnd, Idle, Attempting,
         Reported, Ended
<1>2. QED
  BY <1>1, BatchInvariant, PTL

(* The firmware, with its retries, its reboots and its resets, implements  *)
(* the log of lines 1, 2, ... Total.                                       *)
THEOREM LinesFollowTheLog == Spec => AttemptLogSpec
<1>1. Init => Log!Init
  BY DEF Init, Log!Init
<1>2. Invariant /\ [Next]_vars => [Log!Next]_Log!vars
  <2> SUFFICES ASSUME Invariant, [Next]_vars PROVE [Log!Next]_Log!vars
    OBVIOUS
  <2>1. CASE HostReset
    BY <2>1 DEF HostReset, Restart, Log!Next, Log!Disturb
  <2>2. CASE Report
    <3>1. i \in 1 .. Total /\ Due(i)
      BY <2>2 DEF Invariant, LogInv, Report, Attempting
    <3>2. last' = i /\ disturbed' = FALSE
      BY <2>2 DEF Report
    <3>3. Log!Report
      BY <3>1, <3>2 DEF Due, Log!Report
    <3>4. QED
      BY <3>3 DEF Log!Next
  <2>3. CASE RunOneAttempt
    BY <2>3, TriesKeepBatch DEF batch, Log!vars
  <2>4. CASE Boot \/ BackendFatal \/ LinkUp \/ LinkDown \/ UNCHANGED vars
    BY <2>4, OthersKeepBatch DEF batch, Log!vars
  <2>5. CASE StartBatch \/ StoreNext \/ SysReboot \/ NextAttempt \/ Done
    BY <2>5 DEF StartBatch, StoreNext, SysReboot, Restart, NextAttempt, Done, Log!vars
  <2>6. QED
    BY <2>1, <2>2, <2>3, <2>4, <2>5 DEF Next, Board, Main
<1>3. QED
  BY <1>1, <1>2, BatchInvariant, PTL DEF Spec, AttemptLogSpec, Log!Spec
=============================================================================
