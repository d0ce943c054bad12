# Formal model of the nRF5340 MQTT/TLS client and its benchmark

TLA+ modules, TLC configurations and TLAPS proofs for the code of this repository: a Zephyr
firmware that publishes telemetry over MQTT, inside TLS with post-quantum key exchange, over a
BLE IPSP link; a benchmark variant of that firmware; and the Python runner that drives the
benchmark over many cases and sessions. Paths below are those of the repository; `PROJECT.json`
gives the lines each definition stands for.

## 1. The system

| Component | Source | State it keeps | Operations | Modelled |
|---|---|---|---|---|
| Board session loop | `firmware/src/main.c` | `mqtt_client`, `sock_ctx.fd`, `ping_requested`, `counter` | connect and subscribe (TCP, TLS set-up, handshake rounds with a deadline, CONNECT, SUBSCRIBE), poll, wait for a message, message callback, pong, explicit keepalive, telemetry, close and retry | `BoardSession` |
| Board timers | same | `last_mqtt_tx`, `next_telemetry` | the same calls, seen by the clock | `BoardTimers` |
| Benchmark firmware | `benchmarking/firmware/src/main.c` | `reboot_state` in uninitialised RAM, client, socket, metrics of a try | boot, resume a batch, attempts with retries, report a line, store the next index, reboot | `BenchAttempts`, `AttemptLog` |
| Runner: preparation | `benchmarking/run_benchmarks.py`, `generate_cases.py`, `host/gen_benchmark_certs.py` | certificate cache on disk, CA bundle, firmware builds of the run, summary rows | read and shuffle cases, build the CA bundle, restore or generate credentials, install the CA header, build or reuse an image, record cases that are not run | `CasePreparation` |
| Runner: sessions | `benchmarking/run_benchmarks.py` | shuffled jobs, key of the flashed firmware, rows and next index of each case, broker process and log | pick a job, clean up, start the broker and wait for it, flash, capture, reset, wait for lines, record | `BenchRunner`, `ResultLog` |
| Runner: inside a session | same, with the board's side and `host/ipsp_connect.sh` | queue of lines, parsed attempts, `bt0`, retries | capture thread, waits for texts, IPSP retries, ping retries, wait for attempts, renumbering | `CaseSession` |
| Broker supervisor | `scripts/board_console.sh` | `BROKER_PID`, the coprocess, `recover_reason`, the port | broker on and off, exit, read the log, kill, recover, start again | `BrokerSupervisor` |
| wolfSSL allocator, paced writes | both `main.c` | byte counters; none between calls | `XMALLOC`, `XFREE`, `XREALLOC`; `net_write()` in pieces | no (section 8) |
| BLE link parameters | `benchmarking/firmware/src/main.c` | `active_bt_conn` | connected, disconnected, delayed work | no (section 8) |
| pqm4 ML-KEM backend | `benchmarking/firmware/src/pqm4_*.c` | none between calls | crypto callback | no (section 8) |
| Console prompt, containers, builds, patches, plots | `scripts/`, `docker/`, `host/`, `patches/`, `graphic/` | files only | one-shot scripts | no (section 8) |

**How they interact.** The board talks to the broker over a TLS connection on the link; the host
sends commands through the broker (`ping`, answered on another topic by `pong`). The benchmark
firmware says `BENCH_START`, `BENCH_READY`, `BENCH_ATTEMPT` on its serial line; the runner reads
them in a thread of its own, resets and flashes the board with `nrfutil`, and starts and removes
the broker's container. The one piece of state that outlives a reset of the board is
`reboot_state`; what outlives a session of the runner is the flashed image, the key the runner
remembers of it, a container that could not be removed and the log of the broker; what outlives a
whole run is the certificate cache and the flashed image. The board console is a second way to run
a broker, for the telemetry firmware.

**What is hard.** A session can break at any call, with a half-open connection, a TLS context and
a pending ping in hand, and the loop must start over from nothing, for ever. Timeouts of six
calls add up within one iteration while the broker counts the silence. The benchmark board may be
reset between any two steps and must neither lose nor repeat an attempt without that excuse. The
runner acts on what an earlier session left: a log, a key, a container, a running board, a `bt0`;
and on what an earlier run left, which may have been killed while it wrote. The UART loses bytes.
The supervisor of the broker lives on signals, pipes and a port it does not own.
`PROJECT.json` lists the hazards with the line where each bites.

**What makes each part correct.**

- Session loop: one socket and one TLS context per session, given back on every path; samples in
  order and never twice; each pong owed to a ping; it always gets back into its loop, and a ping
  that reached it is answered.
- Timers: no silence longer than the announced keepalive; a due sample is not put off by commands.
- Benchmark firmware: lines 1, 2, ... in order over reboots; a line whose code and numbers belong
  together; no resources carried from one try to the next; a finished batch is forgotten.
- Runner: each session leaves a row with the right number; a row was measured with the firmware,
  in the session and against the broker it is recorded for; the run ends.
- Preparation: the image a case will run with trusts the certificate its broker serves and offers
  its KEM; credentials that boards may trust are kept; no row of the input is lost or counted twice.
- Inside a session: no attempt is counted twice and no warm-up as a measurement, however lines are
  damaged and wherever a rebooted board resumes; the session ends.
- Supervisor: no broker outlives a stop of the console; after a handshake timeout another broker is
  started.

## 2. Modules

| Module | What it is |
|---|---|
| `BoardSession` | the session loop, with link, broker and host as its environment; no time |
| `MCBoardSession` | the payloads for TLC |
| `BoardTimers` | the same inner loop with durations instead of sockets |
| `AttemptLog` | abstract: what a reader of the serial line may rely on |
| `BenchAttempts` | the benchmark firmware; implements `AttemptLog` |
| `ResultLog` | abstract: what a reader of the results may rely on |
| `BenchRunner`, `MCBenchRunner` | the runner's sessions, with board and broker as its environment; implements `ResultLog` |
| `CaseSession` | one session in detail: capture thread, retries, board, UART, link |
| `CasePreparation`, `MCCasePreparation` | the runs of the runner up to their schedules, over one cache |
| `BrokerSupervisor` | the broker commands of the console and the supervisor in its background |
| `BoardSessionProofs`, `BoardSamplesProofs`, `BoardTimersProofs`, `BenchAttemptsProofs`, `BenchRunnerProofs`, `CasePreparationProofs`, `CaseSessionProofs`, `BrokerSupervisorProofs` | the theorems |

Definitions whose names start with `BUG_` are mutated forms of the definition that follows them:
each is a mistake the code could have had, put in the place of that definition to see that a
property notices. No specification uses them.

### BoardSession

`pc` is the call the thread is in: `start` ... `failed` while `mqtt_connect_and_subscribe()` runs,
`poll`, `wait`, `pong`, `keepalive`, `ping`, `telemetry` for the inner loop of `main()`, `close`
for the calls after it. `fd` is `sock_ctx.fd` and `open` what the kernel has, so a leak shows;
`client` is the connected flag and the context pointer of `mqtt_client`, `ctxs` the contexts
allocated. A blocking call answers in any way it can: it succeeds if the connection is usable,
times out if nothing can arrive, fails if the connection is unusable or, at the price of one of
`MaxFaults`, by itself. The link may drop between any two calls, the broker may close; what it
already sent can still be read. A payload is the sequence of buffers `mqtt_message_cb()` gets, each
of which the code takes for a command (so the tail of a long message can be a `ping`). QoS 0:
a publish succeeds when the socket took it; `uplink` holds what the broker has not read.

### BoardTimers

All eight times are constants, in one unit. `idle` and `due` are the distances of the clock to
`last_mqtt_tx` and `next_telemetry`, `gap` the time since a packet really left, which is not the
same: a ping leaves at the beginning of a call whose end sets `last_mqtt_tx`. `MaxWait` is not
`WaitTimeout`, because the timeout of `MqttClient_WaitMessage()` counts for each read.

### BenchAttempts and AttemptLog

One action for each step of a try, of the retries and of `main()`. `retained` is `reboot_state`;
`Restart` clears everything else and is what a reset by the host and `sys_reboot()` have in common.
Initially `retained` holds anything but a resumable record of this batch. `reboot_after` is the
build option, left open so that one run covers both builds. `outcomes` is the history of the tries
of an attempt. `AttemptLog` only has the last index and whether a reset happened since: a line is
the next one, or after a reset the same again or the first.

### BenchRunner

`pc` walks through `run_scheduled_session()` and `run_case_session()`. Picking any of the remaining
jobs stands for `rng.shuffle()`. `failed` is the exception that takes the session to its `finally`
clause and then to the `except` clause of `main()`. A line of the board is the place it was
measured at (image, broker on the port, session that booted the board), which is what the
properties compare with the row it ends up in. The board runs beside the runner: it starts
measuring once linked and goes on when broker and link are gone.

The broker is Mosquitto, which is all that `benchmarking/host/build_benchmark_broker.sh` builds. It
prints "Opening ipv6 listen socket on port" (`BrokerOpens`) before it binds the port
(`BrokerListens`, `BrokerBindFails`), and `wait_for_broker_ready()` asks for that text before it asks
for one that names a failure; so `broker_log` is the set of the cases whose log, which only grows,
has the text, and a broker that fails to bind reads as ready as well. `unremoved` is history: a
clean-up has left a container.

`ResultLog` is what a reader of `attempts.csv` may rely on: each scheduled session is reported once,
in at least one row behind those of its case, numbered on, and no row is changed. `BenchRunner`
implements it with a refinement mapping in which a session stays pending from the plan to its rows.

### CaseSession

`run_case_session()` from the reset of the board to its rows, the part `BenchRunner` has in one
step per wait. Two processes of the host share `lines` and `attempts`: the capture thread
(`Capture`) and the runner; the board prints beside them. `Prints` is the UART: a line comes as it
is, without its marker, or without its newline, and then it is joined to the next one, of which
`parse_attempt_line()` finds only the first attempt. (`parse_attempt_line()` and `wait_for_text()`
recognise some damaged markers; those lines count as undamaged.) `bt0` and `linked` are kept apart:
`ipsp_connect.sh` returns when a `bt0` is there, which may be that of an earlier link. `TextTimeout` and `wait_for_attempts` time out for good when
the board is silent, and against a board that is late at the price of a fault. The board is
`BenchAttempts` in short: its batch, `reboot_state` as the attempt it resumes with, and its reboots,
which drop the link. `stray` says that the board printed before the session reset it, which happens
when it was not reset at the end of the session before.

### CasePreparation

Several runs of the runner share `cache` (a directory for each key of
`cert_artifact_cache_key()`) and the board (`flashed`). A generation of credentials is a number;
each file of the cache holds the generation it comes from, or 0 if it is missing, so that a key, a
certificate and a CA of different generations can be told apart. `StartRun` chooses command line
and cases; `sig_to_case` to `write_ca_bundle_header` are `prepare_universal_ca_bundle()`; the
actions from `Unsupported` to `Prepare` are the outcomes of `prepare_case_for_schedule()`. A kill,
a failing command or copy, a compiler error each cost a fault. `torn` is history: the run has met,
or made, an entry of the cache that is half written.

### BrokerSupervisor

`broker` is the program of the coprocess, `line` what it printed last and the supervisor has not
read. `left` is a broker whose shell was killed: `BROKER_PROC_PID` is the shell of
`coproc BROKER_PROC { ...; }` and bash does not hand the signal on. `ReadUnbound` is what bash does
when the coprocess has been reaped before `read` looks at `BROKER_PROC[0]`: an unbound variable
under `set -u`, which ends the supervisor (both were tried with bash 5.2). `foreign` is any other
program on the port. `Stop` is the signal to the process group with the wait for the supervisor, which
ends at once: a broker that does not end at its TERM is left, since the KILL is for a supervisor that
is still there (`deaf`, history).

## 3. Runs

| Run | Instance | Shows |
|---|---|---|
| `board_session` | 2 sockets, 2 faults, 2 commands, samples 0 and 1, 2 handshake rounds | resources, order of samples, pongs and pings under all interleavings; `Recovers`, `PingAnswered` under fairness |
| `board_timers` | the source's values, unit 100 ms, `MaxWait` 9.5 s | keepalive and telemetry kept; the explicit ping, just reachable with such a wait, is never due before a sample is |
| `ping_doc` | source's values, calls up to 0.5 s | violation: see Findings |
| `bench_attempts` | 3 attempts, 2 tries, 2 resets, 1 link loss, both builds | truth of lines, resources, fresh boots, forgetting, `AttemptLog`; the batch ends or waits for a link |
| `reboot_doc` | 1 attempt | violation: see Findings |
| `bench_runner` | 2 cases with an image each, 1 warm-up and 1 measured attempt in batches of one, 2 failures, with and without the reset after a session, with and without a broker left over | rows, firmware, session, broker, `ResultLog`, termination |
| `runner_flash`, `runner_broker` | 2 sessions per case | violations: see Findings |
| `case_preparation` | 2 KEMs, 3 signatures of which one cannot be generated, 2 cases a run, 2 runs, 1 fault, 7 command lines | image, certificate and KEM of a case fit; the cache; every row accounted for |
| `case_session` | 1 warm-up and 2 measurements, 2 tries each for link and ping, 1 lost byte, 2 faults, firmware that reboots and that does not | warm-ups, repeated attempts, completeness, rows per link, termination |
| `supervisor` | no bounds: the state is finite | nothing left behind, with two excuses; a handshake timeout is followed by another broker |
| `supervisor_stop` | same | violation: see Findings |

**Why the bounds are enough.** Two sockets: a leak needs a second one to be opened while the first
is still there. Two faults: the second can strike in the clean-up of the first; both double
disconnects of the code need only one. Two commands and a payload of two buffers: a ping can be
pending while another arrives. Two samples: one may be lost, late or under way beside the other, in
one session or two; more samples are the matter of the theorem `SamplesAreInOrder`. `MaxWait` 9.5 s: the
longest wait for which the keepalive is kept (`Roomy` below). Three attempts: a
first, one in the middle, a last. Two resets: one that resumes and one that hits the resumed
attempt. Two cases and two batches per case: a case is left and revisited, with the other flashed
in between; two failures: a container that survives the end of one session and the beginning of
the next. One line per session is the runner's default for the pqm4 backend. Two runs over one
cache: what the first leaves, half written or whole, the second finds; two cases of a run share a
key, a profile, both or neither. A lost byte joins two lines; the link and the ping are retried
once. Except for liveness none of the results that hold rests on these bounds: they are proved
(section 5).

`CHECK_DEADLOCK FALSE` stands where the program stops: the benchmark firmware sleeps for good after
`BENCH_DONE` or a fatal error, the runner and a session end, and the runs of `CasePreparation` are
used up.

## 4. Fairness

- The board's thread (`WF_vars(Board)` in both firmwares): there is one application thread, and
  every call it makes has a timeout, so it always takes another step.
- `BoardSession`, `WF_vars(LinkUp)`: an outage ends. `scripts/board_console.sh` reconnects; where
  nobody does, the board cannot recover and the property says nothing.
- `BoardSession`, `WF_vars(BrokerReads)`: the broker reads its socket.
- `BoardSession`, `SF_vars(HandshakeOk)`: every handshake could time out for ever; over a usable
  connection, tried again and again, it is completed at some point. Weak fairness would say nothing
  because the rounds keep leaving the place.
- `BenchAttempts`: `WF_vars(Board)` only. Nothing is assumed of the link: the runner links after the
  resets it makes itself and not after a `sys_reboot()` in the middle of a session, so
  `BatchEndsOrWaits` promises the end of the batch, a fatal error, or the wait for the network after
  a boot. `OneRowPerLink` of `CaseSession` says what the runner gets: at most a row for each try to
  connect.
- `BenchRunner`: `WF_vars(Runner)`, since each of its waits has a deadline, and `WF_vars(Board)`.
  Nothing is assumed of the broker. `cleanup_host_ipsp_link()` runs a command without a timeout;
  that it returns is part of the assumption.
- `CaseSession`: `WF_vars` of the runner, the board and the capture thread, each a thread or device
  of its own that never waits without a deadline. Nothing is assumed of the link or the UART.
- `BrokerSupervisor`: `WF_vars(Supervisor)`. Its waits for the port have deadlines, the wait for the
  coprocess is for a shell that has been signalled, and a read waits for a line or the end of the
  log: it is only asked to go on when there is one. That `ipsp_connect.sh`, and the `bluetoothctl` in
  it, return is an assumption. Nothing is assumed of brokers or of the user.
- `CasePreparation` has safety properties only and no fairness.

`Stable` starts the liveness claims of `BoardSession` where failures have ended; before that, no
progress is promised.

## 5. What is proved

All theorems hold for every value of the constants that satisfies the named assumptions, which only
say that bounds are natural numbers (retries and sizes positive), that `NoFd`, `NoCase` and the like are none
of the set they stand beside, that payloads are not empty, `WaitTimeout <= MaxWait`, that firmware is
built with at most the session's warm-ups, and that options are records of booleans.

- **Resources** (`SocketIsOwned`, `ContextIsOwned`). `SocketOwned` is not inductive: the step that
  closes must know that `fd` still names the open socket, and `MqttInit` that there is no context.
  `ResourceInv` adds `Ownership`, what each place of the thread holds. Most
  actions only move between places that hold the same, which is one lemma, `SameOwnerKeeps`.
- **Pongs** (`PongsAreEarned`): `ping_requested` counts as a debt, and only three actions change it.
- **Samples** (`SamplesAreInOrder`): `SampleInv` adds that packets under way are in order, later
  than those received and earlier than the counter. It uses the type invariant and lemmas on
  sequences (append, tail, head).
- **Timers**: `TimerInv` bounds `idle` and `due` at each place of the iteration (`Late`,
  `Quietest`) and links them (`Linked`). From it follow `TelemetryIsPrompt`, `PingIsUnreachable`,
  `PingIsRedundant`. `KeepAliveIsKept` needs the additional assumption `Roomy`:
  `TelemetryInterval + Stretch + 2 * MaxCall <= KeepAlive`. The source's values satisfy it as long
  as no wait takes more than 9.4 s; beyond it the keepalive can be missed.
- **Benchmark firmware**: `BatchInvariant` is the conjunction of types, resources (`ResInv`),
  results (`ReportInv`), position (`LogInv`) and `reboot_state` (`StoredInv`). The last two depend
  on each other: which attempt is due follows from what was stored, and what is stored follows from
  the attempt being made. `LinesFollowTheLog` is the refinement: every step is `Disturb`, `Report`
  or a stutter of `AttemptLog`.

- **Runner**: `RowsInv` adds to the types that a session in progress is not in the plan, and
  follows the numbers through `AddRows`; `RowsAreNumbered`, `SessionsAreRecorded` and the refinement
  `ResultsReported` rest on it: every step is a `Report` of one session or a stutter of `ResultLog`.
  `FirmwareInv` ties image, `flashed_key` and captured lines at each place of a session, with
  `untracked` as the only excuse; `SessionInv` does so for boots. `BrokerInv` says that the port is
  the session's broker's or nobody's from the clean-up to the end of the session, unless a container
  was left; `MeasuredAgainstItsBroker` follows without a word on which broker is ready.
- **Preparation**: `CertsKept` needs that only an entry that is not whole is generated again, which
  both `restore_cached_case_artifacts()` and `cached_cert_artifacts_exist()` ensure. `PreparedFits`
  follows from `CredentialsInv`: entries met are whole unless the run is torn (`TornSeen`), the
  bundle holds the CA of every algorithm of the run (`Bundling` while it is collected,
  `BundleHeld` after), the case's directory agrees with the cache (`DirHeld`), every image built
  in the run trusts the CAs of its profile (`ImagesTrust`) and what is prepared stays in the cache
  (`PreparedHeld`). `EveryRowAccounted` has an invariant of its own on rows, summary and prepared
  cases.
- **Session**: `Order` keeps all attempt lines increasing wherever they are, parsed, on the wire or
  cut, and below the attempt the board prints next, over reboots and resumptions; from it follow
  `EachMeasuredOnce` and, with `Counted`, `WarmupsNeverMeasured`: the k-th row is of attempt k or a
  later one. `LinksBoundRows` counts a credit: each connection allows a rebooting board one line.
  `SessionsAreComplete` needs, besides, where every attempt made so far is: `Whole` follows it
  from the wire to the rows, and `Held` says that without a fault the link of the ping is still
  there, so that the board goes on and the wait ends by what it waits for.
- **Supervisor**: `Supervised` says who lives under whom; a small invariant, but the reason why a
  broker that is left is still within reach of the console's stop. `SupervisorEndsWithItsBroker`: the
  loop ends by itself only behind a broker that has ended, be it because it could not bind.

Several properties of section 3 have an excuse (`untracked`, `unreset`, `unremoved`, `stray`,
torn credentials, `gave_up`, `deaf`), and findings show that the code has runs that need it. These theorems say
how far the excuse reaches:

- `FlashedSessionsFit`: `RightFirmware`, which `runner_flash` violates, holds of every run without
  the step `FailsFlashed`, the failure of a session between its first flashing command and its
  record. `Kept` is what makes the difference to `FirmwareInv`: a session that failed earlier has
  left the board alone. `FaultlessRunsFit` is the case of no failing command at all, where a
  board that has been reset is known to boot (`Boots`).
- `FaultlessSessionsReset`: with `--reset-after-case` only a failing command makes a row's boot
  uncertain.
- `SingleSessionsReadTheirBroker`: with one session a case (`OneSession`) the text in the log is the
  own broker's (`LogInv`), so `BrokerListensFirst`, which `runner_broker` violates, holds. It does
  not say that the broker listens. The default of `--sessions-per-case` is 2.
- `UntroubledRunsFit`: without a kill or a failing command the credentials met are whole and the
  images fit the cases of their run, over any number of runs.
- `RowsAreTheFirst`, `LossesBoundRows`: without a lost byte the rows of a session are the first
  attempts without a gap, even if it is cut short; and each lost byte costs at most one row, which
  is counted by the cardinality of the set of attempts that are missing (`LossBound`).
- `ResetBoardIsSound`: if the session found the board reset, none of its results needs the excuse.
- `LoopIsConnected`, `OnlyFailuresLoseSamples`: what the inner loop of the board may rely on
  (`ConnInv`), and that samples are lost, and sessions end, by failures only (`Undisturbed`,
  `Arriving`); with `SamplesAreInOrder`, without a failure the broker gets each sample once.
- `ShippedTimersHold`: `Roomy` and the premise of `PingIsUnreachable` with the values of the
  source; what is left is a bound of 9.4 s on a wait.
- `RebootsButForTheLast`: the part of the reboot option's help text that is true.

## 6. Only model-checked

Liveness (`Recovers`, `PingAnswered`, `BatchEndsOrWaits`, `RunCompletes`, `SessionEnds`,
`TimeoutsRestart`): the prover has no rules for fairness and `ENABLED`. Every invariant and refinement that a run checks is also a
theorem.

## 7. Findings

- `ping_doc`: the README says that a timeout of `MqttClient_WaitMessage()` makes the firmware ping.
  The code treats the timeout as success and pings only after 20 s without a transmission, which
  telemetry every 10 s prevents; the theorem `PingIsUnreachable` is the general form.
- `reboot_doc`: the option "reboot firmware after each BENCH_ATTEMPT line" does not reboot after
  the last line of a batch, hence never for the recommended one attempt per session;
  `RebootsButForTheLast` is what holds instead.
- `runner_flash`: the key of the flashed firmware is stored only when the session that flashed
  succeeds. If it fails after programming, the key still names the former image, and the next
  session of that case is measured on the wrong firmware. With the universal KEM and CA options
  all cases share an image; without them the attempts of one case are recorded for another's
  firmware. `MeasuredWithFirmware` shows that nothing else leads there, and `FlashedSessionsFit`
  that the README is right about every run in which no session fails that way.
- `runner_broker`: the broker log is appended to, and the readiness test searches all of it. In
  every later session of a case it returns at once, while the new broker is still starting. The
  first session is not safe either: Mosquitto prints the text before it binds the port, and the test
  looks for a failure only after it has looked for the text, so a broker whose bind fails reads as
  ready in any session. `MeasuredWithBroker` shows when that puts a case on another broker: only if
  a clean-up has left a container (its removal is not checked, line 373), which then has the port,
  since the containers share the host's network.
- `supervisor_stop`: after a handshake timeout the supervisor kills the shell of the coprocess and
  not the broker in it, which goes on listening. The next broker is started beside it and cannot
  bind. At best that is recovered from in turn. At worst one handshake timeout, without any other
  fault, ends the supervision: `Bind`, `HandshakeTimeout`, `ReadLine`, `KillBroker` (the broker is
  left), `Recover`, `CleanPort`, `StartBroker`, `Bind` (fails, the new broker ends), `ReadUnbound`
  (bash has reaped the coprocess before the next read). README.md:359-362 promises the restart and
  the stop of the instance; `TimeoutsRestart` is what is left of it, that another broker is started.

Further disagreements, found while modelling and not shown by a run:

- `prepare_universal_ca_bundle()` raises out of `main()` for a signature algorithm that OpenSSL
  cannot generate (line 853), and the other cases are lost; `benchmarking/README.md:28-29` says
  unsupported combinations are recorded. Only with `--no-universal-ca-bundle` are they. In
  `CasePreparation` the run goes to `aborted`.
- With `--no-universal-kem-firmware` and the bundle on, the bundle has the CA of the first case of
  each algorithm (line 862), while each KEM has a CA of its own; `benchmarking/README.md:181-182`
  says it contains every CA of the run. `FirmwareFits` leaves this combination out.
- A generation that fails for a passing reason is recorded as `unsupported` as well (line 1478).
- `--skip-flash` with the bundle on generates missing certificates (in the bundle) although
  `benchmarking/README.md:249-251` says it requires cached ones; the board does not trust them.
- The help text of the reboot option says it defaults to on for pqm4-clean; `main()` sets it off.
- `firmware_profile_key()` leaves the initial delay and the keepalive out; both are options of a
  run, so images within a run do not differ by them.
- A case whose sessions lost rows is still summarised as `success`; `run_case()` is never called.
- `schemas.md:71` says that `warmup` is 1 for a warm-up attempt. The runner sets it by the place of
  the row in its session, not by what the board says, so after a lost warm-up line the first
  measurements are marked as warm-ups. `WarmupsExcluded` shows that it never errs the other way.
- README.md:356 says that the broker is stopped when the console exits. `stop_broker()` waits for the
  supervisor and not for the broker, so one that does not end at the TERM survives (`deaf`); the
  command then finds the port busy, prints so and fails.
- After a supervisor has ended by itself, `broker off` signals nothing, so a broker that it left
  survives (`gave_up` in `NothingLeft`); and a supervisor may end at an unbound variable before it
  reads the `bind failed` line it would recover from (`ReadUnbound`).

## 8. Not modelled

- What a TLS or MQTT packet contains: wolfSSL and wolfMQTT are external, used by what their calls
  may return. Records that TLS coalesces, and so messages waiting in wolfSSL's buffer while the
  socket is not readable, are not told apart from messages in the socket.
- The allocator wrappers and `net_write()`: sequential functions called from the one thread that
  uses wolfSSL; the loop over a partial write is wolfSSL's.
- `active_bt_conn` in the benchmark firmware, shared by Bluetooth callbacks and a delayed work item:
  which can interrupt which is a matter of Zephyr's thread priorities, which are not here.
- The pqm4 backend: a stateless dispatch on the type of an operation.
- The LED command's effect on the pin, log output, CSV layout, statistics, argument parsing.
- The wrap of the 32-bit sample counter; a reset in the middle of the three stores to
  `reboot_state`.
- In `BenchRunner` and `CaseSession`: `--skip-flash` (a session that never flashes is one whose
  image is the right one already), host commands that never return, `tio` in the place of `cat`; a
  container that could not be removed while its broker was still starting, and listens later.
- In `CasePreparation`: names and sizes, openssl options (among them that SLH-DSA cases have
  ML-DSA server keys), the options that are the same for all cases of a run, edits of the cache by hand,
  two runs at the same time.
- In the console: the prompt, captures and the ping round trip, where a pong that comes late answers
  the next ping because pongs carry no number.
- Builds, containers, patches, plots: scripts that keep no state; the brokers themselves are
  third-party programs.
