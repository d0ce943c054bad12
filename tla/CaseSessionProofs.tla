------------------------- MODULE CaseSessionProofs -------------------------
(***************************************************************************)
(* What the rows of a session are, for every number of attempts, warm-ups, *)
(* retries, faults and lost bytes of CaseSession.                          *)
(***************************************************************************)
EXTENDS CaseSession, FiniteSetTheorems, TLAPS

(* The parts of TypeOK, which different provers decide.                    *)
Flags == linked \in BOOLEAN /\ reboots \in BOOLEAN /\ stray \in BOOLEAN

Scalars ==
    /\ pc \in {"reset"} \cup Waiting \cup Ended
    /\ tries \in 0 .. ConnectRetries /\ pings \in 0 .. PingRetries
    /\ bt0 \in {"none", "stale", "up"}
    /\ losses \in Nat /\ faults \in Nat

(* A ping is repeated only while there is a retry left, and a board that   *)
(* begins or resumes a batch is not at its end.                            *)
Device ==
    /\ board \in [stage : Stages, next : 1 .. Total + 1]
    /\ retained \in 1 .. Total
    /\ board.stage = "measuring" => board.next \in 1 .. Total
    /\ ~reboots => retained = 1
    /\ pc = "ping" => pings < PingRetries
    /\ pc \in {"reset", "boot", "connect", "ready"} => pings = 0

Serial ==
    /\ wire \in Seq(Lines) /\ partial \in Lines /\ lines \in Seq(Lines)
    /\ attempts \in Seq(1 .. Total)
    /\ result \in Seq([attempt : 1 .. Total, warmup : BOOLEAN])

Typed == Flags /\ Scalars /\ Device /\ Serial

LEMMA TypedInit == Init => Typed
<1>1. Init => Flags
  BY Zenon DEF Init, Flags
<1>2. Init => Scalars
  BY SessionAssumption DEF Init, Scalars
<1>3. Init => Device
  <2>1. Init => retained \in 1 .. Total /\ (~reboots => retained = 1)
    BY DEF Init
  <2>2. Init => /\ board \in [stage : Stages, next : 1 .. Total + 1]
                /\ board.stage = "measuring" => board.next \in 1 .. Total
    BY SessionAssumption DEF Init, Stages
  <2> QED
    BY <2>1, <2>2, SessionAssumption DEF Init, Device
<1>4. Init => Serial
  BY SessionAssumption DEF Init, Serial, Lines, Blank
<1> QED
  BY <1>1, <1>2, <1>3, <1>4 DEF Typed

LEMMA FlagsNext == Flags /\ [Next]_vars => Flags'
<1> SUFFICES ASSUME Flags, [Next]_vars PROVE Flags'
  OBVIOUS
<1> USE DEF Flags, host, device, uart, serial, env
<1>1. CASE Runner
  BY <1>1, Zenon
     DEF Runner, reset_device, reboot, BenchStart, BenchReady, Wait, TextTimeout,
         ensure_ipsp_connected, IpspGivenUp, require_board_ping, wait_for_attempts
<1>2. CASE BoardStarts \/ BoardReady
  BY <1>2, Zenon DEF BoardStarts, BoardReady, Prints
<1>3. CASE BoardBegins
  BY <1>3, Zenon DEF BoardBegins
<1>4. CASE BoardMeasures
  BY <1>4, Zenon DEF BoardMeasures, Prints, reboot
<1>5. CASE LinkDrops \/ Capture \/ UNCHANGED vars
  BY <1>5, Zenon DEF LinkDrops, Capture, vars
<1> QED
  BY <1>1, <1>2, <1>3, <1>4, <1>5 DEF Next, Board

LEMMA ScalarsNext == Typed /\ [Next]_vars => Scalars'
<1> SUFFICES ASSUME Typed, [Next]_vars PROVE Scalars'
  OBVIOUS
<1> USE SessionAssumption DEF Typed, Scalars, Device, Waiting, Ended, host, device, uart, serial,
        env, Fault
<1>1. CASE reset_device
  <2>1. bt0' \in {bt0, "stale"}
    BY <1>1, Zenon DEF reset_device, reboot
  <2> QED
    BY <1>1, <2>1 DEF reset_device
<1>2. CASE BenchStart \/ BenchReady
  BY <1>2 DEF BenchStart, BenchReady, Wait
<1>3. CASE TextTimeout
  BY <1>3 DEF TextTimeout
<1>4. CASE ensure_ipsp_connected
  <2>1. /\ pc \in Waiting /\ pc' \in {pc, "ready"} /\ bt0' \in {"none", "stale", "up"}
        /\ tries < ConnectRetries /\ tries' = tries + 1
        /\ pings' = pings /\ losses' = losses /\ (faults' = faults \/ faults' = faults + 1)
    BY <1>4, Zenon DEF ensure_ipsp_connected
  <2> QED
    BY <2>1
<1>5. CASE IpspGivenUp
  BY <1>5 DEF IpspGivenUp
<1>6. CASE require_board_ping
  BY <1>6 DEF require_board_ping
<1>7. CASE wait_for_attempts
  BY <1>7 DEF wait_for_attempts
<1>8. CASE BoardStarts
  BY <1>8 DEF BoardStarts, Prints
<1>9. CASE BoardReady
  BY <1>9 DEF BoardReady, Prints
<1>10. CASE BoardBegins
  BY <1>10 DEF BoardBegins
<1>11. CASE BoardMeasures
  <2>1. /\ bt0' \in {bt0, "stale"} /\ (losses' = losses \/ losses' = losses + 1)
        /\ faults' = faults /\ pc' = pc /\ tries' = tries /\ pings' = pings
    BY <1>11, Zenon DEF BoardMeasures, Prints, reboot
  <2> QED
    BY <2>1
<1>12. CASE LinkDrops
  <2>1. bt0' = "stale" /\ losses' = losses /\ faults' = faults + 1 /\ UNCHANGED host
    BY <1>12, Zenon DEF LinkDrops
  <2> QED
    BY <2>1
<1>13. CASE Capture
  BY <1>13 DEF Capture
<1>14. CASE UNCHANGED vars
  BY <1>14 DEF vars
<1> QED
  BY <1>1, <1>2, <1>3, <1>4, <1>5, <1>6, <1>7, <1>8, <1>9, <1>10, <1>11, <1>12, <1>13, <1>14
     DEF Next, Runner, Board

LEMMA DeviceNext == Typed /\ [Next]_vars => Device'
<1> SUFFICES ASSUME Typed, [Next]_vars PROVE Device'
  OBVIOUS
<1> USE SessionAssumption DEF Typed, Scalars, Device, Waiting, Ended, Stages, host, device, uart,
        serial, env
<1>1. CASE reset_device
  BY <1>1 DEF reset_device, reboot
<1>2. CASE BenchStart \/ BenchReady
  BY <1>2 DEF BenchStart, BenchReady, Wait
<1>3. CASE TextTimeout
  BY <1>3 DEF TextTimeout
<1>4. CASE ensure_ipsp_connected
  BY <1>4 DEF ensure_ipsp_connected
<1>5. CASE IpspGivenUp
  BY <1>5 DEF IpspGivenUp
<1>6. CASE require_board_ping
  BY <1>6 DEF require_board_ping
<1>7. CASE wait_for_attempts
  BY <1>7 DEF wait_for_attempts
<1>8. CASE BoardStarts
  BY <1>8 DEF BoardStarts
<1>9. CASE BoardReady
  BY <1>9 DEF BoardReady
<1>10. CASE BoardBegins
  BY <1>10 DEF BoardBegins
<1>11. CASE BoardMeasures
  BY <1>11 DEF BoardMeasures, reboot, bench_store_next_attempt
<1>12. CASE LinkDrops
  BY <1>12 DEF LinkDrops
<1>13. CASE Capture
  BY <1>13 DEF Capture
<1>14. CASE UNCHANGED vars
  BY <1>14 DEF vars
<1> QED
  BY <1>1, <1>2, <1>3, <1>4, <1>5, <1>6, <1>7, <1>8, <1>9, <1>10, <1>11, <1>12, <1>13, <1>14
     DEF Next, Runner, Board

(* Lines that are joined or cut are lines.                                 *)
LEMMA MergeType ==
  ASSUME NEW a \in Lines, NEW b \in Lines
  PROVE  /\ Merge(a, b) \in Lines
         /\ Merge(a, b).attempt = IF a.attempt # 0 THEN a.attempt ELSE b.attempt
BY DEF Merge, Lines

LEMMA BlankType == Blank \in Lines /\ Blank.attempt = 0
BY SessionAssumption DEF Blank, Lines

LEMMA PrintsType ==
  ASSUME wire \in Seq(Lines), partial \in Lines, NEW line \in Lines, Prints(line)
  PROVE  wire' \in Seq(Lines) /\ partial' \in Lines
BY MergeType, BlankType DEF Prints

(* What the board prints is a line.                                        *)
LEMMA TextType ==
  ASSUME NEW text \in Texts
  PROVE  /\ [Blank EXCEPT !.texts = {text}] \in Lines
         /\ [Blank EXCEPT !.texts = {text}].attempt = 0
BY SessionAssumption DEF Blank, Lines

LEMMA AttemptType ==
  ASSUME NEW n \in 1 .. Total
  PROVE  /\ [Blank EXCEPT !.attempt = n] \in Lines
         /\ [Blank EXCEPT !.attempt = n].attempt = n
BY SessionAssumption DEF Blank, Lines

LEMMA ElementType ==
  ASSUME NEW S, NEW s \in Seq(S), NEW k \in DOMAIN s
  PROVE  s[k] \in S
OBVIOUS

(* Each attempt the capture thread has parsed makes a row.                 *)
LEMMA RenumberType ==
  ASSUME attempts \in Seq(1 .. Total)
  PROVE  /\ renumber_session_attempts \in Seq([attempt : 1 .. Total, warmup : BOOLEAN])
         /\ DOMAIN renumber_session_attempts = DOMAIN attempts
<1>1. DOMAIN attempts = 1 .. Len(attempts) /\ Len(attempts) \in Nat
  OBVIOUS
<1>2. \A k \in 1 .. Len(attempts) : [attempt |-> attempts[k], warmup |-> k <= Warmups]
                                        \in [attempt : 1 .. Total, warmup : BOOLEAN]
  <2> TAKE k \in 1 .. Len(attempts)
  <2>1. attempts[k] \in 1 .. Total
    BY <1>1, ElementType
  <2>2. (k <= Warmups) \in BOOLEAN
    OBVIOUS
  <2> QED
    BY <2>1, <2>2, Zenon
<1>3. renumber_session_attempts
        = [k \in 1 .. Len(attempts) |-> [attempt |-> attempts[k], warmup |-> k <= Warmups]]
  BY <1>1 DEF renumber_session_attempts
<1> QED
  BY <1>1, <1>2, <1>3

LEMMA SerialNext == Typed /\ [Next]_vars => Serial'
<1> SUFFICES ASSUME Typed, [Next]_vars PROVE Serial'
  OBVIOUS
<1>0. Serial /\ Device
  BY DEF Typed
<1>1. CASE wire' = wire /\ partial' = partial /\ lines' = lines /\ attempts' = attempts
           /\ result' = result
  BY <1>0, <1>1 DEF Serial
<1>2. CASE BenchStart \/ BenchReady
  <2>1. lines # <<>> /\ lines' = Tail(lines) /\ UNCHANGED <<wire, partial, attempts, result>>
    BY <1>2 DEF BenchStart, BenchReady, Wait, env, uart
  <2> QED
    BY <1>0, <2>1 DEF Serial
<1>3. CASE wait_for_attempts
  BY <1>0, <1>3, RenumberType DEF wait_for_attempts, env, uart, Serial
<1>4. CASE BoardStarts
  BY <1>0, <1>4, PrintsType, TextType DEF BoardStarts, Texts, host, serial, Serial
<1>5. CASE BoardReady
  BY <1>0, <1>5, PrintsType, TextType DEF BoardReady, Texts, host, serial, Serial
<1>6. CASE BoardMeasures
  BY <1>0, <1>6, PrintsType, AttemptType DEF BoardMeasures, host, serial, Serial, Device
<1>7. CASE Capture
  <2>1. Head(wire) \in Lines /\ wire' \in Seq(Lines)
    BY <1>0, <1>7 DEF Capture, Serial
  <2>2. parse_attempt_line(Head(wire)) \in Seq(1 .. Total)
    <3>1. CASE Head(wire).attempt = 0
      BY <3>1, SessionAssumption DEF parse_attempt_line
    <3>2. CASE Head(wire).attempt # 0
      <4>1. Head(wire).attempt \in 1 .. Total
        BY <2>1, <3>2 DEF Lines
      <4> QED
        BY <3>2, <4>1 DEF parse_attempt_line
    <3> QED
      BY <3>1, <3>2
  <2> QED
    BY <1>0, <1>7, <2>1, <2>2 DEF Capture, Serial
<1>8. CASE reset_device \/ TextTimeout \/ ensure_ipsp_connected \/ IpspGivenUp
           \/ require_board_ping \/ BoardBegins \/ LinkDrops \/ UNCHANGED vars
  BY <1>1, <1>8, Zenon DEF reset_device, TextTimeout, ensure_ipsp_connected, IpspGivenUp, require_board_ping,
     BoardBegins, LinkDrops, vars, host, env, uart, serial
<1> QED
  BY <1>2, <1>3, <1>4, <1>5, <1>6, <1>7, <1>8 DEF Next, Runner, Board

LEMMA TypedAlways == Spec => []Typed
<1>1. Typed /\ [Next]_vars => Typed'
  BY FlagsNext, ScalarsNext, DeviceNext, SerialNext DEF Typed
<1> QED
  BY <1>1, TypedInit, PTL DEF Spec

(* The session's state, its board's and the serial capture's keep their    *)
(* types: no attempt line has a number the batch does not have.            *)
THEOREM SessionTypes == Spec => []TypeOK
<1>1. Typed => TypeOK
  BY DEF Typed, Flags, Scalars, Device, Serial, TypeOK
<1> QED
  BY <1>1, TypedAlways, PTL
-----------------------------------------------------------------------------
(* The attempt lines of the board, wherever they are: those the capture    *)
(* thread has parsed come before those on the wire, these before the one   *)
(* whose newline is lost, and all are below n.                             *)
ParsedBefore(n) ==
    /\ \A j, k \in DOMAIN attempts : j < k => attempts[j] < attempts[k]
    /\ \A j \in DOMAIN attempts : attempts[j] < n

OnWire(n) ==
    /\ \A v, w \in DOMAIN wire : v < w /\ wire[v].attempt # 0 /\ wire[w].attempt # 0
                                 => wire[v].attempt < wire[w].attempt
    /\ \A w \in DOMAIN wire : wire[w].attempt < n
    /\ \A j \in DOMAIN attempts, w \in DOMAIN wire :
          wire[w].attempt # 0 => attempts[j] < wire[w].attempt

Cut(n) ==
    /\ partial.attempt < n
    /\ partial.attempt # 0 =>
          /\ \A j \in DOMAIN attempts : attempts[j] < partial.attempt
          /\ \A w \in DOMAIN wire : wire[w].attempt < partial.attempt

Ordered(n) == ParsedBefore(n) /\ OnWire(n) /\ Cut(n)

(* The next attempt the board will print: it resumes where reboot_state    *)
(* says, and begins with the first attempt when that is not used.          *)
Upcoming ==
    IF board.stage = "measuring" THEN board.next
    ELSE IF board.stage = "done" THEN Total + 1
    ELSE retained

(* Nothing has been printed before the reset that begins the session.      *)
Order ==
    ~stray => /\ Ordered(Upcoming)
              /\ pc = "reset" => attempts = <<>> /\ wire = <<>> /\ partial = Blank

LEMMA UpcomingType == Typed => Upcoming \in 1 .. Total + 1
BY SessionAssumption DEF Typed, Device, Stages, Upcoming

LEMMA UpcomingNext == Typed /\ [Next]_vars => Upcoming' \in 1 .. Total + 1
<1> SUFFICES ASSUME Typed, [Next]_vars PROVE Upcoming' \in 1 .. Total + 1
  OBVIOUS
<1>1. Device'
  BY DeviceNext
<1> QED
  BY <1>1, SessionAssumption DEF Device, Stages, Upcoming

(* Losses, faults and stray lines are never undone, and only the reset     *)
(* begins the session.                                                     *)
LEMMA Lasting ==
  ASSUME Typed, [Next]_vars
  PROVE  /\ reboots' = reboots /\ (~stray' => ~stray)
         /\ losses' = losses \/ losses' = losses + 1
         /\ losses' = 0 => losses = 0
         /\ faults' = 0 => faults = 0
         /\ pc' \in Waiting => pc \in Waiting \/ reset_device
<1> USE DEF host, device, uart, serial, env, vars
<1>1. reboots' = reboots /\ (~stray' => ~stray)
  BY Zenon DEF Typed, Flags, Next, Runner, Board, reset_device, BenchStart, BenchReady, Wait,
         TextTimeout, ensure_ipsp_connected, IpspGivenUp, require_board_ping,
         wait_for_attempts, BoardStarts, BoardReady, BoardBegins, BoardMeasures, LinkDrops,
         Capture, Prints
<1>2. losses' = losses \/ losses' = losses + 1
  BY Zenon DEF Next, Runner, Board, reset_device, BenchStart, BenchReady, Wait,
         TextTimeout, ensure_ipsp_connected, IpspGivenUp, require_board_ping,
         wait_for_attempts, BoardStarts, BoardReady, BoardBegins, BoardMeasures, LinkDrops,
         Capture, Prints
<1>3. faults' = faults \/ faults' = faults + 1
  BY Zenon DEF Next, Runner, Board, reset_device, BenchStart, BenchReady, Wait, Fault,
         TextTimeout, ensure_ipsp_connected, IpspGivenUp, require_board_ping,
         wait_for_attempts, BoardStarts, BoardReady, BoardBegins, BoardMeasures, LinkDrops,
         Capture
<1>4. pc' \in Waiting => pc \in Waiting \/ reset_device
  BY DEF Waiting, Next, Runner, Board, BenchStart, BenchReady, Wait,
         TextTimeout, ensure_ipsp_connected, IpspGivenUp, require_board_ping,
         wait_for_attempts, BoardStarts, BoardReady, BoardBegins, BoardMeasures, LinkDrops,
         Capture
<1>5. losses \in Nat /\ faults \in Nat
  BY DEF Typed, Scalars
<1> QED
  BY <1>1, <1>2, <1>3, <1>4, <1>5

(* What a step of the session does to the attempts: nothing, a line that   *)
(* is printed, which moves Upcoming past the attempt it brings, or a line  *)
(* that is captured.  Only the reset does more.                            *)
Printed(line) ==
    /\ UNCHANGED attempts /\ Prints(line)
    /\ \/ line.attempt = 0 /\ Upcoming' = Upcoming
       \/ line.attempt = Upcoming /\ Upcoming' = Upcoming + 1

LEMMA StepPrints ==
  ASSUME Typed, [Next]_vars, ~reset_device
  PROVE  \/ UNCHANGED <<uart, attempts>> /\ Upcoming' = Upcoming
         \/ \E line \in Lines : Printed(line)
         \/ Capture /\ Upcoming' = Upcoming
<1> USE DEF host, device, serial, env
<1>1. CASE BenchStart \/ BenchReady \/ TextTimeout \/ ensure_ipsp_connected \/ IpspGivenUp
           \/ require_board_ping \/ wait_for_attempts \/ LinkDrops \/ UNCHANGED vars
  <2>1. UNCHANGED <<uart, attempts, board, retained>>
    BY <1>1 DEF BenchStart, BenchReady, Wait, TextTimeout, ensure_ipsp_connected, IpspGivenUp,
                require_board_ping, wait_for_attempts, LinkDrops, vars
  <2> QED
    BY <2>1 DEF Upcoming
<1>2. CASE BoardBegins
  BY <1>2 DEF BoardBegins, Upcoming, Typed, Device
<1>3. CASE BoardStarts \/ BoardReady
  <2>1. /\ UNCHANGED <<attempts, pc, retained>>
        /\ board.stage \in {"booting", "waiting"} /\ board'.stage \in {"waiting", "settling"}
    BY <1>3 DEF BoardStarts, BoardReady, Typed, Device
  <2>2. Upcoming' = Upcoming
    BY <2>1 DEF Upcoming
  <2>3. \E line \in Lines : line.attempt = 0 /\ Prints(line)
    BY <1>3, TextType DEF BoardStarts, BoardReady, Texts
  <2> QED
    BY <2>1, <2>2, <2>3 DEF Printed
<1>4. CASE BoardMeasures
  <2>1. /\ UNCHANGED <<attempts, pc>> /\ board.stage = "measuring"
        /\ board.next \in 1 .. Total /\ Upcoming = board.next
    BY <1>4 DEF BoardMeasures, Typed, Device, Upcoming
  <2>2. Upcoming' = board.next + 1
    <3>1. CASE board.next = Total
      <4>1. board'.stage = "done"
        BY <1>4, <3>1 DEF BoardMeasures
      <4> QED
        BY <3>1, <4>1 DEF Upcoming
    <3>2. CASE board.next # Total /\ reboots
      <4>1. board'.stage = "booting" /\ retained' = board.next + 1
        BY <1>4, <2>1, <3>2, SessionAssumption
           DEF BoardMeasures, reboot, bench_store_next_attempt
      <4> QED
        BY <4>1 DEF Upcoming
    <3>3. CASE board.next # Total /\ ~reboots
      <4>1. board'.stage = "measuring" /\ board'.next = board.next + 1
        BY <1>4, <2>1, <3>3 DEF BoardMeasures, Typed, Device
      <4> QED
        BY <4>1 DEF Upcoming
    <3> QED
      BY <3>1, <3>2, <3>3
  <2>3. \E line \in Lines : line.attempt = board.next /\ Prints(line)
    BY <1>4, <2>1, AttemptType DEF BoardMeasures
  <2> QED
    BY <2>1, <2>2, <2>3 DEF Printed
<1>5. CASE Capture
  BY <1>5 DEF Capture, Upcoming
<1> QED
  BY <1>1, <1>2, <1>3, <1>4, <1>5 DEF Next, Runner, Board

(* A line without an attempt, or with one that is not below those before.  *)
LEMMA PrintsOrdered ==
  ASSUME Typed, UNCHANGED attempts, NEW line \in Lines, Prints(line),
         NEW n \in 1 .. Total + 1, NEW m \in 1 .. Total + 1, n <= m,
         Ordered(n), line.attempt < m, line.attempt = 0 \/ n <= line.attempt
  PROVE  Ordered(m)'
<1> DEFINE join == Merge(partial, line)
<1>0. /\ attempts \in Seq(1 .. Total) /\ wire \in Seq(Lines) /\ partial \in Lines
      /\ partial.attempt \in 0 .. Total /\ line.attempt \in 0 .. Total
  BY DEF Typed, Serial, Lines
<1>1. join.attempt = IF partial.attempt # 0 THEN partial.attempt ELSE line.attempt
  BY <1>0, MergeType
<1>2. Blank.attempt = 0 /\ join \in Lines /\ Blank \in Lines
  BY <1>0, MergeType, BlankType
<1>3. \A j \in DOMAIN attempts : attempts[j] \in 1 .. Total
  BY <1>0, ElementType, Zenon
<1>4. \A w \in DOMAIN wire : wire[w] \in Lines /\ wire[w].attempt \in 0 .. Total
  <2>1. \A w \in DOMAIN wire : wire[w] \in Lines
    BY <1>0, ElementType, Zenon
  <2> QED
    BY <2>1 DEF Lines
<1>5. ParsedBefore(m)'
  BY <1>3 DEF Ordered, ParsedBefore
<1>6. ASSUME NEW x \in Lines, x.attempt \in {partial.attempt, join.attempt},
             wire' = Append(wire, x)
      PROVE  OnWire(m)'
  <2>1. DOMAIN wire = 1 .. Len(wire) /\ DOMAIN wire' = 1 .. Len(wire) + 1 /\ Len(wire) \in Nat
    BY <1>0, <1>6
  <2>2. \A w \in DOMAIN wire : wire'[w] = wire[w]
    BY <1>0, <1>6, <2>1
  <2>3. wire'[Len(wire) + 1] = x
    BY <1>0, <1>6
  <2>4. /\ x.attempt \in 0 .. Total /\ x.attempt < m
        /\ x.attempt # 0 => /\ \A j \in DOMAIN attempts : attempts[j] < x.attempt
                           /\ \A w \in DOMAIN wire : wire[w].attempt < x.attempt
    BY <1>0, <1>1, <1>3, <1>4, <1>6 DEF Ordered, ParsedBefore, OnWire, Cut
  <2> HIDE DEF join
  <2> QED
    BY <1>3, <1>4, <2>1, <2>2, <2>3, <2>4 DEF Ordered, OnWire
<1>7. CASE wire' \in {Append(wire, join), Append(wire, partial)} /\ partial' = Blank
  <2>1. OnWire(m)'
    BY <1>0, <1>2, <1>6, <1>7
  <2>2. Cut(m)'
    BY <1>2, <1>7 DEF Cut
  <2> QED
    BY <1>5, <2>1, <2>2 DEF Ordered
<1>8. CASE UNCHANGED wire /\ partial' = join
  <2>1. OnWire(m)'
    BY <1>4, <1>8 DEF Ordered, OnWire
  <2>2. Cut(m)'
    BY <1>0, <1>1, <1>3, <1>4, <1>8 DEF Ordered, ParsedBefore, OnWire, Cut
  <2> QED
    BY <1>5, <2>1, <2>2 DEF Ordered
<1> QED
  BY <1>7, <1>8 DEF Prints

LEMMA OrderInit == Init => Order
BY SessionAssumption DEF Init, Order, Ordered, ParsedBefore, OnWire, Cut, Upcoming, Blank

(* The capture thread takes the oldest line and parses what it can.        *)
LEMMA CaptureOrdered ==
  ASSUME Typed, Capture, NEW n \in 1 .. Total + 1, Ordered(n)
  PROVE  Ordered(n)'
<1> DEFINE first == Head(wire)
<1>0. /\ attempts \in Seq(1 .. Total) /\ wire \in Seq(Lines) /\ partial \in Lines
      /\ wire # <<>> /\ wire' = Tail(wire) /\ partial' = partial
      /\ partial.attempt \in 0 .. Total
  BY DEF Typed, Serial, Lines, Capture
<1>1. /\ DOMAIN wire = 1 .. Len(wire) /\ Len(wire) \in Nat \ {0}
      /\ DOMAIN wire' = 1 .. Len(wire) - 1 /\ first = wire[1]
      /\ \A w \in DOMAIN wire' : wire'[w] = wire[w + 1]
  BY <1>0
<1>2. \A w \in DOMAIN wire : wire[w] \in Lines /\ wire[w].attempt \in 0 .. Total
  <2>1. \A w \in DOMAIN wire : wire[w] \in Lines
    BY <1>0, ElementType, Zenon
  <2> QED
    BY <2>1 DEF Lines
<1>3. \A j \in DOMAIN attempts : attempts[j] \in 1 .. Total
  BY <1>0, ElementType, Zenon
<1>4. CASE first.attempt = 0
  <2>1. attempts' = attempts
    BY <1>0, <1>4 DEF Capture, parse_attempt_line
  <2> HIDE DEF first
  <2> QED
    BY <1>0, <1>1, <1>2, <1>3, <2>1 DEF Ordered, ParsedBefore, OnWire, Cut
<1>5. CASE first.attempt # 0
  <2>1. first.attempt \in 1 .. Total /\ first.attempt < n
    BY <1>1, <1>2, <1>5 DEF Ordered, OnWire
  <2>2. attempts' = attempts \o <<first.attempt>>
    BY <1>5 DEF Capture, parse_attempt_line
  <2>3. /\ DOMAIN attempts = 1 .. Len(attempts) /\ Len(attempts) \in Nat
        /\ DOMAIN attempts' = 1 .. Len(attempts) + 1
        /\ attempts'[Len(attempts) + 1] = first.attempt
        /\ \A j \in DOMAIN attempts : attempts'[j] = attempts[j]
    BY <1>0, <2>1, <2>2
  <2>4. /\ \A j \in DOMAIN attempts : attempts[j] < first.attempt
        /\ \A w \in DOMAIN wire' : wire'[w].attempt # 0 => first.attempt < wire'[w].attempt
        /\ partial.attempt # 0 => first.attempt < partial.attempt
    <3>1. 1 \in DOMAIN wire /\ wire[1].attempt # 0
      BY <1>1, <1>5
    <3>2. \A j \in DOMAIN attempts : attempts[j] < wire[1].attempt
      BY <3>1 DEF Ordered, OnWire
    <3>3. \A w \in DOMAIN wire : 1 < w /\ wire[w].attempt # 0 => wire[1].attempt < wire[w].attempt
      BY <3>1 DEF Ordered, OnWire
    <3>4. partial.attempt # 0 => wire[1].attempt < partial.attempt
      BY <3>1 DEF Ordered, Cut
    <3>5. \A w \in DOMAIN wire' : w + 1 \in DOMAIN wire /\ 1 < w + 1
      BY <1>1
    <3> QED
      BY <1>1, <3>2, <3>3, <3>4, <3>5
  <2> HIDE DEF first
  <2>5. ParsedBefore(n)'
    BY <1>3, <2>1, <2>3, <2>4 DEF Ordered, ParsedBefore
  <2>6. OnWire(n)'
    <3>1. \A w \in DOMAIN wire' : w \in Nat /\ w + 1 \in DOMAIN wire /\ wire'[w] = wire[w + 1]
      BY <1>1
    <3>2. \A v, w \in DOMAIN wire' : v < w /\ wire'[v].attempt # 0 /\ wire'[w].attempt # 0
                                    => wire'[v].attempt < wire'[w].attempt
      <4> SUFFICES ASSUME NEW v \in DOMAIN wire', NEW w \in DOMAIN wire', v < w,
                          wire'[v].attempt # 0, wire'[w].attempt # 0
                   PROVE  wire'[v].attempt < wire'[w].attempt
        OBVIOUS
      <4>1. v + 1 < w + 1
        BY <3>1
      <4> QED
        BY <3>1, <4>1 DEF Ordered, OnWire
    <3>3. \A w \in DOMAIN wire' : wire'[w].attempt < n
      BY <3>1 DEF Ordered, OnWire
    <3>4. \A j \in DOMAIN attempts', w \in DOMAIN wire' :
             wire'[w].attempt # 0 => attempts'[j] < wire'[w].attempt
      <4> SUFFICES ASSUME NEW j \in DOMAIN attempts', NEW w \in DOMAIN wire',
                          wire'[w].attempt # 0
                   PROVE  attempts'[j] < wire'[w].attempt
        OBVIOUS
      <4>1. CASE j \in DOMAIN attempts
        BY <2>3, <3>1, <4>1 DEF Ordered, OnWire
      <4>2. CASE j = Len(attempts) + 1
        BY <2>3, <2>4, <4>2
      <4> QED
        BY <2>3, <4>1, <4>2
    <3> QED
      BY <3>2, <3>3, <3>4 DEF OnWire
  <2>7. Cut(n)'
    <3>1. partial'.attempt < n /\ partial' = partial
      BY <1>0 DEF Ordered, Cut
    <3>2. ASSUME partial.attempt # 0, NEW j \in DOMAIN attempts'
          PROVE  attempts'[j] < partial.attempt
      <4>1. CASE j \in DOMAIN attempts
        BY <2>3, <3>2, <4>1 DEF Ordered, Cut
      <4>2. CASE j = Len(attempts) + 1
        BY <2>3, <2>4, <3>2, <4>2
      <4> QED
        BY <2>3, <4>1, <4>2
    <3>3. ASSUME partial.attempt # 0, NEW w \in DOMAIN wire'
          PROVE  wire'[w].attempt < partial.attempt
      <4>1. w + 1 \in DOMAIN wire /\ wire'[w] = wire[w + 1]
        BY <1>1
      <4> QED
        BY <3>3, <4>1 DEF Ordered, Cut
    <3> QED
      BY <3>1, <3>2, <3>3 DEF Cut
  <2> QED
    BY <2>5, <2>6, <2>7 DEF Ordered
<1> QED
  BY <1>4, <1>5

(* A printed attempt is at Upcoming, and moves it to one past it.          *)
LEMMA OrderNext == Typed /\ Order /\ [Next]_vars => Order'
<1> SUFFICES ASSUME Typed, Order, [Next]_vars, ~stray'
             PROVE  /\ Ordered(Upcoming)'
                    /\ pc' = "reset" => attempts' = <<>> /\ wire' = <<>> /\ partial' = Blank
  BY Zenon DEF Order, Blank
<1>0. ~stray /\ Ordered(Upcoming) /\ Upcoming \in 1 .. Total + 1
  BY Lasting, UpcomingType DEF Order
<1>1. CASE reset_device
  <2>1. pc = "reset" /\ pc' # "reset" /\ UNCHANGED <<wire, partial, attempts, retained>>
    BY <1>1 DEF reset_device, uart
  <2>2. attempts = <<>> /\ wire = <<>> /\ partial = Blank
    BY <1>0, <2>1 DEF Order
  <2>3. Upcoming' \in 1 .. Total + 1
    BY UpcomingNext
  <2> QED
    BY <2>1, <2>2, <2>3, BlankType DEF Ordered, ParsedBefore, OnWire, Cut
<1>2. CASE ~reset_device
  <2>0. PICK n \in 1 .. Total + 1 : n = Upcoming /\ Ordered(n)
    BY <1>0
  <2>1. pc' = "reset" => pc = "reset"
    BY <1>2 DEF host, vars, Next, Runner, Board, BenchStart, BenchReady, Wait, TextTimeout,
           ensure_ipsp_connected, IpspGivenUp, require_board_ping, wait_for_attempts, LinkDrops,
           BoardStarts, BoardReady, BoardBegins, BoardMeasures, Capture
  <2>2. CASE UNCHANGED <<uart, attempts>> /\ Upcoming' = Upcoming
    BY <1>0, <2>1, <2>2 DEF Order, Ordered, ParsedBefore, OnWire, Cut, uart
  <2>3. CASE \E line \in Lines : Printed(line)
    <3>1. PICK line \in Lines : Printed(line)
      BY <2>3
    <3>2. pc # "reset"
      BY <3>1 DEF Printed, Prints
    <3>3. PICK m \in 1 .. Total + 1 : m = Upcoming'
      BY UpcomingNext
    <3>4. /\ n <= m /\ line.attempt < m /\ (line.attempt = 0 \/ n <= line.attempt)
      BY <2>0, <3>1, <3>3 DEF Printed
    <3>5. Ordered(m)'
      BY <2>0, <3>1, <3>4, PrintsOrdered DEF Printed
    <3> QED
      BY <2>1, <3>2, <3>3, <3>5 DEF Ordered, ParsedBefore, OnWire, Cut
  <2>4. CASE Capture /\ Upcoming' = Upcoming
    <3>1. pc # "reset"
      BY <1>0, <2>4 DEF Capture, Order
    <3>2. Ordered(n)'
      BY <2>0, <2>4, CaptureOrdered
    <3> QED
      BY <2>0, <2>1, <2>4, <3>1, <3>2 DEF Ordered, ParsedBefore, OnWire, Cut
  <2> QED
    BY <1>2, <2>2, <2>3, <2>4, StepPrints
<1> QED
  BY <1>1, <1>2

LEMMA OrderAlways == Spec => [](Typed /\ Order)
<1>1. Typed /\ Order /\ [Next]_vars => Order'
  BY OrderNext
<1> QED
  BY <1>1, OrderInit, TypedAlways, PTL DEF Spec

(* No attempt of the board makes two rows of a session, and the rows are   *)
(* in the order they were measured in, whatever is lost, joined, retried   *)
(* or rebooted (parse_attempt_line(), bench_store_next_attempt()).         *)
THEOREM EachMeasuredOnce == Spec => []MeasuredOnce
<1>1. Typed /\ Order => MeasuredOnce
  BY DEF Order, Ordered, ParsedBefore, MeasuredOnce
<1> QED
  BY <1>1, OrderAlways, PTL
-----------------------------------------------------------------------------
(* The batch resumed at b when the session reset the board: k attempts     *)
(* parsed since then reach at least b + k - 1, those to come at least b.   *)
Numbered(b) ==
    /\ \A k \in DOMAIN attempts : attempts[k] >= b + k - 1
    /\ \A w \in DOMAIN wire : wire[w].attempt # 0 => wire[w].attempt >= b
    /\ partial.attempt # 0 => partial.attempt >= b
    /\ Upcoming >= b

(* A link of the board lets it measure one attempt before it reboots.      *)
Credit ==
    IF board.stage \in {"settling", "measuring"} \/ (board.stage = "waiting" /\ linked)
    THEN 1 ELSE 0

Counted ==
    ~stray /\ pc \in Waiting =>
        \E b \in 1 .. Total : Numbered(b) /\ (reboots => Upcoming - b + Credit <= tries)

Rows ==
    /\ pc = "reset" => tries = 0
    /\ result # <<>> => pc = "stopped"
    /\ board.stage = "booting" => ~linked

CountInv == Typed /\ Order /\ Counted /\ Rows

LEMMA CountInit == Init => Counted /\ Rows
BY DEF Init, Counted, Rows, Waiting

LEMMA RowsNext == Typed /\ Rows /\ [Next]_vars => Rows'
<1> SUFFICES ASSUME Typed, Rows, [Next]_vars PROVE Rows'
  OBVIOUS
<1> USE DEF Rows, host, device, uart, serial, env
<1>1. CASE reset_device
  BY <1>1 DEF reset_device, reboot
<1>2. CASE BenchStart \/ BenchReady \/ TextTimeout
  BY <1>2 DEF BenchStart, BenchReady, Wait, TextTimeout
<1>3. CASE ensure_ipsp_connected
  BY <1>3 DEF ensure_ipsp_connected
<1>4. CASE IpspGivenUp \/ require_board_ping
  BY <1>4 DEF IpspGivenUp, require_board_ping
<1>5. CASE wait_for_attempts
  BY <1>5 DEF wait_for_attempts
<1>6. CASE BoardStarts \/ BoardReady \/ BoardBegins
  <2>1. board \in [stage : Stages, next : 1 .. Total + 1]
    BY DEF Typed, Device
  <2>2. board'.stage # "booting"
    BY <1>6, <2>1 DEF BoardStarts, BoardReady, BoardBegins
  <2>3. UNCHANGED host
    BY <1>6 DEF BoardStarts, BoardReady, BoardBegins
  <2> QED
    BY <2>2, <2>3
<1>7. CASE BoardMeasures
  <2>1. board \in [stage : Stages, next : 1 .. Total + 1] /\ board.stage = "measuring"
    BY <1>7 DEF Typed, Device, BoardMeasures
  <2>2. board'.stage = "booting" => linked' = FALSE
    BY <1>7, <2>1 DEF BoardMeasures, reboot
  <2>3. UNCHANGED host
    BY <1>7 DEF BoardMeasures
  <2> QED
    BY <2>2, <2>3
<1>8. CASE LinkDrops \/ Capture \/ UNCHANGED vars
  BY <1>8 DEF LinkDrops, Capture, vars
<1> QED
  BY <1>1, <1>2, <1>3, <1>4, <1>5, <1>6, <1>7, <1>8 DEF Next, Runner, Board

(* A printed line keeps the numbering when its attempt is not below b.     *)
LEMMA PrintsNumbered ==
  ASSUME Typed, UNCHANGED attempts, NEW line \in Lines, Prints(line),
         NEW b \in 1 .. Total, Numbered(b), line.attempt # 0 => line.attempt >= b, Upcoming' >= b
  PROVE  Numbered(b)'
<1> DEFINE join == Merge(partial, line)
<1>0. /\ attempts \in Seq(1 .. Total) /\ wire \in Seq(Lines) /\ partial \in Lines
  BY DEF Typed, Serial
<1>1. join.attempt = IF partial.attempt # 0 THEN partial.attempt ELSE line.attempt
  BY <1>0, MergeType
<1>2. Blank.attempt = 0 /\ join \in Lines /\ Blank \in Lines
  BY <1>0, MergeType, BlankType
<1>3. \A k \in DOMAIN attempts' : attempts'[k] >= b + k - 1
  BY DEF Numbered
<1>4. ASSUME NEW x \in Lines, x.attempt \in {partial.attempt, join.attempt},
             wire' = Append(wire, x)
      PROVE  \A w \in DOMAIN wire' : wire'[w].attempt # 0 => wire'[w].attempt >= b
  <2>1. DOMAIN wire = 1 .. Len(wire) /\ DOMAIN wire' = 1 .. Len(wire) + 1 /\ Len(wire) \in Nat
    BY <1>0, <1>4
  <2>2. \A w \in DOMAIN wire : wire'[w] = wire[w]
    BY <1>0, <1>4, <2>1
  <2>3. wire'[Len(wire) + 1] = x
    BY <1>0, <1>4
  <2>4. x.attempt # 0 => x.attempt >= b
    BY <1>1, <1>4 DEF Numbered
  <2> HIDE DEF join
  <2> QED
    BY <2>1, <2>2, <2>3, <2>4 DEF Numbered
<1>5. CASE wire' \in {Append(wire, join), Append(wire, partial)} /\ partial' = Blank
  BY <1>0, <1>2, <1>3, <1>4, <1>5 DEF Numbered
<1>6. CASE UNCHANGED wire /\ partial' = join
  BY <1>1, <1>3, <1>6 DEF Numbered
<1> QED
  BY <1>5, <1>6 DEF Prints

LEMMA CaptureNumbered ==
  ASSUME Typed, Capture, NEW n \in 1 .. Total + 1, Ordered(n), NEW b \in 1 .. Total, Numbered(b)
  PROVE  Numbered(b)'
<1> DEFINE first == Head(wire)
<1>0. /\ attempts \in Seq(1 .. Total) /\ wire \in Seq(Lines)
      /\ wire # <<>> /\ wire' = Tail(wire) /\ UNCHANGED <<partial, board, retained>>
  BY DEF Typed, Serial, Capture, device
<1>1. /\ DOMAIN wire = 1 .. Len(wire) /\ Len(wire) \in Nat \ {0}
      /\ DOMAIN wire' = 1 .. Len(wire) - 1 /\ first = wire[1]
      /\ \A w \in DOMAIN wire' : wire'[w] = wire[w + 1]
  BY <1>0
<1>2. \A w \in DOMAIN wire' : wire'[w].attempt # 0 => wire'[w].attempt >= b
  <2>1. \A w \in DOMAIN wire' : w + 1 \in DOMAIN wire
    BY <1>1
  <2> QED
    BY <1>1, <2>1 DEF Numbered
<1>3. Upcoming' >= b /\ (partial'.attempt # 0 => partial'.attempt >= b)
  BY <1>0 DEF Numbered, Upcoming
<1>4. \A k \in DOMAIN attempts' : attempts'[k] >= b + k - 1
  <2>1. CASE first.attempt = 0
    <3>1. attempts' = attempts
      BY <1>0, <2>1 DEF Capture, parse_attempt_line
    <3> QED
      BY <3>1 DEF Numbered
  <2>2. CASE first.attempt # 0
    <3>0. 1 \in DOMAIN wire /\ wire[1].attempt # 0 /\ wire[1] \in Lines
      BY <1>0, <1>1, <2>2, ElementType
    <3>1. first.attempt \in 1 .. Total /\ first.attempt >= b
      BY <1>1, <3>0 DEF Numbered, Lines
    <3>2. attempts' = attempts \o <<first.attempt>>
      BY <2>2 DEF Capture, parse_attempt_line
    <3>3. /\ DOMAIN attempts = 1 .. Len(attempts) /\ Len(attempts) \in Nat
          /\ DOMAIN attempts' = 1 .. Len(attempts) + 1
          /\ attempts'[Len(attempts) + 1] = first.attempt
          /\ \A k \in DOMAIN attempts : attempts'[k] = attempts[k]
      BY <1>0, <3>1, <3>2
    <3>4. \A k \in DOMAIN attempts : attempts[k] < first.attempt /\ attempts[k] \in 1 .. Total
      <4>1. \A k \in DOMAIN attempts : attempts[k] < wire[1].attempt
        BY <3>0 DEF Ordered, OnWire
      <4>2. \A k \in DOMAIN attempts : attempts[k] \in 1 .. Total
        BY <1>0, ElementType, Zenon
      <4> QED
        BY <1>1, <4>1, <4>2
    <3> HIDE DEF first
    <3>5. first.attempt >= b + Len(attempts)
      <4>1. CASE Len(attempts) = 0
        BY <3>1, <4>1
      <4>2. CASE Len(attempts) # 0
        <5>1. Len(attempts) \in DOMAIN attempts
          BY <3>3, <4>2
        <5>2. attempts[Len(attempts)] >= b + Len(attempts) - 1
          BY <5>1 DEF Numbered
        <5> QED
          BY <3>1, <3>3, <3>4, <5>1, <5>2
      <4> QED
        BY <4>1, <4>2
    <3>6. ASSUME NEW k \in DOMAIN attempts' PROVE attempts'[k] >= b + k - 1
      <4>1. CASE k \in DOMAIN attempts
        BY <3>3, <4>1 DEF Numbered
      <4>2. CASE k = Len(attempts) + 1
        BY <3>3, <3>5, <4>2
      <4> QED
        BY <3>3, <4>1, <4>2
    <3> QED
      BY <3>6
  <2> QED
    BY <2>1, <2>2
<1> QED
  BY <1>2, <1>3, <1>4 DEF Numbered

LEMMA CreditMoves ==
  ASSUME NEW u \in Nat, NEW b \in Nat, NEW c \in {0, 1}, NEW d \in {0, 1},
         NEW t \in Nat, NEW s \in Nat, d + t <= s + c, u - b + c <= t
  PROVE  u - b + d <= s
OBVIOUS

(* Every attempt of a board that reboots takes a link, every link a try.   *)
LEMMA CountedNext == CountInv /\ [Next]_vars => Counted'
<1> SUFFICES ASSUME CountInv, [Next]_vars, ~stray', pc' \in Waiting
             PROVE  \E b \in 1 .. Total :
                       (Numbered(b) /\ (reboots => Upcoming - b + Credit <= tries))'
  BY Zenon DEF Counted
<1> DEFINE Goal == \E b \in 1 .. Total :
                      (Numbered(b) /\ (reboots => Upcoming - b + Credit <= tries))'
<1>0. ~stray /\ Typed /\ Upcoming \in 1 .. Total + 1
  <2>1. ~stray
    BY DEF CountInv, Typed, Flags, Next, Runner, Board, reset_device, BenchStart, BenchReady, Wait,
           TextTimeout, ensure_ipsp_connected, IpspGivenUp, require_board_ping,
           wait_for_attempts, BoardStarts, BoardReady, BoardBegins, BoardMeasures, LinkDrops,
           Capture, Prints, uart, env, vars, host, device
  <2> QED
    BY <2>1, UpcomingType DEF CountInv
<1>a. /\ board \in [stage : Stages, next : 1 .. Total + 1] /\ retained \in 1 .. Total
      /\ tries \in Nat /\ Credit \in {0, 1}
  BY <1>0, SessionAssumption DEF Typed, Device, Scalars, Credit
<1>b. PICK c \in {0, 1} : Credit = c
  BY <1>a
<1>1. CASE reset_device
  <2>1. /\ pc = "reset" /\ UNCHANGED <<wire, partial, attempts, retained, tries>>
        /\ board'.stage = "booting"
    BY <1>1 DEF reset_device, reboot, uart, Waiting
  <2>2. attempts = <<>> /\ wire = <<>> /\ partial = Blank /\ tries = 0
    BY <1>0, <2>1 DEF CountInv, Order, Rows
  <2>3. Upcoming' = retained /\ Credit' = 0
    BY <2>1 DEF Upcoming, Credit
  <2>4. Numbered(retained)'
    BY <1>a, <2>1, <2>2, <2>3, BlankType DEF Numbered
  <2>5. \E b \in 1 .. Total : b = retained /\ b = retained'
    BY <1>a, <2>1
  <2> QED
    BY <1>a, <2>1, <2>2, <2>3, <2>4, <2>5 DEF Numbered
<1> USE DEF host, device, uart, serial, env
<1>2. CASE pc = "reset" /\ ~reset_device
  <2>1. pc' = "reset"
    BY <1>2 DEF Next, Runner, Board, BenchStart, BenchReady, Wait,
           TextTimeout, ensure_ipsp_connected, IpspGivenUp, require_board_ping,
           wait_for_attempts, BoardStarts, BoardReady, BoardBegins, BoardMeasures, LinkDrops,
           Capture, vars
  <2> QED
    BY <2>1 DEF Waiting
<1>3. CASE pc \in Ended
  <2>1. pc' = pc
    BY <1>3 DEF Ended, Next, Runner, Board, reset_device, BenchStart, BenchReady, Wait,
           TextTimeout, ensure_ipsp_connected, IpspGivenUp, require_board_ping,
           wait_for_attempts, BoardStarts, BoardReady, BoardBegins, BoardMeasures, LinkDrops,
           Capture, vars
  <2> QED
    BY <1>3, <2>1 DEF Waiting, Ended
<1>4. CASE pc \in Waiting
  <2>0. PICK b \in 1 .. Total : Numbered(b) /\ (reboots => Upcoming - b + Credit <= tries)
    BY <1>0, <1>4 DEF CountInv, Counted
  <2>1. ASSUME UNCHANGED <<wire, partial, attempts, reboots>>, Upcoming' = Upcoming,
               NEW d \in {0, 1}, Credit' = d, tries' \in Nat, d + tries <= tries' + c
        PROVE  Goal
    <3>1. Numbered(b)'
      BY <2>0, <2>1 DEF Numbered
    <3>2. reboots => Upcoming - b + c <= tries
      BY <1>b, <2>0, Zenon
    <3>3. b \in Nat /\ Upcoming \in Nat
      BY <1>0, SessionAssumption
    <3>4. Upcoming - b + c <= tries => Upcoming - b + d <= tries'
      <4>1. tries \in Nat /\ tries' \in Nat /\ d + tries <= tries' + c
        BY <1>a, <2>1
      <4> QED
        BY <3>3, <4>1, CreditMoves, Zenon
    <3>5. reboots' => Upcoming' - b + Credit' <= tries'
      BY <2>1, <3>2, <3>4, Zenon
    <3> QED
      BY <3>1, <3>5
  <2>2. CASE BenchStart \/ BenchReady \/ TextTimeout \/ IpspGivenUp \/ require_board_ping
             \/ wait_for_attempts \/ UNCHANGED vars
    <3>1. UNCHANGED <<wire, partial, attempts, reboots, board, retained, linked, tries>>
      BY <2>2 DEF BenchStart, BenchReady, Wait, TextTimeout, IpspGivenUp, require_board_ping,
                  wait_for_attempts, vars
    <3>2. Upcoming' = Upcoming /\ Credit' = Credit
      BY <3>1 DEF Upcoming, Credit
    <3>3. Credit' = c /\ c + tries <= tries' + c
      BY <1>a, <1>b, <3>1, <3>2
    <3> QED
      BY <1>a, <2>1, <3>1, <3>2, <3>3
  <2>3. CASE ensure_ipsp_connected
    <3>1. UNCHANGED <<wire, partial, attempts, reboots, board, retained>> /\ tries' = tries + 1
      BY <2>3 DEF ensure_ipsp_connected
    <3>2. Upcoming' = Upcoming /\ Credit' \in {0, 1}
      BY <3>1 DEF Upcoming, Credit
    <3>3. PICK d \in {0, 1} : Credit' = d
      BY <3>2
    <3>4. d + tries <= tries' + c /\ tries' \in Nat
      BY <1>a, <3>1
    <3> QED
      BY <2>1, <3>1, <3>2, <3>3, <3>4
  <2>4. CASE LinkDrops
    <3>1. /\ UNCHANGED <<wire, partial, attempts, reboots, board, retained, tries>>
          /\ linked' = FALSE
      BY <2>4 DEF LinkDrops
    <3>2. Upcoming' = Upcoming /\ (Credit' = 0 \/ Credit' = Credit)
      BY <3>1 DEF Upcoming, Credit
    <3>3. PICK d \in {0, 1} : Credit' = d /\ (d = 0 \/ d = c)
      BY <1>b, <3>2
    <3>4. d + tries <= tries' + c /\ tries' \in Nat
      BY <1>a, <3>1, <3>3
    <3> QED
      BY <2>1, <3>1, <3>2, <3>3, <3>4
  <2>5. CASE BoardBegins
    <3>1. /\ UNCHANGED <<wire, partial, attempts, reboots, retained, linked, tries>>
          /\ board.stage = "settling" /\ board'.stage = "measuring" /\ board'.next = retained
      BY <1>0, <2>5 DEF BoardBegins, Typed, Device
    <3>2. Upcoming' = Upcoming /\ Credit' = Credit
      BY <3>1 DEF Upcoming, Credit
    <3>3. Credit' = c /\ c + tries <= tries' + c
      BY <1>a, <1>b, <3>1, <3>2
    <3> QED
      BY <1>a, <2>1, <3>1, <3>2, <3>3
  <2>6. CASE BoardStarts \/ BoardReady
    <3>1. /\ UNCHANGED <<attempts, reboots, retained, linked, tries>>
          /\ \/ board.stage = "booting" /\ board'.stage = "waiting" /\ ~linked
             \/ board.stage = "waiting" /\ board'.stage = "settling" /\ linked
      BY <1>a, <2>6 DEF BoardStarts, BoardReady, CountInv, Rows
    <3>2. Upcoming' = Upcoming /\ Credit' = Credit
      BY <3>1 DEF Upcoming, Credit
    <3>3. PICK line \in Lines : line.attempt = 0 /\ Prints(line)
      BY <2>6, TextType DEF BoardStarts, BoardReady, Texts
    <3>4. Numbered(b)'
      <4>1. Upcoming' >= b
        BY <2>0, <3>2 DEF Numbered
      <4> QED
        BY <1>0, <2>0, <3>1, <3>3, <4>1, PrintsNumbered
    <3>5. reboots' => Upcoming' - b + Credit' <= tries'
      BY <2>0, <3>1, <3>2
    <3> QED
      BY <3>4, <3>5
  <2>7. CASE BoardMeasures
    <3>1. /\ UNCHANGED <<attempts, reboots, tries>> /\ board.stage = "measuring"
          /\ board.next \in 1 .. Total /\ Upcoming = board.next /\ Credit = 1
      BY <1>0, <2>7 DEF BoardMeasures, Typed, Device, Upcoming, Credit
    <3>2. Upcoming' = board.next + 1 /\ (reboots => Credit' = 0)
      <4>1. CASE board.next = Total
        <5>1. board'.stage = "done"
          BY <2>7, <4>1 DEF BoardMeasures
        <5> QED
          BY <4>1, <5>1 DEF Upcoming, Credit
      <4>2. CASE board.next # Total /\ reboots
        <5>1. board'.stage = "booting" /\ retained' = board.next + 1
          BY <2>7, <3>1, <4>2, SessionAssumption
             DEF BoardMeasures, reboot, bench_store_next_attempt
        <5> QED
          BY <5>1 DEF Upcoming, Credit
      <4>3. CASE board.next # Total /\ ~reboots
        <5>1. board'.stage = "measuring" /\ board'.next = board.next + 1
          BY <1>a, <2>7, <3>1, <4>3 DEF BoardMeasures
        <5> QED
          BY <4>3, <5>1 DEF Upcoming
      <4> QED
        BY <4>1, <4>2, <4>3
    <3>3. PICK line \in Lines : line.attempt = board.next /\ Prints(line)
      BY <2>7, <3>1, AttemptType DEF BoardMeasures
    <3>4. Numbered(b)'
      <4>1. Upcoming' >= b /\ line.attempt >= b
        BY <2>0, <3>1, <3>2, <3>3 DEF Numbered
      <4> QED
        BY <1>0, <2>0, <3>1, <3>3, <4>1, PrintsNumbered
    <3>5. reboots' => Upcoming' - b + Credit' <= tries'
      BY <1>a, <2>0, <3>1, <3>2
    <3> QED
      BY <3>4, <3>5
  <2>8. CASE Capture
    <3>1. UNCHANGED <<reboots, board, retained, linked, tries>>
      BY <2>8 DEF Capture
    <3>2. Upcoming' = Upcoming /\ Credit' = Credit
      BY <3>1 DEF Upcoming, Credit
    <3>3. PICK n \in 1 .. Total + 1 : n = Upcoming
      BY <1>0
    <3>4. Ordered(n)
      BY <1>0, <3>3 DEF CountInv, Order
    <3>5. Numbered(b)'
      BY <1>0, <2>0, <2>8, <3>4, CaptureNumbered
    <3>6. reboots' => Upcoming' - b + Credit' <= tries'
      BY <2>0, <3>1, <3>2
    <3> QED
      BY <3>5, <3>6
  <2>9. CASE reset_device
    BY <1>4, <2>9 DEF reset_device, Waiting
  <2> QED
    BY <2>2, <2>3, <2>4, <2>5, <2>6, <2>7, <2>8, <2>9 DEF Next, Runner, Board
<1> QED
  BY <1>0, <1>1, <1>2, <1>3, <1>4 DEF Typed, Scalars

LEMMA CountAlways == Spec => []CountInv
<1>1. CountInv /\ [Next]_vars => Counted' /\ Rows'
  BY CountedNext, RowsNext DEF CountInv
<1>2. Typed /\ Order /\ Counted /\ Rows => CountInv
  BY DEF CountInv
<1>3. CountInv => Typed /\ Order /\ Counted /\ Rows
  BY DEF CountInv
<1> QED
  BY <1>1, <1>2, <1>3, CountInit, OrderAlways, PTL DEF Spec

(* The last attempt parsed bounds how many there are.                      *)
LEMMA CountedBounds ==
  ASSUME Typed, Order, NEW b \in 1 .. Total, Numbered(b), ~stray
  PROVE  Len(attempts) <= Upcoming - b
<1>1. /\ DOMAIN attempts = 1 .. Len(attempts) /\ Len(attempts) \in Nat
      /\ Upcoming \in 1 .. Total + 1 /\ Upcoming >= b
  BY UpcomingType DEF Typed, Serial, Numbered
<1>2. CASE Len(attempts) = 0
  BY <1>1, <1>2
<1>3. CASE Len(attempts) # 0
  <2>1. Len(attempts) \in DOMAIN attempts
    BY <1>1, <1>3
  <2>2. attempts[Len(attempts)] >= b + Len(attempts) - 1
    BY <2>1 DEF Numbered
  <2>3. attempts[Len(attempts)] < Upcoming /\ attempts[Len(attempts)] \in 1 .. Total
    <3>1. attempts[Len(attempts)] < Upcoming
      BY <2>1 DEF Order, Ordered, ParsedBefore
    <3>2. attempts[Len(attempts)] \in 1 .. Total
      BY <2>1, ElementType, Zenon DEF Typed, Serial
    <3> QED
      BY <3>1, <3>2
  <2> QED
    BY <1>1, <2>2, <2>3
<1> QED
  BY <1>2, <1>3

Over == pc \in Ended

(* A session with firmware that reboots after an attempt has no more rows  *)
(* than the runner has tried to connect to the board (ensure_ipsp_connected*)
(* is not called again while the attempts are awaited).                    *)
THEOREM LinksBoundRows == Spec => []OneRowPerLink
<1>1. Init => OneRowPerLink
  BY DEF Init, OneRowPerLink
<1>2. CountInv /\ pc \in Waiting => OneRowPerLink
  <2> SUFFICES ASSUME CountInv, pc \in Waiting, reboots, ~stray PROVE Len(attempts) <= tries
    BY DEF OneRowPerLink
  <2>1. PICK b \in 1 .. Total : Numbered(b) /\ Upcoming - b + Credit <= tries
    BY DEF CountInv, Counted
  <2>2. Credit \in {0, 1} /\ Upcoming \in 1 .. Total + 1 /\ tries \in Nat
    BY UpcomingType, SessionAssumption DEF Credit, CountInv, Typed, Scalars
  <2>3. Len(attempts) <= Upcoming - b /\ Len(attempts) \in Nat
    BY <2>1, CountedBounds DEF CountInv, Typed, Serial
  <2> QED
    BY <2>1, <2>2, <2>3
<1>3. CountInv /\ pc = "reset" => OneRowPerLink
  BY DEF CountInv, Order, Rows, OneRowPerLink
<1>4. CountInv /\ OneRowPerLink /\ [Next]_vars /\ Over' => OneRowPerLink'
  <2> SUFFICES ASSUME CountInv, OneRowPerLink, [Next]_vars, pc' \in Ended, reboots', ~stray'
               PROVE  Len(attempts') <= tries'
    BY Zenon DEF OneRowPerLink, Over
  <2>1. /\ attempts' = attempts /\ tries' = tries /\ reboots' = reboots
        /\ stray = FALSE
    BY DEF Ended, CountInv, Typed, Flags, Next, Runner, Board, reset_device, BenchStart,
           BenchReady, Wait, TextTimeout, ensure_ipsp_connected, IpspGivenUp, require_board_ping,
           wait_for_attempts, BoardStarts, BoardReady, BoardBegins, BoardMeasures, LinkDrops,
           Capture, Prints, vars, host, device, uart, serial, env
  <2> QED
    BY <2>1 DEF OneRowPerLink
<1>5. CountInv => OneRowPerLink \/ Over
  BY <1>2, <1>3 DEF CountInv, Typed, Scalars, Over
<1> QED
  BY <1>1, <1>4, <1>5, CountAlways, PTL DEF Spec

(* No warm-up of the board's batch is counted as a measurement             *)
(* (renumber_session_attempts(), wait_for_attempts()).                     *)
THEOREM WarmupsNeverMeasured == Spec => []WarmupsExcluded
<1>1. Init => WarmupsExcluded
  BY DEF Init, WarmupsExcluded
<1>2. CountInv /\ WarmupsExcluded /\ wait_for_attempts => WarmupsExcluded'
  <2> SUFFICES ASSUME CountInv, wait_for_attempts, ~stray', NEW k \in DOMAIN result',
                      result'[k].attempt <= FirmwareWarmups
               PROVE  result'[k].warmup
    BY Zenon DEF WarmupsExcluded
  <2>1. pc \in Waiting /\ ~stray /\ result' = renumber_session_attempts
    BY DEF wait_for_attempts, Waiting, env, uart
  <2>2. PICK b \in 1 .. Total : Numbered(b)
    BY <2>1 DEF CountInv, Counted
  <2>3. attempts \in Seq(1 .. Total) /\ k \in DOMAIN attempts
    BY <2>1, RenumberType DEF CountInv, Typed, Serial
  <2>4. result'[k].attempt = attempts[k] /\ result'[k].warmup = (k <= Warmups)
    BY <2>1, <2>3, Zenon DEF renumber_session_attempts
  <2>5. k \in Nat /\ attempts[k] >= b + k - 1 /\ attempts[k] <= FirmwareWarmups
        /\ attempts[k] \in 1 .. Total
    <3>1. attempts[k] >= b + k - 1 /\ attempts[k] <= FirmwareWarmups
      BY <2>2, <2>3, <2>4 DEF Numbered
    <3>2. attempts[k] \in 1 .. Total
      BY <2>3, ElementType, Zenon
    <3> QED
      BY <2>3, <3>1, <3>2
  <2>6. k <= Warmups
    BY <2>5, SessionAssumption
  <2> QED
    BY <2>4, <2>6
<1>3. CountInv /\ WarmupsExcluded /\ [Next]_vars /\ ~wait_for_attempts => WarmupsExcluded'
  <2> SUFFICES ASSUME CountInv, WarmupsExcluded, [Next]_vars, ~wait_for_attempts
               PROVE  WarmupsExcluded'
    OBVIOUS
  <2>1. result' = result /\ (~stray' => ~stray)
    BY DEF CountInv, Typed, Flags, Next, Runner, Board, reset_device, BenchStart,
           BenchReady, Wait, TextTimeout, ensure_ipsp_connected, IpspGivenUp, require_board_ping,
           BoardStarts, BoardReady, BoardBegins, BoardMeasures, LinkDrops,
           Capture, Prints, vars, host, device, uart, serial, env
  <2> QED
    BY <2>1, Zenon DEF WarmupsExcluded
<1> QED
  BY <1>1, <1>2, <1>3, CountAlways, PTL DEF Spec
-----------------------------------------------------------------------------
(* When no byte is lost, the attempts below n are all there: the rows are  *)
(* 1, 2, ..., and those behind them are still on the wire.                 *)
InFull(n) ==
    /\ partial = Blank
    /\ \A k \in DOMAIN attempts : attempts[k] = k
    /\ \A i \in Len(attempts) + 1 .. n - 1 : \E w \in DOMAIN wire : wire[w].attempt = i

Clean == ~reboots /\ ~stray /\ losses = 0

Whole == Clean /\ pc \in Waiting => InFull(Upcoming)

(* Without a fault the link of the ping is still there.                    *)
Held == ~reboots /\ faults = 0 /\ pc = "attempts" => linked

CompleteInv == Typed /\ Order /\ Whole /\ Held

LEMMA CompleteInit == Init => Whole /\ Held
BY DEF Init, Whole, Held, Waiting

(* What was reset is at the beginning, where nothing has been printed.     *)
LEMMA ResetBegins ==
  ASSUME Typed, Order, reset_device, ~stray, ~reboots, pc' \in Waiting
  PROVE  wire' = <<>> /\ partial' = Blank /\ attempts' = <<>> /\ Upcoming' = 1
<1>1. /\ pc = "reset" /\ UNCHANGED <<wire, partial, attempts, retained>>
      /\ board'.stage = "booting" /\ retained = 1
  BY DEF reset_device, reboot, uart, Waiting, Typed, Device
<1> QED
  BY <1>1 DEF Order, Upcoming

(* A line that arrives whole brings the attempt that was to come next, or  *)
(* none.                                                                   *)
LEMMA PrintsInFull ==
  ASSUME Typed, UNCHANGED attempts, NEW line \in Lines, Prints(line), losses' = 0,
         NEW n \in 1 .. Total + 1, NEW m \in 1 .. Total + 1, InFull(n),
         m = n \/ (m = n + 1 /\ line.attempt = n)
  PROVE  InFull(m)'
<1>0. /\ attempts \in Seq(1 .. Total) /\ wire \in Seq(Lines) /\ partial = Blank
      /\ Len(attempts) \in Nat /\ losses \in Nat
  BY DEF Typed, Serial, Scalars, InFull
<1>1. PICK x \in Lines : /\ x.attempt = line.attempt
                         /\ wire' = Append(wire, x) /\ partial' = Blank
  <2>1. Merge(partial, line) \in Lines /\ Merge(partial, line).attempt = line.attempt
    BY <1>0, MergeType, BlankType
  <2>2. wire' = Append(wire, Merge(partial, line)) /\ partial' = Blank
    BY <1>0 DEF Prints
  <2> QED
    BY <2>1, <2>2
<1>2. /\ DOMAIN wire = 1 .. Len(wire) /\ DOMAIN wire' = 1 .. Len(wire) + 1 /\ Len(wire) \in Nat
      /\ wire'[Len(wire) + 1] = x /\ \A w \in DOMAIN wire : wire'[w] = wire[w]
  BY <1>0, <1>1
<1>3. ASSUME NEW i \in Len(attempts) + 1 .. m - 1
      PROVE  \E w \in DOMAIN wire' : wire'[w].attempt = i
  <2>1. CASE i \in Len(attempts) + 1 .. n - 1
    <3>1. PICK w \in DOMAIN wire : wire[w].attempt = i
      BY <2>1 DEF InFull
    <3> QED
      BY <1>2, <3>1
  <2>2. CASE i = n /\ line.attempt = n
    BY <1>1, <1>2, <2>2
  <2> QED
    BY <1>0, <1>3, <2>1, <2>2
<1> QED
  BY <1>1, <1>3 DEF InFull

(* The capture thread takes an attempt off the wire only in its turn.      *)
LEMMA CaptureInFull ==
  ASSUME Typed, Capture, NEW n \in 1 .. Total + 1, Ordered(n), InFull(n)
  PROVE  InFull(n)'
<1> DEFINE first == Head(wire)
<1>0. /\ attempts \in Seq(1 .. Total) /\ wire \in Seq(Lines)
      /\ wire # <<>> /\ wire' = Tail(wire) /\ partial' = Blank
  BY DEF Typed, Serial, Capture, InFull
<1>1. /\ DOMAIN wire = 1 .. Len(wire) /\ Len(wire) \in Nat \ {0} /\ 1 \in DOMAIN wire
      /\ DOMAIN wire' = 1 .. Len(wire) - 1 /\ first = wire[1]
      /\ \A w \in DOMAIN wire' : wire'[w] = wire[w + 1]
  BY <1>0
<1>2. \A w \in DOMAIN wire : wire[w].attempt \in 0 .. Total
  <2>1. \A w \in DOMAIN wire : wire[w] \in Lines
    BY <1>0, ElementType, Zenon
  <2> QED
    BY <2>1 DEF Lines
<1>3. /\ DOMAIN attempts = 1 .. Len(attempts) /\ Len(attempts) \in Nat
      /\ \A k \in DOMAIN attempts : attempts[k] = k
  BY <1>0 DEF InFull
<1>4. ASSUME NEW w \in DOMAIN wire, w # 1 PROVE w - 1 \in DOMAIN wire' /\ wire'[w - 1] = wire[w]
  BY <1>1, <1>4
<1> HIDE DEF first
<1>5. CASE first.attempt = 0
  <2>1. attempts' = attempts
    BY <1>0, <1>5 DEF Capture, parse_attempt_line, first
  <2>2. ASSUME NEW i \in Len(attempts) + 1 .. n - 1
        PROVE  \E w \in DOMAIN wire' : wire'[w].attempt = i
    <3>1. PICK w \in DOMAIN wire : wire[w].attempt = i
      BY DEF InFull
    <3>2. w # 1
      BY <1>1, <1>3, <1>5, <3>1
    <3> QED
      BY <1>4, <3>1, <3>2
  <2> QED
    BY <1>0, <1>3, <2>1, <2>2 DEF InFull
<1>6. CASE first.attempt # 0
  <2>1. first.attempt \in 1 .. Total /\ first.attempt < n
    BY <1>1, <1>2, <1>6 DEF Ordered, OnWire
  <2>2. Len(attempts) < first.attempt
    <3>1. CASE Len(attempts) = 0
      BY <2>1, <3>1
    <3>2. CASE Len(attempts) # 0
      <4>1. Len(attempts) \in DOMAIN attempts
        BY <1>3, <3>2
      <4>2. attempts[Len(attempts)] < wire[1].attempt
        BY <1>1, <1>6, <4>1 DEF Ordered, OnWire
      <4> QED
        BY <1>1, <1>3, <4>1, <4>2
    <3> QED
      BY <3>1, <3>2
  <2>3. first.attempt = Len(attempts) + 1
    <3>1. PICK w \in DOMAIN wire : wire[w].attempt = Len(attempts) + 1
      <4>1. Len(attempts) + 1 \in Len(attempts) + 1 .. n - 1
        BY <1>3, <2>1, <2>2
      <4> QED
        BY <4>1 DEF InFull
    <3>2. CASE w = 1
      BY <1>1, <3>1, <3>2
    <3>3. CASE w # 1
      <4>1. 1 < w /\ wire[1].attempt # 0 /\ wire[w].attempt # 0
        BY <1>1, <1>3, <1>6, <3>1, <3>3
      <4>2. wire[1].attempt < wire[w].attempt
        BY <1>1, <4>1 DEF Ordered, OnWire
      <4> QED
        BY <1>1, <1>3, <2>1, <2>2, <3>1, <4>2
    <3> QED
      BY <3>2, <3>3
  <2>4. attempts' = attempts \o <<first.attempt>>
    BY <1>6 DEF Capture, parse_attempt_line, first
  <2>5. /\ Len(attempts') = Len(attempts) + 1 /\ DOMAIN attempts' = 1 .. Len(attempts) + 1
        /\ attempts'[Len(attempts) + 1] = first.attempt
        /\ \A k \in DOMAIN attempts : attempts'[k] = attempts[k]
    BY <1>0, <2>1, <2>4
  <2>6. \A k \in DOMAIN attempts' : attempts'[k] = k
    BY <1>3, <2>3, <2>5
  <2>7. ASSUME NEW i \in Len(attempts') + 1 .. n - 1
        PROVE  \E w \in DOMAIN wire' : wire'[w].attempt = i
    <3>1. i \in Len(attempts) + 1 .. n - 1 /\ i # first.attempt
      BY <1>3, <2>3, <2>5
    <3>2. PICK w \in DOMAIN wire : wire[w].attempt = i
      BY <3>1 DEF InFull
    <3>3. w # 1
      BY <1>1, <3>1, <3>2
    <3> QED
      BY <1>4, <3>2, <3>3
  <2> QED
    BY <1>0, <2>6, <2>7 DEF InFull
<1> QED
  BY <1>5, <1>6

(* The reset finds the serial line empty, and the batch begins again.      *)
LEMMA WholeNext == Typed /\ Order /\ Whole /\ [Next]_vars => Whole'
<1> SUFFICES ASSUME Typed, Order, Whole, [Next]_vars, Clean', pc' \in Waiting
             PROVE  InFull(Upcoming)'
  BY Zenon DEF Whole
<1>0. /\ Clean /\ losses' = 0 /\ (pc \in Waiting \/ reset_device)
      /\ Ordered(Upcoming) /\ Upcoming \in 1 .. Total + 1
  BY Lasting, UpcomingType DEF Clean, Order
<1>1. CASE reset_device
  <2>1. attempts' = <<>> /\ partial' = Blank /\ Upcoming' = 1
    BY <1>0, <1>1, ResetBegins DEF Clean
  <2> QED
    BY <2>1 DEF InFull
<1>2. CASE ~reset_device
  <2>0. PICK n \in 1 .. Total + 1 : n = Upcoming /\ Ordered(n) /\ InFull(n)
    BY <1>0, <1>2 DEF Whole
  <2>1. CASE UNCHANGED <<uart, attempts>> /\ Upcoming' = Upcoming
    BY <2>0, <2>1 DEF InFull, uart
  <2>2. CASE \E line \in Lines : Printed(line)
    <3>1. PICK line \in Lines : Printed(line)
      BY <2>2
    <3>2. PICK m \in 1 .. Total + 1 : m = Upcoming'
      BY <1>0, UpcomingNext
    <3>3. InFull(m)'
      BY <1>0, <2>0, <3>1, <3>2, PrintsInFull DEF Printed
    <3> QED
      BY <3>2, <3>3 DEF InFull
  <2>3. CASE Capture /\ Upcoming' = Upcoming
    <3>1. InFull(n)'
      BY <2>0, <2>3, CaptureInFull
    <3> QED
      BY <2>0, <2>3, <3>1 DEF InFull
  <2> QED
    BY <1>2, <2>1, <2>2, <2>3, StepPrints
<1> QED
  BY <1>1, <1>2

LEMMA HeldNext == Typed /\ Held /\ [Next]_vars => Held'
<1> SUFFICES ASSUME Typed, Held, [Next]_vars, ~reboots', faults' = 0, pc' = "attempts"
             PROVE  linked'
  BY Zenon DEF Held
<1>0. ~reboots /\ faults = 0 /\ faults \in Nat
  BY Lasting DEF Typed, Scalars
<1> USE DEF host, device, uart, serial, env
<1>1. CASE require_board_ping
  BY <1>0, <1>1 DEF require_board_ping, Fault, Held
<1>2. CASE LinkDrops
  BY <1>0, <1>2 DEF LinkDrops, Fault
<1>3. CASE BoardMeasures
  <2>1. UNCHANGED <<linked, pc>>
    BY <1>0, <1>3 DEF BoardMeasures
  <2> QED
    BY <1>0, <2>1 DEF Held
<1>4. CASE BoardStarts \/ BoardReady \/ BoardBegins \/ Capture \/ UNCHANGED vars
  <2>1. UNCHANGED <<linked, pc>>
    BY <1>4 DEF BoardStarts, BoardReady, BoardBegins, Capture, vars
  <2> QED
    BY <1>0, <2>1 DEF Held
<1>5. CASE reset_device \/ BenchStart \/ BenchReady \/ TextTimeout \/ ensure_ipsp_connected
           \/ IpspGivenUp \/ wait_for_attempts
  BY <1>5 DEF reset_device, BenchStart, BenchReady, Wait, TextTimeout, ensure_ipsp_connected,
              IpspGivenUp, wait_for_attempts
<1> QED
  BY <1>1, <1>2, <1>3, <1>4, <1>5 DEF Next, Runner, Board

LEMMA CompleteAlways == Spec => []CompleteInv
<1>1. CompleteInv /\ [Next]_vars => Whole' /\ Held'
  BY WholeNext, HeldNext DEF CompleteInv
<1>2. Typed /\ Order /\ Whole /\ Held => CompleteInv
  BY DEF CompleteInv
<1>3. CompleteInv => Typed /\ Order /\ Whole /\ Held
  BY DEF CompleteInv
<1> QED
  BY <1>1, <1>2, <1>3, CompleteInit, OrderAlways, PTL DEF Spec

(* The rows a session stops with when no byte has been lost.               *)
FirstAttempts == \A k \in DOMAIN result : result[k].attempt = k

LEMMA StopsInFull ==
  ASSUME CompleteInv, wait_for_attempts, Clean
  PROVE  FirstAttempts' /\ Len(result') = Len(attempts)
<1>1. result' = renumber_session_attempts /\ InFull(Upcoming)
  BY DEF CompleteInv, Whole, Waiting, wait_for_attempts
<1>2. /\ result' \in Seq([attempt : 1 .. Total, warmup : BOOLEAN])
      /\ DOMAIN result' = DOMAIN attempts
  BY <1>1, RenumberType DEF CompleteInv, Typed, Serial
<1>3. Len(result') = Len(attempts)
  BY <1>2 DEF CompleteInv, Typed, Serial
<1>4. \A k \in DOMAIN result' : result'[k].attempt = attempts[k]
  BY <1>1, <1>2 DEF renumber_session_attempts
<1> QED
  BY <1>1, <1>2, <1>3, <1>4 DEF InFull, FirstAttempts

(* Silence means that the board has reached the end of its batch.          *)
LEMMA QuietInFull ==
  ASSUME CompleteInv, Clean, faults = 0, pc = "attempts", Quiet
  PROVE  Len(attempts) = Total
<1>1. wire = <<>> /\ Upcoming = Total + 1 /\ InFull(Upcoming)
  BY DEF Quiet, CompleteInv, Clean, Whole, Held, Upcoming, Waiting
<1>2. attempts \in Seq(1 .. Total) /\ Len(attempts) \in Nat /\ DOMAIN attempts = 1 .. Len(attempts)
  BY DEF CompleteInv, Typed, Serial
<1>3. Len(attempts) >= Total
  <2>1. Len(attempts) + 1 \notin Len(attempts) + 1 .. Total
    BY <1>1, SessionAssumption DEF InFull
  <2> QED
    BY <1>2, <2>1, SessionAssumption
<1>4. Len(attempts) <= Total
  <2>1. CASE Len(attempts) = 0
    BY <2>1, SessionAssumption
  <2>2. CASE Len(attempts) # 0
    <3>1. Len(attempts) \in DOMAIN attempts
      BY <1>2, <2>2
    <3>2. attempts[Len(attempts)] \in 1 .. Total /\ attempts[Len(attempts)] = Len(attempts)
      BY <1>1, <1>2, <3>1, ElementType DEF InFull
    <3> QED
      BY <3>2
  <2> QED
    BY <2>1, <2>2
<1>5. Total \in Nat /\ Len(attempts) \in Nat
  BY <1>2, SessionAssumption
<1> QED
  BY <1>3, <1>4, <1>5

LEMMA OtherStepsKeepRows ==
  ASSUME Typed, [Next]_vars, ~wait_for_attempts
  PROVE  result' = result /\ (pc' = "stopped" => pc = "stopped")
<1> USE DEF host, device, uart, serial, env, vars
<1>1. result' = result
  BY Zenon DEF Next, Runner, Board, reset_device, BenchStart, BenchReady, Wait,
         TextTimeout, ensure_ipsp_connected, IpspGivenUp, require_board_ping,
         BoardStarts, BoardReady, BoardBegins, BoardMeasures, LinkDrops, Capture
<1>2. pc' = "stopped" => pc = "stopped"
  BY DEF Next, Runner, Board, reset_device, BenchStart, BenchReady, Wait,
         TextTimeout, ensure_ipsp_connected, IpspGivenUp, require_board_ping,
         BoardStarts, BoardReady, BoardBegins, BoardMeasures, LinkDrops, Capture
<1> QED
  BY <1>1, <1>2

(* When no byte is lost, the rows of a session are the board's attempts    *)
(* 1, 2, ... without a gap, also when commands fail, the link drops or the *)
(* session ends at its timeout (wait_for_attempts(), parse_attempt_line()).*)
RowsHaveNoGap == pc = "stopped" /\ Clean => FirstAttempts

THEOREM RowsAreTheFirst == Spec => []RowsHaveNoGap
<1>1. Init => RowsHaveNoGap
  BY DEF Init, RowsHaveNoGap
<1>2. CompleteInv /\ RowsHaveNoGap /\ [Next]_vars => RowsHaveNoGap'
  <2> SUFFICES ASSUME CompleteInv, RowsHaveNoGap, [Next]_vars, pc' = "stopped", Clean'
               PROVE  FirstAttempts'
    BY Zenon DEF RowsHaveNoGap
  <2>1. Typed /\ Clean
    BY Lasting DEF CompleteInv, Clean
  <2>2. CASE wait_for_attempts
    BY <2>1, <2>2, StopsInFull
  <2>3. CASE ~wait_for_attempts
    BY <2>1, <2>3, OtherStepsKeepRows DEF RowsHaveNoGap, FirstAttempts
  <2> QED
    BY <2>2, <2>3
<1> QED
  BY <1>1, <1>2, CompleteAlways, PTL DEF Spec

(* A session that stops without a lost byte, a reboot or a fault has all   *)
(* the rows that were asked for, or all the board has: the runner's wait   *)
(* never ends early, and no line is left unread (wait_for_attempts(),      *)
(* SerialCapture._run()).                                                  *)
THEOREM SessionsAreComplete == Spec => []SessionComplete
<1> DEFINE Enough == Len(result) >= Expected \/ Len(result) = Total
<1>1. Init => SessionComplete
  BY DEF Init, SessionComplete
<1>2. CompleteInv /\ SessionComplete /\ [Next]_vars => SessionComplete'
  <2> SUFFICES ASSUME CompleteInv, SessionComplete, [Next]_vars,
                      pc' = "stopped", ~reboots', ~stray', losses' = 0, faults' = 0
               PROVE  Enough' /\ FirstAttempts'
    BY Zenon DEF SessionComplete, FirstAttempts
  <2>1. Typed /\ Clean /\ faults = 0
    BY Lasting DEF CompleteInv, Clean
  <2>2. CASE wait_for_attempts
    <3>1. Len(result') = Len(attempts) /\ FirstAttempts'
      BY <2>1, <2>2, StopsInFull
    <3>2. pc = "attempts" /\ (Len(attempts) >= Expected \/ Quiet)
      BY <2>1, <2>2 DEF wait_for_attempts, Fault
    <3>3. Len(attempts) >= Expected \/ Len(attempts) = Total
      BY <2>1, <3>2, QuietInFull
    <3> QED
      BY <3>1, <3>3
  <2>3. CASE ~wait_for_attempts
    BY <2>1, <2>3, OtherStepsKeepRows DEF SessionComplete, Clean, FirstAttempts
  <2> QED
    BY <2>2, <2>3
<1> QED
  BY <1>1, <1>2, CompleteAlways, PTL DEF Spec
-----------------------------------------------------------------------------
(* The excuse of the properties above: a board that is reset at the end of *)
(* a session waits for its link, and prints nothing before this one has    *)
(* reset it.                                                               *)
Silent ==
    /\ ~stray
    /\ pc = "reset" => board.stage = "waiting" /\ ~linked

LEMMA SilentNext == Typed /\ Silent /\ [Next]_vars => Silent'
<1> SUFFICES ASSUME Typed, Silent, [Next]_vars PROVE Silent'
  OBVIOUS
<1> USE DEF Silent, host, device, uart, serial, env
<1>1. CASE Runner
  <2>1. stray' = stray
    BY <1>1, Zenon DEF Runner, reset_device, BenchStart, BenchReady, Wait, TextTimeout,
       ensure_ipsp_connected, IpspGivenUp, require_board_ping, wait_for_attempts
  <2>2. pc' # "reset"
    BY <1>1 DEF Runner, reset_device, BenchStart, BenchReady, Wait, TextTimeout,
       ensure_ipsp_connected, IpspGivenUp, require_board_ping, wait_for_attempts
  <2> QED
    BY <2>1, <2>2, Zenon
<1>2. CASE BoardStarts \/ BoardReady \/ BoardMeasures
  <2>1. pc # "reset" /\ pc' = pc
    BY <1>2 DEF BoardStarts, BoardReady, BoardMeasures
  <2>2. stray' = (stray \/ pc = "reset")
    BY <1>2, Zenon DEF BoardStarts, BoardReady, BoardMeasures, Prints
  <2> QED
    BY <2>1, <2>2, Zenon
<1>3. CASE BoardBegins \/ LinkDrops \/ Capture \/ UNCHANGED vars
  BY <1>3 DEF BoardBegins, LinkDrops, Capture, vars
<1> QED
  BY <1>1, <1>2, <1>3 DEF Next, Board

(* After a session that reset the board at its end (--reset-after-case),   *)
(* whatever fails in this one, no warm-up is counted as a measurement and  *)
(* no attempt makes two rows (reset_device(), the wait for the link in     *)
(* bench_main()).                                                          *)
RowsSound ==
    /\ \A k \in DOMAIN result : result[k].attempt <= FirmwareWarmups => result[k].warmup
    /\ \A j, k \in DOMAIN attempts : j < k => attempts[j] < attempts[k]
    /\ reboots => Len(attempts) <= tries

THEOREM ResetBoardIsSound == Spec /\ board.stage = "waiting" => []RowsSound
<1>1. Init /\ board.stage = "waiting" => Silent
  BY DEF Init, Silent
<1>2. Silent /\ WarmupsExcluded /\ MeasuredOnce /\ OneRowPerLink => RowsSound
  BY DEF Silent, WarmupsExcluded, MeasuredOnce, OneRowPerLink, RowsSound
<1> QED
  BY <1>1, <1>2, SilentNext, TypedAlways, WarmupsNeverMeasured, EachMeasuredOnce, LinksBoundRows,
     PTL DEF Spec
-----------------------------------------------------------------------------
(* What a lost byte costs: the attempts below n that have been printed and *)
(* are neither parsed nor on the wire.                                     *)
Lost(n) ==
    {i \in 1 .. n - 1 : /\ \A k \in DOMAIN attempts : attempts[k] # i
                        /\ \A w \in DOMAIN wire : wire[w].attempt # i}

LossBound(n) == Cardinality(Lost(n)) <= losses

Losses == ~reboots /\ ~stray /\ pc \in Waiting => LossBound(Upcoming)

LEMMA LostFinite ==
  ASSUME NEW n \in Nat
  PROVE  IsFiniteSet(Lost(n)) /\ Cardinality(Lost(n)) \in Nat
<1>1. IsFiniteSet(1 .. n - 1)
  BY FS_Interval
<1>2. Lost(n) \in SUBSET (1 .. n - 1)
  BY DEF Lost
<1>3. IsFiniteSet(Lost(n))
  BY <1>1, <1>2, FS_Subset
<1> QED
  BY <1>3, FS_CardinalityType

LEMMA OneMore ==
  ASSUME NEW S, NEW x, IsFiniteSet(S)
  PROVE  /\ IsFiniteSet(S \cup {x})
         /\ Cardinality(S) \in Nat /\ Cardinality(S \cup {x}) \in Nat
         /\ Cardinality(S \cup {x}) <= Cardinality(S) + 1
<1>1. IsFiniteSet(S \cup {x})
  BY FS_AddElement
<1>2. Cardinality(S) \in Nat /\ Cardinality(S \cup {x}) \in Nat
  BY <1>1, FS_CardinalityType
<1>3. Cardinality(S \cup {x}) = IF x \in S THEN Cardinality(S) ELSE Cardinality(S) + 1
  BY FS_AddElement, Zenon
<1> QED
  BY <1>1, <1>2, <1>3

(* A printed attempt is lost only with a byte: joined to an attempt before *)
(* it, it takes the place of that one, which was lost and is not any more. *)
LEMMA PrintsLoses ==
  ASSUME Typed, UNCHANGED attempts, NEW line \in Lines, Prints(line),
         NEW n \in 1 .. Total + 1, NEW m \in 1 .. Total + 1, Ordered(n), LossBound(n),
         (m = n /\ line.attempt = 0) \/ (m = n + 1 /\ line.attempt = n)
  PROVE  LossBound(m)'
<1> DEFINE join == Merge(partial, line)
           Old == Lost(n)
           New == Lost(m)'
<1>0. /\ attempts \in Seq(1 .. Total) /\ wire \in Seq(Lines) /\ partial \in Lines
      /\ losses \in Nat /\ n \in Nat /\ m \in Nat
      /\ DOMAIN wire = 1 .. Len(wire) /\ Len(wire) \in Nat
  BY SessionAssumption DEF Typed, Serial, Scalars
<1>1. /\ join \in Lines /\ partial.attempt \in 0 .. Total /\ Blank \in Lines
      /\ join.attempt = IF partial.attempt # 0 THEN partial.attempt ELSE line.attempt
  BY <1>0, MergeType, BlankType DEF Lines
<1>2. IsFiniteSet(Old) /\ Cardinality(Old) \in Nat /\ Cardinality(Old) <= losses
  BY <1>0, LostFinite DEF LossBound
<1> HIDE DEF join
<1>3. \A w \in DOMAIN wire : w \in DOMAIN wire' /\ wire'[w] = wire[w]
  BY <1>0, <1>1 DEF Prints
<1>4. New \subseteq Old \cup {n}
  <2> SUFFICES ASSUME NEW i \in New, i # n PROVE i \in Old
    OBVIOUS
  <2>1. i \in 1 .. n - 1 /\ (\A k \in DOMAIN attempts : attempts[k] # i)
    BY <1>0 DEF Lost
  <2>2. \A w \in DOMAIN wire : wire[w].attempt # i
    BY <1>3 DEF Lost
  <2> QED
    BY <2>1, <2>2 DEF Lost
<1>5. m = n => New \subseteq Old
  BY <1>0, <1>4 DEF Lost
<1> HIDE DEF Old, New
<1>6. CASE m = n
  <2>1. Cardinality(New) <= Cardinality(Old) /\ Cardinality(New) \in Nat
    BY <1>2, <1>5, <1>6, FS_Subset, FS_CardinalityType
  <2>2. losses <= losses' /\ losses' \in Nat
    BY <1>0 DEF Prints
  <2> QED
    BY <1>0, <1>2, <2>1, <2>2 DEF LossBound, New
<1>7. CASE losses' = losses + 1
  <2>1. /\ IsFiniteSet(Old \cup {n}) /\ Cardinality(Old \cup {n}) <= Cardinality(Old) + 1
        /\ Cardinality(Old \cup {n}) \in Nat
    BY <1>2, OneMore
  <2>2. Cardinality(New) <= Cardinality(Old \cup {n}) /\ Cardinality(New) \in Nat
    BY <1>4, <2>1, FS_Subset, FS_CardinalityType
  <2> QED
    BY <1>0, <1>2, <1>7, <2>1, <2>2 DEF LossBound, New
<1>8. CASE m = n + 1 /\ line.attempt = n /\ wire' = Append(wire, join) /\ losses' = losses
  <2>1. wire'[Len(wire) + 1] = join /\ Len(wire) + 1 \in DOMAIN wire'
    BY <1>0, <1>1, <1>8
  <2>2. join.attempt \notin New
    BY <2>1 DEF Lost, New
  <2>3. CASE partial.attempt = 0
    <3>1. New \subseteq Old
      BY <1>1, <1>4, <1>8, <2>2, <2>3
    <3>2. Cardinality(New) <= Cardinality(Old) /\ Cardinality(New) \in Nat
      BY <1>2, <3>1, FS_Subset, FS_CardinalityType
    <3> QED
      BY <1>0, <1>2, <1>8, <3>2 DEF LossBound, New
  <2>4. CASE partial.attempt # 0
    <3>1. partial.attempt \in Old
      <4>1. partial.attempt \in 1 .. n - 1
        BY <1>0, <1>1, <2>4 DEF Ordered, Cut
      <4>2. \A j \in DOMAIN attempts : attempts[j] # partial.attempt
        <5>1. \A j \in DOMAIN attempts : attempts[j] < partial.attempt /\ attempts[j] \in 1 .. Total
          BY <1>0, <2>4, ElementType DEF Ordered, Cut
        <5> QED
          BY <1>1, <5>1
      <4>3. \A w \in DOMAIN wire : wire[w].attempt # partial.attempt
        <5>1. \A w \in DOMAIN wire : wire[w].attempt < partial.attempt
          BY <2>4 DEF Ordered, Cut
        <5>2. \A w \in DOMAIN wire : wire[w] \in Lines
          BY <1>0, ElementType, Zenon
        <5> QED
          BY <1>1, <5>1, <5>2 DEF Lines
      <4> QED
        BY <4>1, <4>2, <4>3 DEF Lost, Old
    <3> DEFINE Rest == Old \ {partial.attempt}
    <3>2. IsFiniteSet(Rest) /\ Cardinality(Rest) = Cardinality(Old) - 1 /\ Cardinality(Rest) \in Nat
      BY <1>2, <3>1, FS_RemoveElement, FS_CardinalityType
    <3>3. New \subseteq Rest \cup {n}
      BY <1>1, <1>4, <2>2, <2>4
    <3> HIDE DEF Rest
    <3>4. /\ IsFiniteSet(Rest \cup {n}) /\ Cardinality(Rest \cup {n}) <= Cardinality(Rest) + 1
          /\ Cardinality(Rest \cup {n}) \in Nat
      BY <3>2, OneMore
    <3>5. Cardinality(New) <= Cardinality(Rest \cup {n}) /\ Cardinality(New) \in Nat
      BY <3>3, <3>4, FS_Subset, FS_CardinalityType
    <3> QED
      BY <1>0, <1>2, <1>8, <3>2, <3>4, <3>5 DEF LossBound, New
  <2> QED
    BY <2>3, <2>4
<1> QED
  BY <1>6, <1>7, <1>8 DEF Prints, join

(* Nothing is lost between the wire and the rows.                          *)
LEMMA CaptureLoses ==
  ASSUME Typed, Capture, NEW n \in 1 .. Total + 1, LossBound(n)
  PROVE  LossBound(n)'
<1>0. /\ attempts \in Seq(1 .. Total) /\ wire \in Seq(Lines) /\ losses' = losses
      /\ wire # <<>> /\ wire' = Tail(wire) /\ losses \in Nat /\ n \in Nat
  BY SessionAssumption DEF Typed, Serial, Scalars, Capture
<1>1. /\ DOMAIN wire = 1 .. Len(wire) /\ Len(wire) \in Nat \ {0}
      /\ DOMAIN wire' = 1 .. Len(wire) - 1 /\ Head(wire) = wire[1]
      /\ \A w \in DOMAIN wire' : wire'[w] = wire[w + 1]
  BY <1>0
<1>2. /\ \A k \in DOMAIN attempts : k \in DOMAIN attempts' /\ attempts'[k] = attempts[k]
      /\ wire[1].attempt # 0 => \E k \in DOMAIN attempts' : attempts'[k] = wire[1].attempt
  <2>1. CASE Head(wire).attempt = 0
    BY <1>0, <1>1, <2>1 DEF Capture, parse_attempt_line
  <2>2. CASE Head(wire).attempt # 0
    <3>1. wire[1].attempt \in 1 .. Total
      <4>1. wire[1] \in Lines
        BY <1>0, <1>1
      <4> QED
        BY <1>1, <2>2, <4>1 DEF Lines
    <3>2. attempts' = attempts \o <<wire[1].attempt>>
      BY <1>1, <2>2 DEF Capture, parse_attempt_line
    <3>3. /\ DOMAIN attempts = 1 .. Len(attempts) /\ Len(attempts) \in Nat
          /\ DOMAIN attempts' = 1 .. Len(attempts) + 1
          /\ attempts'[Len(attempts) + 1] = wire[1].attempt
          /\ \A k \in DOMAIN attempts : attempts'[k] = attempts[k]
      BY <1>0, <3>1, <3>2
    <3> QED
      BY <3>3
  <2> QED
    BY <2>1, <2>2
<1>3. Lost(n)' \subseteq Lost(n)
  <2> SUFFICES ASSUME NEW i \in Lost(n)' PROVE i \in Lost(n)
    OBVIOUS
  <2>1. i \in 1 .. n - 1 /\ \A k \in DOMAIN attempts : attempts[k] # i
    BY <1>2 DEF Lost
  <2>2. ASSUME NEW w \in DOMAIN wire PROVE wire[w].attempt # i
    <3>1. CASE w = 1
      BY <1>2, <2>1, <3>1 DEF Lost
    <3>2. CASE w # 1
      <4>1. w - 1 \in DOMAIN wire' /\ wire'[w - 1] = wire[w]
        BY <1>1, <2>2, <3>2
      <4> QED
        BY <4>1 DEF Lost
    <3> QED
      BY <3>1, <3>2
  <2> QED
    BY <2>1, <2>2 DEF Lost
<1>4. IsFiniteSet(Lost(n)) /\ Cardinality(Lost(n)) \in Nat
  BY <1>0, LostFinite
<1>5. Cardinality(Lost(n)') <= Cardinality(Lost(n)) /\ Cardinality(Lost(n)') \in Nat
  BY <1>3, <1>4, FS_Subset, FS_CardinalityType
<1> QED
  BY <1>0, <1>4, <1>5 DEF LossBound

LEMMA LossesNext == Typed /\ Order /\ Losses /\ [Next]_vars => Losses'
<1> SUFFICES ASSUME Typed, Order, Losses, [Next]_vars, ~reboots', ~stray', pc' \in Waiting
             PROVE  LossBound(Upcoming)'
  BY Zenon DEF Losses
<1>0. /\ ~reboots /\ ~stray /\ (pc \in Waiting \/ reset_device) /\ losses \in Nat
      /\ Ordered(Upcoming) /\ Upcoming \in 1 .. Total + 1
  BY Lasting, UpcomingType DEF Order, Typed, Scalars
<1>1. CASE reset_device
  <2>1. Upcoming' = 1 /\ losses' = losses
    BY <1>0, <1>1, ResetBegins DEF reset_device, uart
  <2>2. Lost(Upcoming)' = {}
    BY <2>1 DEF Lost
  <2> QED
    BY <1>0, <2>1, <2>2, FS_EmptySet DEF LossBound
<1>2. CASE ~reset_device
  <2>0. PICK n \in 1 .. Total + 1 : n = Upcoming /\ Ordered(n) /\ LossBound(n)
    BY <1>0, <1>2 DEF Losses
  <2>1. CASE UNCHANGED <<uart, attempts>> /\ Upcoming' = Upcoming
    BY <2>0, <2>1 DEF LossBound, Lost, uart
  <2>2. CASE \E line \in Lines : Printed(line)
    <3>1. PICK line \in Lines : Printed(line)
      BY <2>2
    <3>2. PICK m \in 1 .. Total + 1 : m = Upcoming'
      BY UpcomingNext
    <3>3. LossBound(m)'
      BY <2>0, <3>1, <3>2, PrintsLoses DEF Printed
    <3> QED
      BY <3>2, <3>3 DEF LossBound, Lost
  <2>3. CASE Capture /\ Upcoming' = Upcoming
    <3>1. LossBound(n)'
      BY <2>0, <2>3, CaptureLoses
    <3> QED
      BY <2>0, <2>3, <3>1 DEF LossBound, Lost
  <2> QED
    BY <1>2, <2>1, <2>2, <2>3, StepPrints
<1> QED
  BY <1>1, <1>2

LossInv == Typed /\ Order /\ Held /\ Losses

LEMMA LossAlways == Spec => []LossInv
<1>1. Init => Held /\ Losses
  BY DEF Init, Held, Losses, Waiting
<1>2. LossInv /\ [Next]_vars => Held' /\ Losses'
  BY HeldNext, LossesNext DEF LossInv
<1>3. Typed /\ Order /\ Held /\ Losses => LossInv
  BY DEF LossInv
<1>4. LossInv => Typed /\ Order /\ Held /\ Losses
  BY DEF LossInv
<1> QED
  BY <1>1, <1>2, <1>3, <1>4, OrderAlways, PTL DEF Spec

LEMMA CountUpTo ==
  ASSUME NEW n \in Nat
  PROVE  IsFiniteSet(1 .. n) /\ Cardinality(1 .. n) = n
<1>1. IsFiniteSet(1 .. n) /\ Cardinality(1 .. n) = IF 1 > n THEN 0 ELSE n - 1 + 1
  BY FS_Interval
<1> QED
  BY <1>1

LEMMA UnionBound ==
  ASSUME NEW S, NEW T, IsFiniteSet(S), IsFiniteSet(T)
  PROVE  /\ IsFiniteSet(S \cup T) /\ Cardinality(S \cup T) \in Nat
         /\ Cardinality(S \cup T) <= Cardinality(S) + Cardinality(T)
<1>1. /\ IsFiniteSet(S \cup T)
      /\ Cardinality(S \cup T) = Cardinality(S) + Cardinality(T) - Cardinality(S \cap T)
  BY FS_Union, Zenon
<1>2. IsFiniteSet(S \cap T)
  <2>1. S \cap T \in SUBSET S
    OBVIOUS
  <2> QED
    BY <2>1, FS_Subset, Zenon
<1>3. /\ Cardinality(S) \in Nat /\ Cardinality(T) \in Nat
      /\ Cardinality(S \cap T) \in Nat /\ Cardinality(S \cup T) \in Nat
  BY <1>1, <1>2, FS_CardinalityType
<1> QED
  BY <1>1, <1>3

(* At the end of the batch an attempt has made a row or cost a byte.       *)
LEMMA QuietLoses ==
  ASSUME LossInv, ~reboots, ~stray, faults = 0, pc = "attempts", Quiet
  PROVE  Total <= Len(attempts) + losses
<1> DEFINE Parsed == {attempts[k] : k \in DOMAIN attempts}
<1>1. wire = <<>> /\ Upcoming = Total + 1 /\ LossBound(Upcoming)
  BY DEF Quiet, LossInv, Held, Losses, Upcoming, Waiting
<1>2. /\ attempts \in Seq(1 .. Total) /\ Len(attempts) \in Nat
      /\ DOMAIN attempts = 1 .. Len(attempts) /\ losses \in Nat /\ Total \in Nat
  BY SessionAssumption DEF LossInv, Typed, Serial, Scalars
<1>3. IsFiniteSet(Parsed) /\ Cardinality(Parsed) <= Len(attempts) /\ Cardinality(Parsed) \in Nat
  <2>1. attempts \in [1 .. Len(attempts) -> Parsed] /\ \A i \in Parsed : \E k \in 1 .. Len(attempts) : attempts[k] = i
    BY <1>2
  <2>2. attempts \in Surjection(1 .. Len(attempts), Parsed)
    BY <2>1 DEF Surjection
  <2>3. IsFiniteSet(1 .. Len(attempts)) /\ Cardinality(1 .. Len(attempts)) = Len(attempts)
    BY <1>2, CountUpTo
  <2> QED
    BY <2>2, <2>3, FS_Surjection, FS_CardinalityType
<1>4. IsFiniteSet(Lost(Total + 1)) /\ Cardinality(Lost(Total + 1)) \in Nat
  <2>1. Total + 1 \in Nat
    BY <1>2
  <2> QED
    BY <2>1, LostFinite
<1>5. 1 .. Total \subseteq Parsed \cup Lost(Total + 1)
  BY <1>1, <1>2 DEF Lost
<1> HIDE DEF Parsed
<1>6. IsFiniteSet(1 .. Total) /\ Cardinality(1 .. Total) = Total
  BY <1>2, CountUpTo
<1>7. /\ IsFiniteSet(Parsed \cup Lost(Total + 1)) /\ Cardinality(Parsed \cup Lost(Total + 1)) \in Nat
      /\ Cardinality(Parsed \cup Lost(Total + 1)) <= Cardinality(Parsed) + Cardinality(Lost(Total + 1))
  BY <1>3, <1>4, UnionBound, Zenon
<1>8. Total <= Cardinality(Parsed \cup Lost(Total + 1))
  <2>1. Cardinality(1 .. Total) <= Cardinality(Parsed \cup Lost(Total + 1))
    BY <1>5, <1>7, FS_Subset, Zenon
  <2> QED
    BY <1>6, <2>1
<1> QED
  BY <1>1, <1>2, <1>3, <1>4, <1>7, <1>8 DEF LossBound

(* However bytes are lost and lines joined, each lost byte costs a session *)
(* at most one row: without a reboot or a fault it stops with all the rows *)
(* asked for, or no more of the board's attempts are missing than bytes    *)
(* were lost (SerialCapture._run(), parse_attempt_line()).                 *)
RowForEachByte ==
    pc = "stopped" /\ ~reboots /\ ~stray /\ faults = 0
    => Len(result) >= Expected \/ Total <= Len(result) + losses

THEOREM LossesBoundRows == Spec => []RowForEachByte
<1>1. Init => RowForEachByte
  BY DEF Init, RowForEachByte
<1>2. LossInv /\ RowForEachByte /\ [Next]_vars => RowForEachByte'
  <2> SUFFICES ASSUME LossInv, RowForEachByte, [Next]_vars,
                      pc' = "stopped", ~reboots', ~stray', faults' = 0
               PROVE  Len(result') >= Expected \/ Total <= Len(result') + losses'
    BY Zenon DEF RowForEachByte
  <2>1. Typed /\ ~reboots /\ ~stray /\ faults = 0
    BY Lasting DEF LossInv
  <2>2. CASE wait_for_attempts
    <3>1. /\ result' = renumber_session_attempts /\ losses' = losses
          /\ pc = "attempts" /\ (Len(attempts) >= Expected \/ Quiet)
      BY <2>1, <2>2 DEF wait_for_attempts, Fault, env, uart
    <3>2. Len(result') = Len(attempts)
      BY <2>1, <3>1, RenumberType DEF Typed, Serial
    <3>3. Len(attempts) >= Expected \/ Total <= Len(attempts) + losses
      BY <2>1, <3>1, QuietLoses
    <3> QED
      BY <3>1, <3>2, <3>3
  <2>3. CASE ~wait_for_attempts
    <3>1. result' = result /\ pc = "stopped"
      BY <2>1, <2>3, OtherStepsKeepRows
    <3>2. losses \in Nat /\ losses <= losses' /\ losses' \in Nat
      BY <2>1, Lasting DEF Typed, Scalars
    <3>3. Len(result) >= Expected \/ Total <= Len(result) + losses
      BY <2>1, <3>1 DEF RowForEachByte
    <3>4. Len(result) \in Nat /\ Total \in Nat
      BY <2>1, SessionAssumption DEF Typed, Serial
    <3> QED
      BY <3>1, <3>2, <3>3, <3>4
  <2> QED
    BY <2>2, <2>3
<1> QED
  BY <1>1, <1>2, LossAlways, PTL DEF Spec
=============================================================================
