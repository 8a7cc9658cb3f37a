---------------------------- MODULE SensorSession ----------------------------
(***************************************************************************)
(* The occupancy sensor's service (occupancy-sensor-ld2410s).  Three        *)
(* threads: main, which sets the sensor's parameters at startup, calibrates *)
(* it at night and otherwise sleeps; the reader of the serial port, which   *)
(* sends queued commands one at a time and takes in answers and reports;    *)
(* the poller, which puts occupancy on the bus every second.  A command of  *)
(* main's is a session of three frames (session.c): enable the sensor's     *)
(* configuration mode, the command, leave the mode, each waited for with a  *)
(* timeout.  Frames are whole: one that the scanner of transport.c cannot   *)
(* make out is a fault of the line.                                         *)
(***************************************************************************)
EXTENDS Integers, Sequences

CONSTANTS
  Keys, Values,     \* common parameters and what they can be set to
  Wanted,           \* the configuration file, for some of the keys
  Unread,           \* what memset leaves when the parameters cannot be read
  RoomEmpty,        \* VACANT_REPORTS_ROOM_EMPTY_THRESHOLD
  QueueSize,        \* TRANSPORT_QUEUE_SIZE
  LineDepth,        \* bound on frames received and not yet read
  HasGpio, Forced,  \* sensor_report_gpio >= 0; --calibrate
  Faults, MaxFaults,    \* what may go wrong, and how often
  MaxNights, MaxRestarts

\* late           main's deadline passes before the answer: a slow sensor, or
\*                CLOCK_REALTIME set forward
\* answer_lost    an answer's bytes end up in no frame, or in a wrong one
\* answer_torn    only the footer of an answer is made out
\* command_lost   a command does not reach the sensor, other than the one that
\* end_lost       ends the configuration mode
\* refused        the sensor answers with an error
FaultKinds == {"late", "answer_lost", "answer_torn", "command_lost",
               "end_lost", "refused"}

ASSUME SensorAssumption ==
  /\ DOMAIN Wanted \subseteq Keys
  /\ \A k \in DOMAIN Wanted : Wanted[k] \in Values
  /\ Unread \notin Values
  /\ RoomEmpty \in Nat \ {0} /\ QueueSize \in Nat \ {0}
  /\ LineDepth \in Nat \ {0}
  /\ HasGpio \in BOOLEAN /\ Forced \in BOOLEAN
  /\ Faults \subseteq FaultKinds /\ MaxFaults \in Nat
  /\ MaxNights \in Nat /\ MaxRestarts \in Nat

VARIABLES
  main,         \* where the main thread is
  call, step,   \* the session_cmd it is in, and which of its three frames
  waiting,      \* that frame is queued, its answer waited for
  ret,          \* the session's result so far
  left, current,    \* apply_sensor_params: keys to go, values read
  today,        \* the night the calibration in hand is for
  last_cal, force,
  slot,         \* the response slot; NoAnswer while resp_pending is false
  queue,
  awaited,      \* the command the reader waits for (waiting_for_response)
  uart_occupied, vacancy,   \* last_vacancy_count, which stops at RoomEmpty
  tx, rx,       \* frames to the sensor, and from it
  config_mode, params,      \* the sensor's
  room, night, day, quit,   \* somebody is there; it is three o'clock; SIGTERM
  emitted,      \* the last Report on the bus
  calls, executed,      \* history: sessions so far; the last one the sensor did
  unset,        \* history: keys whose set_param failed since startup
  faults, restarts

sessionVars == <<call, step, waiting, ret, slot>>
applyVars == <<left, current, unset>>
nightVars == <<today, last_cal, force>>
readerVars == <<awaited, uart_occupied, vacancy>>
deviceVars == <<config_mode, params, executed>>
worldVars == <<room, night, day>>
boundVars == <<calls, faults, restarts>>
vars == <<main, sessionVars, applyVars, nightVars, queue, readerVars,
          tx, rx, deviceVars, worldVars, quit, emitted, boundVars>>

\* down    no process            loop        main's loop
\* read, write    the two halves of apply_sensor_params
\* joins_poller, joins_reader    ld2410s_free
Places == {"down", "read", "write", "loop", "joins_poller", "joins_reader"}

Words == {"enable", "read", "write", "calibrate", "end"}
NoKey == "no key"
NoCall == [word |-> "none", key |-> NoKey, n |-> 0]
Command(word, key, n) == [word |-> word, key |-> key, n |-> n]

NoAnswer == [word |-> "none", ok |-> FALSE, params |-> <<>>]
Answer(c, ok, data) == [word |-> c.word, ok |-> ok, params |-> data]
ReportFrame(occupied) == [word |-> "report", ok |-> occupied, params |-> <<>>]
TornFrame == [word |-> "torn", ok |-> FALSE, params |-> <<>>]
IsAnswer(f) == f.word \in Words

\* The frame that main is at: its session's command, or one around it.
Frame == IF step = "cmd" THEN call ELSE Command(step, NoKey, call.n)

In(x, s) == \E i \in DOMAIN s : s[i] = x

\* The answer to main's frame is still to come, or has come.
AnswerDue ==
  \/ In(Frame, queue) \/ In(Frame, tx)
  \/ \E i \in DOMAIN rx : rx[i].word = Frame.word
  \/ slot.word # "none"

Fault(kind) ==
  /\ kind \in Faults
  /\ faults < MaxFaults
  /\ faults' = faults + 1

Init ==
  /\ main = "down"
  /\ call = NoCall /\ step = "none" /\ waiting = FALSE /\ ret = FALSE
  /\ left = {} /\ current = [k \in Keys |-> Unread] /\ unset = {}
  /\ today = -1 /\ last_cal = -1 /\ force = FALSE
  /\ slot = NoAnswer /\ queue = <<>>
  /\ awaited = NoCall /\ uart_occupied = FALSE /\ vacancy = 0
  /\ tx = <<>> /\ rx = <<>>
  /\ config_mode \in BOOLEAN /\ params \in [Keys -> Values]
  /\ room \in BOOLEAN /\ night = FALSE /\ day = 0 /\ quit = FALSE
  /\ emitted = FALSE
  /\ calls = 0 /\ executed = 0 /\ faults = 0 /\ restarts = 0

-----------------------------------------------------------------------------
(* session.c, on main's thread. *)

\* session_cmd takes cmd_mutex and goes for its first frame.
BeginsCall(word, key) ==
  /\ call' = Command(word, key, calls + 1)
  /\ calls' = calls + 1
  /\ step' = "enable"
  /\ waiting' = FALSE
  /\ ret' = FALSE
  /\ UNCHANGED slot

\* Mutants of FrameDone: a command that failed, or could not be tried, is not
\* followed by the end of the mode; the session's result is its last frame's.
FrameDoneForgetsEnd(ok) ==
  /\ waiting' = FALSE
  /\ step' = IF ok THEN CASE step = "enable" -> "cmd"
                          [] step = "cmd" -> "end"
                          [] step = "end" -> "returns"
                   ELSE "returns"
  /\ ret' = IF step = "cmd" THEN ok ELSE ret
FrameDoneLast(ok) ==
  /\ waiting' = FALSE
  /\ step' = CASE step = "enable" -> IF ok THEN "cmd" ELSE "end"
               [] step = "cmd" -> "end"
               [] step = "end" -> "returns"
  /\ ret' = ok

\* The mode is left whatever became of the command.
FrameDone(ok) ==
  /\ waiting' = FALSE
  /\ step' = CASE step = "enable" -> IF ok THEN "cmd" ELSE "end"
               [] step = "cmd" -> "end"
               [] step = "end" -> "returns"
  /\ ret' = IF step = "cmd" THEN ok ELSE ret

\* send_and_wait up to its wait.  An answer put into the slot between the reset
\* and the queueing would be taken like one that comes after it.
Queues ==
  /\ step \in {"enable", "cmd", "end"}
  /\ ~waiting
  /\ slot' = NoAnswer
  /\ IF Len(queue) < QueueSize
     THEN /\ queue' = Append(queue, Frame)
          /\ waiting' = TRUE
          /\ UNCHANGED <<step, ret>>
     ELSE FrameDone(FALSE) /\ UNCHANGED queue
  /\ UNCHANGED <<main, call, applyVars, nightVars, readerVars, tx, rx,
                 deviceVars, worldVars, quit, emitted, boundVars>>

\* Any answer ends the wait: that it is to another command is logged, and its
\* status counts all the same.  What READ_COMMON is given must be long enough.
TakesAnswer ==
  /\ waiting
  /\ slot.word # "none"
  /\ slot' = NoAnswer
  /\ FrameDone(slot.ok)
  /\ current' = IF /\ step = "cmd" /\ call.word = "read"
                   /\ slot.ok /\ slot.word = "read"
                THEN slot.params ELSE current
  /\ UNCHANGED <<main, call, left, unset, nightVars, queue, readerVars, tx, rx,
                 deviceVars, worldVars, quit, emitted, boundVars>>

\* Mutant of TimesOut: the wait has no deadline.
TimesOutNever ==
  /\ FALSE
  /\ UNCHANGED vars

\* The deadline runs from the queueing.
TimesOut ==
  /\ waiting
  /\ IF AnswerDue THEN Fault("late") ELSE UNCHANGED faults
  /\ FrameDone(FALSE)
  /\ UNCHANGED <<main, call, slot, applyVars, nightVars, queue, readerVars, tx,
                 rx, deviceVars, worldVars, quit, emitted, calls, restarts>>

Returns ==
  /\ step = "returns"
  /\ step' = "none"
  /\ call' = NoCall
  /\ UNCHANGED <<waiting, ret, slot>>

-----------------------------------------------------------------------------
(* main.c. *)

\* The serial port is opened, which drops what came before, the threads start,
\* and apply_sensor_params reads what the sensor has.  Starting takes longer
\* than an answer.
Starts ==
  /\ main = "down"
  /\ "late" \notin Faults => tx = <<>>
  /\ main' = "read"
  /\ rx' = <<>>
  /\ current' = [k \in Keys |-> Unread]
  /\ left' = DOMAIN Wanted
  /\ unset' = {}
  /\ last_cal' = -1
  /\ force' = Forced
  /\ BeginsCall("read", NoKey)
  /\ UNCHANGED <<today, queue, readerVars, tx, deviceVars, worldVars, quit,
                 emitted, faults, restarts>>

\* Mutant of ReadReturns: without the values it has, nothing is written.
ReadReturnsOrGivesUp ==
  /\ main = "read"
  /\ Returns
  /\ main' = "write"
  /\ left' = IF ret THEN left ELSE {}
  /\ UNCHANGED <<current, unset, nightVars, queue, readerVars, tx, rx,
                 deviceVars, worldVars, quit, emitted, boundVars>>

ReadReturns ==
  /\ main = "read"
  /\ Returns
  /\ main' = "write"
  /\ UNCHANGED <<applyVars, nightVars, queue, readerVars, tx, rx, deviceVars,
                 worldVars, quit, emitted, boundVars>>

\* The loop over the keys: one that has the value wanted is left alone.
VisitsKey ==
  /\ main = "write"
  /\ step = "none"
  /\ \E k \in left :
       /\ left' = left \ {k}
       /\ IF Wanted[k] = current[k] THEN UNCHANGED <<sessionVars, calls>>
                                    ELSE BeginsCall("write", k)
  /\ UNCHANGED <<main, current, unset, nightVars, queue, readerVars, tx, rx,
                 deviceVars, worldVars, quit, emitted, faults, restarts>>

WriteReturns ==
  /\ main = "write"
  /\ Returns
  /\ unset' = IF ret THEN unset ELSE unset \cup {call.key}
  /\ UNCHANGED <<main, left, current, nightVars, queue, readerVars, tx, rx,
                 deviceVars, worldVars, quit, emitted, boundVars>>

\* From here on SIGTERM is handled.
EntersLoop ==
  /\ main = "write"
  /\ step = "none"
  /\ left = {}
  /\ main' = "loop"
  /\ UNCHANGED <<sessionVars, applyVars, nightVars, queue, readerVars, tx, rx,
                 deviceVars, worldVars, quit, emitted, boundVars>>

CalibrationDue == (night /\ day # last_cal) \/ force

\* One turn of the loop that gets past ld2410s_start_calibration's check.
Calibrates ==
  /\ main = "loop" /\ step = "none"
  /\ ~quit
  /\ CalibrationDue
  /\ vacancy >= RoomEmpty
  /\ today' = day
  /\ BeginsCall("calibrate", NoKey)
  /\ UNCHANGED <<main, applyVars, last_cal, force, queue, readerVars, tx, rx,
                 deviceVars, worldVars, quit, emitted, faults, restarts>>

CalibrateReturns ==
  /\ main = "loop"
  /\ Returns
  /\ last_cal' = IF ret THEN today ELSE last_cal
  /\ force' = (force /\ ~ret)
  /\ UNCHANGED <<main, applyVars, today, queue, readerVars, tx, rx, deviceVars,
                 worldVars, quit, emitted, boundVars>>

\* What is left of a process: what it wrote to the line.
Gone ==
  /\ main' = "down"
  /\ call' = NoCall /\ step' = "none" /\ waiting' = FALSE /\ ret' = FALSE
  /\ slot' = NoAnswer /\ queue' = <<>>
  /\ awaited' = NoCall /\ uart_occupied' = FALSE /\ vacancy' = 0
  /\ quit' = FALSE
  /\ UNCHANGED <<applyVars, nightVars, tx, rx, deviceVars, worldVars, emitted,
                 calls, faults>>

\* SIGTERM in the loop.  Before it, with no handler installed, it kills, as
\* anything else may at any time.
Terminates ==
  /\ main = "loop"
  /\ ~quit
  /\ restarts < MaxRestarts
  /\ restarts' = restarts + 1
  /\ quit' = TRUE
  /\ UNCHANGED <<main, sessionVars, applyVars, nightVars, queue, readerVars, tx,
                 rx, deviceVars, worldVars, emitted, calls, faults>>

Dies ==
  /\ main # "down"
  /\ restarts < MaxRestarts
  /\ restarts' = restarts + 1
  /\ Gone

\* ld2410s_free: the poller's thread is joined, then the reader's.
LeavesLoop ==
  /\ main = "loop" /\ step = "none"
  /\ quit
  /\ main' = "joins_poller"
  /\ UNCHANGED <<sessionVars, applyVars, nightVars, queue, readerVars, tx, rx,
                 deviceVars, worldVars, quit, emitted, boundVars>>

JoinsPoller ==
  /\ main = "joins_poller"
  /\ main' = "joins_reader"
  /\ UNCHANGED <<sessionVars, applyVars, nightVars, queue, readerVars, tx, rx,
                 deviceVars, worldVars, quit, emitted, boundVars>>

JoinsReader ==
  /\ main = "joins_reader"
  /\ Gone
  /\ UNCHANGED restarts

-----------------------------------------------------------------------------
(* transport.c's reader thread, with the callbacks it makes. *)

ReaderRuns == main # "down"

\* Mutant of GivesUpAwaiting: an answer that does not come is waited for.
GivesUpNever ==
  /\ FALSE
  /\ UNCHANGED vars

\* The reader's deadline runs from the sending, so main's own passes first.
GivesUpAwaiting ==
  /\ ReaderRuns
  /\ awaited # NoCall
  /\ waiting /\ awaited = Frame => "late" \in Faults
  /\ awaited' = NoCall
  /\ UNCHANGED <<main, sessionVars, applyVars, nightVars, queue, uart_occupied,
                 vacancy, tx, rx, deviceVars, worldVars, quit, emitted,
                 boundVars>>

\* send_cmd's error is not looked at: a command not written is one lost.
SendsNext ==
  /\ ReaderRuns
  /\ awaited = NoCall
  /\ queue # <<>>
  /\ awaited' = Head(queue)
  /\ queue' = Tail(queue)
  /\ tx' = Append(tx, Head(queue))
  /\ UNCHANGED <<main, sessionVars, applyVars, nightVars, uart_occupied,
                 vacancy, rx, deviceVars, worldVars, quit, emitted, boundVars>>

\* parse_buffer finds an answer: it goes into the slot over what is there.
ReadsAnswer ==
  /\ ReaderRuns
  /\ rx # <<>> /\ IsAnswer(Head(rx))
  /\ rx' = Tail(rx)
  /\ slot' = Head(rx)
  /\ awaited' = NoCall
  /\ UNCHANGED <<main, call, step, waiting, ret, applyVars, nightVars, queue,
                 uart_occupied, vacancy, tx, deviceVars, worldVars, quit,
                 emitted, boundVars>>

\* A footer without a header counts as an answer, of nothing.
ReadsTorn ==
  /\ ReaderRuns
  /\ rx # <<>> /\ Head(rx) = TornFrame
  /\ rx' = Tail(rx)
  /\ awaited' = NoCall
  /\ UNCHANGED <<main, sessionVars, applyVars, nightVars, queue, uart_occupied,
                 vacancy, tx, deviceVars, worldVars, quit, emitted, boundVars>>

\* decode_report, with on_uart_report in it.
Decode(occupied) ==
  /\ uart_occupied' = occupied
  /\ vacancy' = IF occupied THEN 0
                ELSE IF vacancy < RoomEmpty THEN vacancy + 1 ELSE vacancy

ReadsReport ==
  /\ ReaderRuns
  /\ rx # <<>> /\ Head(rx).word = "report"
  /\ rx' = Tail(rx)
  /\ Decode(Head(rx).ok)
  /\ UNCHANGED <<main, sessionVars, applyVars, nightVars, queue, awaited, tx,
                 deviceVars, worldVars, quit, emitted, boundVars>>

\* poller_thread, once a second: either interface makes it occupied.
Polls ==
  /\ main \notin {"down", "joins_reader"}
  /\ emitted' = ((HasGpio /\ room) \/ uart_occupied)
  /\ UNCHANGED <<main, sessionVars, applyVars, nightVars, queue, readerVars, tx,
                 rx, deviceVars, worldVars, quit, boundVars>>

-----------------------------------------------------------------------------
(* The sensor and the line. *)

SensorAnswers(ok) ==
  /\ tx' = Tail(tx)
  /\ rx' = Append(rx, Answer(Head(tx), ok, IF ok /\ Head(tx).word = "read"
                                           THEN params ELSE <<>>))

\* Parameters are read and written, and calibration started, in configuration
\* mode only.
Obeys ==
  /\ tx # <<>>
  /\ LET c == Head(tx) IN
       \/ /\ c.word \in {"enable", "end"}
          /\ SensorAnswers(TRUE)
          /\ config_mode' = (c.word = "enable")
          /\ UNCHANGED <<params, executed>>
       \/ /\ c.word \notin {"enable", "end"}
          /\ SensorAnswers(config_mode)
          /\ params' = IF c.word = "write" /\ config_mode
                       THEN [params EXCEPT ![c.key] = Wanted[c.key]] ELSE params
          /\ executed' = IF config_mode THEN c.n ELSE executed
          /\ UNCHANGED config_mode
  /\ UNCHANGED <<main, sessionVars, applyVars, nightVars, queue, readerVars,
                 worldVars, quit, emitted, boundVars>>

Refuses ==
  /\ tx # <<>> /\ Head(tx).word # "end"
  /\ Fault("refused")
  /\ SensorAnswers(FALSE)
  /\ UNCHANGED <<main, sessionVars, applyVars, nightVars, queue, readerVars,
                 deviceVars, worldVars, quit, emitted, calls, restarts>>

\* In configuration mode reports may stop.
SensorReports ==
  /\ Len(rx) < LineDepth
  /\ rx' = Append(rx, ReportFrame(room))
  /\ UNCHANGED <<main, sessionVars, applyVars, nightVars, queue, readerVars, tx,
                 deviceVars, worldVars, quit, emitted, boundVars>>

ReportsAgain == ~config_mode /\ SensorReports

LosesCommand ==
  /\ tx # <<>>
  /\ Fault(IF Head(tx).word = "end" THEN "end_lost" ELSE "command_lost")
  /\ tx' = Tail(tx)
  /\ UNCHANGED <<main, sessionVars, applyVars, nightVars, queue, readerVars, rx,
                 deviceVars, worldVars, quit, emitted, calls, restarts>>

\* Bytes lost or buffer cleared in the middle of an answer, or five bytes of
\* it that look like a report.
LosesAnswer ==
  /\ rx # <<>> /\ IsAnswer(Head(rx))
  /\ \/ /\ Fault("answer_lost")
        /\ \/ rx' = Tail(rx)
           \/ \E o \in BOOLEAN : rx' = <<ReportFrame(o)>> \o Tail(rx)
     \/ /\ Fault("answer_torn")
        /\ rx' = <<TornFrame>> \o Tail(rx)
  /\ UNCHANGED <<main, sessionVars, applyVars, nightVars, queue, readerVars, tx,
                 deviceVars, worldVars, quit, emitted, calls, restarts>>

RoomChanges ==
  /\ room' = ~room
  /\ UNCHANGED <<main, sessionVars, applyVars, nightVars, queue, readerVars, tx,
                 rx, deviceVars, night, day, quit, emitted, boundVars>>

\* The hour from three to four comes and goes.
NightPasses ==
  /\ \/ ~night /\ day < MaxNights /\ night' = TRUE /\ UNCHANGED day
     \/ night /\ night' = FALSE /\ day' = day + 1
  /\ UNCHANGED <<main, sessionVars, applyVars, nightVars, queue, readerVars, tx,
                 rx, deviceVars, room, quit, emitted, boundVars>>

MainStep ==
  \/ Starts \/ Queues \/ TakesAnswer
  \/ ReadReturns \/ VisitsKey \/ WriteReturns \/ EntersLoop
  \/ Calibrates \/ CalibrateReturns
  \/ LeavesLoop \/ JoinsPoller \/ JoinsReader

ReadsFrame == ReadsAnswer \/ ReadsTorn \/ ReadsReport

Next ==
  \/ MainStep \/ TimesOut
  \/ SendsNext \/ ReadsFrame \/ GivesUpAwaiting
  \/ Polls
  \/ Terminates \/ Dies
  \/ Obeys \/ Refuses \/ SensorReports \/ LosesCommand \/ LosesAnswer
  \/ RoomChanges \/ NightPasses

Spec == Init /\ [][Next]_vars

\* Every thread is scheduled and every deadline passes; the sensor obeys, and
\* reports again and again when it is not being configured.  A process that
\* ended is started again.
FairSpec ==
  /\ Spec
  /\ WF_vars(MainStep) /\ WF_vars(TimesOut)
  /\ WF_vars(SendsNext) /\ WF_vars(ReadsFrame) /\ WF_vars(GivesUpAwaiting)
  /\ WF_vars(Polls)
  /\ WF_vars(Obeys) /\ SF_vars(ReportsAgain)

-----------------------------------------------------------------------------
(* Properties. *)

Commands == [word : Words \cup {"none"}, key : Keys \cup {NoKey}, n : Nat]

\* Every variable keeps its type.
TypeOK ==
  /\ main \in Places
  /\ call \in Commands
  /\ step \in {"none", "enable", "cmd", "end", "returns"}
  /\ waiting \in BOOLEAN /\ ret \in BOOLEAN
  /\ left \subseteq Keys /\ unset \subseteq Keys
  /\ current \in [Keys -> Values \cup {Unread}]
  /\ last_cal \in -1 .. MaxNights /\ today \in -1 .. MaxNights
  /\ force \in BOOLEAN
  /\ slot.word \in Words \cup {"none"}
  /\ Len(queue) <= QueueSize
  /\ awaited \in Commands
  /\ uart_occupied \in BOOLEAN /\ vacancy \in 0 .. RoomEmpty
  /\ config_mode \in BOOLEAN /\ params \in [Keys -> Values]
  /\ room \in BOOLEAN /\ night \in BOOLEAN /\ day \in 0 .. MaxNights
  /\ quit \in BOOLEAN /\ emitted \in BOOLEAN
  /\ faults \in 0 .. MaxFaults /\ restarts \in 0 .. MaxRestarts

\* A session that returns success was acknowledged by the sensor, which did what
\* it was told (session.h: "wait for its ack").
AckMeansDone == step \in {"end", "returns"} /\ ret => executed = call.n

\* Sessions are told apart whatever became of the ones before: no variable leaves
\* its type, and success is only returned for what was done.
SessionInv == TypeOK /\ AckMeansDone

\* What startup did not report as failed is what the sensor has from then on,
\* also when its parameters could not be read before.
ParamsApplied ==
  main = "loop" =>
    \A k \in DOMAIN Wanted \ unset : params[k] = Wanted[k]

\* Between sessions, once the line is quiet, the sensor is not left in
\* configuration mode, whatever became of the commands.
LeavesConfigMode ==
  main \in {"write", "loop"} /\ step = "none" /\ queue = <<>> /\ tx = <<>>
    => ~config_mode

\* A room that stays as it is is reported as it is, in the end, while the
\* service runs: no answer that fails to arrive, and no death in the middle of
\* a session, silences the sensor or stops the reader.
RoomReported ==
  \A o \in BOOLEAN :
    <>[](room = o /\ main \notin {"down", "joins_poller", "joins_reader"})
      => <>[](emitted = o)

\* SIGTERM ends the process, also in the middle of a calibration session.
QuitEnds == quit ~> main = "down"

=============================================================================
