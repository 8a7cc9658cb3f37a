------------------------- MODULE SensorSessionProofs -------------------------
(***************************************************************************)
(* Proofs about the occupancy sensor's service (SensorSession), for any      *)
(* parameters and wanted values, any number of faults, nights and restarts,  *)
(* as long as no answer comes after main's deadline.                         *)
(***************************************************************************)
EXTENDS SensorSession, SequenceTheorems, TLAPS

-----------------------------------------------------------------------------
(* The inductive invariant. *)

Params == [Keys -> Values] \cup {<<>>}
RxFrame == [word : Words \cup {"report", "torn"}, ok : BOOLEAN, params : Params]
SlotFrame == [word : Words \cup {"none"}, ok : BOOLEAN, params : Params]

\* The rest of the types: one frame at most is on its way to the sensor, and a
\* parameter is only written when the configuration file has it.
FramesOK ==
  /\ rx \in Seq(RxFrame) /\ slot \in SlotFrame
  /\ calls \in Nat /\ executed \in Nat
  /\ night => day < MaxNights
  /\ tx # <<>> => /\ tx = <<Head(tx)>> /\ Head(tx) \in Commands
                  /\ Head(tx).word \in Words
                  /\ Head(tx).word = "write" => Head(tx).key \in DOMAIN Wanted

\* Each place of main has its session.
PlaceOK ==
  /\ main \in {"down", "joins_poller", "joins_reader"} => step = "none"
  /\ main = "down" => queue = <<>> /\ slot.word = "none"
  /\ main = "read" => step # "none" /\ call.word = "read" /\ left = DOMAIN Wanted
  /\ main = "write" /\ step # "none" =>
       call.word = "write" /\ call.key \in DOMAIN Wanted \ left
  /\ main = "loop" => left = {} /\ (step # "none" => call.word = "calibrate")
  /\ waiting => step \in {"enable", "cmd", "end"}
  /\ step = "enable" => ~ret
  /\ left \subseteq DOMAIN Wanted

Answers(s) == {i \in DOMAIN s : IsAnswer(s[i])}

QuietLine == queue = <<>> /\ tx = <<>> /\ Answers(rx) = {} /\ slot.word = "none"

\* main's frame, and no other, is queued, on the line, answered or in the slot,
\* and only while main waits.
LineOK ==
  main # "down" =>
    /\ queue \in {<<>>, <<Frame>>} /\ tx \in {<<>>, <<Frame>>}
    /\ queue # <<>> => tx = <<>> /\ Answers(rx) = {} /\ slot.word = "none"
    /\ tx # <<>> => Answers(rx) = {} /\ slot.word = "none"
    /\ Answers(rx) # {} => slot.word = "none"
    /\ \A i, j \in Answers(rx) : i = j
    /\ \A i \in Answers(rx) : rx[i].word = Frame.word
    /\ slot.word # "none" => slot.word = Frame.word
    /\ ~waiting => QuietLine

AsWanted(k) == params[k] = Wanted[k]

\* What the session is for was done.
Done == executed = call.n /\ (call.word = "write" => AsWanted(call.key))

\* An answer tells of what was done, and what it read is not outdated.
Truthful(a) ==
  /\ step = "cmd" /\ a.ok => Done
  /\ a.ok /\ a.word = "read" =>
       /\ a.params \in [Keys -> Values]
       /\ \A k \in DOMAIN Wanted : a.params[k] = Wanted[k] => AsWanted(k)

AcksOK ==
  /\ main # "down" => \A i \in Answers(rx) : Truthful(rx[i])
  /\ slot.word # "none" => Truthful(slot)
  /\ step \in {"end", "returns"} /\ ret => Done

\* A key that startup is past is as wanted unless its session failed; the one in
\* hand is not judged yet.
ParamsOK ==
  /\ \A k \in DOMAIN Wanted : current[k] = Wanted[k] => AsWanted(k)
  /\ main \in {"write", "loop"} =>
       \A k \in DOMAIN Wanted \ (unset \cup left) :
         AsWanted(k) \/ (step # "none" /\ call.word = "write" /\ k = call.key)

SessionOK == TypeOK /\ FramesOK /\ PlaceOK /\ LineOK /\ AcksOK /\ ParamsOK

\* The sensor is in configuration mode only while the frame that ends it is still
\* to reach it.
ModeOK ==
  config_mode /\ main # "down" =>
    /\ step # "returns"
    /\ step = "none" => main \notin {"write", "loop"}
    /\ step = "end" /\ waiting => queue # <<>> \/ tx # <<>>

-----------------------------------------------------------------------------
(* Frames received. *)

\* The answers in t are among those in s.
NoneNew(t, s) ==
  /\ \A i \in Answers(t) : \E j \in Answers(s) : t[i] = s[j]
  /\ (\A i, j \in Answers(s) : i = j) => \A i, j \in Answers(t) : i = j

LEMMA NoneNewSame == \A s : NoneNew(s, s)
  BY DEF NoneNew

\* Reading a frame, and the last answer there was.
LEMMA ReadsFirst ==
  ASSUME NEW s \in Seq(RxFrame), s # <<>>
  PROVE  /\ Head(s) \in RxFrame /\ Tail(s) \in Seq(RxFrame)
         /\ NoneNew(Tail(s), s)
         /\ IsAnswer(Head(s)) =>
              /\ 1 \in Answers(s) /\ Head(s) = s[1]
              /\ (\A i, j \in Answers(s) : i = j) => Answers(Tail(s)) = {}
<1> DEFINE t == Tail(s)
<1>1. /\ Head(s) \in RxFrame /\ t \in Seq(RxFrame)
      /\ Len(s) \in Nat /\ Len(s) # 0 /\ Len(t) = Len(s) - 1
      /\ DOMAIN s = 1 .. Len(s) /\ DOMAIN t = 1 .. Len(s) - 1
      /\ \A i \in 1 .. Len(t) : t[i] = s[i + 1]
      /\ Head(s) = s[1]
  BY HeadTailProperties, LenProperties, EmptySeq
<1>2. \A i \in DOMAIN t : i + 1 \in DOMAIN s /\ t[i] = s[i + 1] /\ i \in Int
  BY <1>1
<1> HIDE DEF t
<1>3. \A i \in Answers(t) : i + 1 \in Answers(s) /\ t[i] = s[i + 1] /\ i \in Nat /\ i + 1 # 1
  BY <1>1, <1>2 DEF Answers
<1>4. NoneNew(t, s)
  <2>1. ASSUME \A i, j \in Answers(s) : i = j, NEW i \in Answers(t), NEW j \in Answers(t)
        PROVE  i = j
    <3>1. i + 1 = j + 1 /\ i \in Nat /\ j \in Nat
      BY <1>3, <2>1
    <3>2. QED
      BY <3>1
  <2>2. QED
    BY <1>3, <2>1 DEF NoneNew
<1>5. IsAnswer(Head(s)) => 1 \in Answers(s)
  BY <1>1 DEF Answers
<1>6. ASSUME IsAnswer(Head(s)), \A i, j \in Answers(s) : i = j PROVE Answers(t) = {}
  BY <1>3, <1>5, <1>6
<1>7. QED
  BY <1>1, <1>4, <1>5, <1>6 DEF t

\* Receiving a frame.
LEMMA ReceivesLast ==
  ASSUME NEW s \in Seq(RxFrame), NEW e \in RxFrame
  PROVE  /\ Append(s, e) \in Seq(RxFrame)
         /\ ~IsAnswer(e) => NoneNew(Append(s, e), s)
         /\ Answers(s) = {} =>
              /\ \A i \in Answers(Append(s, e)) : Append(s, e)[i] = e
              /\ \A i, j \in Answers(Append(s, e)) : i = j
<1> DEFINE t == Append(s, e)
<1>1. /\ t \in Seq(RxFrame) /\ Len(s) \in Nat
      /\ DOMAIN s = 1 .. Len(s) /\ DOMAIN t = 1 .. Len(s) + 1
      /\ \A i \in 1 .. Len(s) : t[i] = s[i]
      /\ t[Len(s) + 1] = e
  BY AppendProperties, LenProperties
<1>2. DOMAIN t = DOMAIN s \cup {Len(s) + 1} /\ \A i \in DOMAIN s : t[i] = s[i]
  BY <1>1
<1> HIDE DEF t
<1>3. Answers(t) \subseteq Answers(s) \cup {Len(s) + 1}
  BY <1>2 DEF Answers
<1>4. ~IsAnswer(e) => Answers(t) = Answers(s)
  BY <1>1, <1>2 DEF Answers
<1>5. \A i \in Answers(s) : t[i] = s[i]
  BY <1>2 DEF Answers
<1>6. ~IsAnswer(e) => NoneNew(t, s)
  BY <1>4, <1>5 DEF NoneNew
<1>7. QED
  BY <1>1, <1>3, <1>6 DEF t

\* A frame that was an answer and is none.
LEMMA SpoilsFirst ==
  ASSUME NEW s \in Seq(RxFrame), s # <<>>, NEW e \in RxFrame, ~IsAnswer(e)
  PROVE  /\ <<e>> \o Tail(s) \in Seq(RxFrame)
         /\ NoneNew(<<e>> \o Tail(s), s)
<1> DEFINE t == <<e>> \o Tail(s)
<1>1. /\ Tail(s) \in Seq(RxFrame) /\ <<e>> \in Seq(RxFrame)
      /\ Len(s) \in Nat /\ Len(s) # 0 /\ Len(Tail(s)) = Len(s) - 1
      /\ DOMAIN s = 1 .. Len(s)
      /\ \A i \in 1 .. Len(Tail(s)) : Tail(s)[i] = s[i + 1]
      /\ Len(<<e>>) = 1 /\ <<e>>[1] = e
  BY HeadTailProperties, LenProperties, EmptySeq
<1>2. /\ t \in Seq(RxFrame) /\ Len(t) = 1 + (Len(s) - 1)
      /\ \A i \in 1 .. 1 + (Len(s) - 1) :
           t[i] = IF i <= 1 THEN <<e>>[i] ELSE Tail(s)[i - 1]
  BY <1>1, ConcatProperties
<1>3. DOMAIN t = DOMAIN s
  BY <1>1, <1>2, LenProperties
<1> HIDE DEF t
<1>4. ASSUME NEW i \in DOMAIN s, i # 1 PROVE t[i] = s[i]
  <2>1. i \in 1 .. 1 + (Len(s) - 1) /\ ~(i <= 1) /\ i - 1 \in 1 .. Len(Tail(s)) /\ i - 1 + 1 = i
    BY <1>1, <1>4
  <2>2. t[i] = Tail(s)[i - 1] /\ Tail(s)[i - 1] = s[i - 1 + 1]
    BY <1>1, <1>2, <2>1
  <2>3. QED
    BY <2>1, <2>2
<1>5. t[1] = e
  BY <1>1, <1>2
<1>6. \A i \in Answers(t) : i \in Answers(s) /\ t[i] = s[i]
  BY <1>3, <1>4, <1>5 DEF Answers
<1>7. QED
  BY <1>2, <1>6 DEF NoneNew, t

-----------------------------------------------------------------------------
(* Types. *)

\* The frame main waits for.
LEMMA FrameFacts ==
  ASSUME TypeOK, PlaceOK
  PROVE  /\ step \in {"enable", "cmd", "end"} =>
              /\ Frame \in Commands /\ Frame.word \in Words
              /\ main \in {"read", "write", "loop"}
         /\ Frame.word = IF step = "cmd" THEN call.word ELSE step
         /\ step = "cmd" => Frame = call /\ call.word \in {"read", "write", "calibrate"}
         /\ Frame.word = "write" => Frame.key \in DOMAIN Wanted
         /\ waiting => step \in {"enable", "cmd", "end"}
<1>1. /\ call \in Commands /\ step \in {"none", "enable", "cmd", "end", "returns"}
      /\ main \in Places
  BY DEF TypeOK
<1>2. /\ step \in {"enable", "cmd", "end"} => main \in {"read", "write", "loop"}
      /\ waiting => step \in {"enable", "cmd", "end"}
  BY <1>1 DEF PlaceOK, Places
<1>3. CASE step = "cmd"
  <2>1. /\ call.word \in {"read", "write", "calibrate"}
        /\ call.word = "write" => call.key \in DOMAIN Wanted
    BY <1>2, <1>3 DEF PlaceOK
  <2>2. Frame = call
    BY <1>3 DEF Frame
  <2>3. QED
    BY <1>1, <1>2, <1>3, <2>1, <2>2 DEF Words
<1>4. CASE step # "cmd"
  <2>1. Frame = [word |-> step, key |-> NoKey, n |-> call.n]
    BY <1>4 DEF Frame, Command
  <2>2. step \in {"enable", "end"} => Frame \in Commands
    BY <1>1, <2>1 DEF Commands, Words
  <2>3. Frame.word = step
    BY <2>1
  <2>4. QED
    BY <1>1, <1>2, <1>4, <2>2, <2>3 DEF Words
<1>5. QED
  BY <1>3, <1>4

\* Beginning a session and ending a frame.
LEMMA BeginTypes ==
  ASSUME TypeOK, FramesOK, NEW w \in {"read", "write", "calibrate"},
         NEW k \in Keys \cup {NoKey}, BeginsCall(w, k)
  PROVE  /\ call' \in Commands /\ call'.word = w /\ call'.key = k
         /\ step' = "enable" /\ ~waiting' /\ waiting' \in BOOLEAN /\ ~ret' /\ ret' \in BOOLEAN
         /\ calls' \in Nat /\ slot' = slot
<1>1. calls \in Nat
  BY DEF FramesOK
<1>2. call' = [word |-> w, key |-> k, n |-> calls + 1] /\ calls' = calls + 1
  BY DEF BeginsCall, Command
<1>3. call' \in Commands
  BY <1>1, <1>2 DEF Commands, Words
<1>4. call'.word = w /\ call'.key = k /\ calls' \in Nat
  BY <1>1, <1>2
<1>5. step' = "enable" /\ waiting' = FALSE /\ ret' = FALSE /\ slot' = slot
  BY DEF BeginsCall
<1>6. QED
  BY <1>3, <1>4, <1>5

LEMMA DoneTypes ==
  ASSUME TypeOK, NEW ok \in BOOLEAN, FrameDone(ok), step \in {"enable", "cmd", "end"}
  PROVE  /\ ~waiting' /\ waiting' \in BOOLEAN /\ ret' \in BOOLEAN
         /\ step' = IF step = "enable" /\ ok THEN "cmd"
                    ELSE IF step = "end" THEN "returns" ELSE "end"
         /\ ret' = IF step = "cmd" THEN ok ELSE ret
  BY DEF FrameDone, TypeOK

LEMMA GoneTypes ==
  ASSUME Gone
  PROVE  /\ main' = "down" /\ step' = "none" /\ ~waiting' /\ waiting' \in BOOLEAN
         /\ ~ret' /\ ret' \in BOOLEAN
         /\ call' \in Commands /\ awaited' \in Commands /\ slot' \in SlotFrame
         /\ slot'.word = "none" /\ queue' = <<>> /\ Len(queue') = 0
         /\ uart_occupied' \in BOOLEAN /\ vacancy' = 0 /\ quit' \in BOOLEAN
         /\ UNCHANGED <<applyVars, nightVars, tx, rx, deviceVars, worldVars, emitted,
                        calls, faults>>
<1>1. NoCall \in Commands
  BY DEF NoCall, Commands
<1>2. NoAnswer \in SlotFrame /\ NoAnswer.word = "none"
  BY DEF NoAnswer, SlotFrame, Params
<1>3. QED
  BY <1>1, <1>2 DEF Gone

\* The sensor answers with what it has.
LEMMA AnswerFacts ==
  ASSUME TypeOK, FramesOK, tx # <<>>, NEW ok \in BOOLEAN, SensorAnswers(ok)
  PROVE  \E a \in RxFrame :
           /\ rx' = Append(rx, a) /\ IsAnswer(a)
           /\ a.word = Head(tx).word /\ a.ok = ok
           /\ a.ok /\ a.word = "read" => a.params = params
           /\ rx' \in Seq(RxFrame) /\ tx' = <<>>
<1> DEFINE data == IF ok /\ Head(tx).word = "read" THEN params ELSE <<>>
           a == [word |-> Head(tx).word, ok |-> ok, params |-> data]
<1>1. tx' = Tail(tx) /\ rx' = Append(rx, a)
  BY DEF SensorAnswers, Answer
<1>2. Head(tx).word \in Words /\ tx = <<Head(tx)>> /\ rx \in Seq(RxFrame)
  BY DEF FramesOK
<1>3. data \in Params
  BY DEF Params, TypeOK
<1>4. a.ok /\ a.word = "read" => a.params = params
  OBVIOUS
<1> HIDE DEF data
<1>5. a \in RxFrame
  BY <1>2, <1>3 DEF RxFrame
<1>6. tx' = <<>>
  <2>1. Tail(<<Head(tx)>>) = <<>>
    OBVIOUS
  <2>2. QED
    BY <1>1, <1>2, <2>1
<1>7. IsAnswer(a) /\ a.word = Head(tx).word /\ a.ok = ok
  BY <1>2 DEF IsAnswer
<1> HIDE DEF a
<1>8. rx' \in Seq(RxFrame)
  BY <1>1, <1>2, <1>5, AppendProperties
<1>9. QED
  BY <1>1, <1>4, <1>5, <1>6, <1>7, <1>8

LEMMA FaultTypes == TypeOK => \A kind : Fault(kind) => faults' \in 0 .. MaxFaults
  BY SensorAssumption DEF TypeOK, Fault

\* What the line loses or adds leaves no new answer.
LEMMA LineFaults ==
  ASSUME TypeOK, FramesOK
  PROVE  /\ SensorReports \/ LosesAnswer => rx' \in Seq(RxFrame) /\ NoneNew(rx', rx)
         /\ LosesCommand => tx' = <<>>
<1>1. /\ \A o \in BOOLEAN : ReportFrame(o) \in RxFrame /\ ~IsAnswer(ReportFrame(o))
      /\ TornFrame \in RxFrame /\ ~IsAnswer(TornFrame)
  BY DEF ReportFrame, TornFrame, RxFrame, Params, IsAnswer, Words
<1>2. rx \in Seq(RxFrame) /\ room \in BOOLEAN
  BY DEF TypeOK, FramesOK
<1>3. SensorReports => rx' \in Seq(RxFrame) /\ NoneNew(rx', rx)
  BY <1>1, <1>2, ReceivesLast DEF SensorReports
<1>4. LosesAnswer => rx' \in Seq(RxFrame) /\ NoneNew(rx', rx)
  BY <1>1, <1>2, ReadsFirst, SpoilsFirst DEF LosesAnswer
<1>5. ASSUME LosesCommand PROVE tx' = <<>>
  <2>1. tx' = Tail(tx) /\ tx = <<Head(tx)>>
    BY <1>5 DEF LosesCommand, FramesOK
  <2>2. Tail(<<Head(tx)>>) = <<>>
    OBVIOUS
  <2>3. QED
    BY <2>1, <2>2
<1>6. QED
  BY <1>3, <1>4, <1>5

LEMMA InitTypes == Init => TypeOK /\ FramesOK
<1> SUFFICES ASSUME Init PROVE TypeOK /\ FramesOK
  OBVIOUS
<1>1. NoCall \in Commands /\ NoAnswer \in SlotFrame /\ NoAnswer.word = "none"
  BY DEF NoCall, Commands, NoAnswer, SlotFrame, Params
<1>2. current \in [Keys -> Values \cup {Unread}] /\ queue = <<>> /\ Len(queue) = 0
  BY DEF Init
<1>3. TypeOK
  <2>1. /\ left \subseteq Keys /\ unset \subseteq Keys
        /\ last_cal \in -1 .. MaxNights /\ today \in -1 .. MaxNights
        /\ vacancy \in 0 .. RoomEmpty /\ day \in 0 .. MaxNights
        /\ faults \in 0 .. MaxFaults /\ restarts \in 0 .. MaxRestarts
        /\ Len(queue) <= QueueSize
    BY <1>2, SensorAssumption DEF Init
  <2>2. QED
    BY <1>1, <1>2, <2>1 DEF Init, TypeOK, Places
<1>4. rx \in Seq(RxFrame)
  BY EmptySeq DEF Init
<1>5. QED
  BY <1>1, <1>3, <1>4 DEF Init, FramesOK

LEMMA NextTypes == SessionOK /\ [Next]_vars => TypeOK' /\ FramesOK'
<1> SUFFICES ASSUME TypeOK, FramesOK, PlaceOK, LineOK, AcksOK, [Next]_vars
             PROVE  TypeOK' /\ FramesOK'
  BY DEF SessionOK
<1> USE SensorAssumption DEF sessionVars, applyVars, nightVars, readerVars, deviceVars,
                             worldVars, boundVars
<1>1. CASE UNCHANGED vars
  BY <1>1 DEF TypeOK, FramesOK, vars
<1>2. CASE Starts
  <2>1. /\ NoKey \in Keys \cup {NoKey} /\ BeginsCall("read", NoKey) /\ <<>> \in Seq(RxFrame)
    BY <1>2 DEF Starts
  <2>2. current' \in [Keys -> Values \cup {Unread}]
    BY <1>2 DEF Starts
  <2>3. TypeOK'
    BY <1>2, <2>1, <2>2, BeginTypes DEF TypeOK, Starts, Places
  <2>4. QED
    BY <1>2, <2>1, <2>3, BeginTypes DEF FramesOK, Starts
<1>3. CASE Queues
  <2>1. step \in {"enable", "cmd", "end"} /\ slot' = NoAnswer
    BY <1>3 DEF Queues
  <2>2. NoAnswer \in SlotFrame /\ NoAnswer.word = "none"
    BY DEF NoAnswer, SlotFrame, Params
  <2>3. main # "down" /\ ~waiting
    BY <1>3, <2>1, FrameFacts DEF Queues
  <2>4. queue = <<>> /\ Len(queue) < QueueSize
    <3>1. queue = <<>>
      BY <2>3 DEF LineOK, QuietLine
    <3>2. QED
      BY <3>1
  <2>5. queue' = <<Frame>> /\ waiting' = TRUE /\ UNCHANGED <<step, ret>>
    BY <1>3, <2>4 DEF Queues
  <2>6. Len(queue') <= QueueSize
    BY <2>5
  <2>7. TypeOK'
    BY <1>3, <2>1, <2>2, <2>5, <2>6 DEF TypeOK, Queues
  <2>8. QED
    BY <1>3, <2>1, <2>2, <2>7 DEF FramesOK, Queues
<1>4. CASE TakesAnswer
  <2>1. /\ slot' = NoAnswer /\ FrameDone(slot.ok) /\ slot.ok \in BOOLEAN /\ waiting
        /\ slot.word # "none"
    BY <1>4 DEF TakesAnswer, FramesOK, SlotFrame
  <2>2. NoAnswer \in SlotFrame /\ NoAnswer.word = "none"
    BY DEF NoAnswer, SlotFrame, Params
  <2>3. step \in {"enable", "cmd", "end"}
    BY <2>1, FrameFacts
  <2>4. current' \in [Keys -> Values \cup {Unread}]
    BY <1>4 DEF TakesAnswer, AcksOK, Truthful, TypeOK
  <2>5. TypeOK'
    BY <1>4, <2>1, <2>2, <2>3, <2>4, DoneTypes DEF TypeOK, TakesAnswer
  <2>6. QED
    BY <1>4, <2>1, <2>2, <2>5 DEF FramesOK, TakesAnswer
<1>5. CASE TimesOut
  <2>1. step \in {"enable", "cmd", "end"} /\ FrameDone(FALSE)
    BY <1>5, FrameFacts DEF TimesOut
  <2>2. faults' \in 0 .. MaxFaults
    BY <1>5, FaultTypes DEF TimesOut, TypeOK
  <2>3. TypeOK'
    BY <1>5, <2>1, <2>2, DoneTypes DEF TimesOut, TypeOK
  <2>4. QED
    BY <1>5, <2>3 DEF FramesOK, TimesOut
<1>6. CASE ReadReturns \/ WriteReturns \/ CalibrateReturns
  <2>1. NoCall \in Commands
    BY DEF NoCall, Commands
  <2>2. main' \in Places
    BY <1>6 DEF ReadReturns, WriteReturns, CalibrateReturns, TypeOK, Places
  <2>3. unset' \subseteq Keys
    <3>1. CASE WriteReturns
      <4>1. call.key \in DOMAIN Wanted
        BY <3>1 DEF WriteReturns, Returns, PlaceOK
      <4>2. QED
        BY <3>1, <4>1 DEF WriteReturns, TypeOK
    <3>2. QED
      BY <1>6, <3>1 DEF ReadReturns, CalibrateReturns, TypeOK
  <2>4. last_cal' \in -1 .. MaxNights /\ force' \in BOOLEAN /\ today' = today
    BY <1>6 DEF ReadReturns, WriteReturns, CalibrateReturns, TypeOK
  <2>5. /\ call' = NoCall /\ step' = "none"
        /\ UNCHANGED <<waiting, ret, slot, left, current, queue, readerVars, tx, rx,
                       deviceVars, worldVars, quit, emitted, boundVars>>
    BY <1>6 DEF ReadReturns, WriteReturns, CalibrateReturns, Returns
  <2>6. TypeOK'
    BY <2>1, <2>2, <2>3, <2>4, <2>5 DEF TypeOK
  <2>7. QED
    BY <2>5, <2>6 DEF FramesOK
<1>7. CASE VisitsKey
  <2>1. PICK k \in left :
          /\ left' = left \ {k}
          /\ IF Wanted[k] = current[k] THEN UNCHANGED <<sessionVars, calls>>
                                       ELSE BeginsCall("write", k)
    BY <1>7 DEF VisitsKey
  <2>2. /\ call' \in Commands /\ step' \in {"none", "enable", "cmd", "end", "returns"}
        /\ waiting' \in BOOLEAN /\ ret' \in BOOLEAN /\ calls' \in Nat /\ slot' = slot
    <3>1. CASE UNCHANGED <<sessionVars, calls>>
      BY <3>1 DEF TypeOK, FramesOK
    <3>2. CASE BeginsCall("write", k)
      <4>1. k \in Keys \cup {NoKey}
        BY <2>1 DEF TypeOK
      <4>2. QED
        BY <3>2, <4>1, BeginTypes
    <3>3. QED
      BY <2>1, <3>1, <3>2
  <2>3. TypeOK'
    BY <1>7, <2>1, <2>2 DEF VisitsKey, TypeOK
  <2>4. QED
    BY <1>7, <2>2, <2>3 DEF VisitsKey, FramesOK
<1>8. CASE Calibrates
  <2>1. BeginsCall("calibrate", NoKey) /\ NoKey \in Keys \cup {NoKey}
    BY <1>8 DEF Calibrates
  <2>2. today' \in -1 .. MaxNights
    BY <1>8 DEF Calibrates, TypeOK
  <2>3. TypeOK'
    BY <1>8, <2>1, <2>2, BeginTypes DEF Calibrates, TypeOK
  <2>4. QED
    BY <1>8, <2>1, <2>3, BeginTypes DEF Calibrates, FramesOK
<1>9. CASE EntersLoop \/ LeavesLoop \/ JoinsPoller \/ Terminates \/ GivesUpAwaiting
           \/ Polls \/ RoomChanges \/ NightPasses
  <2>1. /\ main' \in Places /\ restarts' \in 0 .. MaxRestarts /\ quit' \in BOOLEAN
        /\ emitted' \in BOOLEAN /\ room' \in BOOLEAN /\ night' \in BOOLEAN
    <3>1. CASE EntersLoop \/ LeavesLoop \/ JoinsPoller
      BY <3>1 DEF TypeOK, EntersLoop, LeavesLoop, JoinsPoller, Places
    <3>2. CASE Terminates
      BY <3>2 DEF TypeOK, Terminates
    <3>3. CASE GivesUpAwaiting \/ RoomChanges \/ NightPasses
      BY <3>3 DEF TypeOK, GivesUpAwaiting, RoomChanges, NightPasses
    <3>4. CASE Polls
      <4>1. emitted' \in BOOLEAN
        BY <3>4 DEF TypeOK, Polls
      <4>2. QED
        BY <3>4, <4>1 DEF TypeOK, Polls
    <3>5. QED
      BY <1>9, <3>1, <3>2, <3>3, <3>4
  <2>2. day' \in 0 .. MaxNights /\ (night' => day' < MaxNights)
    <3>1. CASE NightPasses
      BY <3>1 DEF TypeOK, FramesOK, NightPasses
    <3>2. QED
      BY <1>9, <3>1 DEF TypeOK, FramesOK, EntersLoop, LeavesLoop, JoinsPoller, Terminates,
                        GivesUpAwaiting, Polls, RoomChanges
  <2>3. awaited' \in Commands
    <3>1. NoCall \in Commands
      BY DEF NoCall, Commands
    <3>2. QED
      BY <1>9, <3>1 DEF TypeOK, EntersLoop, LeavesLoop, JoinsPoller, Terminates,
                        GivesUpAwaiting, Polls, RoomChanges, NightPasses
  <2>4. UNCHANGED <<sessionVars, applyVars, nightVars, queue, uart_occupied, vacancy, tx, rx,
                    deviceVars, calls, faults>>
    BY <1>9 DEF EntersLoop, LeavesLoop, JoinsPoller, Terminates, GivesUpAwaiting,
                Polls, RoomChanges, NightPasses
  <2>5. TypeOK'
    BY <2>1, <2>2, <2>3, <2>4 DEF TypeOK
  <2>6. QED
    BY <2>2, <2>4, <2>5 DEF FramesOK
<1>10. CASE Dies \/ JoinsReader
  <2>1. Gone /\ restarts' \in 0 .. MaxRestarts
    BY <1>10 DEF Dies, JoinsReader, TypeOK
  <2>2. TypeOK'
    BY <2>1, GoneTypes DEF TypeOK, Places
  <2>3. QED
    BY <2>1, <2>2, GoneTypes DEF FramesOK
<1>11. CASE SendsNext
  <2>1. queue = <<Frame>> /\ tx = <<>> /\ main # "down"
    BY <1>11 DEF SendsNext, ReaderRuns, LineOK
  <2>2. /\ queue' = <<>> /\ tx' = <<Frame>> /\ awaited' = Frame
        /\ UNCHANGED <<main, sessionVars, applyVars, nightVars, uart_occupied, vacancy, rx,
                       deviceVars, worldVars, quit, emitted, boundVars>>
    BY <1>11, <2>1 DEF SendsNext
  <2>3. waiting /\ step \in {"enable", "cmd", "end"}
    <3>1. waiting
      BY <2>1 DEF LineOK, QuietLine
    <3>2. QED
      BY <3>1, FrameFacts
  <2>4. /\ Frame \in Commands /\ Frame.word \in Words /\ (Frame.word = "write" => Frame.key \in DOMAIN Wanted)
        /\ Len(queue') = 0
    BY <2>2, <2>3, FrameFacts
  <2>5. TypeOK'
    BY <2>2, <2>4 DEF TypeOK
  <2>6. Head(tx') = Frame
    BY <2>2
  <2>7. QED
    BY <2>2, <2>4, <2>5, <2>6 DEF FramesOK
<1>12. CASE ReadsAnswer \/ ReadsTorn \/ ReadsReport
  <2>1. /\ rx # <<>> /\ rx' = Tail(rx) /\ Head(rx) \in RxFrame /\ Tail(rx) \in Seq(RxFrame)
    BY <1>12, ReadsFirst DEF ReadsAnswer, ReadsTorn, ReadsReport, FramesOK
  <2>2. slot' \in SlotFrame
    BY <1>12, <2>1 DEF ReadsAnswer, ReadsTorn, ReadsReport, FramesOK, IsAnswer, RxFrame, SlotFrame
  <2>3. awaited' \in Commands
    <3>1. NoCall \in Commands
      BY DEF NoCall, Commands
    <3>2. QED
      BY <1>12, <3>1 DEF ReadsAnswer, ReadsTorn, ReadsReport, TypeOK
  <2>4. uart_occupied' \in BOOLEAN /\ vacancy' \in 0 .. RoomEmpty
    BY <1>12, <2>1 DEF ReadsAnswer, ReadsTorn, ReadsReport, Decode, TypeOK, RxFrame
  <2>5. /\ UNCHANGED <<main, call, step, waiting, ret, applyVars, nightVars, queue, tx,
                       deviceVars, worldVars, quit, emitted, boundVars>>
    BY <1>12 DEF ReadsAnswer, ReadsTorn, ReadsReport
  <2>6. slot'.word \in Words \cup {"none"}
    BY <2>2 DEF SlotFrame
  <2>7. TypeOK'
    BY <2>3, <2>4, <2>5, <2>6 DEF TypeOK
  <2>8. QED
    BY <2>1, <2>2, <2>5, <2>7 DEF FramesOK
<1>13. CASE Obeys \/ Refuses
  <2>1. /\ tx # <<>> /\ tx' = <<>> /\ Head(tx) \in Commands
        /\ Head(tx).word = "write" => Head(tx).key \in DOMAIN Wanted
    <3>1. tx # <<>> /\ tx' = Tail(tx)
      BY <1>13 DEF Obeys, Refuses, SensorAnswers
    <3>2. tx = <<Head(tx)>> /\ Head(tx) \in Commands
          /\ (Head(tx).word = "write" => Head(tx).key \in DOMAIN Wanted)
      BY <3>1 DEF FramesOK
    <3>3. Tail(<<Head(tx)>>) = <<>>
      OBVIOUS
    <3>4. QED
      BY <3>1, <3>2, <3>3
  <2>2. PICK ok \in BOOLEAN : SensorAnswers(ok)
    BY <1>13 DEF Obeys, Refuses, TypeOK
  <2>3. rx' \in Seq(RxFrame)
    BY <2>1, <2>2, AnswerFacts
  <2>4. params' \in [Keys -> Values] /\ config_mode' \in BOOLEAN /\ executed' \in Nat
    <3>1. CASE Obeys
      BY <2>1, <3>1 DEF Obeys, TypeOK, FramesOK, Commands
    <3>2. CASE Refuses
      BY <3>2 DEF Refuses, TypeOK, FramesOK
    <3>3. QED
      BY <1>13, <3>1, <3>2
  <2>5. faults' \in 0 .. MaxFaults
    <3>1. CASE Obeys
      BY <3>1 DEF Obeys, TypeOK
    <3>2. CASE Refuses
      BY <3>2, FaultTypes DEF Refuses
    <3>3. QED
      BY <1>13, <3>1, <3>2
  <2>6. UNCHANGED <<main, sessionVars, applyVars, nightVars, queue, readerVars, worldVars,
                    quit, emitted, calls, restarts>>
    BY <1>13 DEF Obeys, Refuses
  <2>7. TypeOK'
    BY <2>4, <2>5, <2>6 DEF TypeOK
  <2>8. QED
    BY <2>1, <2>3, <2>4, <2>6, <2>7 DEF FramesOK
<1>14. CASE SensorReports \/ LosesCommand \/ LosesAnswer
  <2>1. rx' \in Seq(RxFrame)
    BY <1>14, LineFaults DEF SensorReports, LosesCommand, LosesAnswer, FramesOK
  <2>2. faults' \in 0 .. MaxFaults
    <3>1. CASE SensorReports
      BY <3>1 DEF SensorReports, TypeOK
    <3>2. CASE LosesCommand \/ LosesAnswer
      BY <3>2, FaultTypes DEF LosesCommand, LosesAnswer
    <3>3. QED
      BY <1>14, <3>1, <3>2
  <2>3. UNCHANGED <<main, sessionVars, applyVars, nightVars, queue, readerVars,
                    deviceVars, worldVars, quit, emitted, calls, restarts>>
    BY <1>14 DEF SensorReports, LosesCommand, LosesAnswer
  <2>4. tx' = tx \/ tx' = <<>>
    BY <1>14, LineFaults DEF SensorReports, LosesCommand, LosesAnswer
  <2>5. TypeOK'
    BY <2>2, <2>3 DEF TypeOK
  <2>6. QED
    BY <2>1, <2>3, <2>4, <2>5 DEF FramesOK
<1>15. QED
  BY <1>1, <1>2, <1>3, <1>4, <1>5, <1>6, <1>7, <1>8, <1>9, <1>10, <1>11, <1>12, <1>13, <1>14
     DEF Next, MainStep, ReadsFrame

-----------------------------------------------------------------------------
(* Places and the line. *)

\* What the threads and the world do beside a session.
Beside ==
  /\ UNCHANGED <<main, sessionVars, applyVars, queue, tx, deviceVars>>
  /\ NoneNew(rx', rx)

LEMMA BesideSteps ==
  ASSUME TypeOK, FramesOK,
         \/ UNCHANGED vars \/ GivesUpAwaiting \/ Polls \/ RoomChanges \/ NightPasses
         \/ Terminates \/ SensorReports \/ LosesAnswer \/ ReadsTorn \/ ReadsReport
  PROVE  Beside
<1>1. CASE UNCHANGED vars \/ GivesUpAwaiting \/ Polls \/ RoomChanges \/ NightPasses \/ Terminates
  <2>1. UNCHANGED <<main, sessionVars, applyVars, queue, tx, deviceVars, rx>>
    BY <1>1 DEF vars, GivesUpAwaiting, Polls, RoomChanges, NightPasses, Terminates
  <2>2. QED
    BY <2>1, NoneNewSame DEF Beside
<1>2. CASE SensorReports \/ LosesAnswer
  BY <1>2, LineFaults DEF Beside, SensorReports, LosesAnswer
<1>3. CASE ReadsTorn \/ ReadsReport
  BY <1>3, ReadsFirst DEF Beside, ReadsTorn, ReadsReport, FramesOK
<1>4. QED
  BY <1>1, <1>2, <1>3

\* Every step is one of these.
LEMMA StepCases ==
  ASSUME TypeOK, FramesOK, [Next]_vars
  PROVE  \/ Beside \/ Starts \/ Queues \/ TakesAnswer \/ TimesOut
         \/ ReadReturns \/ WriteReturns \/ CalibrateReturns
         \/ VisitsKey \/ Calibrates
         \/ EntersLoop \/ LeavesLoop \/ JoinsPoller
         \/ Gone
         \/ SendsNext \/ ReadsAnswer \/ Obeys \/ Refuses \/ LosesCommand
  BY BesideSteps DEF Next, MainStep, ReadsFrame, Dies, JoinsReader

LEMMA NextPlace == SessionOK /\ [Next]_vars => PlaceOK'
<1> SUFFICES ASSUME TypeOK, FramesOK, PlaceOK, LineOK, [Next]_vars PROVE PlaceOK'
  BY DEF SessionOK
<1> USE DEF sessionVars, applyVars
<1>1. CASE Beside
  BY <1>1 DEF Beside, PlaceOK
<1>2. CASE Starts
  <2>1. NoKey \in Keys \cup {NoKey} /\ BeginsCall("read", NoKey)
    BY <1>2 DEF Starts
  <2>2. QED
    BY <1>2, <2>1, BeginTypes DEF Starts, PlaceOK
<1>3. CASE Queues
  <2>1. step \in {"enable", "cmd", "end"} /\ main \in {"read", "write", "loop"}
    BY <1>3, FrameFacts DEF Queues
  <2>2. queue = <<>>
    BY <1>3, <2>1 DEF Queues, LineOK, QuietLine
  <2>3. Len(queue) < QueueSize
    BY <2>2, SensorAssumption
  <2>4. QED
    BY <1>3, <2>1, <2>3 DEF Queues, PlaceOK
<1>4. CASE TakesAnswer \/ TimesOut
  <2>1. /\ step \in {"enable", "cmd", "end"} /\ main \in {"read", "write", "loop"}
        /\ UNCHANGED <<main, call, left, queue>>
    BY <1>4, FrameFacts DEF TakesAnswer, TimesOut
  <2>2. PICK ok \in BOOLEAN : FrameDone(ok)
    BY <1>4 DEF TakesAnswer, TimesOut, FramesOK, SlotFrame
  <2>3. step' \in {"cmd", "end", "returns"} /\ ~waiting'
    BY <2>1, <2>2, DoneTypes
  <2>4. QED
    BY <2>1, <2>3 DEF PlaceOK
<1>5. CASE ReadReturns \/ WriteReturns \/ CalibrateReturns
  <2>1. /\ step = "returns" /\ step' = "none" /\ waiting' = waiting /\ left' = left
        /\ main' \in {"write", "loop"} /\ (main' = "loop" => main = "loop")
    BY <1>5 DEF ReadReturns, WriteReturns, CalibrateReturns, Returns
  <2>2. QED
    BY <2>1 DEF PlaceOK
<1>6. CASE VisitsKey
  <2>1. PICK k \in left :
          /\ left' = left \ {k}
          /\ IF Wanted[k] = current[k] THEN UNCHANGED <<sessionVars, calls>>
                                       ELSE BeginsCall("write", k)
    BY <1>6 DEF VisitsKey
  <2>2. main = "write" /\ main' = "write" /\ step = "none"
    BY <1>6 DEF VisitsKey
  <2>3. CASE UNCHANGED <<sessionVars, calls>>
    BY <2>1, <2>2, <2>3 DEF PlaceOK
  <2>4. CASE BeginsCall("write", k)
    <3>1. k \in Keys \cup {NoKey} /\ k \in DOMAIN Wanted
      BY <2>1 DEF TypeOK, PlaceOK
    <3>2. call'.word = "write" /\ call'.key = k /\ step' = "enable" /\ ~waiting' /\ ~ret'
      BY <2>4, <3>1, BeginTypes
    <3>3. QED
      BY <2>1, <2>2, <3>1, <3>2 DEF PlaceOK
  <2>5. QED
    BY <2>1, <2>3, <2>4
<1>7. CASE Calibrates
  <2>1. BeginsCall("calibrate", NoKey) /\ NoKey \in Keys \cup {NoKey}
    BY <1>7 DEF Calibrates
  <2>2. QED
    BY <1>7, <2>1, BeginTypes DEF Calibrates, PlaceOK
<1>8. CASE EntersLoop \/ LeavesLoop \/ JoinsPoller
  BY <1>8 DEF EntersLoop, LeavesLoop, JoinsPoller, PlaceOK
<1>9. CASE Gone
  BY <1>9, GoneTypes DEF PlaceOK
<1>10. CASE SendsNext \/ ReadsAnswer \/ Obeys \/ Refuses \/ LosesCommand
  <2>1. /\ UNCHANGED <<main, call, step, waiting, ret, left>>
        /\ main # "down" \/ UNCHANGED <<queue, slot>>
    BY <1>10 DEF SendsNext, ReadsAnswer, Obeys, Refuses, LosesCommand, ReaderRuns
  <2>2. QED
    BY <2>1 DEF PlaceOK
<1>11. QED
  BY <1>1, <1>2, <1>3, <1>4, <1>5, <1>6, <1>7, <1>8, <1>9, <1>10, StepCases

\* A line at rest is in order, whatever main does next.
LEMMA RestFacts ==
  /\ QuietLine' /\ (waiting' => FALSE) => LineOK'
  /\ LineOK /\ main # "down" /\ ~waiting => QuietLine
  /\ QuietLine /\ UNCHANGED <<queue, tx, rx, slot>> => QuietLine'
  BY DEF LineOK, QuietLine

\* Between frames, and once main waits no more, the line is at rest.
LEMMA RestSteps ==
  ASSUME "late" \notin Faults, TypeOK, FramesOK, PlaceOK, LineOK,
         \/ Starts \/ TakesAnswer \/ TimesOut
         \/ ReadReturns \/ WriteReturns \/ CalibrateReturns
         \/ VisitsKey \/ Calibrates
         \/ EntersLoop \/ LeavesLoop \/ JoinsPoller
  PROVE  QuietLine' /\ ~waiting'
<1> USE DEF sessionVars
<1>1. CASE Starts
  <2>1. main = "down" /\ tx = <<>> /\ rx' = <<>> /\ slot' = slot /\ waiting' = FALSE
        /\ UNCHANGED <<queue, tx>>
    BY <1>1 DEF Starts, BeginsCall
  <2>2. queue = <<>> /\ slot.word = "none"
    BY <2>1 DEF PlaceOK
  <2>3. Answers(<<>>) = {}
    BY DEF Answers
  <2>4. QED
    BY <2>1, <2>2, <2>3 DEF QuietLine
<1>2. CASE TakesAnswer
  <2>1. /\ waiting /\ slot.word # "none" /\ slot' = NoAnswer /\ waiting' = FALSE
        /\ UNCHANGED <<queue, tx, rx>>
    BY <1>2 DEF TakesAnswer, FrameDone
  <2>2. main # "down"
    BY <2>1 DEF PlaceOK
  <2>3. queue = <<>> /\ tx = <<>> /\ Answers(rx) = {}
    BY <2>1, <2>2 DEF LineOK
  <2>4. NoAnswer.word = "none"
    BY DEF NoAnswer
  <2>5. QED
    BY <2>1, <2>3, <2>4 DEF QuietLine
<1>3. CASE TimesOut
  <2>1. waiting /\ waiting' = FALSE /\ UNCHANGED <<queue, tx, rx, slot>> /\ ~AnswerDue
    BY <1>3 DEF TimesOut, FrameDone, Fault
  <2>2. main # "down"
    BY <2>1 DEF PlaceOK
  <2>3. /\ ~In(Frame, queue) /\ ~In(Frame, tx) /\ slot.word = "none"
        /\ \A i \in DOMAIN rx : rx[i].word # Frame.word
    BY <2>1 DEF AnswerDue
  <2>4. In(Frame, <<Frame>>)
    BY DEF In
  <2>5. queue \in {<<>>, <<Frame>>} /\ tx \in {<<>>, <<Frame>>}
        /\ \A i \in Answers(rx) : rx[i].word = Frame.word
    BY <2>2 DEF LineOK
  <2>6. queue = <<>> /\ tx = <<>> /\ Answers(rx) = {}
    BY <2>3, <2>4, <2>5 DEF Answers
  <2>7. QED
    BY <2>1, <2>3, <2>6 DEF QuietLine
<1>4. CASE \/ ReadReturns \/ WriteReturns \/ CalibrateReturns \/ VisitsKey \/ Calibrates
           \/ EntersLoop \/ LeavesLoop \/ JoinsPoller
  <2>1. step \in {"returns", "none"} /\ main # "down"
    BY <1>4 DEF ReadReturns, WriteReturns, CalibrateReturns, VisitsKey, Calibrates, EntersLoop,
                LeavesLoop, JoinsPoller, Returns, PlaceOK
  <2>2. ~waiting
    BY <2>1 DEF PlaceOK
  <2>3. (waiting' = waiting \/ waiting' = FALSE) /\ UNCHANGED <<queue, tx, rx, slot>>
    BY <1>4 DEF ReadReturns, WriteReturns, CalibrateReturns, VisitsKey, Calibrates, EntersLoop,
                LeavesLoop, JoinsPoller, Returns, BeginsCall
  <2>4. QED
    BY <2>1, <2>2, <2>3, RestFacts
<1>5. QED
  BY <1>1, <1>2, <1>3, <1>4

\* A frame that reaches the sensor, or an answer that reaches the reader, is the
\* only one.
LEMMA LineFacts ==
  ASSUME TypeOK, PlaceOK, LineOK, main # "down"
  PROVE  /\ tx # <<>> => /\ tx = <<Frame>> /\ Head(tx) = Frame /\ queue = <<>>
                         /\ Answers(rx) = {} /\ slot.word = "none" /\ waiting
         /\ Answers(rx) # {} => queue = <<>> /\ tx = <<>> /\ slot.word = "none"
<1>1. tx # <<>> => tx = <<Frame>>
  BY DEF LineOK
<1>2. tx # <<>> => waiting
  BY DEF LineOK, QuietLine
<1>3. Head(<<Frame>>) = Frame
  OBVIOUS
<1>4. QED
  BY <1>1, <1>2, <1>3 DEF LineOK

LEMMA NextLine ==
  ASSUME "late" \notin Faults, SessionOK, [Next]_vars PROVE LineOK'
<1> USE DEF sessionVars
<1>0. TypeOK /\ FramesOK /\ PlaceOK /\ LineOK
  BY DEF SessionOK
<1>1. CASE Beside
  <2>1. /\ UNCHANGED <<main, call, step, waiting, queue, tx, slot>> /\ NoneNew(rx', rx)
        /\ Frame' = Frame
    BY <1>1 DEF Beside, Frame
  <2>2. Answers(rx') # {} => Answers(rx) # {}
    BY <2>1 DEF NoneNew
  <2>3. QED
    BY <1>0, <2>1, <2>2 DEF LineOK, QuietLine, NoneNew
<1>2. CASE \/ Starts \/ TakesAnswer \/ TimesOut
           \/ ReadReturns \/ WriteReturns \/ CalibrateReturns
           \/ VisitsKey \/ Calibrates
           \/ EntersLoop \/ LeavesLoop \/ JoinsPoller
  BY <1>0, <1>2, RestSteps, RestFacts
<1>3. CASE Queues
  <2>1. /\ step \in {"enable", "cmd", "end"} /\ ~waiting /\ slot' = NoAnswer
        /\ UNCHANGED <<main, call, tx, rx>>
    BY <1>3 DEF Queues
  <2>2. main # "down"
    BY <1>0, <2>1, FrameFacts
  <2>3. QuietLine
    BY <1>0, <2>1, <2>2, RestFacts
  <2>4. Len(queue) < QueueSize
    BY <2>3, SensorAssumption DEF QuietLine
  <2>5. queue' = Append(queue, Frame) /\ waiting' = TRUE /\ step' = step
    BY <1>3, <2>4 DEF Queues
  <2>6. queue' = <<Frame>> /\ Frame' = Frame
    BY <2>1, <2>3, <2>5 DEF QuietLine, Frame
  <2>7. NoAnswer.word = "none"
    BY DEF NoAnswer
  <2>8. QED
    BY <2>1, <2>3, <2>5, <2>6, <2>7 DEF QuietLine, LineOK
<1>4. CASE Gone
  BY <1>4 DEF Gone, LineOK
<1>5. CASE SendsNext
  <2>1. main # "down" /\ queue # <<>> /\ UNCHANGED <<main, call, step, waiting, rx, slot>>
    BY <1>5 DEF SendsNext, ReaderRuns
  <2>2. queue = <<Frame>> /\ tx = <<>> /\ Answers(rx) = {} /\ slot.word = "none" /\ waiting
    BY <1>0, <2>1 DEF LineOK, QuietLine
  <2>3. queue' = <<>> /\ tx' = <<Frame>> /\ Frame' = Frame
    BY <1>5, <2>1, <2>2 DEF SendsNext, Frame
  <2>4. QED
    BY <2>1, <2>2, <2>3 DEF LineOK
<1>6. CASE ReadsAnswer
  <2>1. /\ main # "down" /\ rx # <<>> /\ IsAnswer(Head(rx)) /\ rx' = Tail(rx) /\ slot' = Head(rx)
        /\ UNCHANGED <<main, call, step, waiting, queue, tx>>
    BY <1>6 DEF ReadsAnswer, ReaderRuns
  <2>2. /\ \A i, j \in Answers(rx) : i = j
        /\ \A i \in Answers(rx) : rx[i].word = Frame.word
    BY <1>0, <2>1 DEF LineOK
  <2>3. /\ 1 \in Answers(rx) /\ Head(rx) = rx[1] /\ Answers(rx') = {}
    BY <1>0, <2>1, <2>2, ReadsFirst DEF FramesOK
  <2>4. /\ queue' = <<>> /\ tx' = <<>> /\ slot'.word = Frame.word /\ Frame' = Frame /\ waiting'
    <3>1. queue = <<>> /\ tx = <<>> /\ waiting
      BY <1>0, <2>1, <2>3 DEF LineOK, QuietLine
    <3>2. QED
      BY <2>1, <2>2, <2>3, <3>1 DEF Frame
  <2>5. QED
    BY <2>3, <2>4 DEF LineOK
<1>7. CASE Obeys \/ Refuses
  <2>1. tx # <<>> /\ UNCHANGED <<main, call, step, waiting, queue, slot>> /\ Frame' = Frame
    BY <1>7 DEF Obeys, Refuses, Frame
  <2>2. PICK ok \in BOOLEAN : SensorAnswers(ok)
    BY <1>0, <1>7 DEF Obeys, Refuses, TypeOK
  <2>3. PICK a \in RxFrame :
          rx' = Append(rx, a) /\ IsAnswer(a) /\ a.word = Head(tx).word /\ tx' = <<>>
    BY <1>0, <2>1, <2>2, AnswerFacts
  <2>4. CASE main # "down"
    <3>1. /\ Head(tx) = Frame /\ queue = <<>> /\ Answers(rx) = {} /\ slot.word = "none" /\ waiting
      BY <1>0, <2>1, <2>4, LineFacts
    <3>2. /\ \A i \in Answers(rx') : rx'[i] = a
          /\ \A i, j \in Answers(rx') : i = j
      BY <1>0, <2>3, <3>1, ReceivesLast DEF FramesOK
    <3>3. QED
      BY <2>1, <2>3, <3>1, <3>2 DEF LineOK
  <2>5. QED
    BY <2>1, <2>4 DEF LineOK
<1>8. CASE LosesCommand
  <2>1. /\ tx # <<>> /\ tx' = <<>> /\ UNCHANGED <<main, call, step, waiting, queue, slot, rx>>
        /\ Frame' = Frame
    BY <1>0, <1>8, LineFaults DEF LosesCommand, Frame
  <2>2. QED
    BY <1>0, <2>1 DEF LineOK, QuietLine
<1>9. QED
  BY <1>0, <1>1, <1>2, <1>3, <1>4, <1>5, <1>6, <1>7, <1>8, StepCases

-----------------------------------------------------------------------------
(* Acknowledgements. *)

\* What the sensor does with main's frame, and what it answers.
LEMMA ObeysFacts ==
  ASSUME TypeOK, FramesOK, PlaceOK, LineOK, Obeys
  PROVE  /\ \A k \in DOMAIN Wanted : AsWanted(k) => AsWanted(k)'
         /\ main # "down" =>
              /\ step # "cmd" => UNCHANGED <<params, executed>>
              /\ step = "cmd" => UNCHANGED config_mode
              /\ step = "end" => ~config_mode'
              /\ \E a \in RxFrame : /\ rx' = Append(rx, a) /\ IsAnswer(a)
                                    /\ Truthful(a)'
<1>1. /\ tx # <<>> /\ tx = <<Head(tx)>> /\ Head(tx) \in Commands
      /\ Head(tx).word = "write" => Head(tx).key \in DOMAIN Wanted
      /\ params \in [Keys -> Values] /\ config_mode \in BOOLEAN
  BY DEF Obeys, FramesOK, TypeOK
<1>2. \/ /\ Head(tx).word \in {"enable", "end"}
         /\ SensorAnswers(TRUE)
         /\ config_mode' = (Head(tx).word = "enable")
         /\ UNCHANGED <<params, executed>>
      \/ /\ Head(tx).word \notin {"enable", "end"}
         /\ SensorAnswers(config_mode)
         /\ params' = IF Head(tx).word = "write" /\ config_mode
                      THEN [params EXCEPT ![Head(tx).key] = Wanted[Head(tx).key]]
                      ELSE params
         /\ executed' = IF config_mode THEN Head(tx).n ELSE executed
         /\ UNCHANGED config_mode
  BY DEF Obeys
<1>3. DOMAIN Wanted \subseteq Keys
  BY SensorAssumption
<1>4. \A k \in DOMAIN Wanted : AsWanted(k) => AsWanted(k)'
  BY <1>1, <1>2, <1>3 DEF AsWanted
<1>5. ASSUME main # "down"
      PROVE  /\ step # "cmd" => UNCHANGED <<params, executed>>
             /\ step = "cmd" => UNCHANGED config_mode
             /\ step = "end" => ~config_mode'
             /\ \E a \in RxFrame : rx' = Append(rx, a) /\ IsAnswer(a) /\ Truthful(a)'
  <2>1. Head(tx) = Frame /\ waiting /\ step \in {"enable", "cmd", "end"}
    BY <1>1, <1>5, LineFacts, FrameFacts
  <2>2. Head(tx).word = IF step = "cmd" THEN call.word ELSE step
    BY <2>1, FrameFacts
  <2>3. step = "cmd" => Head(tx) = call /\ call.word \in {"read", "write", "calibrate"}
    BY <2>1, FrameFacts
  <2>4. UNCHANGED <<call, step>>
    BY DEF Obeys, sessionVars
  <2>5. PICK ok \in BOOLEAN : SensorAnswers(ok) /\ (step = "cmd" => ok = config_mode)
    BY <1>1, <1>2, <2>2, <2>3
  <2>6. PICK a \in RxFrame :
          /\ rx' = Append(rx, a) /\ IsAnswer(a) /\ a.word = Head(tx).word /\ a.ok = ok
          /\ a.ok /\ a.word = "read" => a.params = params
    BY <1>1, <2>5, AnswerFacts
  <2>7. ASSUME step = "cmd", a.ok PROVE Done'
    <3>1. config_mode /\ Head(tx) = call /\ call.word \notin {"enable", "end"}
      BY <2>3, <2>5, <2>6, <2>7
    <3>2. /\ executed' = call.n
          /\ call.word = "write" => params' = [params EXCEPT ![call.key] = Wanted[call.key]]
      BY <1>2, <3>1
    <3>3. call.word = "write" => call.key \in Keys
      BY <1>1, <1>3, <3>1
    <3>4. QED
      BY <1>1, <2>4, <3>2, <3>3 DEF Done, AsWanted
  <2>8. ASSUME a.ok, a.word = "read"
        PROVE  /\ a.params \in [Keys -> Values]
               /\ \A k \in DOMAIN Wanted : a.params[k] = Wanted[k] => AsWanted(k)'
    <3>1. a.params = params /\ Head(tx).word = "read"
      BY <2>6, <2>8
    <3>2. params' = params
      BY <1>2, <3>1
    <3>3. QED
      BY <1>1, <3>1, <3>2 DEF AsWanted
  <2>9. Truthful(a)'
    BY <2>4, <2>7, <2>8 DEF Truthful
  <2>10. /\ step # "cmd" => UNCHANGED <<params, executed>>
         /\ step = "cmd" => UNCHANGED config_mode
         /\ step = "end" => ~config_mode'
    BY <1>2, <2>1, <2>2, <2>3
  <2>11. QED
    BY <2>6, <2>9, <2>10
<1>6. QED
  BY <1>4, <1>5

\* An answer stays truthful while the sensor and the session stay as they are.
LEMMA TruthKept ==
  ASSUME UNCHANGED <<step, call, executed, params>>
  PROVE  /\ \A a : Truthful(a)' <=> Truthful(a)
         /\ Done' <=> Done
  BY DEF Truthful, Done, AsWanted

\* With the line at rest there is no answer to vouch for.
LEMMA RestAcks ==
  QuietLine' /\ (step' \in {"end", "returns"} /\ ret' => Done') => AcksOK'
  BY DEF AcksOK, QuietLine

LEMMA NextAcks ==
  ASSUME "late" \notin Faults, SessionOK, [Next]_vars PROVE AcksOK'
<1> USE DEF sessionVars, deviceVars
<1>0. TypeOK /\ FramesOK /\ PlaceOK /\ LineOK /\ AcksOK
  BY DEF SessionOK
<1>1. CASE Beside
  <2>1. /\ UNCHANGED <<main, call, step, ret, slot, executed, params>> /\ NoneNew(rx', rx)
    BY <1>1 DEF Beside
  <2>2. main' # "down" => \A i \in Answers(rx') : Truthful(rx'[i])
    BY <1>0, <2>1 DEF AcksOK, NoneNew
  <2>3. QED
    BY <1>0, <2>1, <2>2, TruthKept DEF AcksOK
<1>2. CASE TakesAnswer \/ TimesOut
  <2>1. QuietLine' /\ UNCHANGED <<call, executed, params>>
    BY <1>0, <1>2, RestSteps DEF TakesAnswer, TimesOut
  <2>2. step \in {"enable", "cmd", "end"}
    BY <1>0, <1>2, FrameFacts DEF TakesAnswer, TimesOut
  <2>3. PICK ok \in BOOLEAN : FrameDone(ok) /\ (ok /\ step = "cmd" => Done)
    <3>1. CASE TakesAnswer
      <4>1. slot.word # "none" /\ FrameDone(slot.ok) /\ slot.ok \in BOOLEAN
        BY <1>0, <3>1 DEF TakesAnswer, FramesOK, SlotFrame
      <4>2. slot.ok /\ step = "cmd" => Done
        BY <1>0, <4>1 DEF AcksOK, Truthful
      <4>3. QED
        BY <4>1, <4>2
    <3>2. CASE TimesOut
      BY <3>2 DEF TimesOut
    <3>3. QED
      BY <1>2, <3>1, <3>2
  <2>4. /\ step' = IF step = "enable" /\ ok THEN "cmd"
                   ELSE IF step = "end" THEN "returns" ELSE "end"
        /\ ret' = IF step = "cmd" THEN ok ELSE ret
    BY <1>0, <2>2, <2>3, DoneTypes
  <2>5. step' \in {"end", "returns"} /\ ret' => Done
    BY <1>0, <2>2, <2>3, <2>4 DEF AcksOK, PlaceOK
  <2>6. Done' <=> Done
    BY <2>1 DEF Done, AsWanted
  <2>7. QED
    BY <2>1, <2>5, <2>6, RestAcks
<1>3. CASE \/ Starts \/ ReadReturns \/ WriteReturns \/ CalibrateReturns
           \/ VisitsKey \/ Calibrates \/ EntersLoop \/ LeavesLoop \/ JoinsPoller
  <2>1. QuietLine'
    BY <1>0, <1>3, RestSteps
  <2>2. step' \notin {"end", "returns"}
    <3>1. CASE Starts \/ ReadReturns \/ WriteReturns \/ CalibrateReturns \/ Calibrates
      BY <3>1 DEF Starts, ReadReturns, WriteReturns, CalibrateReturns, Calibrates, Returns,
                  BeginsCall
    <3>2. CASE VisitsKey
      BY <3>2 DEF VisitsKey, BeginsCall
    <3>3. CASE EntersLoop \/ LeavesLoop \/ JoinsPoller
      <4>1. step' = step /\ (step = "none" \/ main = "joins_poller")
        BY <3>3 DEF EntersLoop, LeavesLoop, JoinsPoller
      <4>2. QED
        BY <1>0, <4>1 DEF PlaceOK
    <3>4. QED
      BY <1>3, <3>1, <3>2, <3>3
  <2>3. QED
    BY <2>1, <2>2, RestAcks
<1>4. CASE Queues
  <2>1. step \in {"enable", "cmd", "end"} /\ ~waiting /\ slot' = NoAnswer
        /\ UNCHANGED <<main, call, rx, executed, params>>
    BY <1>4 DEF Queues
  <2>2. main # "down"
    BY <1>0, <2>1, FrameFacts
  <2>3. queue = <<>> /\ Answers(rx) = {}
    BY <1>0, <2>1, <2>2, RestFacts DEF QuietLine
  <2>4. Len(queue) < QueueSize
    BY <2>3, SensorAssumption
  <2>5. UNCHANGED <<step, ret>>
    BY <1>4, <2>4 DEF Queues
  <2>6. NoAnswer.word = "none"
    BY DEF NoAnswer
  <2>7. Done' <=> Done
    BY <2>1, <2>5, TruthKept
  <2>8. QED
    BY <1>0, <2>1, <2>3, <2>5, <2>6, <2>7 DEF AcksOK
<1>5. CASE Gone
  BY <1>5, GoneTypes DEF AcksOK
<1>6. CASE SendsNext \/ LosesCommand
  <2>1. UNCHANGED <<main, call, step, ret, slot, rx, executed, params>>
    BY <1>6 DEF SendsNext, LosesCommand
  <2>2. QED
    BY <1>0, <2>1, TruthKept DEF AcksOK
<1>7. CASE ReadsAnswer
  <2>1. /\ main # "down" /\ rx # <<>> /\ IsAnswer(Head(rx)) /\ rx' = Tail(rx) /\ slot' = Head(rx)
        /\ UNCHANGED <<main, call, step, ret, executed, params>>
    BY <1>7 DEF ReadsAnswer, ReaderRuns
  <2>2. \A i, j \in Answers(rx) : i = j
    BY <1>0, <2>1 DEF LineOK
  <2>3. /\ 1 \in Answers(rx) /\ Head(rx) = rx[1] /\ Answers(rx') = {}
    BY <1>0, <2>1, <2>2, ReadsFirst DEF FramesOK
  <2>4. Truthful(slot')
    BY <1>0, <2>1, <2>3 DEF AcksOK
  <2>5. QED
    BY <1>0, <2>1, <2>3, <2>4, TruthKept DEF AcksOK
<1>8. CASE Obeys
  <2>1. UNCHANGED <<main, call, step, ret, slot>>
    BY <1>8 DEF Obeys
  <2>2. CASE main = "down"
    BY <1>0, <2>1, <2>2 DEF AcksOK, PlaceOK
  <2>3. CASE main # "down"
    <3>1. /\ Answers(rx) = {} /\ slot.word = "none" /\ waiting
      BY <1>0, <1>8, <2>3, LineFacts DEF Obeys
    <3>2. PICK a \in RxFrame : rx' = Append(rx, a) /\ IsAnswer(a) /\ Truthful(a)'
      BY <1>0, <1>8, <2>3, ObeysFacts
    <3>3. \A i \in Answers(rx') : rx'[i] = a
      BY <1>0, <3>1, <3>2, ReceivesLast DEF FramesOK
    <3>4. step \in {"end", "returns"} => UNCHANGED <<params, executed>>
      BY <1>0, <1>8, <2>3, ObeysFacts
    <3>5. step \in {"end", "returns"} /\ ret => Done'
      BY <1>0, <2>1, <3>4 DEF AcksOK, Done, AsWanted
    <3>6. (\A i \in Answers(rx) : Truthful(rx[i]))'
      BY <3>2, <3>3 DEF Truthful
    <3>7. slot'.word = "none" /\ (step' \in {"end", "returns"} /\ ret' => Done')
      BY <2>1, <3>1, <3>5
    <3>8. QED
      BY <3>6, <3>7 DEF AcksOK
  <2>4. QED
    BY <2>2, <2>3
<1>9. CASE Refuses
  <2>1. /\ tx # <<>> /\ SensorAnswers(FALSE)
        /\ UNCHANGED <<main, call, step, ret, slot, executed, params>>
    BY <1>9 DEF Refuses
  <2>2. PICK a \in RxFrame : rx' = Append(rx, a) /\ IsAnswer(a) /\ ~a.ok
    BY <1>0, <2>1, AnswerFacts
  <2>3. main # "down" => \A i \in Answers(rx') : ~rx'[i].ok
    BY <1>0, <2>1, <2>2, LineFacts, ReceivesLast DEF FramesOK
  <2>4. QED
    BY <1>0, <2>1, <2>3, TruthKept DEF AcksOK, Truthful
<1>10. QED
  BY <1>0, <1>1, <1>2, <1>3, <1>4, <1>5, <1>6, <1>7, <1>8, <1>9, StepCases

-----------------------------------------------------------------------------
(* Parameters. *)

\* A parameter that is as wanted stays so: nothing else is ever written.
LEMMA WantedStays ==
  ASSUME SessionOK, [Next]_vars
  PROVE  \A k \in DOMAIN Wanted : AsWanted(k) => AsWanted(k)'
<1> USE DEF deviceVars
<1>0. TypeOK /\ FramesOK /\ PlaceOK /\ LineOK
  BY DEF SessionOK
<1>1. CASE Obeys
  BY <1>0, <1>1, ObeysFacts
<1>2. CASE params' = params
  BY <1>2 DEF AsWanted
<1>3. QED
  BY <1>0, <1>1, <1>2, StepCases
     DEF Beside, Starts, Queues, TakesAnswer, TimesOut, ReadReturns, WriteReturns,
         CalibrateReturns, VisitsKey, Calibrates, EntersLoop, LeavesLoop, JoinsPoller, Gone,
         SendsNext, ReadsAnswer, Refuses, LosesCommand

\* The keys that startup is past.
LEMMA NextParams ==
  ASSUME SessionOK, [Next]_vars PROVE ParamsOK'
<1> USE DEF sessionVars, applyVars
<1> DEFINE Judged == \A k \in DOMAIN Wanted \ (unset \cup left) :
                       AsWanted(k) \/ (step # "none" /\ call.word = "write" /\ k = call.key)
<1>0. TypeOK /\ FramesOK /\ PlaceOK /\ LineOK /\ AcksOK /\ ParamsOK
  BY DEF SessionOK
<1>1. \A k \in DOMAIN Wanted : AsWanted(k) => AsWanted(k)'
  BY WantedStays
<1>2. \A k \in DOMAIN Wanted : current'[k] = Wanted[k] => AsWanted(k)'
  <2>1. CASE Starts
    <3>1. \A k \in DOMAIN Wanted : current'[k] = Unread /\ Wanted[k] # Unread
      BY <2>1, SensorAssumption DEF Starts
    <3>2. QED
      BY <3>1
  <2>2. CASE TakesAnswer
    <3>1. \/ current' = current
          \/ /\ slot.word # "none" /\ slot.ok /\ slot.word = "read"
             /\ current' = slot.params
      BY <2>2 DEF TakesAnswer
    <3>2. ASSUME slot.word # "none", slot.ok, slot.word = "read"
          PROVE  \A k \in DOMAIN Wanted : slot.params[k] = Wanted[k] => AsWanted(k)
      BY <1>0, <3>2 DEF AcksOK, Truthful
    <3>3. QED
      BY <1>0, <1>1, <3>1, <3>2 DEF ParamsOK
  <2>3. CASE current' = current
    BY <1>0, <1>1, <2>3 DEF ParamsOK
  <2>4. QED
    BY <1>0, <2>1, <2>2, <2>3, StepCases
       DEF Beside, Queues, TimesOut, ReadReturns, WriteReturns, CalibrateReturns, VisitsKey,
           Calibrates, EntersLoop, LeavesLoop, JoinsPoller, Gone, SendsNext, ReadsAnswer, Obeys,
           Refuses, LosesCommand
<1>3. main \in {"write", "loop"} => Judged
  BY <1>0 DEF ParamsOK
<1>4. ASSUME main \in {"write", "loop"}, step = "none"
      PROVE  \A k \in DOMAIN Wanted \ (unset \cup left) : AsWanted(k)'
  BY <1>1, <1>3, <1>4
<1>5. main' \in {"write", "loop"} => Judged'
  <2>1. CASE main' \notin {"write", "loop"}
    BY <2>1
  <2>2. CASE /\ main' = main /\ UNCHANGED <<call, left, unset>>
             /\ step' = step \/ (step # "none" /\ step' # "none")
    BY <1>1, <1>3, <2>2
  <2>3. CASE TakesAnswer \/ TimesOut
    <3>1. step \in {"enable", "cmd", "end"} /\ UNCHANGED <<main, call, left, unset>>
      BY <1>0, <2>3, FrameFacts DEF TakesAnswer, TimesOut
    <3>2. PICK ok \in BOOLEAN : FrameDone(ok)
      BY <1>0, <2>3 DEF TakesAnswer, TimesOut, FramesOK, SlotFrame
    <3>3. step' # "none"
      BY <1>0, <3>1, <3>2, DoneTypes
    <3>4. QED
      BY <2>2, <3>1, <3>3
  <2>4. CASE Queues
    <3>1. step \in {"enable", "cmd", "end"} /\ UNCHANGED <<main, call, left, unset>>
          /\ (step' = step \/ FrameDone(FALSE))
      BY <2>4 DEF Queues
    <3>2. step' # "none"
      BY <1>0, <3>1, DoneTypes
    <3>3. QED
      BY <2>2, <3>1, <3>2
  <2>5. CASE ReadReturns
    <3>1. main = "read" /\ left' = left /\ unset' = unset
      BY <2>5 DEF ReadReturns
    <3>2. DOMAIN Wanted \ (unset' \cup left') = {}
      BY <1>0, <3>1 DEF PlaceOK
    <3>3. QED
      BY <3>2
  <2>6. CASE WriteReturns
    <3>1. /\ main = "write" /\ step = "returns" /\ left' = left
          /\ unset' = IF ret THEN unset ELSE unset \cup {call.key}
      BY <2>6 DEF WriteReturns, Returns
    <3>2. call.word = "write"
      BY <1>0, <3>1 DEF PlaceOK
    <3>3. ret => AsWanted(call.key)
      BY <1>0, <3>1, <3>2 DEF AcksOK, Done
    <3>4. \A k \in DOMAIN Wanted \ (unset' \cup left') : AsWanted(k)
      BY <1>3, <3>1, <3>3
    <3>5. QED
      BY <1>1, <3>4
  <2>7. CASE CalibrateReturns
    <3>1. main = "loop" /\ step = "returns" /\ UNCHANGED <<left, unset>>
      BY <2>7 DEF CalibrateReturns, Returns
    <3>2. call.word = "calibrate"
      BY <1>0, <3>1 DEF PlaceOK
    <3>3. QED
      BY <1>1, <1>3, <3>1, <3>2
  <2>8. CASE VisitsKey
    <3>1. main = "write" /\ step = "none" /\ unset' = unset
      BY <2>8 DEF VisitsKey
    <3>2. PICK k \in left :
            /\ left' = left \ {k}
            /\ IF Wanted[k] = current[k] THEN UNCHANGED <<sessionVars, calls>>
                                         ELSE BeginsCall("write", k)
      BY <2>8 DEF VisitsKey
    <3>3. AsWanted(k)' \/ (step' # "none" /\ call'.word = "write" /\ k = call'.key)
      <4>1. CASE Wanted[k] = current[k]
        BY <1>0, <1>1, <3>2, <4>1 DEF ParamsOK, PlaceOK
      <4>2. CASE Wanted[k] # current[k]
        <5>1. BeginsCall("write", k) /\ k \in Keys \cup {NoKey}
          BY <1>0, <3>2, <4>2 DEF TypeOK
        <5>2. QED
          BY <1>0, <5>1, BeginTypes
      <4>3. QED
        BY <4>1, <4>2
    <3>4. \A j \in DOMAIN Wanted \ (unset' \cup left') :
            j = k \/ j \in DOMAIN Wanted \ (unset \cup left)
      BY <3>1, <3>2
    <3>5. QED
      BY <1>4, <3>1, <3>3, <3>4
  <2>9. CASE Calibrates \/ EntersLoop
    <3>1. main \in {"write", "loop"} /\ step = "none" /\ UNCHANGED <<left, unset>>
      BY <2>9 DEF Calibrates, EntersLoop
    <3>2. QED
      BY <1>4, <3>1
  <2>10. CASE Starts \/ LeavesLoop \/ JoinsPoller \/ Gone
    BY <2>1, <2>10 DEF Starts, LeavesLoop, JoinsPoller, Gone
  <2>11. CASE Beside \/ SendsNext \/ ReadsAnswer \/ Obeys \/ Refuses \/ LosesCommand
    BY <2>2, <2>11 DEF Beside, SendsNext, ReadsAnswer, Obeys, Refuses, LosesCommand
  <2>12. QED
    BY <1>0, <2>3, <2>4, <2>5, <2>6, <2>7, <2>8, <2>9, <2>10, <2>11, StepCases
<1>6. QED
  BY <1>2, <1>5 DEF ParamsOK

-----------------------------------------------------------------------------
(* The invariant. *)

LEMMA InitSession == Init => SessionOK /\ ModeOK
<1> SUFFICES ASSUME Init PROVE SessionOK /\ ModeOK
  OBVIOUS
<1>1. TypeOK /\ FramesOK
  BY InitTypes
<1>2. main = "down" /\ step = "none" /\ slot = NoAnswer /\ ret = FALSE /\ waiting = FALSE
      /\ queue = <<>> /\ left = {} /\ current = [k \in Keys |-> Unread]
  BY DEF Init
<1>3. slot.word = "none"
  BY <1>2 DEF NoAnswer
<1>4. PlaceOK /\ LineOK /\ AcksOK /\ ModeOK
  BY <1>2, <1>3 DEF PlaceOK, LineOK, AcksOK, ModeOK
<1>5. \A k \in DOMAIN Wanted : current[k] = Unread /\ Wanted[k] # Unread
  BY <1>2, SensorAssumption
<1>6. ParamsOK
  BY <1>2, <1>5 DEF ParamsOK
<1>7. QED
  BY <1>1, <1>4, <1>6 DEF SessionOK

LEMMA NextSession ==
  ASSUME "late" \notin Faults PROVE SessionOK /\ [Next]_vars => SessionOK'
  BY NextTypes, NextPlace, NextLine, NextAcks, NextParams DEF SessionOK

\* When a command may be lost but not the one that ends the mode.
LEMMA NextMode ==
  ASSUME Faults \cap {"late", "end_lost"} = {}, SessionOK, ModeOK, [Next]_vars PROVE ModeOK'
<1> USE DEF sessionVars, deviceVars
<1>0. TypeOK /\ FramesOK /\ PlaceOK /\ LineOK /\ "late" \notin Faults /\ "end_lost" \notin Faults
  BY DEF SessionOK
<1>1. CASE \/ UNCHANGED <<main, step, waiting, queue, tx, config_mode>>
           \/ main' = "down"
  BY <1>1 DEF ModeOK
<1>2. CASE Beside \/ ReadsAnswer \/ Gone
  BY <1>1, <1>2 DEF Beside, ReadsAnswer, Gone
<1>3. CASE TakesAnswer \/ TimesOut
  <2>1. QuietLine' /\ UNCHANGED <<main, config_mode>> /\ waiting
    BY <1>0, <1>3, RestSteps DEF TakesAnswer, TimesOut
  <2>2. queue = <<>> /\ tx = <<>>
    BY <1>0, <1>3, <2>1 DEF TakesAnswer, TimesOut, QuietLine
  <2>3. step \in {"enable", "cmd", "end"}
    BY <1>0, <2>1, FrameFacts
  <2>4. PICK ok \in BOOLEAN : FrameDone(ok)
    BY <1>0, <1>3 DEF TakesAnswer, TimesOut, FramesOK, SlotFrame
  <2>5. /\ step' = IF step = "enable" /\ ok THEN "cmd"
                   ELSE IF step = "end" THEN "returns" ELSE "end"
        /\ ~waiting'
    BY <1>0, <2>3, <2>4, DoneTypes
  <2>6. QED
    BY <2>1, <2>2, <2>3, <2>5 DEF ModeOK
<1>4. CASE ReadReturns \/ WriteReturns \/ CalibrateReturns
  <2>1. step = "returns" /\ step' = "none" /\ config_mode' = config_mode /\ main # "down"
    BY <1>4 DEF ReadReturns, WriteReturns, CalibrateReturns, Returns
  <2>2. QED
    BY <2>1 DEF ModeOK
<1>5. CASE VisitsKey \/ Calibrates
  <2>1. /\ step = "none" /\ main \in {"write", "loop"} /\ config_mode' = config_mode
    BY <1>5 DEF VisitsKey, Calibrates
  <2>2. QED
    BY <2>1 DEF ModeOK
<1>6. CASE EntersLoop \/ LeavesLoop \/ JoinsPoller
  <2>1. /\ step' = step /\ config_mode' = config_mode
        /\ \/ step = "none" /\ main \in {"write", "loop"}
           \/ main' = "joins_reader" /\ step = "none"
    BY <1>0, <1>6 DEF EntersLoop, LeavesLoop, JoinsPoller, PlaceOK
  <2>2. QED
    BY <2>1 DEF ModeOK
<1>7. CASE Starts
  BY <1>7 DEF Starts, BeginsCall, ModeOK
<1>8. CASE Queues
  <2>1. step \in {"enable", "cmd", "end"} /\ ~waiting /\ config_mode' = config_mode
    BY <1>8 DEF Queues
  <2>2. QuietLine
    BY <1>0, <2>1, FrameFacts, RestFacts
  <2>3. Len(queue) < QueueSize
    BY <2>2, SensorAssumption DEF QuietLine
  <2>4. queue' = Append(queue, Frame) /\ step' = step
    BY <1>8, <2>3 DEF Queues
  <2>5. queue' # <<>>
    BY <2>2, <2>4 DEF QuietLine
  <2>6. QED
    BY <2>1, <2>4, <2>5 DEF ModeOK
<1>9. CASE SendsNext
  <2>1. tx' # <<>> /\ UNCHANGED <<main, step, waiting, config_mode>>
    <3>1. tx = <<>> /\ tx' = Append(tx, Head(queue))
      BY <1>0, <1>9 DEF SendsNext, ReaderRuns, LineOK
    <3>2. QED
      BY <1>9, <3>1 DEF SendsNext
  <2>2. QED
    BY <2>1 DEF ModeOK
<1>10. CASE Obeys
  <2>1. tx # <<>> /\ UNCHANGED <<main, step, waiting>>
    BY <1>10 DEF Obeys
  <2>2. CASE main # "down"
    <3>1. step \in {"enable", "cmd", "end"} /\ (step = "end" => ~config_mode')
      BY <1>0, <1>10, <2>1, <2>2, LineFacts, FrameFacts, ObeysFacts
    <3>2. QED
      BY <2>1, <3>1 DEF ModeOK
  <2>3. QED
    BY <2>1, <2>2 DEF ModeOK
<1>11. CASE Refuses \/ LosesCommand
  <2>1. /\ tx # <<>> /\ Head(tx).word # "end"
        /\ UNCHANGED <<main, step, waiting, config_mode>>
    BY <1>0, <1>11 DEF Refuses, LosesCommand, Fault
  <2>2. main # "down" => step \in {"enable", "cmd"}
    BY <1>0, <2>1, LineFacts, FrameFacts
  <2>3. QED
    BY <2>1, <2>2 DEF ModeOK
<1>12. QED
  BY <1>0, <1>2, <1>3, <1>4, <1>5, <1>6, <1>7, <1>8, <1>9, <1>10, <1>11, StepCases

-----------------------------------------------------------------------------
(* The theorems. *)

\* Unless an answer comes after main's deadline, a session that returns success
\* did what it was for, and no variable leaves its type (session.c).
THEOREM AcksMeanDone ==
  ASSUME "late" \notin Faults PROVE Spec => []SessionInv
<1>1. SessionOK => SessionInv
  BY DEF SessionOK, AcksOK, Done, SessionInv, AckMeansDone
<1>2. QED
  BY <1>1, InitSession, NextSession, PTL DEF Spec

\* Then what startup did not report as failed is what the sensor has from then
\* on, whether or not its parameters could be read (apply_sensor_params).
THEOREM StartupApplies ==
  ASSUME "late" \notin Faults PROVE Spec => []ParamsApplied
<1>1. SessionOK => ParamsApplied
  <2> SUFFICES ASSUME SessionOK, main = "loop", NEW k \in DOMAIN Wanted \ unset
               PROVE  params[k] = Wanted[k]
    BY DEF ParamsApplied
  <2>1. left = {} /\ (step # "none" => call.word = "calibrate")
    BY DEF SessionOK, PlaceOK
  <2>2. QED
    BY <2>1 DEF SessionOK, ParamsOK, AsWanted
<1>2. QED
  BY <1>1, InitSession, NextSession, PTL DEF Spec

\* If no command that ends it is lost either, no session leaves the sensor in
\* configuration mode, whatever became of its own command (session_cmd).
THEOREM ModeAlwaysLeft ==
  ASSUME Faults \cap {"late", "end_lost"} = {} PROVE Spec => []LeavesConfigMode
<1>1. "late" \notin Faults
  OBVIOUS
<1>2. ModeOK => LeavesConfigMode
  BY DEF ModeOK, LeavesConfigMode
<1>3. SessionOK /\ ModeOK /\ [Next]_vars => SessionOK' /\ ModeOK'
  BY <1>1, NextSession, NextMode
<1>4. QED
  BY <1>2, <1>3, InitSession, PTL DEF Spec
=============================================================================
