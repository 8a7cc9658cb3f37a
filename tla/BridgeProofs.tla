---------------------------- MODULE BridgeProofs ----------------------------
(***************************************************************************)
(* Proofs about dbus-mqtt-bridge with its prefix (Bridge), for any           *)
(* distances, filters, bounds and any number of lost connections.            *)
(***************************************************************************)
EXTENDS Bridge, SequenceTheorems, TLAPS

-----------------------------------------------------------------------------
(* The inductive invariants. *)

Arrival == [command : Command, retain : BOOLEAN]

\* How many commands of s would be carried out.
Live(s) == IF s # <<>> /\ s[1].retain THEN Len(s) - 1 ELSE Len(s)

\* A command delivered and not carried out yet was sent; only the first after a
\* subscription is the broker's own copy.
CommandsOK ==
  /\ done + Live(arrived) <= sent
  /\ \A i \in DOMAIN arrived : arrived[i].retain => i = 1
  /\ link = "down" => arrived = <<>>

\* A command is carried out between the call and the report of it, and the filter
\* about to be reported is in force.
FilterOK ==
  /\ pc = "call" => cmd # Idle
  /\ pc = "next" => /\ cmd.op = "set_album_filter" /\ applied = cmd.filter
                    /\ answered = [filter |-> cmd.filter, sure |-> TRUE]
  /\ pc \notin {"call", "next"} => cmd = Idle
  /\ pc # "next" => album_filter = answered.filter
  /\ pc # "next" /\ answered.sure => album_filter \in {NoFilter, applied}

\* Signals sd-bus has and those unread, in the order the bridge handles them.
Unhandled == rqueue \o socket

\* The record has occupancy and distance as the sensor measured them.
Shows(r) ==
  /\ (occupied = 1) = r.occupied
  /\ IF Measures(r)
     THEN distance_cm # -1 /\ ~Far(distance_cm, r.cm)
     ELSE distance_cm = -1

NoReport(s) == \A i \in DOMAIN s : s[i].type # "report"

\* The last report of s, if it has one, is r.
LastReport(s, r) ==
  \A i \in DOMAIN s :
    s[i].type = "report" /\ (\A j \in DOMAIN s : j > i => s[j].type # "report")
    => s[i] = r

\* What the sensor measured last is still to be handled or is on record.
OccupancyOK ==
  /\ LastReport(Unhandled, measured)
  /\ NoReport(Unhandled) /\ occupied # -1 => Shows(measured)

-----------------------------------------------------------------------------
(* Queues of signals. *)

\* A signal that arrives is the last.
LEMMA Arriving ==
  ASSUME NEW s \in Seq(Signal), NEW e \in Signal
  PROVE  /\ e.type = "report" => ~NoReport(Append(s, e)) /\ LastReport(Append(s, e), e)
         /\ e.type # "report" =>
              /\ NoReport(Append(s, e)) => NoReport(s)
              /\ \A r : LastReport(s, r) => LastReport(Append(s, e), r)
<1> DEFINE t == Append(s, e)
<1>1. /\ Len(s) \in Nat
      /\ DOMAIN s = 1 .. Len(s) /\ DOMAIN t = 1 .. Len(s) + 1
      /\ \A i \in 1 .. Len(s) : t[i] = s[i]
      /\ t[Len(s) + 1] = e
  BY AppendProperties, LenProperties
<1>2. /\ DOMAIN t = DOMAIN s \cup {Len(s) + 1}
      /\ \A i \in DOMAIN s : Len(s) + 1 > i /\ t[i] = s[i]
  BY <1>1
<1> HIDE DEF t
<1>3. e.type = "report" => ~NoReport(t) /\ LastReport(t, e)
  BY <1>1, <1>2 DEF NoReport, LastReport
<1>4. NoReport(t) => NoReport(s)
  BY <1>2 DEF NoReport
<1>5. ASSUME e.type # "report", NEW r, LastReport(s, r) PROVE LastReport(t, r)
  <2> SUFFICES ASSUME NEW i \in DOMAIN t, t[i].type = "report",
                      \A j \in DOMAIN t : j > i => t[j].type # "report"
               PROVE  t[i] = r
    BY DEF LastReport
  <2>1. i \in DOMAIN s
    BY <1>1, <1>2, <1>5
  <2>2. QED
    BY <1>2, <1>5, <2>1 DEF LastReport
<1>6. QED
  BY <1>3, <1>4, <1>5 DEF t

\* A signal taken leaves the last report, unless it was that one.
LEMMA Taking ==
  ASSUME NEW s \in Seq(Signal), s # <<>>, NEW r, LastReport(s, r)
  PROVE  /\ Head(s) \in Signal /\ Tail(s) \in Seq(Signal)
         /\ LastReport(Tail(s), r)
         /\ NoReport(Tail(s)) =>
              IF Head(s).type = "report" THEN Head(s) = r ELSE NoReport(s)
<1> DEFINE t == Tail(s)
<1>1. /\ Head(s) \in Signal /\ t \in Seq(Signal)
      /\ Len(s) \in Nat /\ Len(s) # 0 /\ Len(t) = Len(s) - 1
      /\ DOMAIN s = 1 .. Len(s) /\ DOMAIN t = 1 .. Len(s) - 1
      /\ \A i \in 1 .. Len(t) : t[i] = s[i + 1]
      /\ Head(s) = s[1]
  BY HeadTailProperties, LenProperties, EmptySeq
<1>2. /\ 1 \in DOMAIN s /\ \A i \in DOMAIN t : i + 1 \in DOMAIN s /\ t[i] = s[i + 1]
      /\ \A j \in DOMAIN s : j # 1 => j - 1 \in DOMAIN t /\ t[j - 1] = s[j] /\ j > 1
  BY <1>1
<1> HIDE DEF t
<1>3. LastReport(t, r)
  <2> SUFFICES ASSUME NEW i \in DOMAIN t, t[i].type = "report",
                      \A j \in DOMAIN t : j > i => t[j].type # "report"
               PROVE  t[i] = r
    BY DEF LastReport
  <2>1. i + 1 \in DOMAIN s /\ s[i + 1] = t[i]
    BY <1>2
  <2>2. ASSUME NEW j \in DOMAIN s, j > i + 1 PROVE s[j].type # "report"
    <3>1. j # 1 /\ j - 1 > i
      BY <1>1, <2>2
    <3>2. j - 1 \in DOMAIN t /\ t[j - 1] = s[j]
      BY <1>2, <3>1
    <3>3. QED
      BY <3>1, <3>2
  <2>3. QED
    BY <2>1, <2>2 DEF LastReport
<1>4. ASSUME NoReport(t) PROVE \A j \in DOMAIN s : j # 1 => s[j].type # "report"
  BY <1>2, <1>4 DEF NoReport
<1>5. ASSUME NoReport(t), s[1].type = "report" PROVE s[1] = r
  <2>1. \A j \in DOMAIN s : j > 1 => s[j].type # "report"
    BY <1>1, <1>4, <1>5
  <2>2. QED
    BY <1>2, <1>5, <2>1 DEF LastReport
<1>6. ASSUME NoReport(t), s[1].type # "report" PROVE NoReport(s)
  BY <1>4, <1>6 DEF NoReport
<1>7. QED
  BY <1>1, <1>3, <1>5, <1>6 DEF t

\* The queue of sd-bus and the socket are one queue.
LEMMA Queue ==
  ASSUME NEW q \in Seq(Signal), NEW s \in Seq(Signal)
  PROVE  /\ q \o s \in Seq(Signal)
         /\ q \o s = <<>> <=> q = <<>> /\ s = <<>>
         /\ \A e \in Signal : q \o Append(s, e) = Append(q \o s, e)
         /\ q # <<>> => /\ Head(q \o s) = Head(q) /\ Tail(q) \in Seq(Signal)
                        /\ Tail(q \o s) = Tail(q) \o s
         /\ q = <<>> => q \o s = s
         /\ s # <<>> => /\ Head(s) \in Signal /\ Tail(s) \in Seq(Signal)
                        /\ Append(q, Head(s)) \o Tail(s) = q \o s
<1>1. q \o s \in Seq(Signal) /\ (q \o s = <<>> <=> q = <<>> /\ s = <<>>)
  BY ConcatProperties, ConcatEqualIffEmpty
<1>2. ASSUME NEW e \in Signal PROVE q \o Append(s, e) = Append(q \o s, e)
  <2>1. <<e>> \in Seq(Signal)
    OBVIOUS
  <2>2. Append(s, e) = s \o <<e>> /\ Append(q \o s, e) = (q \o s) \o <<e>>
    BY <1>1, AppendIsConcat
  <2>3. (q \o s) \o <<e>> = q \o (s \o <<e>>)
    BY <2>1, ConcatAssociative
  <2>4. QED
    BY <2>2, <2>3
<1>3. ASSUME q # <<>>
      PROVE  /\ Head(q \o s) = Head(q) /\ Tail(q) \in Seq(Signal)
             /\ Tail(q \o s) = Tail(q) \o s
  <2>1. /\ q \o s # <<>> /\ Len(q) \in Nat /\ Len(q) >= 1 /\ Len(s) \in Nat
        /\ Tail(q) \in Seq(Signal) /\ Len(Tail(q)) = Len(q) - 1
        /\ \A i \in 1 .. Len(q) - 1 : Tail(q)[i] = q[i + 1]
    BY <1>1, <1>3, EmptySeq, LenProperties, HeadTailProperties
  <2>2. /\ Len(q \o s) = Len(q) + Len(s)
        /\ \A i \in 1 .. Len(q) + Len(s) :
             (q \o s)[i] = IF i <= Len(q) THEN q[i] ELSE s[i - Len(q)]
    BY ConcatProperties
  <2>3. /\ Tail(q \o s) \in Seq(Signal) /\ Len(Tail(q \o s)) = Len(q) + Len(s) - 1
        /\ \A i \in 1 .. Len(q) + Len(s) - 1 : Tail(q \o s)[i] = (q \o s)[i + 1]
    BY <1>1, <2>1, <2>2, HeadTailProperties
  <2>4. /\ Tail(q) \o s \in Seq(Signal)
        /\ Len(Tail(q) \o s) = Len(q) - 1 + Len(s)
        /\ \A i \in 1 .. Len(q) - 1 + Len(s) :
             (Tail(q) \o s)[i] =
               IF i <= Len(q) - 1 THEN Tail(q)[i] ELSE s[i - (Len(q) - 1)]
    BY <2>1, ConcatProperties
  <2>5. ASSUME NEW i \in 1 .. Len(q) + Len(s) - 1
        PROVE  Tail(q \o s)[i] = (Tail(q) \o s)[i]
    <3>1. Tail(q \o s)[i] = (q \o s)[i + 1] /\ i + 1 \in 1 .. Len(q) + Len(s)
      BY <2>1, <2>3
    <3>2. CASE i <= Len(q) - 1
      <4>1. i \in 1 .. Len(q) - 1 /\ i + 1 <= Len(q) /\ i \in 1 .. Len(q) - 1 + Len(s)
        BY <2>1, <3>2
      <4>2. QED
        BY <2>1, <2>2, <2>4, <3>1, <4>1
    <3>3. CASE ~(i <= Len(q) - 1)
      <4>1. /\ ~(i + 1 <= Len(q)) /\ i + 1 - Len(q) = i - (Len(q) - 1)
            /\ i \in 1 .. Len(q) - 1 + Len(s)
        BY <2>1, <3>3
      <4>2. QED
        BY <2>2, <2>4, <3>1, <3>3, <4>1
    <3>4. QED
      BY <3>2, <3>3
  <2>6. Tail(q \o s) = Tail(q) \o s
    <3>1. Len(Tail(q \o s)) = Len(Tail(q) \o s)
      BY <2>1, <2>3, <2>4
    <3>2. QED
      BY <2>3, <2>4, <2>5, <3>1, SeqEqual
  <2>7. Head(q \o s) = Head(q)
    <3>1. Head(q) = q[1] /\ Head(q \o s) = (q \o s)[1]
      BY <1>1, <2>1
    <3>2. QED
      BY <2>1, <2>2, <3>1
  <2>8. QED
    BY <2>1, <2>6, <2>7
<1>4. q = <<>> => q \o s = s
  BY ConcatEmptySeq
<1>5. ASSUME s # <<>>
      PROVE  /\ Head(s) \in Signal /\ Tail(s) \in Seq(Signal)
             /\ Append(q, Head(s)) \o Tail(s) = q \o s
  <2>1. Head(s) \in Signal /\ Tail(s) \in Seq(Signal)
    BY <1>5, HeadTailProperties
  <2>2. <<Head(s)>> \in Seq(Signal)
    BY <2>1
  <2>3. s = <<Head(s)>> \o Tail(s)
    BY <1>5, HeadTailProperties
  <2>4. Append(q, Head(s)) = q \o <<Head(s)>>
    BY <2>1, AppendIsConcat
  <2>5. (q \o <<Head(s)>>) \o Tail(s) = q \o (<<Head(s)>> \o Tail(s))
    BY <2>1, <2>2, ConcatAssociative
  <2>6. QED
    BY <2>1, <2>3, <2>4, <2>5
<1>6. QED
  BY <1>1, <1>2, <1>3, <1>4, <1>5

-----------------------------------------------------------------------------
(* What the handlers do to the record. *)

\* Publishing keeps the record last published and the one at the broker records.
LEMMA PublishTypes ==
  ASSUME TypeOK, Current' \in Record, Publish
  PROVE  /\ last_published' \in Record \cup {Unpublished}
         /\ retained' \in Record \cup {Unpublished}
         /\ lost' \in BOOLEAN
<1>1. CASE UNCHANGED <<last_published, retained, lost>>
  BY <1>1 DEF TypeOK
<1>2. CASE /\ last_published' = Current'
           /\ retained' = IF link = "up" THEN Current' ELSE retained
           /\ lost' = (link = "cut")
  BY <1>2 DEF TypeOK
<1>3. QED
  BY <1>1, <1>2 DEF Publish

\* What is measured are numbers of centimetres.
LEMMA ReportFacts ==
  /\ Report \subseteq Signal /\ DisplayingPhoto \in Signal
  /\ \A r \in Signal : r.type = "report" <=> r \in Report
  /\ DisplayingPhoto.type = "photo"
  /\ \A r \in Report : /\ r.occupied \in BOOLEAN /\ r.cm \in Int
                       /\ r.occupied => r.cm \in Distance
<1>1. DisplayingPhoto.type = "photo" /\ DisplayingPhoto \in Signal /\ Report \subseteq Signal
  BY DEF DisplayingPhoto, Signal
<1>2. ASSUME NEW r \in Report
      PROVE  /\ r.type = "report" /\ r.occupied \in BOOLEAN /\ r.cm \in Int
             /\ r.occupied => r.cm \in Distance
  <2>1. CASE r = [type |-> "report", occupied |-> FALSE, cm |-> 0]
    BY <2>1
  <2>2. CASE \E d \in Distance : r = [type |-> "report", occupied |-> TRUE, cm |-> d]
    BY <2>2, DistanceAssumption
  <2>3. QED
    BY <2>1, <2>2 DEF Report
<1>3. ASSUME NEW r \in Signal, r.type = "report" PROVE r \in Report
  BY <1>1, <1>3 DEF Signal
<1>4. QED
  BY <1>1, <1>2, <1>3

\* A report handled leaves a record that shows it.
LEMMA OccupancySet ==
  ASSUME TypeOK, NEW r \in Report, SetOccupancy(r)
  PROVE  /\ Current' \in Record /\ album_filter' = album_filter
         /\ last_published' \in Record \cup {Unpublished}
         /\ retained' \in Record \cup {Unpublished}
         /\ lost' \in BOOLEAN
         /\ Shows(r)'
<1>1. /\ occupied' = IF r.occupied THEN 1 ELSE 0
      /\ distance_cm' = IF Measures(r) THEN Moved(r.cm) ELSE -1
      /\ album_filter' = album_filter
      /\ Publish
  BY DEF SetOccupancy
<1>2. /\ occupied \in Tri /\ album_filter \in Filter \cup {NoFilter}
      /\ distance_cm \in (Distance \ {0}) \cup {-1}
  BY DEF TypeOK, Current, Record
<1>3. occupied' \in Tri
  BY <1>1 DEF Tri
<1>4. /\ distance_cm' \in (Distance \ {0}) \cup {-1}
      /\ IF Measures(r)
         THEN distance_cm' # -1 /\ ~Far(distance_cm', r.cm)
         ELSE distance_cm' = -1
  <2>1. CASE ~Measures(r)
    BY <1>1, <2>1
  <2>2. CASE Measures(r)
    <3>1. r.cm \in Distance \ {0} /\ r.cm \in Nat /\ distance_cm' = Moved(r.cm)
      BY <1>1, <2>2, ReportFacts, DistanceAssumption DEF Measures
    <3>2. CASE distance_cm < 0 \/ Far(r.cm, distance_cm)
      <4>1. distance_cm' = r.cm
        BY <3>1, <3>2 DEF Moved
      <4>2. ~Far(r.cm, r.cm) /\ r.cm # -1
        BY <3>1 DEF Far, DISTANCE_STEP_CM
      <4>3. QED
        BY <2>2, <3>1, <4>1, <4>2
    <3>3. CASE ~(distance_cm < 0 \/ Far(r.cm, distance_cm))
      <4>1. distance_cm' = distance_cm
        BY <3>1, <3>3 DEF Moved
      <4>2. distance_cm # -1 /\ ~Far(distance_cm, r.cm)
        BY <3>3 DEF Far
      <4>3. QED
        BY <1>2, <2>2, <4>1, <4>2
    <3>4. QED
      BY <3>2, <3>3
  <2>3. QED
    BY <2>1, <2>2
<1>5. Current' \in Record
  BY <1>1, <1>2, <1>3, <1>4 DEF Current, Record
<1>6. (occupied' = 1) = r.occupied
  BY <1>1, ReportFacts
<1>7. QED
  BY <1>1, <1>4, <1>5, <1>6, PublishTypes DEF Shows

\* Taking a signal takes the first of those unhandled.
LEMMA TakesFacts ==
  ASSUME TypeOK, Takes
  PROVE  /\ Unhandled \in Seq(Signal) /\ Unhandled # <<>>
         /\ Taken = Head(Unhandled) /\ Taken \in Signal
         /\ Unhandled' = Tail(Unhandled)
         /\ socket' \in Seq(Signal) /\ rqueue' \in Seq(Signal)
<1>1. /\ rqueue \in Seq(Signal) /\ socket \in Seq(Signal)
      /\ Unhandled # <<>>
      /\ IF rqueue # <<>> THEN rqueue' = Tail(rqueue) /\ UNCHANGED socket
                          ELSE socket' = Tail(socket) /\ UNCHANGED rqueue
  BY DEF TypeOK, Takes, Unhandled
<1>2. Unhandled \in Seq(Signal) /\ Taken = Head(Unhandled)
  BY <1>1, Queue DEF Unhandled, Taken
<1>3. CASE rqueue # <<>>
  <2>1. rqueue' = Tail(rqueue) /\ socket' = socket
    BY <1>1, <1>3
  <2>2. Tail(rqueue) \in Seq(Signal) /\ Tail(rqueue \o socket) = Tail(rqueue) \o socket
    BY <1>1, <1>3, Queue
  <2>3. QED
    BY <1>1, <1>2, <2>1, <2>2, HeadTailProperties DEF Unhandled
<1>4. CASE rqueue = <<>>
  <2>1. socket' = Tail(socket) /\ rqueue' = <<>> /\ Unhandled = socket
    BY <1>1, <1>4, Queue DEF Unhandled
  <2>2. socket # <<>> /\ Tail(socket) \in Seq(Signal)
    BY <1>1, <2>1, HeadTailProperties
  <2>3. Unhandled' = Tail(socket)
    BY <2>1, <2>2, ConcatEmptySeq DEF Unhandled
  <2>4. QED
    BY <1>1, <1>2, <2>1, <2>2, <2>3, HeadTailProperties
<1>5. QED
  BY <1>3, <1>4

-----------------------------------------------------------------------------
(* Types. *)

LEMMA ShortQueues == \A S : <<>> \in Seq(S) /\ \A x \in S : <<x>> \in Seq(S)
  OBVIOUS

LEMMA InitTypes == Init => TypeOK
<1> SUFFICES ASSUME Init PROVE TypeOK
  OBVIOUS
<1>1. socket \in Seq(Signal) /\ rqueue \in Seq(Signal) /\ measured \in Report
  <2>1. measured \in Signal /\ DisplayingPhoto \in Signal
    BY ReportFacts DEF Init
  <2>2. QED
    BY <2>1, ShortQueues DEF Init
<1>2. applied \in Filter
  BY FilterAssumption DEF Init
<1>3. Current \in Record
  BY DEF Init, Current, Record, Tri
<1>4. QED
  <2>1. cuts \in 0 .. MaxCuts /\ sent \in 0 .. MaxCommands /\ done \in Nat
    BY BoundAssumption DEF Init
  <2>2. arrived \in Seq([command : Command, retain : BOOLEAN])
    BY ShortQueues DEF Init
  <2>3. QED
    BY <1>1, <1>2, <1>3, <2>1, <2>2 DEF Init, TypeOK

\* Publishing the record as it is.
LEMMA Republish ==
  ASSUME TypeOK, UNCHANGED <<occupied, distance_cm, album_filter>>
  PROVE  Current' = Current /\ Current' \in Record
  BY DEF TypeOK, Current

LEMMA CommandFacts ==
  /\ Idle \notin Command /\ Idle.op = "none" /\ Idle.filter = NoFilter
  /\ \A c \in Command \cup {Idle} :
       /\ c.filter \in Filter \cup {NoFilter}
       /\ c.op = "set_album_filter" => c.filter \in Filter
       /\ c.op # "none" <=> c # Idle
  BY DEF Command, Idle

LEMMA NextTypes == TypeOK /\ [Next]_vars => TypeOK'
<1> SUFFICES ASSUME TypeOK, [Next]_vars PROVE TypeOK'
  OBVIOUS
<1> USE DEF stateVars
<1>1. CASE UNCHANGED vars
  BY <1>1 DEF TypeOK, vars, busVars, netVars, Current
<1>2. ASSUME UNCHANGED <<busVars, cmd, stateVars, netVars, retained, lost, answered, sent, done>>,
             pc' \in {"poll", "drain", "mqtt", "call", "next", "misc", "wifi"}
      PROVE  TypeOK'
  BY <1>2, Republish DEF TypeOK, busVars, netVars
<1>3. CASE Wakes \/ Drained \/ NothingArrived \/ MiscIdles \/ WifiNotDue
  BY <1>2, <1>3 DEF Wakes, Drained, NothingArrived, MiscIdles, WifiNotDue
<1>4. CASE HandlesReport \/ HandlesPhoto
  <2>1. /\ socket' \in Seq(Signal) /\ rqueue' \in Seq(Signal)
        /\ UNCHANGED <<measured, applied, pc, cmd, netVars, answered, sent, done>>
        /\ Taken \in Signal
    BY <1>4, TakesFacts DEF HandlesReport, HandlesPhoto, Takes
  <2>2. /\ Current' \in Record
        /\ last_published' \in Record \cup {Unpublished}
        /\ retained' \in Record \cup {Unpublished}
        /\ lost' \in BOOLEAN
    <3>1. CASE HandlesReport
      BY <2>1, <3>1, ReportFacts, OccupancySet DEF HandlesReport
    <3>2. CASE HandlesPhoto
      BY <3>2, Republish DEF HandlesPhoto, TypeOK
    <3>3. QED
      BY <1>4, <3>1, <3>2
  <2>3. QED
    BY <2>1, <2>2 DEF TypeOK, netVars
<1>5. CASE IgnoresCommand \/ BeginsCommand
  <2>1. /\ arrived # <<>> /\ arrived' = Tail(arrived)
        /\ UNCHANGED <<busVars, stateVars, link, standing, cuts, retained, lost, answered, sent>>
        /\ \/ pc' = "misc" /\ UNCHANGED <<cmd, done>>
           \/ pc' = "call" /\ cmd' = Head(arrived).command /\ done' = done + 1
    BY <1>5 DEF IgnoresCommand, BeginsCommand, ReadsCommand
  <2>2. /\ Tail(arrived) \in Seq([command : Command, retain : BOOLEAN])
        /\ Head(arrived) \in [command : Command, retain : BOOLEAN]
    BY <2>1, HeadTailProperties DEF TypeOK
  <2>3. cmd' \in Command \cup {Idle} /\ done' \in Nat
        /\ pc' \in {"poll", "drain", "mqtt", "call", "next", "misc", "wifi"}
    BY <2>1, <2>2 DEF TypeOK
  <2>4. QED
    BY <2>1, <2>2, <2>3, Republish DEF TypeOK, busVars
<1>6. CASE QueuesSignal
  <2>1. rqueue' \in Seq(Signal) /\ socket' \in Seq(Signal)
    BY <1>6, AppendProperties, HeadTailProperties DEF TypeOK, QueuesSignal
  <2>2. QED
    BY <1>6, <2>1, Republish DEF TypeOK, QueuesSignal, netVars
<1>7. CASE CallReturns \/ FilterRejected
  <2>1. /\ pc' = "misc" /\ cmd' = Idle
        /\ UNCHANGED <<busVars, stateVars, netVars, retained, lost, answered, sent, done>>
    BY <1>7 DEF CallReturns, FilterRejected, Returns
  <2>2. QED
    BY <2>1, Republish DEF TypeOK, busVars, netVars
<1>8. CASE FilterAccepted \/ FilterTimesOut
  <2>0. answered' \in [filter : Filter \cup {NoFilter}, sure : BOOLEAN]
    <3>1. CASE FilterAccepted
      <4>1. cmd.filter \in Filter \cup {NoFilter}
        BY CommandFacts DEF TypeOK
      <4>2. QED
        BY <3>1, <4>1 DEF FilterAccepted
    <3>2. CASE FilterTimesOut
      <4>1. /\ answered' = [answered EXCEPT !.sure = FALSE]
            /\ answered \in [filter : Filter \cup {NoFilter}, sure : BOOLEAN]
        BY <3>2 DEF FilterTimesOut, TypeOK
      <4>2. QED
        BY <4>1
    <3>3. QED
      BY <1>8, <3>1, <3>2
  <2>1. /\ cmd.op = "set_album_filter"
        /\ applied' \in {applied, InForce(cmd.filter)}
        /\ pc' \in {"next", "misc"} /\ cmd' \in {cmd, Idle}
        /\ UNCHANGED <<socket, rqueue, measured, stateVars, netVars, retained, lost, sent, done>>
    BY <1>8 DEF FilterAccepted, FilterTimesOut, Returns
  <2>2. applied' \in Filter
    BY <2>1, CommandFacts DEF TypeOK, InForce
  <2>3. QED
    BY <2>0, <2>1, <2>2, Republish DEF TypeOK, netVars
<1>9. CASE FilterReported
  <2>1. /\ SetAlbumFilter(cmd.filter) /\ Returns
        /\ UNCHANGED <<busVars, netVars, answered, sent, done>>
    BY <1>9 DEF FilterReported
  <2>2. Current' \in Record
    BY <2>1, CommandFacts DEF TypeOK, SetAlbumFilter, Current, Record
  <2>3. /\ last_published' \in Record \cup {Unpublished}
        /\ retained' \in Record \cup {Unpublished} /\ lost' \in BOOLEAN
    BY <2>1, <2>2, PublishTypes DEF SetAlbumFilter
  <2>4. QED
    BY <2>1, <2>2, <2>3 DEF TypeOK, Returns, busVars, netVars
<1>10. CASE NoticesCut \/ Reconnects
  <2>1. /\ link' \in {"up", "down"} /\ pc' = "wifi"
        /\ \/ arrived' = <<>>
           \/ standing # Idle /\ arrived' = <<[command |-> standing, retain |-> TRUE]>>
        /\ UNCHANGED <<busVars, cmd, stateVars, standing, cuts, retained, lost, answered, sent, done>>
    BY <1>10 DEF NoticesCut, Reconnects
  <2>2. arrived' \in Seq([command : Command, retain : BOOLEAN])
    <3>1. CASE standing # Idle /\ arrived' = <<[command |-> standing, retain |-> TRUE]>>
      <4>1. [command |-> standing, retain |-> TRUE] \in [command : Command, retain : BOOLEAN]
        BY <3>1 DEF TypeOK
      <4>2. QED
        BY <3>1, <4>1, ShortQueues
    <3>2. QED
      BY <2>1, <3>1, ShortQueues
  <2>3. QED
    BY <2>1, <2>2, Republish DEF TypeOK, busVars
<1>11. CASE PollsWifi
  <2>1. /\ Publish /\ UNCHANGED <<occupied, distance_cm, album_filter>> /\ pc' = "poll"
        /\ UNCHANGED <<busVars, cmd, netVars, answered, sent, done>>
    BY <1>11 DEF PollsWifi
  <2>2. QED
    BY <2>1, Republish, PublishTypes DEF TypeOK, busVars, netVars
<1>12. CASE Reports \/ Displays
  <2>1. PICK e \in Signal :
          /\ measured' \in Report /\ socket' = Append(socket, e)
          /\ UNCHANGED <<rqueue, applied, pc, cmd, stateVars, netVars, retained, lost, answered, sent, done>>
    BY <1>12, ReportFacts DEF Reports, Displays, Arrives, TypeOK
  <2>2. socket' \in Seq(Signal)
    BY <2>1, AppendProperties DEF TypeOK
  <2>3. QED
    BY <2>1, <2>2, Republish DEF TypeOK, netVars
<1>13. CASE Cut
  <2>1. PICK n \in 0 .. Len(arrived) : arrived' = SubSeq(arrived, 1, n)
    BY <1>13 DEF Cut
  <2>2. Len(arrived) \in Nat
    BY LenProperties DEF TypeOK
  <2>3. arrived' \in Seq([command : Command, retain : BOOLEAN])
    <3>1. \A i \in 1 .. n : arrived[i] \in [command : Command, retain : BOOLEAN]
      <4>1. \A i \in 1 .. n : i \in 1 .. Len(arrived)
        BY <2>1, <2>2
      <4>2. QED
        BY <4>1, ElementOfSeq DEF TypeOK
    <3>2. QED
      BY <2>1, <2>2, <3>1, SubSeqProperties
  <2>4. cuts' \in 0 .. MaxCuts
    BY <1>13, BoundAssumption DEF Cut, TypeOK
  <2>5. QED
    BY <1>13, <2>3, <2>4, Republish DEF Cut, TypeOK, busVars
<1>14. CASE \E c \in Command, retain \in BOOLEAN : SendsCommand(c, retain)
  <2>1. PICK c \in Command, retain \in BOOLEAN : SendsCommand(c, retain)
    BY <1>14
  <2>2. arrived' \in Seq([command : Command, retain : BOOLEAN])
    BY <2>1, AppendProperties DEF SendsCommand, TypeOK
  <2>3. sent' \in 0 .. MaxCommands /\ standing' \in Command \cup {Idle}
    BY <2>1, BoundAssumption DEF SendsCommand, TypeOK
  <2>4. QED
    BY <2>1, <2>2, <2>3, Republish DEF SendsCommand, TypeOK, busVars
<1>15. QED
  BY <1>1, <1>3, <1>4, <1>5, <1>6, <1>7, <1>8, <1>9, <1>10, <1>11, <1>12,
     <1>13, <1>14 DEF Next, BridgeStep

-----------------------------------------------------------------------------
(* Commands. *)

\* A queue whose first is the broker's copy counts for one less.
LEMMA LiveFacts ==
  ASSUME NEW s \in Seq(Arrival)
  PROVE  /\ Len(s) \in Nat /\ Live(s) \in Nat
         /\ s = <<>> => Live(s) = 0
         /\ ~(s # <<>> /\ s[1].retain) => Live(s) = Len(s)
         /\ s # <<>> /\ s[1].retain => Live(s) = Len(s) - 1
<1>1. Len(s) \in Nat /\ (s # <<>> => Len(s) # 0) /\ (s = <<>> => Len(s) = 0)
  BY LenProperties, EmptySeq
<1>2. QED
  BY <1>1 DEF Live

LEMMA NextCommands == TypeOK /\ CommandsOK /\ [Next]_vars => CommandsOK'
<1> SUFFICES ASSUME TypeOK, CommandsOK, [Next]_vars PROVE CommandsOK'
  OBVIOUS
<1>1. /\ arrived \in Seq(Arrival) /\ Len(arrived) \in Nat /\ Live(arrived) \in Nat
      /\ DOMAIN arrived = 1 .. Len(arrived)
      /\ done \in Nat /\ sent \in Nat
      /\ done + Live(arrived) <= sent
      /\ \A i \in DOMAIN arrived : arrived[i].retain => i = 1
      /\ link = "down" => arrived = <<>>
  <2>1. arrived \in Seq(Arrival) /\ done \in Nat /\ sent \in Nat
    BY BoundAssumption DEF TypeOK, Arrival
  <2>2. QED
    BY <2>1, LiveFacts, LenProperties DEF CommandsOK
<1>2. CASE UNCHANGED <<netVars, sent, done>>
  BY <1>2 DEF CommandsOK, netVars
<1>3. CASE IgnoresCommand \/ BeginsCommand
  <2>1. /\ arrived # <<>> /\ arrived' = Tail(arrived) /\ UNCHANGED <<link, sent>>
        /\ \/ done' = done
           \/ done' = done + 1 /\ ~Head(arrived).retain
    BY <1>3 DEF IgnoresCommand, BeginsCommand, ReadsCommand
  <2>2. /\ Tail(arrived) \in Seq(Arrival) /\ Len(Tail(arrived)) = Len(arrived) - 1
        /\ \A i \in 1 .. Len(Tail(arrived)) : Tail(arrived)[i] = arrived[i + 1]
        /\ Head(arrived) = arrived[1]
    BY <1>1, <2>1, HeadTailProperties
  <2>3. /\ DOMAIN arrived' = 1 .. Len(arrived) - 1
        /\ \A i \in DOMAIN arrived' : ~arrived'[i].retain
    <3>1. DOMAIN arrived' = 1 .. Len(arrived) - 1
      BY <1>1, <2>1, <2>2, LenProperties
    <3>2. ASSUME NEW i \in 1 .. Len(arrived) - 1 PROVE ~arrived'[i].retain
      <4>1. i + 1 \in DOMAIN arrived /\ i + 1 # 1 /\ arrived'[i] = arrived[i + 1]
        BY <1>1, <2>1, <2>2
      <4>2. QED
        BY <1>1, <4>1
    <3>3. QED
      BY <3>1, <3>2
  <2>4. Live(arrived') = Len(arrived) - 1
    <3>1. arrived' # <<>> => 1 \in DOMAIN arrived'
      <4>1. arrived' # <<>> => Len(arrived') # 0
        BY <2>1, <2>2, EmptySeq
      <4>2. QED
        BY <1>1, <2>1, <2>2, <2>3, <4>1
    <3>2. QED
      BY <2>1, <2>2, <2>3, <3>1, LiveFacts
  <2>5. Live(arrived) = IF arrived[1].retain THEN Len(arrived) - 1 ELSE Len(arrived)
    BY <1>1, <2>1, LiveFacts
  <2>6. done' + Live(arrived') <= sent'
    BY <1>1, <2>1, <2>2, <2>4, <2>5
  <2>7. link' = "down" => arrived' = <<>>
    BY <1>1, <2>1
  <2>8. QED
    BY <2>3, <2>6, <2>7 DEF CommandsOK
<1>4. CASE NoticesCut
  <2>1. arrived' = <<>> /\ UNCHANGED <<sent, done>>
    BY <1>4 DEF NoticesCut
  <2>2. Live(<<>>) = 0 /\ DOMAIN <<>> = {}
    BY DEF Live
  <2>3. QED
    BY <1>1, <2>1, <2>2 DEF CommandsOK
<1>5. CASE Reconnects
  <2>1. /\ link' = "up" /\ UNCHANGED <<sent, done>>
        /\ \/ arrived' = <<>>
           \/ arrived' = <<[command |-> standing, retain |-> TRUE]>> /\ standing # Idle
    BY <1>5 DEF Reconnects
  <2>2. /\ Live(arrived') = 0 /\ \A i \in DOMAIN arrived' : i = 1
    <3>1. CASE arrived' = <<>>
      <4>1. Live(<<>>) = 0 /\ DOMAIN <<>> = {}
        BY DEF Live
      <4>2. QED
        BY <3>1, <4>1
    <3>2. CASE arrived' = <<[command |-> standing, retain |-> TRUE]>> /\ standing # Idle
      <4>1. arrived' # <<>> /\ Len(arrived') = 1 /\ DOMAIN arrived' = {1} /\ arrived'[1].retain
        BY <3>2
      <4>2. QED
        BY <4>1 DEF Live
    <3>3. QED
      BY <2>1, <3>1, <3>2
  <2>3. QED
    BY <1>1, <2>1, <2>2 DEF CommandsOK
<1>6. CASE Cut
  <2>1. PICK n \in 0 .. Len(arrived) : arrived' = SubSeq(arrived, 1, n)
    BY <1>6 DEF Cut
  <2>2. \A i \in 1 .. n : i \in 1 .. Len(arrived) /\ arrived[i] \in Arrival
    <3>1. \A i \in 1 .. n : i \in 1 .. Len(arrived)
      BY <1>1, <2>1
    <3>2. QED
      BY <1>1, <3>1, ElementOfSeq
  <2>3. /\ arrived' \in Seq(Arrival) /\ Len(arrived') = n
        /\ \A i \in 1 .. n : arrived'[i] = arrived[i]
    BY <1>1, <2>1, <2>2, SubSeqProperties
  <2>4. DOMAIN arrived' = 1 .. n /\ \A i \in DOMAIN arrived' : arrived'[i].retain => i = 1
    BY <1>1, <2>2, <2>3, LenProperties
  <2>5. Live(arrived') <= Live(arrived)
    <3>1. CASE n = 0
      <4>1. arrived' = <<>>
        BY <2>3, <3>1, EmptySeq
      <4>2. Live(arrived') = 0
        BY <4>1 DEF Live
      <4>3. QED
        BY <1>1, <4>2
    <3>2. CASE n # 0
      <4>1. arrived' # <<>> /\ arrived # <<>> /\ arrived'[1] = arrived[1] /\ n <= Len(arrived)
        BY <1>1, <2>1, <2>3, <3>2, EmptySeq
      <4>2. /\ Live(arrived) = IF arrived[1].retain THEN Len(arrived) - 1 ELSE Len(arrived)
            /\ Live(arrived') = IF arrived[1].retain THEN n - 1 ELSE n
        BY <1>1, <2>3, <4>1, LiveFacts
      <4>3. QED
        BY <1>1, <2>1, <4>1, <4>2
    <3>3. QED
      BY <3>1, <3>2
  <2>6. UNCHANGED <<sent, done>> /\ link' = "cut"
    BY <1>6 DEF Cut
  <2>7. done' + Live(arrived') <= sent'
    BY <1>1, <2>3, <2>5, <2>6, LiveFacts
  <2>8. QED
    BY <2>4, <2>6, <2>7 DEF CommandsOK
<1>7. CASE \E c \in Command, retain \in BOOLEAN : SendsCommand(c, retain)
  <2>1. PICK c \in Command, retain \in BOOLEAN : SendsCommand(c, retain)
    BY <1>7
  <2>2. UNCHANGED <<link, done>> /\ sent' = sent + 1
    BY <2>1 DEF SendsCommand
  <2>3. CASE link # "up"
    <3>1. arrived' = arrived
      BY <2>1, <2>3 DEF SendsCommand
    <3>2. QED
      BY <1>1, <2>2, <3>1 DEF CommandsOK
  <2>4. CASE link = "up"
    <3> DEFINE e == [command |-> c, retain |-> FALSE]
    <3>1. arrived' = Append(arrived, e) /\ e \in Arrival /\ ~e.retain
      BY <2>1, <2>4 DEF SendsCommand, Arrival
    <3> HIDE DEF e
    <3>2. /\ arrived' \in Seq(Arrival) /\ arrived' # <<>> /\ Len(arrived') = Len(arrived) + 1
          /\ \A i \in 1 .. Len(arrived) : arrived'[i] = arrived[i]
          /\ arrived'[Len(arrived) + 1] = e
      BY <1>1, <3>1, AppendProperties
    <3>3. DOMAIN arrived' = DOMAIN arrived \cup {Len(arrived) + 1}
      BY <1>1, <3>2, LenProperties
    <3>4. \A i \in DOMAIN arrived' : arrived'[i].retain => i = 1
      BY <1>1, <3>1, <3>2, <3>3
    <3>5. Live(arrived') = Live(arrived) + 1
      <4>1. CASE arrived = <<>>
        <5>1. Len(arrived) = 0 /\ arrived'[1] = e
          BY <3>2, <4>1, EmptySeq
        <5>2. QED
          BY <1>1, <3>1, <3>2, <4>1, <5>1, LiveFacts
      <4>2. CASE arrived # <<>>
        <5>1. arrived'[1] = arrived[1]
          BY <1>1, <3>2, <4>2, EmptySeq
        <5>2. QED
          BY <1>1, <3>2, <4>2, <5>1, LiveFacts
      <4>3. QED
        BY <4>1, <4>2
    <3>6. done' + Live(arrived') <= sent'
      BY <1>1, <2>2, <3>5
    <3>7. QED
      BY <2>2, <2>4, <3>4, <3>6 DEF CommandsOK
  <2>5. QED
    BY <2>3, <2>4
<1>8. UNCHANGED <<netVars, sent, done>> \/ IgnoresCommand \/ BeginsCommand
      \/ NoticesCut \/ Reconnects \/ Cut
      \/ \E c \in Command, retain \in BOOLEAN : SendsCommand(c, retain)
  BY DEF Next, BridgeStep, vars, Wakes, HandlesReport, HandlesPhoto, Takes, Drained,
         NothingArrived, QueuesSignal, CallReturns, FilterAccepted, FilterRejected,
         FilterTimesOut, FilterReported, MiscIdles, PollsWifi, WifiNotDue,
         Reports, Displays, Arrives
<1>9. QED
  BY <1>2, <1>3, <1>4, <1>5, <1>6, <1>7, <1>8

-----------------------------------------------------------------------------
(* The album filter. *)

\* With immich a filter accepted is the one in force until it is reported.
LEMMA NextFilter ==
  ASSUME Backend = "immich", TypeOK, FilterOK, [Next]_vars PROVE FilterOK'
<1>1. CASE UNCHANGED <<applied, pc, cmd, album_filter, answered>>
  BY <1>1 DEF FilterOK
<1>2. ASSUME pc \notin {"call", "next"}, pc' \notin {"call", "next"},
             UNCHANGED <<applied, cmd, album_filter, answered>>
      PROVE  FilterOK'
  BY <1>2 DEF FilterOK
<1>3. CASE Wakes \/ Drained \/ NothingArrived \/ IgnoresCommand
           \/ NoticesCut \/ Reconnects \/ MiscIdles \/ PollsWifi \/ WifiNotDue
  BY <1>2, <1>3 DEF Wakes, Drained, NothingArrived, IgnoresCommand, ReadsCommand, NoticesCut,
                    Reconnects, MiscIdles, PollsWifi, WifiNotDue, busVars, stateVars
<1>4. CASE HandlesReport \/ HandlesPhoto
  BY <1>1, <1>4 DEF HandlesReport, HandlesPhoto, Takes, SetOccupancy, stateVars
<1>5. CASE QueuesSignal
  BY <1>1, <1>5 DEF QueuesSignal, stateVars
<1>6. CASE Reports \/ Displays \/ Cut
           \/ \E c \in Command, retain \in BOOLEAN : SendsCommand(c, retain)
  BY <1>1, <1>6 DEF Reports, Displays, Arrives, Cut, SendsCommand, busVars, stateVars
<1>7. CASE BeginsCommand
  <2>1. Head(arrived) \in [command : Command, retain : BOOLEAN]
    BY <1>7, HeadTailProperties DEF BeginsCommand, ReadsCommand, TypeOK
  <2>2. cmd' # Idle /\ pc' = "call" /\ pc = "mqtt" /\ UNCHANGED <<applied, album_filter, answered>>
    BY <1>7, <2>1, CommandFacts
       DEF BeginsCommand, ReadsCommand, busVars, stateVars
  <2>3. QED
    BY <2>2 DEF FilterOK
<1>8. CASE CallReturns \/ FilterRejected
  BY <1>8 DEF CallReturns, FilterRejected, Returns, FilterOK, busVars, stateVars
<1>9. CASE FilterAccepted
  <2>1. /\ cmd.op = "set_album_filter" /\ applied' = cmd.filter
        /\ answered' = [filter |-> cmd.filter, sure |-> TRUE]
        /\ pc' = "next" /\ cmd' = cmd
    BY <1>9 DEF FilterAccepted, InForce
  <2>2. QED
    BY <2>1 DEF FilterOK
<1>10. CASE FilterTimesOut
  <2>1. /\ pc = "call" /\ pc' = "misc" /\ cmd' = Idle
        /\ album_filter' = album_filter
        /\ answered' = [answered EXCEPT !.sure = FALSE]
    BY <1>10 DEF FilterTimesOut, Returns, stateVars
  <2>2. answered'.filter = answered.filter /\ answered'.sure = FALSE
    BY <2>1 DEF TypeOK
  <2>3. QED
    BY <2>1, <2>2 DEF FilterOK
<1>11. CASE FilterReported
  <2>1. /\ album_filter' = cmd.filter /\ pc = "next" /\ pc' = "misc" /\ cmd' = Idle
        /\ UNCHANGED <<applied, answered>>
    BY <1>11 DEF FilterReported, SetAlbumFilter, Returns, busVars
  <2>2. QED
    BY <2>1 DEF FilterOK
<1>12. CASE UNCHANGED vars
  BY <1>1, <1>12 DEF vars, busVars, stateVars
<1>13. QED
  BY <1>3, <1>4, <1>5, <1>6, <1>7, <1>8, <1>9, <1>10, <1>11, <1>12
     DEF Next, BridgeStep

-----------------------------------------------------------------------------
(* Occupancy. *)

LEMMA NextOccupancy == TypeOK /\ OccupancyOK /\ [Next]_vars => OccupancyOK'
<1> SUFFICES ASSUME TypeOK, OccupancyOK, [Next]_vars PROVE OccupancyOK'
  OBVIOUS
<1>1. ASSUME Unhandled' = Unhandled, UNCHANGED <<measured, occupied, distance_cm>>
      PROVE  OccupancyOK'
  <2>1. Shows(measured)' <=> Shows(measured)
    BY <1>1 DEF Shows
  <2>2. QED
    BY <1>1, <2>1 DEF OccupancyOK
<1>2. CASE UNCHANGED <<socket, rqueue, measured, occupied, distance_cm>>
  BY <1>1, <1>2 DEF Unhandled
<1>3. CASE HandlesReport
  <2>1. /\ Takes /\ Taken.type = "report" /\ SetOccupancy(Taken) /\ measured' = measured
    BY <1>3 DEF HandlesReport, Takes
  <2>2. PICK r \in Report : r = Taken
    BY <2>1, TakesFacts, ReportFacts
  <2>3. /\ LastReport(Unhandled', measured)
        /\ NoReport(Unhandled') => Taken = measured
    BY <2>1, TakesFacts, Taking DEF OccupancyOK
  <2>4. Shows(r)'
    BY <2>1, <2>2, OccupancySet
  <2>5. r = measured' => Shows(measured)'
    BY <2>4 DEF Shows
  <2>6. QED
    BY <2>1, <2>2, <2>3, <2>5 DEF OccupancyOK
<1>4. CASE HandlesPhoto
  <2>1. Takes /\ Taken.type = "photo" /\ UNCHANGED <<measured, occupied, distance_cm>>
    BY <1>4 DEF HandlesPhoto, Takes, stateVars
  <2>2. /\ LastReport(Unhandled', measured)
        /\ NoReport(Unhandled') => NoReport(Unhandled)
    BY <2>1, TakesFacts, Taking DEF OccupancyOK
  <2>3. Shows(measured)' <=> Shows(measured)
    BY <2>1 DEF Shows
  <2>4. QED
    BY <2>1, <2>2, <2>3 DEF OccupancyOK
<1>5. CASE QueuesSignal
  <2>1. Unhandled' = Unhandled
    BY <1>5, Queue DEF QueuesSignal, TypeOK, Unhandled
  <2>2. QED
    BY <1>1, <1>5, <2>1 DEF QueuesSignal, stateVars
<1>6. CASE Reports
  <2>1. /\ measured' \in Report /\ measured' \in Signal /\ measured'.type = "report"
        /\ socket' = Append(socket, measured') /\ rqueue' = rqueue
    BY <1>6, ReportFacts DEF Reports, Arrives
  <2>2. Unhandled' = Append(Unhandled, measured') /\ Unhandled \in Seq(Signal)
    BY <2>1, Queue DEF Unhandled, TypeOK
  <2>3. ~NoReport(Unhandled') /\ LastReport(Unhandled', measured')
    BY <2>1, <2>2, Arriving
  <2>4. QED
    BY <2>3 DEF OccupancyOK
<1>7. CASE Displays
  <2>1. /\ UNCHANGED <<measured, occupied, distance_cm>>
        /\ socket' = Append(socket, DisplayingPhoto) /\ rqueue' = rqueue
    BY <1>7 DEF Displays, Arrives, stateVars
  <2>2. DisplayingPhoto \in Signal /\ DisplayingPhoto.type # "report"
    BY ReportFacts
  <2>3. Unhandled' = Append(Unhandled, DisplayingPhoto) /\ Unhandled \in Seq(Signal)
    BY <2>1, <2>2, Queue DEF Unhandled, TypeOK
  <2>4. /\ LastReport(Unhandled', measured)
        /\ NoReport(Unhandled') => NoReport(Unhandled)
    BY <2>2, <2>3, Arriving DEF OccupancyOK
  <2>5. Shows(measured)' <=> Shows(measured)
    BY <2>1 DEF Shows
  <2>6. QED
    BY <2>1, <2>4, <2>5 DEF OccupancyOK
<1>8. UNCHANGED <<socket, rqueue, measured, occupied, distance_cm>>
      \/ HandlesReport \/ HandlesPhoto \/ QueuesSignal \/ Reports \/ Displays
  BY DEF Next, BridgeStep, vars, Wakes, Drained, NothingArrived, IgnoresCommand, BeginsCommand,
         ReadsCommand, CallReturns, FilterAccepted, FilterRejected, FilterTimesOut,
         FilterReported, SetAlbumFilter, NoticesCut, Reconnects, MiscIdles, PollsWifi,
         WifiNotDue, Cut, SendsCommand, busVars, stateVars
<1>9. QED
  BY <1>2, <1>3, <1>4, <1>5, <1>6, <1>7, <1>8

-----------------------------------------------------------------------------
(* The theorems. *)

LEMMA InitBridge == Init => CommandsOK /\ OccupancyOK
<1> SUFFICES ASSUME Init PROVE CommandsOK /\ OccupancyOK
  OBVIOUS
<1>1. CommandsOK
  <2>1. arrived = <<>> /\ done = 0 /\ sent = 0
    BY DEF Init
  <2>2. Live(arrived) = 0 /\ DOMAIN arrived = {}
    BY <2>1 DEF Live
  <2>3. QED
    BY <2>1, <2>2 DEF CommandsOK
<1>2. OccupancyOK
  <2>1. /\ measured \in Report /\ socket = <<>> /\ occupied = -1
        /\ rqueue \in {<<>>, <<measured>>, <<DisplayingPhoto>>}
    BY DEF Init
  <2>2. Unhandled = rqueue
    BY <2>1, InitTypes, ConcatEmptySeq DEF Unhandled, TypeOK
  <2>3. \A i \in DOMAIN rqueue : rqueue[i] \in {measured, DisplayingPhoto}
    BY <2>1
  <2>4. LastReport(Unhandled, measured)
    BY <2>2, <2>3, ReportFacts DEF LastReport
  <2>5. QED
    BY <2>1, <2>4 DEF OccupancyOK
<1>3. QED
  BY <1>1, <1>2

\* A command sent is carried out once or not at all, however often the broker
\* delivers it again, and every variable keeps its type (mqtt.c, on_message_cb).
THEOREM NeverReplayed == Spec => []CommandsOnce
<1>1. Init => TypeOK /\ CommandsOK
  BY InitTypes, InitBridge
<1>2. TypeOK /\ CommandsOK /\ [Next]_vars => TypeOK' /\ CommandsOK'
  BY NextTypes, NextCommands
<1>3. TypeOK /\ CommandsOK => CommandsOnce
  <2> SUFFICES ASSUME TypeOK, CommandsOK PROVE done <= sent
    BY DEF CommandsOnce, NoReplay
  <2>1. arrived \in Seq(Arrival) /\ done \in Nat /\ sent \in Nat
    BY BoundAssumption DEF TypeOK, Arrival
  <2>2. done + Live(arrived) <= sent /\ Live(arrived) \in Nat
    BY <2>1, LiveFacts DEF CommandsOK
  <2>3. QED
    BY <2>1, <2>2
<1>4. QED
  BY <1>1, <1>2, <1>3, PTL DEF Spec

\* With every signal handled the record says what the sensor measured last, read
\* by poll's loop or by a call that waited for its reply (device_state.c).
THEOREM OccupancyTold == Spec => []OccupancyCurrent
<1>1. Init => TypeOK /\ OccupancyOK
  BY InitTypes, InitBridge
<1>2. TypeOK /\ OccupancyOK /\ [Next]_vars => TypeOK' /\ OccupancyOK'
  BY NextTypes, NextOccupancy
<1>3. TypeOK /\ OccupancyOK => OccupancyCurrent
  <2> SUFFICES ASSUME OccupancyOK, socket = <<>>, rqueue = <<>>, occupied # -1
               PROVE  Shows(measured)
    BY DEF OccupancyCurrent, Shows
  <2>1. DOMAIN Unhandled = {}
    BY DEF Unhandled
  <2>2. QED
    BY <2>1 DEF OccupancyOK, NoReport
<1>4. QED
  BY <1>1, <1>2, <1>3, PTL DEF Spec

\* With the immich backend the filter reported between commands is the one accepted
\* last, and in force unless a call timed out.  The wwwslide backend accepts filters and has
\* none (wwwslide_backend.c), so that there it cannot be.
THEOREM FilterReportedRight ==
  ASSUME Backend = "immich" PROVE Spec => []FilterHonest
<1>1. Init => TypeOK /\ FilterOK
  BY InitTypes DEF Init, FilterOK
<1>2. TypeOK /\ FilterOK /\ [Next]_vars => TypeOK' /\ FilterOK'
  BY NextTypes, NextFilter
<1>3. TypeOK /\ FilterOK => FilterHonest
  BY CommandFacts DEF FilterOK, FilterHonest
<1>4. QED
  BY <1>1, <1>2, <1>3, PTL DEF Spec
=============================================================================
