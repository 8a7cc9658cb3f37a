------------------------------- MODULE Bridge -------------------------------
(***************************************************************************)
(* dbus-mqtt-bridge once it has its prefix (main.c, device_state.c,          *)
(* dbus_client.c, mqtt.c): one thread that polls the D-Bus socket and the     *)
(* MQTT socket, gathers signals into a retained record, and carries out       *)
(* commands by D-Bus calls that block it.                                    *)
(*                                                                         *)
(* What sd-bus reads while a call waits for its reply it keeps in a queue of   *)
(* its own.  The sensor, the network and the broker are external; MqttClaim    *)
(* has the availability record.  Of the device record this model has the      *)
(* occupancy and the album filter.                                           *)
(***************************************************************************)
EXTENDS Integers, Sequences

CONSTANTS
  Distance,        \* what the sensor measures when occupied, 0 without UART
  Filter,          \* album filters
  NoFilter,        \* none known
  Cleared,         \* the filter that keeps every album
  Backend,         \* photo-provider's, "immich" or "wwwslide"
  Unpublished,     \* no record
  MaxSocket,       \* bound on messages unread on the D-Bus socket
  MaxQueue,        \* bound on messages in sd-bus's queue
  INT32_MAX,       \* the largest distance an int32_t can hold
  MaxCommands,     \* bound on commands sent in a behaviour
  MaxCuts          \* bound on lost connections in a behaviour

DISTANCE_STEP_CM == 50

ASSUME DistanceAssumption == Distance \subseteq Nat /\ INT32_MAX \in Nat
ASSUME FilterAssumption == NoFilter \notin Filter /\ Cleared \in Filter
ASSUME BackendAssumption == Backend \in {"immich", "wwwslide"}
ASSUME BoundAssumption ==
  /\ MaxSocket \in Nat \ {0} /\ MaxQueue \in Nat
  /\ MaxCommands \in Nat /\ MaxCuts \in Nat

VARIABLES
  socket,         \* signals unread on the D-Bus socket
  rqueue,         \* signals that sd-bus has read and nobody handled
  measured,       \* what the sensor reported last
  applied,        \* the album filter photo-provider has in force

  pc,             \* where main's loop is
  cmd,            \* the command on_cmd is carrying out
  occupied, distance_cm, album_filter,   \* rc_state, -1 for unknown
  last_published, \* the record as last accepted by rc_mqtt_publish

  link,           \* "up", "cut" when the bridge does not know yet, "down"
  arrived,        \* commands unread on the MQTT socket
  standing,       \* the command retained at the broker
  retained,       \* the record retained at the broker
  cuts,           \* connections lost so far

  lost,           \* history: the record accepted last never reached the broker
  answered,       \* history: the filter photo-provider accepted last,
                  \* and whether it answered each one sent since
  sent, done      \* history: commands sent, carried out

busVars == <<socket, rqueue, measured, applied>>
stateVars == <<occupied, distance_cm, album_filter, last_published>>
netVars == <<link, arrived, standing, cuts>>
vars == <<busVars, pc, cmd, stateVars, netVars, retained, lost, answered,
          sent, done>>

Report == {[type |-> "report", occupied |-> FALSE, cm |-> 0]}
            \cup {[type |-> "report", occupied |-> TRUE, cm |-> d] : d \in Distance}
DisplayingPhoto == [type |-> "photo"]
Signal == Report \cup {DisplayingPhoto}

\* One D-Bus call that leaves no trace here, or a new album filter.
Command == [op : {"call"}, filter : {NoFilter}]
             \cup [op : {"set_album_filter"}, filter : Filter]
Idle == [op |-> "none", filter |-> NoFilter]

Tri == {-1, 0, 1}
Record == [occupied : Tri, distance_cm : (Distance \ {0}) \cup {-1},
           album_filter : Filter \cup {NoFilter}]

\* to_json, ts aside.
Current == [occupied |-> occupied, distance_cm |-> distance_cm,
            album_filter |-> album_filter]

Init ==
  /\ socket = <<>>
  /\ measured \in Report
  /\ rqueue \in {<<>>, <<measured>>, <<DisplayingPhoto>>}
  /\ applied \in IF Backend = "immich" THEN Filter ELSE {Cleared}
  /\ pc = "poll" /\ cmd = Idle
  /\ occupied = -1 /\ distance_cm = -1 /\ album_filter = NoFilter
  /\ last_published = Unpublished
  /\ link = "up" /\ arrived = <<>> /\ standing = Idle /\ cuts = 0
  /\ retained = Unpublished
  /\ lost = FALSE
  /\ answered = [filter |-> NoFilter, sure |-> TRUE]
  /\ sent = 0 /\ done = 0

-----------------------------------------------------------------------------
(* The world. *)

Arrives(s) ==
  /\ Len(socket) < MaxSocket
  /\ socket' = Append(socket, s)
  /\ UNCHANGED <<rqueue, applied, pc, cmd, stateVars, netVars, retained, lost,
                 answered, sent, done>>

\* The sensor reports every second, changed or not.
Reports ==
  /\ measured' \in Report
  /\ Arrives(measured')

\* ambience shows another photo.
Displays ==
  /\ UNCHANGED measured
  /\ Arrives(DisplayingPhoto)

\* Somebody publishes a command; who has subscribed already gets it unmarked.
SendsCommand(c, retain) ==
  /\ sent < MaxCommands
  /\ sent' = sent + 1
  /\ standing' = IF retain THEN c ELSE standing
  /\ arrived' = IF link = "up" THEN Append(arrived, [command |-> c, retain |-> FALSE])
                               ELSE arrived
  /\ UNCHANGED <<busVars, pc, cmd, stateVars, link, cuts, retained, lost,
                 answered, done>>

\* What the bridge sends from now on is lost, and part of what it was sent.
Cut ==
  /\ link = "up" /\ cuts < MaxCuts
  /\ link' = "cut" /\ cuts' = cuts + 1
  /\ \E n \in 0 .. Len(arrived) : arrived' = SubSeq(arrived, 1, n)
  /\ UNCHANGED <<busVars, pc, cmd, stateVars, standing, retained, lost,
                 answered, sent, done>>

-----------------------------------------------------------------------------
(* device_state.c *)

\* Mutant of Publish: a refused record counts as published.
PublishOptimistic ==
  IF Current' = last_published
  THEN UNCHANGED <<last_published, retained, lost>>
  ELSE /\ last_published' = Current'
       /\ retained' = IF link = "up" THEN Current' ELSE retained
       /\ lost' = IF link = "down" THEN lost ELSE link = "cut"

\* publish: a record like the last is not sent again, a refused one is not
\* remembered.
Publish ==
  IF Current' = last_published \/ link = "down"
  THEN UNCHANGED <<last_published, retained, lost>>
  ELSE /\ last_published' = Current'
       /\ retained' = IF link = "up" THEN Current' ELSE retained
       /\ lost' = (link = "cut")

Far(a, b) == a - b >= DISTANCE_STEP_CM \/ b - a >= DISTANCE_STEP_CM

\* Mutant of Moved: a move of exactly the step is noise as well.
MovedFurther(cm) ==
  IF distance_cm < 0 \/ (Far(cm - 1, distance_cm) /\ Far(cm + 1, distance_cm))
  THEN cm ELSE distance_cm

\* The distance shown once the sensor measures another.
Moved(cm) == IF distance_cm < 0 \/ Far(cm, distance_cm) THEN cm ELSE distance_cm

\* Zero is what the sensor sends without UART, and what an int32_t cannot hold
\* is no distance either.
Measures(r) == r.occupied /\ r.cm # 0 /\ r.cm <= INT32_MAX

\* rc_state_set_occupancy
SetOccupancy(r) ==
  /\ occupied' = IF r.occupied THEN 1 ELSE 0
  /\ distance_cm' = IF Measures(r) THEN Moved(r.cm) ELSE -1
  /\ UNCHANGED album_filter
  /\ Publish

\* rc_state_set_album_filter
SetAlbumFilter(f) ==
  /\ album_filter' = f
  /\ UNCHANGED <<occupied, distance_cm>>
  /\ Publish

-----------------------------------------------------------------------------
(* main's loop: D-Bus. *)

\* Mutant of Wakes: without a broker the bus is not looked at.
WakesOnline ==
  /\ pc = "poll"
  /\ pc' = IF socket # <<>> /\ link # "down" THEN "drain" ELSE "mqtt"
  /\ UNCHANGED <<busVars, cmd, stateVars, netVars, retained, lost, answered,
                 sent, done>>

\* poll returns, after a second at most.  Only the socket is looked at.
Wakes ==
  /\ pc = "poll"
  /\ pc' = IF socket # <<>> THEN "drain" ELSE "mqtt"
  /\ UNCHANGED <<busVars, cmd, stateVars, netVars, retained, lost, answered,
                 sent, done>>

\* sd_bus_process takes what it has queued, then what it can read.
Taken == Head(rqueue \o socket)
Takes ==
  /\ pc = "drain"
  /\ rqueue \o socket # <<>>
  /\ IF rqueue # <<>> THEN rqueue' = Tail(rqueue) /\ UNCHANGED socket
                      ELSE socket' = Tail(socket) /\ UNCHANGED rqueue
  /\ UNCHANGED <<measured, applied, pc, cmd, netVars, answered, sent, done>>

HandlesReport ==
  /\ Takes
  /\ Taken.type = "report"
  /\ SetOccupancy(Taken)

\* The photo's description is published once, whether or not that succeeds;
\* MqttClaim has the render configuration that comes with it.
HandlesPhoto ==
  /\ Takes
  /\ Taken.type = "photo"
  /\ UNCHANGED <<stateVars, retained, lost>>

Drained ==
  /\ pc = "drain"
  /\ rqueue \o socket = <<>>
  /\ pc' = "mqtt"
  /\ UNCHANGED <<busVars, cmd, stateVars, netVars, retained, lost, answered,
                 sent, done>>

-----------------------------------------------------------------------------
(* main's loop: MQTT. *)

\* Nothing had arrived when poll returned, whatever has since.
NothingArrived ==
  /\ pc = "mqtt"
  /\ pc' = "misc"
  /\ UNCHANGED <<busVars, cmd, stateVars, netVars, retained, lost, answered,
                 sent, done>>

ReadsCommand ==
  /\ pc = "mqtt"
  /\ arrived # <<>>
  /\ arrived' = Tail(arrived)
  /\ UNCHANGED <<busVars, stateVars, link, standing, cuts, retained, lost,
                 answered, sent>>

\* on_message_cb drops a retained command, on_cmd one it cannot use.
IgnoresCommand ==
  /\ ReadsCommand
  /\ pc' = "misc"
  /\ UNCHANGED <<cmd, done>>

\* Mutant of BeginsCommand: retained commands are carried out as well.
BeginsAnyCommand ==
  /\ ReadsCommand
  /\ pc' = "call"
  /\ cmd' = Head(arrived).command
  /\ done' = done + 1

BeginsCommand ==
  /\ ReadsCommand
  /\ ~Head(arrived).retain
  /\ pc' = "call"
  /\ cmd' = Head(arrived).command
  /\ done' = done + 1

\* sd_bus_call looks for its reply and queues everything else.
QueuesSignal ==
  /\ pc \in {"call", "next"}
  /\ socket # <<>> /\ Len(rqueue) < MaxQueue
  /\ rqueue' = Append(rqueue, Head(socket))
  /\ socket' = Tail(socket)
  /\ UNCHANGED <<measured, applied, pc, cmd, stateVars, netVars, retained,
                 lost, answered, sent, done>>

Returns == pc' = "misc" /\ cmd' = Idle

\* Every command but one is a single call, whose result is only logged.
CallReturns ==
  /\ pc = "call" /\ cmd.op = "call"
  /\ Returns
  /\ UNCHANGED <<busVars, stateVars, netVars, retained, lost, answered, sent,
                 done>>

\* The filter in force once photo-provider accepts f: only immich has filters.
InForce(f) == IF Backend = "immich" THEN f ELSE applied

FilterAccepted ==
  /\ pc = "call" /\ cmd.op = "set_album_filter"
  /\ applied' = InForce(cmd.filter)
  /\ answered' = [filter |-> cmd.filter, sure |-> TRUE]
  /\ pc' = "next"
  /\ UNCHANGED <<socket, rqueue, measured, cmd, stateVars, netVars, retained, lost,
                 sent, done>>

\* Mutant of FilterRejected: the filter is reported whatever became of it.
FilterReportedAnyway ==
  /\ pc = "call" /\ cmd.op = "set_album_filter"
  /\ pc' = "next"
  /\ UNCHANGED <<busVars, cmd, stateVars, netVars, retained, lost, answered,
                 sent, done>>

\* photo-provider rejects the filter or is not there.
FilterRejected ==
  /\ pc = "call" /\ cmd.op = "set_album_filter"
  /\ Returns
  /\ UNCHANGED <<busVars, stateVars, netVars, retained, lost, answered, sent,
                 done>>

\* No reply came in time; photo-provider may have applied it nevertheless.
FilterTimesOut ==
  /\ pc = "call" /\ cmd.op = "set_album_filter"
  /\ applied' \in {applied, InForce(cmd.filter)}
  /\ answered' = [answered EXCEPT !.sure = FALSE]
  /\ Returns
  /\ UNCHANGED <<socket, rqueue, measured, stateVars, netVars, retained, lost,
                 sent, done>>

\* ambience's Next has returned, or failed; then the filter is reported.
FilterReported ==
  /\ pc = "next"
  /\ SetAlbumFilter(cmd.filter)
  /\ Returns
  /\ UNCHANGED <<busVars, netVars, answered, sent, done>>

-----------------------------------------------------------------------------
(* main's loop: the rest. *)

\* rc_mqtt_loop_misc, or an error of rc_mqtt_loop_read.
NoticesCut ==
  /\ pc = "misc"
  /\ link = "cut"
  /\ link' = "down" /\ arrived' = <<>>
  /\ pc' = "wifi"
  /\ UNCHANGED <<busVars, cmd, stateVars, standing, cuts, retained, lost,
                 answered, sent, done>>

\* try_connect and on_connect_cb, whose subscription brings the retained command.
Reconnects ==
  /\ pc = "misc"
  /\ link = "down"
  /\ link' = "up"
  /\ arrived' = IF standing = Idle THEN <<>>
                ELSE <<[command |-> standing, retain |-> TRUE]>>
  /\ pc' = "wifi"
  /\ UNCHANGED <<busVars, cmd, stateVars, standing, cuts, retained, lost,
                 answered, sent, done>>

\* All is well, or not noticed yet, or the reconnection is throttled or fails.
MiscIdles ==
  /\ pc = "misc"
  /\ pc' = "wifi"
  /\ UNCHANGED <<busVars, cmd, stateVars, netVars, retained, lost, answered,
                 sent, done>>

\* rc_state_poll_wifi, every WIFI_POLL_S
PollsWifi ==
  /\ pc = "wifi"
  /\ pc' = "poll"
  /\ UNCHANGED <<occupied, distance_cm, album_filter>>
  /\ Publish
  /\ UNCHANGED <<busVars, cmd, netVars, answered, sent, done>>

WifiNotDue ==
  /\ pc = "wifi"
  /\ pc' = "poll"
  /\ UNCHANGED <<busVars, cmd, stateVars, netVars, retained, lost, answered,
                 sent, done>>

BridgeStep ==
  \/ Wakes \/ HandlesReport \/ HandlesPhoto \/ Drained
  \/ NothingArrived \/ IgnoresCommand \/ BeginsCommand
  \/ QueuesSignal \/ CallReturns
  \/ FilterAccepted \/ FilterRejected \/ FilterTimesOut \/ FilterReported
  \/ NoticesCut \/ Reconnects \/ MiscIdles
  \/ PollsWifi \/ WifiNotDue

Next ==
  \/ BridgeStep
  \/ Reports \/ Displays \/ Cut
  \/ \E c \in Command, retain \in BOOLEAN : SendsCommand(c, retain)

\* The bridge runs, drains its bus faster than it fills and polls wifi again and
\* again, calls return, and the sensor reports.
Fairness ==
  /\ WF_vars(BridgeStep)
  /\ SF_vars(Drained)
  /\ SF_vars(PollsWifi)
  /\ WF_vars(Reports)

Spec == Init /\ [][Next]_vars /\ Fairness

-----------------------------------------------------------------------------
(* Properties. *)

\* Every variable keeps its type.
TypeOK ==
  /\ socket \in Seq(Signal) /\ rqueue \in Seq(Signal)
  /\ measured \in Report /\ applied \in Filter
  /\ pc \in {"poll", "drain", "mqtt", "call", "next", "misc", "wifi"}
  /\ cmd \in Command \cup {Idle}
  /\ Current \in Record
  /\ last_published \in Record \cup {Unpublished}
  /\ link \in {"up", "cut", "down"}
  /\ arrived \in Seq([command : Command, retain : BOOLEAN])
  /\ standing \in Command \cup {Idle}
  /\ retained \in Record \cup {Unpublished}
  /\ cuts \in 0 .. MaxCuts
  /\ lost \in BOOLEAN
  /\ answered \in [filter : Filter \cup {NoFilter}, sure : BOOLEAN]
  /\ sent \in 0 .. MaxCommands /\ done \in Nat

\* With no signal left unhandled, the record says what the sensor reported last,
\* the distance within a step of it, however slowly somebody moves and whatever
\* was read during a call (device_state.c).
OccupancyCurrent ==
  socket = <<>> /\ rqueue = <<>> /\ occupied # -1 =>
    /\ (occupied = 1) = measured.occupied
    /\ IF Measures(measured)
       THEN distance_cm # -1 /\ ~Far(distance_cm, measured.cm)
       ELSE distance_cm = -1

\* Between commands the filter reported is the one photo-provider accepted last,
\* whatever it rejected or left unanswered since, and the one in force unless a
\* call was left unanswered (dbus-mqtt-bridge/README.md: "the filter this bridge
\* last applied").
FilterHonest ==
  cmd = Idle =>
    /\ album_filter = answered.filter
    /\ answered.sure => album_filter \in {NoFilter, applied}

\* A command sent once is carried out at most once, through reconnections that
\* deliver it again (mqtt.c).
NoReplay == done <= sent

\* A command sent is carried out once or not at all, and leaves no variable of
\* the wrong type behind.
CommandsOnce == TypeOK /\ NoReplay

\* What changed while MQTT was away is forwarded once it is back, unless QoS 0
\* lost it (dbus-mqtt-bridge/README.md, "just not forwarded until MQTT is back").
StateForwarded == []<>(link # "up" \/ lost \/ retained = Current)

\* A signal read during a call is handled, with and without a broker
\* (dbus-mqtt-bridge/README.md: "the poll loop still services D-Bus").
SignalsHandled == rqueue # <<>> ~> rqueue = <<>>
=============================================================================
