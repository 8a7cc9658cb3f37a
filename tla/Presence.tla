------------------------------ MODULE Presence ------------------------------
(***************************************************************************)
(* presence-service's policy (presence.c) and what drives it (dbus.c,       *)
(* main.c): raw reports of the occupancy sensor, the ForceOn and ForceOff   *)
(* methods, and the sensor service coming and going on the bus.  Each       *)
(* handler runs to its end on the one thread of the service and ends by     *)
(* evaluating what to announce, so each is one step.                        *)
(*                                                                         *)
(* raw and run are history variables: the last report of the sensor and     *)
(* how many in a row have said so since it came up, whatever the overrides  *)
(* did to pending_state and pending_count meanwhile.                        *)
(***************************************************************************)
EXTENDS Integers

CONSTANTS
  Delay,                        \* sensor_stabilization_delay_secs
  Hyst, SilentHyst,             \* [occupied, vacant], as configured
  silent_start_min, silent_end_min,   \* minute of the day, or -1
  DayMinutes,                   \* 24 * 60
  MaxCount    \* where the counters stop: beyond it no threshold tells apart

AtLeastOne(n) == IF n = 0 THEN 1 ELSE n

Thresholds == [occupied : 0 .. MaxCount, vacant : 0 .. MaxCount]

ASSUME CountAssumption ==
  /\ MaxCount \in Nat \ {0}
  /\ Delay \in 0 .. MaxCount
  /\ Hyst \in Thresholds /\ SilentHyst \in Thresholds
ASSUME WindowAssumption ==
  /\ DayMinutes \in Nat \ {0}
  /\ silent_start_min \in -1 .. DayMinutes - 1
  /\ silent_end_min \in -1 .. DayMinutes - 1

VARIABLES
  ticks, stable_known, stable_state, pending_state, pending_count,
  force_off_latched,
  announced,        \* -1 nothing yet, 0 or 1
  sensor,           \* the occupancy service is on the bus
  minute,           \* local time
  room,             \* somebody is there, as the sensor sees it
  raw, run

policyVars == <<ticks, stable_known, stable_state, pending_state,
                pending_count, force_off_latched, announced>>
vars == <<policyVars, sensor, minute, room, raw, run>>

-----------------------------------------------------------------------------
\* in_silent_period: the window wraps midnight when it starts after it ends.
InSilentPeriod(from, to, m) ==
  /\ from >= 0 /\ to >= 0
  /\ from # to
  /\ IF from < to THEN m >= from /\ m < to ELSE m >= from \/ m < to

\* How many consecutive reports commit a change, at this minute of the day.
Threshold(occupied) ==
  LET hyst == IF InSilentPeriod(silent_start_min, silent_end_min, minute)
              THEN SilentHyst ELSE Hyst
  IN  AtLeastOne(IF occupied THEN hyst.occupied ELSE hyst.vacant)

Count(n) == IF n < MaxCount THEN n + 1 ELSE n

Bit(b) == IF b THEN 1 ELSE 0

\* evaluate, at the end of a handler.
Evaluate ==
  announced' = IF stable_known' THEN Bit(stable_state' /\ ~force_off_latched')
                                ELSE announced

Init ==
  /\ ticks = 0
  /\ stable_known = FALSE
  /\ stable_state = FALSE
  /\ pending_state = FALSE
  /\ pending_count = 0
  /\ force_off_latched = FALSE
  /\ announced = -1
  /\ sensor \in BOOLEAN
  /\ minute \in 0 .. DayMinutes - 1
  /\ room \in BOOLEAN
  /\ raw = FALSE
  /\ run = 0

-----------------------------------------------------------------------------
\* The first stable value after the sensor came up is the report that ends
\* the stabilization delay.
Stabilize(occupied) ==
  /\ ~stable_known
  /\ stable_known' = (ticks' >= Delay)
  /\ stable_state' = IF ticks' >= Delay THEN occupied ELSE stable_state
  /\ UNCHANGED force_off_latched

\* Mutants of Commit: the thresholds swapped; the latch cleared by any commit.
CommitSwapped(occupied) ==
  /\ stable_known
  /\ occupied # stable_state
  /\ pending_count' >= Threshold(~occupied)
  /\ stable_state' = occupied
  /\ force_off_latched' = IF stable_state /\ ~occupied THEN FALSE
                                                       ELSE force_off_latched
  /\ UNCHANGED stable_known
CommitClears(occupied) ==
  /\ stable_known
  /\ occupied # stable_state
  /\ pending_count' >= Threshold(occupied)
  /\ stable_state' = occupied
  /\ force_off_latched' = FALSE
  /\ UNCHANGED stable_known

\* A run of reports long enough for the time of day changes the stable value;
\* leaving it vacant ends a ForceOff.
Commit(occupied) ==
  /\ stable_known
  /\ occupied # stable_state
  /\ pending_count' >= Threshold(occupied)
  /\ stable_state' = occupied
  /\ force_off_latched' = IF stable_state /\ ~occupied THEN FALSE
                                                       ELSE force_off_latched
  /\ UNCHANGED stable_known

KeepStable(occupied) ==
  /\ stable_known
  /\ occupied # stable_state => pending_count' < Threshold(occupied)
  /\ UNCHANGED <<stable_known, stable_state, force_off_latched>>

\* Mutant of Report: the pending run restarts when a report agrees with it.
ReportRestarts(occupied) ==
  /\ sensor
  /\ ticks' = Count(ticks)
  /\ pending_count' = IF pending_count = 0 \/ pending_state = occupied
                      THEN 1 ELSE Count(pending_count)
  /\ pending_state' = occupied
  /\ Stabilize(occupied) \/ Commit(occupied) \/ KeepStable(occupied)
  /\ Evaluate
  /\ run' = IF run # 0 /\ raw = occupied THEN Count(run) ELSE 1
  /\ raw' = occupied
  /\ UNCHANGED <<sensor, minute, room>>

Report(occupied) ==
  /\ sensor
  /\ ticks' = Count(ticks)
  /\ pending_count' = IF pending_count = 0 \/ pending_state # occupied
                      THEN 1 ELSE Count(pending_count)
  /\ pending_state' = occupied
  /\ Stabilize(occupied) \/ Commit(occupied) \/ KeepStable(occupied)
  /\ Evaluate
  /\ run' = IF run # 0 /\ raw = occupied THEN Count(run) ELSE 1
  /\ raw' = occupied
  /\ UNCHANGED <<sensor, minute, room>>

\* Mutant of ForceOn: the pending value is left vacant.
ForceOnPendingVacant ==
  /\ force_off_latched' = FALSE
  /\ stable_known' = TRUE
  /\ stable_state' = TRUE
  /\ pending_state' = FALSE
  /\ pending_count' = 1
  /\ Evaluate
  /\ UNCHANGED <<ticks, sensor, minute, room, raw, run>>

ForceOn ==
  /\ force_off_latched' = FALSE
  /\ stable_known' = TRUE
  /\ stable_state' = TRUE
  /\ pending_state' = TRUE
  /\ pending_count' = 1
  /\ Evaluate
  /\ UNCHANGED <<ticks, sensor, minute, room, raw, run>>

\* Mutant of ForceOff: nothing is evaluated.
ForceOffUnevaluated ==
  /\ force_off_latched' = TRUE
  /\ stable_known' = TRUE
  /\ stable_state' = FALSE
  /\ pending_state' = FALSE
  /\ pending_count' = 1
  /\ UNCHANGED <<announced, ticks, sensor, minute, room, raw, run>>

ForceOff ==
  /\ force_off_latched' = TRUE
  /\ stable_known' = TRUE
  /\ stable_state' = FALSE
  /\ pending_state' = FALSE
  /\ pending_count' = 1
  /\ Evaluate
  /\ UNCHANGED <<ticks, sensor, minute, room, raw, run>>

\* NameOwnerChanged of the occupancy service, from or to no owner.
SensorUp ==
  /\ ~sensor
  /\ sensor' = TRUE
  /\ ticks' = 0
  /\ stable_known' = FALSE
  /\ pending_state' = FALSE
  /\ pending_count' = 0
  /\ run' = 0
  /\ UNCHANGED <<stable_state, force_off_latched, announced, minute, room, raw>>

SensorDown ==
  /\ sensor
  /\ sensor' = FALSE
  /\ force_off_latched' = FALSE
  /\ stable_known' = TRUE
  /\ stable_state' = FALSE
  /\ pending_state' = FALSE
  /\ pending_count' = 1
  /\ Evaluate
  /\ UNCHANGED <<ticks, minute, room, raw, run>>

\* The wall clock moves on, or jumps when NTP or DST sets it.
ClockMoves ==
  /\ minute' \in (0 .. DayMinutes - 1) \ {minute}
  /\ UNCHANGED <<policyVars, sensor, room, raw, run>>

\* People come and go, and the radar misses some.
RoomChanges ==
  /\ room' = ~room
  /\ UNCHANGED <<policyVars, sensor, minute, raw, run>>

Next ==
  \/ Report(room)
  \/ ForceOn
  \/ ForceOff
  \/ SensorUp
  \/ SensorDown
  \/ ClockMoves
  \/ RoomChanges

Spec == Init /\ [][Next]_vars

\* A sensor on the bus reports once a second.
FairSpec == Spec /\ WF_vars(Report(room))

-----------------------------------------------------------------------------
(* Properties. *)

\* Every variable keeps its type.
TypeOK ==
  /\ ticks \in 0 .. MaxCount
  /\ stable_known \in BOOLEAN /\ stable_state \in BOOLEAN
  /\ pending_state \in BOOLEAN /\ pending_count \in 0 .. MaxCount
  /\ force_off_latched \in BOOLEAN
  /\ announced \in {-1, 0, 1}
  /\ sensor \in BOOLEAN
  /\ minute \in 0 .. DayMinutes - 1
  /\ room \in BOOLEAN /\ raw \in BOOLEAN /\ run \in 0 .. MaxCount

\* A latched ForceOff keeps presence false through any reports, through the
\* sensor's restart and through the clock (presence.h: the "force-off latch
\* survives repeated occupied=true reports").
LatchKeepsOff == force_off_latched => announced = 0

\* What is stable is what is announced: no handler forgets to evaluate.
AnnouncedCurrent ==
  stable_known => announced = Bit(stable_state /\ ~force_off_latched)

\* A handler that is not an override nor the sensor's loss announces a change
\* only with the sensor's agreement: a run of consecutive raw reports as long
\* as the hour asks for, or the first report after the stabilization delay.
\* Counts that ForceOn and ForceOff preset never stand in for reports.
FlickerSuppressed ==
  [][ \A occupied \in BOOLEAN :
        Report(occupied) /\ announced' # announced =>
          /\ announced' = Bit(occupied)
          /\ \/ stable_known /\ run' >= Threshold(occupied)
             \/ ~stable_known /\ ticks' >= Delay ]_vars

\* Why FlickerSuppressed holds: the pending run is longer than the sensor's
\* own only when it agrees with the stable value, where it counts for nothing.
PendingIsReported ==
  stable_known /\ pending_state # stable_state =>
    /\ pending_count <= run
    /\ run > 0 => raw = pending_state

\* The state of the policy is sound between handlers: the latch keeps presence
\* off, what is stable is what is announced, and no pending run that counts was
\* preset by an override.
Inv ==
  /\ TypeOK
  /\ LatchKeepsOff
  /\ AnnouncedCurrent
  /\ PendingIsReported

\* A ForceOff is only undone by ForceOn, by the sensor's loss, or by as many
\* consecutive vacant reports as the hour asks for in a room committed occupied
\* (presence.c: "Latch clears only on a genuine occupied -> vacant commit").
LatchClearsOnVacancy ==
  [][ force_off_latched /\ ~force_off_latched' =>
        \/ ForceOn
        \/ SensorDown
        \/ stable_state /\ ~raw' /\ run' >= Threshold(FALSE) ]_vars

\* A room that the sensor reports steadily one way ends up announced that way,
\* whatever came before, unless overrides keep coming or a ForceOff holds.
SteadyIsAnnounced ==
  \A occupied \in BOOLEAN :
    /\ <>[](sensor /\ room = occupied /\ (occupied => ~force_off_latched))
    /\ <>[][~ForceOn /\ ~ForceOff]_vars
    => <>[](announced = Bit(occupied))
=============================================================================
