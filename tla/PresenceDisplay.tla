--------------------------- MODULE PresenceDisplay ---------------------------
(***************************************************************************)
(* presence-service driving display-mgr.  A handler of the policy that      *)
(* announces a change goes on, in main.c's on_presence_change, to switch    *)
(* the display and emit PresenceChanged: the panel on before the signal,    *)
(* off after it.  The Display calls are made on a connection of their own   *)
(* and block the one thread of the service, so that either process may die *)
(* and come back between two steps; their errors are logged and forgotten. *)
(***************************************************************************)
EXTENDS Presence, DisplayPower

CONSTANT MaxRestarts    \* bound on process deaths in a behaviour

ASSUME RestartsAssumption == MaxRestarts \in Nat

VARIABLES
  glue,     \* where presence-service's thread is
  heard,    \* what PresenceChanged last carried, "nothing" before
  missed,   \* history: the last Display call had no effect, or display-mgr
            \* came back since
  restarts

serviceVars == <<glue, heard, missed>>
allVars == <<vars, powerVars, serviceVars, restarts>>

\* down       no process              starting, stopping   main's own Display.Off
\* idle       in sd_bus_wait          on, off              on_presence_change's
\* emit_true, emit_false              ... and its signal   calls
Places == {"down", "starting", "idle", "on", "emit_true", "emit_false", "off",
           "stopping"}

ServiceInit ==
  /\ Init
  /\ PowerInit
  /\ glue = "down"
  /\ heard = "nothing"
  /\ missed = TRUE
  /\ restarts = 0

-----------------------------------------------------------------------------
(* presence-service. *)

\* main up to the loop; the policy starts from nothing.
ServiceStarts ==
  /\ glue = "down"
  /\ glue' = "starting"
  /\ UNCHANGED <<vars, powerVars, heard, missed, restarts>>

\* Mutants of Dispatch: vacancy does not reach the display; the signal goes out
\* before the panel is on.
DispatchForgetsOff ==
  /\ glue = "idle"
  /\ \/ Report(room)
     \/ ForceOn
     \/ ForceOff
     \/ SensorUp
     \/ SensorDown
  /\ glue' = IF announced' = announced \/ announced' = 0 THEN "idle" ELSE "on"
  /\ UNCHANGED <<powerVars, heard, missed, restarts>>
DispatchEmitsFirst ==
  /\ glue = "idle"
  /\ \/ Report(room)
     \/ ForceOn
     \/ ForceOff
     \/ SensorUp
     \/ SensorDown
  /\ glue' = IF announced' = announced THEN "idle"
             ELSE IF announced' = 1 THEN "emit_true" ELSE "emit_false"
  /\ UNCHANGED <<powerVars, heard, missed, restarts>>

\* One dispatch: the handler's own effect, then on_presence_change if it
\* announced a change.
Dispatch ==
  /\ glue = "idle"
  /\ \/ Report(room)
     \/ ForceOn
     \/ ForceOff
     \/ SensorUp
     \/ SensorDown
  /\ glue' = IF announced' = announced THEN "idle"
             ELSE IF announced' = 1 THEN "on" ELSE "emit_false"
  /\ UNCHANGED <<powerVars, heard, missed, restarts>>

\* display_client_on and display_client_off: a missing service is an error
\* that nobody looks at.
CallDisplay(on) ==
  /\ \/ SetDisplayOn(on)
     \/ ~mgr_up /\ UNCHANGED powerVars
  /\ missed' = (~mgr_up \/ lit' # on)

SwitchDisplay ==
  /\ \/ glue = "on" /\ CallDisplay(TRUE) /\ glue' = "emit_true"
     \/ glue \in {"starting", "off"} /\ CallDisplay(FALSE) /\ glue' = "idle"
  /\ UNCHANGED <<vars, heard, restarts>>

EmitChanged ==
  /\ \/ glue = "emit_true" /\ heard' = "true" /\ glue' = "idle"
     \/ glue = "emit_false" /\ heard' = "false" /\ glue' = "off"
  /\ UNCHANGED <<vars, powerVars, missed, restarts>>

\* A new process of the policy: what sensor and clock do goes on.
Forget ==
  /\ ticks' = 0
  /\ stable_known' = FALSE
  /\ stable_state' = FALSE
  /\ pending_state' = FALSE
  /\ pending_count' = 0
  /\ force_off_latched' = FALSE
  /\ announced' = -1
  /\ run' = 0
  /\ UNCHANGED <<sensor, minute, room, raw>>

\* SIGTERM leaves the loop and switches the display off on the way out.
ServiceStops ==
  /\ restarts < MaxRestarts
  /\ restarts' = restarts + 1
  /\ glue = "idle"
  /\ CallDisplay(FALSE)
  /\ glue' = "down"
  /\ Forget
  /\ UNCHANGED heard

ServiceCrashes ==
  /\ restarts < MaxRestarts
  /\ restarts' = restarts + 1
  /\ glue # "down"
  /\ glue' = "down"
  /\ Forget
  /\ UNCHANGED <<powerVars, heard, missed>>

\* With no process to see them, sensor events are nobody's.
SensorUnseen ==
  /\ glue = "down"
  /\ sensor' = ~sensor
  /\ UNCHANGED <<policyVars, minute, room, raw, run, powerVars, serviceVars,
                 restarts>>

-----------------------------------------------------------------------------
(* display-mgr and the clock. *)

DisplayMgrStarts ==
  /\ MgrStarts
  /\ missed' = TRUE
  /\ UNCHANGED <<vars, glue, heard, restarts>>

DisplayMgrEnds ==
  /\ restarts < MaxRestarts
  /\ restarts' = restarts + 1
  /\ MgrEnds
  /\ missed' = TRUE
  /\ UNCHANGED <<vars, glue, heard>>

ConsoleTakesOver ==
  /\ ConsoleSwitches
  /\ missed' = TRUE
  /\ UNCHANGED <<vars, glue, heard, restarts>>

ClockOrRoom ==
  /\ ClockMoves \/ RoomChanges
  /\ UNCHANGED <<powerVars, serviceVars, restarts>>

ServiceNext ==
  \/ ServiceStarts
  \/ Dispatch
  \/ SwitchDisplay
  \/ EmitChanged
  \/ ServiceStops
  \/ ServiceCrashes
  \/ SensorUnseen
  \/ DisplayMgrStarts
  \/ DisplayMgrEnds
  \/ ConsoleTakesOver
  \/ ClockOrRoom

ServiceSpec == ServiceInit /\ [][ServiceNext]_allVars

-----------------------------------------------------------------------------
(* Properties. *)

\* Every variable keeps its type.
ServiceTypeOK ==
  /\ TypeOK
  /\ PowerTypeOK
  /\ glue \in Places
  /\ heard \in {"nothing", "true", "false"}
  /\ missed \in BOOLEAN
  /\ restarts \in 0 .. MaxRestarts

\* Between dispatches the panel and the subscribers agree with the policy: the
\* panel is lit exactly when presence was announced, unless the call that
\* should have switched it had no effect or display-mgr came back since.
DisplayInStep ==
  glue = "idle" /\ ~missed => lit = (announced = 1)

\* Subscribers that react to PresenceChanged(true) see the display already lit,
\* unless display-mgr failed to light it (main.c's comment in
\* on_presence_change), and what they hear is what was announced.
LitBeforeAnnounced ==
  [][ EmitChanged =>
        /\ heard' = IF announced = 1 THEN "true" ELSE "false"
        /\ announced = 1 => lit \/ missed ]_allVars

\* A ForceOff leaves the room dark through whatever the sensor reports, and
\* through display-mgr's failures as far as they are noticed.
ForcedOffIsDark ==
  glue = "idle" /\ ~missed /\ force_off_latched => ~lit /\ heard # "true"
=============================================================================
