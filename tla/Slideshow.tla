------------------------------ MODULE Slideshow ------------------------------
(***************************************************************************)
(* For whom ambience runs its slideshow: presence-service and display-mgr   *)
(* (PresenceDisplay) with the listeners of ambience (dbus_listeners.c) and  *)
(* the handlers of main.c that call render_slideshow_set_active.  ambience  *)
(* subscribes to PresenceChanged and to the names of the services it needs, *)
(* one call to the bus after the other, asks for each whether it is there,  *)
(* and only then starts to handle what has been delivered meanwhile.  The   *)
(* bus delivers in order; photo-provider is only a name here.               *)
(***************************************************************************)
EXTENDS PresenceDisplay, Sequences

CONSTANT MaxPending     \* bound on what is delivered and not yet handled

ASSUME PendingAssumption == MaxPending \in Nat

VARIABLES
  boot,         \* where ambience is
  deps,         \* all_deps_ready
  active,       \* the slideshow runs
  pending,      \* delivered to ambience, not yet handled
  photos,       \* photo-provider is on the bus
  source,       \* history: what active was last set for
  blind         \* history: presence-service ended when ambience was subscribed
                \* to its signal and not yet to its name

showVars == <<boot, deps, active, pending, photos, source, blind>>
systemVars == <<allVars, showVars>>

\* down             no process
\* opened           dbus_listeners_init, with a connection
\* hearing          ... subscribed to PresenceChanged
\* watching         ... and to presence-service's name
\* asked, photos    ... asked for it; subscribed to photo-provider's name
\* display          ... asked for that
\* activate         main, before it first sets active
Boots == {"down", "opened", "hearing", "watching", "asked", "photos", "display",
          "activate", "running"}

\* Mutants of Hears and Watches: what comes before the loop is lost.
HearsLate == boot = "running"
WatchesLate == boot = "running"

Hears == boot \notin {"down", "opened"}
Watches == boot \notin {"down", "opened", "hearing"}
WatchesPhotos == boot \in {"photos", "display", "activate", "running"}

Deliver(e, listening) ==
  IF listening
  THEN Len(pending) < MaxPending /\ pending' = Append(pending, e)
  ELSE UNCHANGED pending

SystemInit ==
  /\ ServiceInit
  /\ boot = "down"
  /\ deps = FALSE /\ active = FALSE
  /\ pending = <<>>
  /\ photos \in BOOLEAN
  /\ source = "nothing"
  /\ blind = FALSE

-----------------------------------------------------------------------------
(* The other services, as ambience hears of them. *)

PresenceSpeaks ==
  /\ \/ EmitChanged /\ Deliver(heard', Hears) /\ UNCHANGED blind
     \/ ServiceStarts /\ Deliver("up", Watches) /\ UNCHANGED blind
     \/ /\ ServiceStops \/ ServiceCrashes
        /\ Deliver("down", Watches)
        /\ blind' = (blind \/ boot = "hearing")
  /\ UNCHANGED <<boot, deps, active, photos, source>>

Unheard ==
  /\ \/ Dispatch
     \/ SwitchDisplay
     \/ SensorUnseen
     \/ DisplayMgrStarts
     \/ DisplayMgrEnds
     \/ ConsoleTakesOver
     \/ ClockOrRoom
  /\ UNCHANGED showVars

PhotosComeAndGo ==
  /\ restarts < MaxRestarts
  /\ restarts' = restarts + 1
  /\ photos' = ~photos
  /\ Deliver(IF photos' THEN "photos up" ELSE "photos down", WatchesPhotos)
  /\ UNCHANGED <<vars, powerVars, serviceVars, boot, deps, active, source, blind>>

-----------------------------------------------------------------------------
(* ambience. *)

AmbienceStarts ==
  /\ boot = "down"
  /\ boot' = "opened"
  /\ deps' = TRUE
  /\ UNCHANGED <<allVars, active, pending, photos, source, blind>>

\* The sd_bus_add_match calls of dbus_listeners_init.
Subscribes ==
  /\ \/ boot = "opened" /\ boot' = "hearing"
     \/ boot = "hearing" /\ boot' = "watching"
     \/ boot = "asked" /\ boot' = "photos"
  /\ UNCHANGED <<allVars, deps, active, pending, photos, source, blind>>

\* Its is_service_up calls.
AsksIfUp ==
  /\ \/ boot = "watching" /\ boot' = "asked" /\ deps' = (deps /\ glue # "down")
     \/ boot = "photos" /\ boot' = "display" /\ deps' = (deps /\ photos)
     \/ boot = "display" /\ boot' = "activate" /\ deps' = (deps /\ mgr_up)
  /\ UNCHANGED <<allVars, active, pending, photos, source, blind>>

SetActive(on, by) == active' = on /\ source' = by

Activates ==
  /\ boot = "activate"
  /\ boot' = "running"
  /\ SetActive(deps, "startup")
  /\ UNCHANGED <<allVars, deps, pending, photos, blind>>

\* on_presence_changed, on_presence_service_updown, on_photo_service_updown.
Handle(e) ==
  \/ e \in {"true", "false"} /\ SetActive(e = "true", "presence")
  \/ e = "down" /\ SetActive(FALSE, "presence")
  \/ e = "up" /\ UNCHANGED <<active, source>>
  \/ e \in {"photos up", "photos down"} /\ SetActive(e = "photos up", "photos")

Listens ==
  /\ boot = "running"
  /\ pending # <<>>
  /\ Handle(Head(pending))
  /\ pending' = Tail(pending)
  /\ UNCHANGED <<allVars, boot, deps, photos, blind>>

AmbienceEnds ==
  /\ restarts < MaxRestarts
  /\ restarts' = restarts + 1
  /\ boot # "down"
  /\ boot' = "down"
  /\ deps' = FALSE /\ active' = FALSE
  /\ pending' = <<>>
  /\ source' = "nothing"
  /\ blind' = FALSE
  /\ UNCHANGED <<vars, powerVars, serviceVars, photos>>

SystemNext ==
  \/ PresenceSpeaks
  \/ Unheard
  \/ PhotosComeAndGo
  \/ AmbienceStarts
  \/ Subscribes
  \/ AsksIfUp
  \/ Activates
  \/ Listens
  \/ AmbienceEnds

SystemSpec == SystemInit /\ [][SystemNext]_systemVars

-----------------------------------------------------------------------------
(* Properties. *)

\* Every variable keeps its type.
SystemTypeOK ==
  /\ ServiceTypeOK
  /\ boot \in Boots
  /\ deps \in BOOLEAN /\ active \in BOOLEAN
  /\ photos \in BOOLEAN /\ blind \in BOOLEAN
  /\ source \in {"nothing", "startup", "presence", "photos"}
  /\ Len(pending) <= MaxPending

\* All processes keep their types, and a ForceOff keeps panel and subscribers off.
SystemInv == SystemTypeOK /\ ForcedOffIsDark

Settled == boot = "running" /\ pending = <<>> /\ glue \in {"down", "idle"}

\* Once all that was sent is handled, a slideshow last set for presence-service
\* runs exactly when that service, as it is now, has announced presence: its
\* end, and its restart without a word, pause it.
InStepWithPresence ==
  Settled /\ source = "presence" /\ ~blind => active = (announced = 1)

\* While somebody is announced present and there are photos the slideshow runs,
\* whatever came and went before, unless ambience found a service missing when
\* it started and has heard nothing since.
PresentIsShown ==
  Settled /\ announced = 1 /\ photos => active \/ (source = "startup" /\ ~deps)
=============================================================================
