---------------------------- MODULE DisplayPower ----------------------------
(***************************************************************************)
(* The power side of display-mgr (dbus.c, drm.c, main.c): one process that  *)
(* remembers in g_display_on what it last asked of the outputs, and asks    *)
(* again only for a change.  All outputs are switched together and count as *)
(* one; drmModeSetCrtc may fail, which is only logged.                      *)
(***************************************************************************)

VARIABLES
  mgr_up,       \* display-mgr owns its name on the bus
  lit,          \* an output scans out a framebuffer
  display_on    \* g_display_on

powerVars == <<mgr_up, lit, display_on>>

PowerInit ==
  /\ mgr_up = FALSE
  /\ lit \in BOOLEAN
  /\ display_on = FALSE

\* drm_display_on, drm_display_off and the loop of drm_create_framebuffer.
SetCrtc(on) == lit' \in {on, lit}

\* set_display_on, called by Display.On and Display.Off.
SetDisplayOn(on) ==
  /\ mgr_up
  /\ IF display_on = on THEN UNCHANGED <<lit, display_on>>
                        ELSE SetCrtc(on) /\ display_on' = on
  /\ UNCHANGED mgr_up

\* drm_init and drm_create_framebuffer, which shows the new framebuffer, then
\* drm_is_display_on for dbus_init.  main has asked it too, for what to restore:
\* by then the outputs are as drm_create_framebuffer left them.
MgrStarts ==
  /\ ~mgr_up
  /\ mgr_up' = TRUE
  /\ SetCrtc(TRUE)
  /\ display_on' = lit'

\* The process ends.  On SIGTERM main asks for the outputs as they were, but
\* drm_free then removes the framebuffer, as the kernel does for one that died:
\* either way the outputs go dark or back to the console.
MgrEnds ==
  /\ mgr_up
  /\ mgr_up' = FALSE
  /\ lit' \in BOOLEAN
  /\ UNCHANGED display_on

ConsoleSwitches ==
  /\ ~mgr_up
  /\ lit' = ~lit
  /\ UNCHANGED <<mgr_up, display_on>>

PowerTypeOK ==
  /\ mgr_up \in BOOLEAN /\ lit \in BOOLEAN /\ display_on \in BOOLEAN
=============================================================================
