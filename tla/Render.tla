------------------------------- MODULE Render -------------------------------
(***************************************************************************)
(* ambience's slideshow: the D-Bus thread (main.c, dbus_listeners.c) pauses *)
(* and resumes it, asks for other photos, announces text and swaps the      *)
(* framebuffer, while the render thread (render.c) waits, fetches, decodes, *)
(* composes a frame and writes it.  They share a few atomics, a semaphore,  *)
(* a text layer with a mutex of its own, and the framebuffer under          *)
(* drm_mutex.                                                               *)
(*                                                                         *)
(* A step is one atomic operation, one critical section, or the end of a    *)
(* blocking call.  Only the render thread's critical section takes several  *)
(* steps: it holds drm_mutex exactly in "write".  Decoding is part of       *)
(* fetching; sizes, pixels and the SVG layer are left out, and a new render *)
(* configuration counts as the Next it ends with.                           *)
(***************************************************************************)
EXTENDS Integers

CONSTANTS
  Announcements,   \* texts of Announce
  Errors,          \* photo-provider's messages when it has no photo
  HasFallback,     \* the fallback image is configured and decodes
  MaxCalls         \* bound on D-Bus calls and signals in a behaviour

ASSUME TextAssumption == Announcements \cap Errors = {}
ASSUME EmptyTextAssumption == "" \notin Announcements \cup Errors
ASSUME PlainAssumption == {"photo", "asleep"} \cap (Announcements \cup Errors) = {}
ASSUME RenderAssumption == HasFallback \in BOOLEAN /\ MaxCalls \in Nat

VARIABLES
  active, dirty, running,   \* slideshow_active, photo_cfg_dirty, thread_running
  sem, skip,                \* wake_sem, skip_count
  fb,            \* the render context has a framebuffer
  mapped,        \* ... and the memory it points to is mapped
  ctx_fb,        \* main's own fb, and with it the lease, is held
  screen,        \* the frame written last to that framebuffer
  layer,         \* the announce text layer: text, and whether it expires
  photo_error,   \* main's copy of the error it put on the layer, or ""
  last_text,     \* eink_meta's last_text
  panel,         \* what the e-ink panel shows
  rt, was_ready, got,   \* the render thread: place, local, result of a fetch
  bus, booting,         \* the D-Bus thread: place, still in main's startup
  calls

frameVars == <<fb, mapped, ctx_fb, screen>>
textVars == <<layer, photo_error>>
einkVars == <<last_text, panel>>
rtVars == <<rt, was_ready, got>>
busVars == <<bus, booting, calls>>
vars == <<active, dirty, running, sem, skip, frameVars, textVars, einkVars,
          rtVars, busVars>>

Texts == {""} \cup Announcements \cup Errors
Frames == [img : {"blank", "fallback", "photo"}, text : Texts]
Blank == [img |-> "blank", text |-> ""]
Fallback == [img |-> "fallback", text |-> ""]   \* as render_fallback paints it

\* overlay.c: an empty text clears the layer and has no deadline; a deadline may
\* have passed at any later time.
SetText(text, timed) == [text |-> text, timed |-> timed /\ text # ""]
Expire(l) == IF l.timed THEN {l, SetText("", FALSE)} ELSE {l}

\* top, size         wait_or_stop looks whether it may render
\* wait, timed       asleep, in sem_wait or sem_timedwait
\* recheck(_size)    a post came while it could render
\* drain ... eink    one photo, from the drained semaphore to the e-ink strip
RtPlaces == {"top", "size", "wait", "timed", "recheck", "recheck_size", "drain",
             "take", "config", "push", "fetch", "explain", "lock", "write",
             "eink", "show", "stopped", "dead"}
BusPlaces == {"boot", "idle", "dirtying", "pressing", "fallback", "eink", "show",
              "post", "acquire", "set_fb", "stop_post", "join", "exited", "dead"}

Ready == active /\ fb

Init ==
  /\ active = FALSE /\ dirty = FALSE /\ running = TRUE
  /\ sem = 0 /\ skip = 0
  /\ fb = FALSE /\ mapped = FALSE /\ ctx_fb = FALSE
  /\ screen = Blank
  /\ layer = SetText("", FALSE)
  /\ photo_error = ""
  /\ last_text = "" /\ panel = ""
  /\ rt = "top" /\ was_ready = TRUE /\ got = ""
  /\ bus = "boot" /\ booting = TRUE
  /\ calls = 0

-----------------------------------------------------------------------------
(* The render thread: wait_or_stop. *)

LooksIfActive ==
  /\ rt = "top"
  /\ rt' = IF ~running THEN "stopped" ELSE IF active THEN "size" ELSE "wait"
  /\ was_ready' = (was_ready /\ rt' # "wait")
  /\ UNCHANGED <<active, dirty, running, sem, skip, frameVars, textVars, einkVars,
                 got, busVars>>

\* Just become ready: no waiting for the transition time.
LooksIfAttached ==
  /\ rt = "size"
  /\ rt' = IF ~fb THEN "wait" ELSE IF was_ready THEN "timed" ELSE "drain"
  /\ was_ready' = (was_ready /\ fb)
  /\ UNCHANGED <<active, dirty, running, sem, skip, frameVars, textVars, einkVars,
                 got, busVars>>

Woken ==
  /\ sem > 0
  /\ \/ rt = "wait" /\ rt' = "top"
     \/ rt = "timed" /\ rt' = "recheck"
  /\ sem' = sem - 1
  /\ UNCHANGED <<active, dirty, running, skip, frameVars, textVars, einkVars,
                 was_ready, got, busVars>>

\* transition_time_s passed: the timer asks for the next photo.
TimerFires ==
  /\ rt = "timed"
  /\ sem = 0
  /\ rt' = "drain"
  /\ UNCHANGED <<active, dirty, running, sem, skip, frameVars, textVars, einkVars,
                 was_ready, got, busVars>>

LooksAgain ==
  /\ \/ rt = "recheck" /\ rt' = IF active THEN "recheck_size" ELSE "top"
     \/ rt = "recheck_size" /\ rt' = IF fb THEN "drain" ELSE "top"
  /\ UNCHANGED <<active, dirty, running, sem, skip, frameVars, textVars, einkVars,
                 was_ready, got, busVars>>

-----------------------------------------------------------------------------
(* The render thread: one photo. *)

DrainsSemaphore ==
  /\ rt = "drain"
  /\ sem' = 0
  /\ rt' = "take"
  /\ UNCHANGED <<active, dirty, running, skip, frameVars, textVars, einkVars,
                 was_ready, got, busVars>>

TakesSkips ==
  /\ rt = "take"
  /\ skip' = 0
  /\ rt' = "config"
  /\ UNCHANGED <<active, dirty, running, sem, frameVars, textVars, einkVars,
                 was_ready, got, busVars>>

TakesDirty ==
  /\ rt = "config"
  /\ dirty' = FALSE
  /\ rt' = IF dirty THEN "push" ELSE "fetch"
  /\ UNCHANGED <<active, running, sem, skip, frameVars, textVars, einkVars,
                 was_ready, got, busVars>>

\* push_initial_config fails when photo-provider does, or when the framebuffer
\* went and the size is 0x0.
PushesConfig ==
  /\ rt = "push"
  /\ dirty' \in {dirty, TRUE}
  /\ rt' = "fetch"
  /\ UNCHANGED <<active, running, sem, skip, frameVars, textVars, einkVars,
                 was_ready, got, busVars>>

\* A photo that decodes, an error message of photo-provider's, or a failure
\* without one: a timeout, a lost connection, a photo that does not decode.
Fetches ==
  /\ rt = "fetch"
  /\ got' \in {"photo", ""} \cup Errors
  /\ rt' = "explain"
  /\ UNCHANGED <<active, dirty, running, sem, skip, frameVars, textVars, einkVars,
                 was_ready, busVars>>

\* Mutant of Explains: a photo served does not clear the error.
ExplainsOnly ==
  /\ rt = "explain"
  /\ photo_error' = IF got = "photo" THEN "" ELSE got
  /\ layer' = IF photo_error' = photo_error \/ photo_error' = "" THEN layer
              ELSE SetText(photo_error', FALSE)
  /\ rt' = "lock"
  /\ UNCHANGED <<active, dirty, running, sem, skip, frameVars, einkVars, was_ready,
                 got, busVars>>

\* on_photo_error shares the announce layer and remembers what it put there.
Explains ==
  /\ rt = "explain"
  /\ photo_error' = IF got = "photo" THEN "" ELSE got
  /\ layer' = IF photo_error' = photo_error THEN layer
              ELSE SetText(photo_error', FALSE)
  /\ rt' = "lock"
  /\ UNCHANGED <<active, dirty, running, sem, skip, frameVars, einkVars, was_ready,
                 got, busVars>>

\* Mutant of LocksFrame: the mutex is taken, active is not looked at again.
LocksFrameUnchecked ==
  /\ rt = "lock"
  /\ \/ /\ fb
        /\ got' = got
        /\ rt' = IF got = "photo" \/ HasFallback THEN "write" ELSE "eink"
     \/ /\ ~fb
        /\ got' = "asleep"
        /\ rt' = "eink"
  /\ UNCHANGED <<active, dirty, running, sem, skip, frameVars, textVars, einkVars,
                 was_ready, busVars>>

\* drm_mutex taken, active looked at again: a frame fetched before a pause is
\* discarded.
LocksFrame ==
  /\ rt = "lock"
  /\ \/ /\ Ready
        /\ got' = got
        /\ rt' = IF got = "photo" \/ HasFallback THEN "write" ELSE "eink"
     \/ /\ ~Ready
        /\ got' = "asleep"
        /\ rt' = "eink"
  /\ UNCHANGED <<active, dirty, running, sem, skip, frameVars, textVars, einkVars,
                 was_ready, busVars>>

\* overlay_render drops a text whose deadline passed and draws the other on the
\* frame, and the frame is copied to the framebuffer.
WritesFrame ==
  /\ rt = "write"
  /\ mapped
  /\ layer' \in Expire(layer)
  /\ screen' = [img |-> IF got = "photo" THEN "photo" ELSE "fallback",
                text |-> layer'.text]
  /\ rt' = "eink"
  /\ UNCHANGED <<active, dirty, running, sem, skip, fb, mapped, ctx_fb,
                 photo_error, einkVars, was_ready, got, busVars>>

\* The memory went: the process dies, unless something else is mapped there.
WritesUnmapped ==
  /\ rt = "write"
  /\ ~mapped
  /\ \/ rt' = "dead" /\ bus' = "dead"
     \/ rt' = "eink" /\ bus' = bus
  /\ UNCHANGED <<active, dirty, running, sem, skip, frameVars, textVars, einkVars,
                 was_ready, got, booting, calls>>

\* Back to wait_or_stop.
NextPhoto == rt' = "top" /\ was_ready' = TRUE /\ got' = ""

\* show_status and eink_meta_render: a text that is up already is not redrawn.
WritesLastText ==
  /\ rt = "eink"
  /\ last_text' = got
  /\ IF last_text = got THEN NextPhoto
                        ELSE rt' = "show" /\ UNCHANGED <<was_ready, got>>
  /\ UNCHANGED <<active, dirty, running, sem, skip, frameVars, textVars, panel,
                 busVars>>

DrawsEink ==
  /\ rt = "show"
  /\ panel' = got
  /\ NextPhoto
  /\ UNCHANGED <<active, dirty, running, sem, skip, frameVars, textVars, last_text,
                 busVars>>

RtStep ==
  \/ LooksIfActive \/ LooksIfAttached \/ LooksAgain \/ Woken
  \/ DrainsSemaphore \/ TakesSkips \/ TakesDirty \/ PushesConfig
  \/ Fetches \/ Explains \/ LocksFrame \/ WritesFrame \/ WritesUnmapped
  \/ WritesLastText \/ DrawsEink

-----------------------------------------------------------------------------
(* The D-Bus thread: how a call or a signal begins. *)

Handles ==
  /\ bus = "idle"
  /\ calls < MaxCalls
  /\ calls' = calls + 1
  /\ UNCHANGED booting

\* render_slideshow_set_active up to its exchange; next is where a handler that
\* changes nothing goes.
Exchange(v, next) ==
  /\ active' = v
  /\ bus' = IF v = active THEN next ELSE IF v THEN "dirtying" ELSE "fallback"

\* main starts the slideshow if all services are there, then goes for a
\* framebuffer.
Boots ==
  /\ bus = "boot"
  /\ \E v \in BOOLEAN : Exchange(v, "acquire") /\ booting' = v
  /\ UNCHANGED <<dirty, running, sem, skip, frameVars, textVars, einkVars, rtVars,
                 calls>>

\* PresenceChanged, the presence service gone, photo-provider up or down.
SetActive(v) ==
  /\ Handles
  /\ Exchange(v, "idle")
  /\ UNCHANGED <<dirty, running, sem, skip, frameVars, textVars, einkVars, rtVars>>

\* Mutant of Press: nothing is posted.
PressQuietly(d) ==
  /\ Handles
  /\ skip' = skip + d
  /\ bus' = "idle"
  /\ UNCHANGED <<active, dirty, running, sem, frameVars, textVars, einkVars, rtVars>>

\* Next and SetRenderConfig, or Prev.
Press(d) ==
  /\ Handles
  /\ skip' = skip + d
  /\ bus' = "post"
  /\ UNCHANGED <<active, dirty, running, sem, frameVars, textVars, einkVars, rtVars>>

Announce(text, timed) ==
  /\ Handles
  /\ layer' = SetText(text, timed)
  /\ bus' = "pressing"
  /\ UNCHANGED <<active, dirty, running, sem, skip, frameVars, photo_error,
                 einkVars, rtVars>>

\* on_drm_mgr_updown begins by unmapping what main holds, with no lock.
Unmaps ==
  /\ ctx_fb' = FALSE
  /\ mapped' = (mapped /\ ~ctx_fb)

DisplayUp ==
  /\ Handles
  /\ Unmaps
  /\ bus' = "acquire"
  /\ UNCHANGED <<active, dirty, running, sem, skip, fb, screen, textVars, einkVars,
                 rtVars>>

DisplayDown ==
  /\ Handles
  /\ Unmaps
  /\ bus' = "set_fb"
  /\ UNCHANGED <<active, dirty, running, sem, skip, fb, screen, textVars, einkVars,
                 rtVars>>

\* Mutant of Shutdown: the render thread is not woken.
ShutdownQuietly ==
  /\ bus = "idle"
  /\ running' = FALSE
  /\ bus' = "join"
  /\ UNCHANGED <<active, dirty, sem, skip, frameVars, textVars, einkVars, rtVars,
                 booting, calls>>

\* SIGTERM ends the main loop: render_free.
Shutdown ==
  /\ bus = "idle"
  /\ running' = FALSE
  /\ bus' = "stop_post"
  /\ UNCHANGED <<active, dirty, sem, skip, frameVars, textVars, einkVars, rtVars,
                 booting, calls>>

-----------------------------------------------------------------------------
(* The D-Bus thread: how they go on. *)

PressesNext ==
  /\ bus = "pressing"
  /\ skip' = skip + 1
  /\ bus' = "post"
  /\ UNCHANGED <<active, dirty, running, sem, frameVars, textVars, einkVars, rtVars,
                 booting, calls>>

SetsDirty ==
  /\ bus = "dirtying"
  /\ dirty' = TRUE
  /\ bus' = "post"
  /\ UNCHANGED <<active, running, sem, skip, frameVars, textVars, einkVars, rtVars,
                 booting, calls>>

Acquires ==
  /\ bus = "acquire"
  /\ ctx_fb' \in BOOLEAN
  /\ bus' = "set_fb"
  /\ UNCHANGED <<active, dirty, running, sem, skip, fb, mapped, screen, textVars,
                 einkVars, rtVars, booting, calls>>

\* Mutant of SetsFb: a framebuffer that comes while active wakes nobody.
SetsFbQuietly ==
  /\ bus = "set_fb"
  /\ rt # "write"
  /\ fb' = ctx_fb
  /\ mapped' = ctx_fb
  /\ screen' = Blank
  /\ bus' = IF active THEN "idle" ELSE "fallback"
  /\ UNCHANGED <<active, dirty, running, sem, skip, ctx_fb, textVars, einkVars,
                 rtVars, booting, calls>>

\* render_set_fb, under drm_mutex.
SetsFb ==
  /\ bus = "set_fb"
  /\ rt # "write"
  /\ fb' = ctx_fb
  /\ mapped' = ctx_fb
  /\ screen' = Blank
  /\ bus' = IF active THEN "post" ELSE "fallback"
  /\ UNCHANGED <<active, dirty, running, sem, skip, ctx_fb, textVars, einkVars,
                 rtVars, booting, calls>>

\* render_fallback, under drm_mutex: no overlay is drawn.
PaintsFallback ==
  /\ bus = "fallback"
  /\ rt # "write"
  /\ screen' = IF fb /\ HasFallback THEN Fallback ELSE screen
  /\ bus' = IF HasFallback THEN "eink" ELSE "post"
  /\ UNCHANGED <<active, dirty, running, sem, skip, fb, mapped, ctx_fb, textVars,
                 einkVars, rtVars, booting, calls>>

SaysAsleep ==
  /\ \/ /\ bus = "eink"
        /\ last_text' = "asleep"
        /\ bus' = IF last_text = "asleep" THEN "post" ELSE "show"
        /\ UNCHANGED panel
     \/ /\ bus = "show"
        /\ panel' = "asleep"
        /\ bus' = "post"
        /\ UNCHANGED last_text
  /\ UNCHANGED <<active, dirty, running, sem, skip, frameVars, textVars, rtVars,
                 booting, calls>>

Posts ==
  /\ \/ /\ bus = "post"
        /\ bus' = IF booting THEN "acquire" ELSE "idle"
     \/ /\ bus = "stop_post"
        /\ bus' = "join"
  /\ sem' = sem + 1
  /\ booting' = FALSE
  /\ UNCHANGED <<active, dirty, running, skip, frameVars, textVars, einkVars, rtVars,
                 calls>>

\* The render thread is joined; what remains on the screen is the fallback.
Joins ==
  /\ bus = "join"
  /\ rt = "stopped"
  /\ screen' = IF fb THEN IF HasFallback THEN Fallback ELSE Blank ELSE screen
  /\ last_text' = IF HasFallback THEN "asleep" ELSE last_text
  /\ panel' = ""
  /\ bus' = "exited"
  /\ UNCHANGED <<active, dirty, running, sem, skip, fb, mapped, ctx_fb, textVars,
                 rtVars, booting, calls>>

Over ==
  /\ bus \in {"exited", "dead"}
  /\ UNCHANGED vars

BusStep ==
  \/ Boots \/ PressesNext \/ SetsDirty \/ Acquires \/ SetsFb \/ PaintsFallback
  \/ SaysAsleep \/ Posts \/ Joins

Request ==
  \/ \E v \in BOOLEAN : SetActive(v)
  \/ \E d \in {1, -1} : Press(d)
  \/ \E text \in {""} \cup Announcements, timed \in BOOLEAN : Announce(text, timed)
  \/ DisplayUp
  \/ DisplayDown

Next ==
  \/ RtStep
  \/ TimerFires
  \/ BusStep
  \/ Request
  \/ Shutdown
  \/ Over

Spec == Init /\ [][Next]_vars

\* Both threads are scheduled and every call to photo-provider or display-mgr
\* ends by its own timeout; the D-Bus thread gets drm_mutex in one of the long
\* times between two frames.  Nothing is assumed of the transition timer: what
\* must happen must not wait for it.
FairSpec == Spec /\ WF_vars(RtStep) /\ SF_vars(BusStep)

-----------------------------------------------------------------------------
(* Properties. *)

\* Every variable keeps its type.
TypeOK ==
  /\ active \in BOOLEAN /\ dirty \in BOOLEAN /\ running \in BOOLEAN
  /\ sem \in 0 .. MaxCalls + 3
  /\ skip \in -MaxCalls .. MaxCalls
  /\ fb \in BOOLEAN /\ mapped \in BOOLEAN /\ ctx_fb \in BOOLEAN
  /\ screen \in Frames
  /\ layer \in [text : Texts, timed : BOOLEAN]
  /\ photo_error \in {""} \cup Errors
  /\ last_text \in {"", "photo", "asleep"} \cup Errors
  /\ panel \in {"", "photo", "asleep"} \cup Errors
  /\ rt \in RtPlaces /\ was_ready \in BOOLEAN
  /\ got \in {"", "photo", "asleep"} \cup Errors
  /\ bus \in BusPlaces /\ booting \in BOOLEAN
  /\ calls \in 0 .. MaxCalls

\* Once a pause was handled the screen shows the fallback, whatever photo was
\* being fetched or written when it came (render.c: "the pause path has already
\* painted the fallback and we must not stomp on it").
PausedShowsFallback ==
  HasFallback /\ bus = "idle" /\ ~active /\ fb => screen = Fallback

\* The render thread never sleeps on something to do: not at all once it may
\* render, and not until the timer with a press to serve.
NoLostWakeup ==
  sem = 0 /\ bus = "idle" =>
    /\ rt = "wait" => ~Ready
    /\ rt = "timed" => Ready /\ skip = 0

\* An error message is on the layer only while it is the last that
\* photo-provider gave, and never on a photo (main.c, on_photo_error).
ErrorsClear ==
  /\ layer.text \in Errors => photo_error = layer.text
  /\ screen.img = "photo" => screen.text \notin Errors

\* A Next, Prev or render configuration is served without the transition timer.
PressServed ==
  skip # 0 /\ Ready ~> skip = 0 \/ ~Ready \/ ~running \/ rt = "dead"

\* An announcement comes up without the transition timer, photo or not, unless
\* it expires, is replaced, or the slideshow stops (main.c, on_announce).
AnnouncementShown ==
  \A text \in Announcements :
    layer.text = text /\ Ready ~>
      \/ screen.text = text
      \/ layer.text # text \/ ~Ready \/ ~running \/ rt = "dead"

\* Neither presses nor announcements wait for the timer.
RequestsServed == PressServed /\ AnnouncementShown

\* SIGTERM ends the process, whatever the render thread was doing.
ShutdownEnds == ~running ~> bus \in {"exited", "dead"}

-----------------------------------------------------------------------------
(* What comments say and the code does not do. *)

\* main.c: "This doesn't need a drm mutex because the mutex is held in the
\* render object".
FrameIsMapped == rt = "write" => mapped
=============================================================================
