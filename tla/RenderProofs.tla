---------------------------- MODULE RenderProofs ----------------------------
(***************************************************************************)
(* Proofs about Render's safety, for any texts, any number of calls, with   *)
(* and without a fallback image.  Each invariant has its own inductive      *)
(* strengthening: Bounded, TextsAgree, PauseInHand and WakesDue.  The steps *)
(* that touch nothing an invariant mentions are taken together.             *)
(***************************************************************************)
EXTENDS Render, TLAPS

-----------------------------------------------------------------------------
(* The inductive invariants. *)

\* Why the counters stay in range: every call adds at most one press and one
\* post, startup adds at most two posts and the shutdown one.
InRange ==
  /\ sem \in Nat /\ calls \in 0 .. MaxCalls /\ skip \in -calls .. calls
  /\ bus = "pressing" => skip < calls
  /\ bus = "boot" => sem = 0 /\ calls = 0 /\ active = FALSE
  /\ booting /\ bus # "boot" =>
       sem = 0 /\ calls = 0 /\ bus \in {"dirtying", "post", "dead"}
  /\ bus \in {"idle", "stop_post"} => sem <= calls + 2
  /\ bus \in {"dirtying", "pressing", "fallback", "eink", "show", "post",
              "acquire", "set_fb"} => sem <= calls + 1
  /\ sem <= calls + 3

\* The other variables, by kind.
FlagsTyped ==
  /\ active \in BOOLEAN /\ dirty \in BOOLEAN /\ running \in BOOLEAN
  /\ fb \in BOOLEAN /\ mapped \in BOOLEAN /\ ctx_fb \in BOOLEAN
  /\ was_ready \in BOOLEAN /\ booting \in BOOLEAN
PlacesTyped ==
  /\ rt \in RtPlaces /\ bus \in BusPlaces
EinkTyped ==
  /\ last_text \in {"", "photo", "asleep"} \cup Errors
  /\ panel \in {"", "photo", "asleep"} \cup Errors
  /\ got \in {"", "photo", "asleep"} \cup Errors
TextsTyped ==
  /\ screen \in Frames
  /\ layer \in [text : Texts, timed : BOOLEAN]
  /\ photo_error \in {""} \cup Errors
  /\ rt = "explain" => got \in {"photo", ""} \cup Errors

Bounded == InRange /\ FlagsTyped /\ PlacesTyped /\ EinkTyped /\ TextsTyped

\* A fetch ends in a photo, an error or neither, and a photo is composed only
\* while no error is remembered.
TextsAgree ==
  /\ ErrorsClear
  /\ photo_error \in {""} \cup Errors
  /\ layer.text \in Texts
  /\ rt = "explain" => got \in {"photo", ""} \cup Errors
  /\ rt \in {"lock", "write"} /\ got = "photo" => photo_error = ""

\* A pause still owes the fallback, or the fallback is up and no frame is about
\* to cover it.
PauseInHand ==
  /\ bus = "boot" => ~fb
  /\ HasFallback /\ fb /\ ~active /\ bus \notin {"fallback", "dead"} =>
       screen = Fallback /\ rt # "write"

\* The D-Bus thread owes the semaphore a post.
PostDue == bus \in {"dirtying", "pressing", "fallback", "eink", "show", "post",
                    "stop_post"}

\* With no post made or due, the render thread knows all there is to know:
\* presses were taken with the last photo, and what it read on its way to sleep
\* still holds.
WakesDue ==
  /\ sem \in Nat
  /\ rt = "wait" => ~was_ready
  /\ sem = 0 /\ ~PostDue =>
       /\ rt \in {"config", "push", "fetch", "explain", "lock", "write", "eink",
                  "show"} => skip = 0
       /\ rt = "top" /\ was_ready => skip = 0 \/ ~Ready
       /\ rt = "size" => active /\ (was_ready /\ fb => skip = 0)
       /\ rt = "wait" => ~Ready
       /\ rt = "timed" => Ready /\ skip = 0

-----------------------------------------------------------------------------
(* ErrorsClear. *)

\* A text put on the layer is the one that was given.
LEMMA TextIsSet ==
  ASSUME NEW text, NEW timed
  PROVE  SetText(text, timed).text = text
BY DEF SetText

\* Expiry leaves the text or clears it.
LEMMA ExpiryClears ==
  ASSUME NEW l, NEW k \in Expire(l)
  PROVE  k.text \in {l.text, ""}
BY TextIsSet DEF Expire

\* Only decoding's outcome, the frame and the D-Bus thread's paints and texts
\* touch what TextsAgree mentions.
LEMMA InitTexts == Init => TextsAgree
<1> SUFFICES ASSUME Init PROVE TextsAgree
  OBVIOUS
<1>1. layer.text = "" /\ photo_error = ""
  BY TextIsSet DEF Init
<1>2. screen.img # "photo" /\ rt = "top"
  BY DEF Init, Blank
<1> QED BY <1>1, <1>2, EmptyTextAssumption DEF TextsAgree, ErrorsClear, Texts

LEMMA NextTexts == TextsAgree /\ [Next]_vars => TextsAgree'
<1> SUFFICES ASSUME TextsAgree, [Next]_vars PROVE TextsAgree'
  OBVIOUS
<1> USE DEF TextsAgree, ErrorsClear
<1>1. CASE Fetches
  BY <1>1 DEF Fetches, frameVars, textVars
<1>2. CASE Explains
  <2>1. /\ got = "photo" => photo_error' = ""
        /\ photo_error' \in {"", got}
        /\ rt' = "lock" /\ got' = got
    BY <1>2 DEF Explains
  <2>2. layer'.text = IF photo_error' = photo_error THEN layer.text ELSE photo_error'
    BY <1>2, TextIsSet DEF Explains
  <2>3. screen' = screen
    BY <1>2 DEF Explains, frameVars
  <2>4. photo_error' \in {""} \cup Errors
    BY <1>2, <2>1 DEF Explains
  <2> QED BY <2>1, <2>2, <2>3, <2>4, EmptyTextAssumption DEF Texts
<1>3. CASE LocksFrame
  BY <1>3, PlainAssumption DEF LocksFrame, frameVars, textVars
<1>4. CASE WritesFrame
  <2>1. layer'.text \in {layer.text, ""}
    BY <1>4, ExpiryClears DEF WritesFrame
  <2>2. screen'.text = layer'.text /\ (screen'.img = "photo" => got = "photo")
    BY <1>4 DEF WritesFrame
  <2>3. got' = got /\ photo_error' = photo_error /\ rt' = "eink" /\ rt = "write"
    BY <1>4 DEF WritesFrame
  <2> QED BY <2>1, <2>2, <2>3, EmptyTextAssumption DEF Texts
<1>5. CASE \/ LooksIfActive \/ LooksIfAttached \/ LooksAgain \/ Woken
           \/ DrainsSemaphore \/ TakesSkips \/ TakesDirty \/ PushesConfig
           \/ WritesUnmapped \/ WritesLastText \/ DrawsEink \/ TimerFires
  BY <1>5 DEF LooksIfActive, LooksIfAttached, LooksAgain, Woken, DrainsSemaphore,
     TakesSkips, TakesDirty, PushesConfig, WritesUnmapped, WritesLastText,
     DrawsEink, TimerFires, NextPhoto, frameVars, textVars
<1>6. CASE SetsFb \/ PaintsFallback \/ Joins
  <2>1. screen'.img = "photo" => screen' = screen
    <3>1. Blank.img # "photo" /\ Fallback.img # "photo"
      BY DEF Blank, Fallback
    <3>2. screen' \in {Blank, Fallback, screen}
      BY <1>6 DEF SetsFb, PaintsFallback, Joins
    <3> QED BY <3>1, <3>2
  <2>2. UNCHANGED <<layer, photo_error, rt, got>>
    BY <1>6 DEF SetsFb, PaintsFallback, Joins, textVars, rtVars
  <2> QED BY <2>1, <2>2
<1>7. CASE \/ Boots \/ PressesNext \/ SetsDirty \/ Acquires \/ SaysAsleep \/ Posts
           \/ Shutdown \/ Over
  BY <1>7 DEF Boots, PressesNext, SetsDirty, Acquires, SaysAsleep, Posts, Shutdown,
     Over, vars, frameVars, textVars, rtVars
<1>8. ASSUME NEW text \in {""} \cup Announcements, NEW timed \in BOOLEAN,
             Announce(text, timed)
      PROVE  TextsAgree'
  <2>1. layer'.text = text
    BY <1>8, TextIsSet DEF Announce
  <2> QED BY <1>8, <2>1, TextAssumption, EmptyTextAssumption
          DEF Announce, Texts, frameVars, rtVars
<1>9. CASE \/ \E v \in BOOLEAN : SetActive(v)
           \/ \E d \in {1, -1} : Press(d)
           \/ DisplayUp \/ DisplayDown
  BY <1>9 DEF SetActive, Press, DisplayUp, DisplayDown, frameVars, textVars, rtVars
<1>10. CASE UNCHANGED vars
  BY <1>10 DEF vars, frameVars, textVars, rtVars
<1> QED BY <1>1, <1>2, <1>3, <1>4, <1>5, <1>6, <1>7, <1>8, <1>9, <1>10
        DEF Next, RtStep, BusStep, Request

\* An error message leaves the layer and the photos as soon as photo-provider
\* has no error to give.
THEOREM ErrorsAlwaysClear == Spec => []ErrorsClear
<1>1. TextsAgree => ErrorsClear
  BY DEF TextsAgree
<1> QED BY <1>1, InitTexts, NextTexts, PTL DEF Spec

-----------------------------------------------------------------------------
(* PausedShowsFallback. *)

LEMMA InitPause == Init => PauseInHand
BY DEF Init, PauseInHand

LEMMA NextPause == PauseInHand /\ [Next]_vars => PauseInHand'
<1> SUFFICES ASSUME PauseInHand, [Next]_vars PROVE PauseInHand'
  OBVIOUS
<1> USE DEF PauseInHand
<1>1. CASE LocksFrame
  BY <1>1 DEF LocksFrame, Ready, frameVars, busVars
<1>2. CASE WritesFrame
  BY <1>2 DEF WritesFrame, busVars
<1>3. CASE WritesUnmapped
  BY <1>3 DEF WritesUnmapped, frameVars
<1>4. CASE \/ LooksIfActive \/ LooksIfAttached \/ LooksAgain \/ Woken
           \/ DrainsSemaphore \/ TakesSkips \/ TakesDirty \/ PushesConfig
           \/ Fetches \/ Explains \/ WritesLastText \/ DrawsEink \/ TimerFires
  <2>1. UNCHANGED <<active, fb, screen, bus>> /\ (rt' = "write" => rt = "write")
    BY <1>4 DEF LooksIfActive, LooksIfAttached, LooksAgain, Woken, DrainsSemaphore,
       TakesSkips, TakesDirty, PushesConfig, Fetches, Explains, WritesLastText,
       DrawsEink, TimerFires, NextPhoto, frameVars, busVars
  <2> QED BY <2>1
<1>5. CASE Boots
  BY <1>5 DEF Boots, Exchange, frameVars, rtVars
<1>6. CASE SetsFb
  BY <1>6 DEF SetsFb, rtVars
<1>7. CASE PaintsFallback
  BY <1>7 DEF PaintsFallback, rtVars
<1>8. CASE Joins
  BY <1>8 DEF Joins, rtVars
<1>9. CASE PressesNext \/ SetsDirty \/ Acquires \/ SaysAsleep \/ Posts \/ Shutdown
           \/ Over
  BY <1>9 DEF PressesNext, SetsDirty, Acquires, SaysAsleep, Posts, Shutdown, Over,
     vars, frameVars, rtVars, busVars
<1>10. ASSUME NEW v \in BOOLEAN, SetActive(v) PROVE PauseInHand'
  BY <1>10 DEF SetActive, Handles, Exchange, frameVars, rtVars
<1>11. CASE \/ \E d \in {1, -1} : Press(d)
            \/ \E text \in {""} \cup Announcements, timed \in BOOLEAN :
                 Announce(text, timed)
            \/ DisplayUp \/ DisplayDown
  <2>1. UNCHANGED <<active, fb, screen, rt>> /\ bus = "idle" /\ bus' # "boot"
    BY <1>11 DEF Press, Announce, DisplayUp, DisplayDown, Handles, frameVars, rtVars
  <2> QED BY <2>1
<1>12. CASE UNCHANGED vars
  BY <1>12 DEF vars, frameVars, rtVars, busVars
<1> QED BY <1>1, <1>2, <1>3, <1>4, <1>5, <1>6, <1>7, <1>8, <1>9, <1>10, <1>11,
           <1>12 DEF Next, RtStep, BusStep, Request

\* Whatever the render thread was composing when the pause came, what the pause
\* leaves on the screen is the fallback.
THEOREM PauseAlwaysPaints == Spec => []PausedShowsFallback
<1>1. PauseInHand => PausedShowsFallback
  BY DEF PauseInHand, PausedShowsFallback
<1> QED BY <1>1, InitPause, NextPause, PTL DEF Spec

-----------------------------------------------------------------------------
(* NoLostWakeup. *)

LEMMA InitWakes == Init => WakesDue
<1> SUFFICES ASSUME Init PROVE WakesDue
  OBVIOUS
<1>1. sem = 0 /\ skip = 0 /\ rt = "top"
  BY DEF Init
<1> QED BY <1>1 DEF WakesDue

\* What a step of the render thread leaves alone.
LEMMA RenderLeavesBus ==
  ASSUME RtStep \/ TimerFires
  PROVE  UNCHANGED <<active, fb>> /\ (bus' = bus \/ rt' = "dead")
<1>1. CASE LooksIfActive \/ LooksIfAttached \/ LooksAgain \/ Woken
  BY <1>1 DEF LooksIfActive, LooksIfAttached, LooksAgain, Woken, frameVars, busVars
<1>2. CASE \/ DrainsSemaphore \/ TakesSkips \/ TakesDirty \/ PushesConfig
           \/ Fetches \/ Explains
  BY <1>2 DEF DrainsSemaphore, TakesSkips, TakesDirty, PushesConfig, Fetches,
     Explains, frameVars, busVars
<1>3. CASE LocksFrame \/ WritesFrame
  BY <1>3 DEF LocksFrame, WritesFrame, frameVars, busVars
<1>4. CASE WritesUnmapped
  BY <1>4 DEF WritesUnmapped, frameVars
<1>5. CASE WritesLastText \/ DrawsEink \/ TimerFires
  BY <1>5 DEF WritesLastText, DrawsEink, TimerFires, frameVars, busVars
<1> QED BY <1>1, <1>2, <1>3, <1>4, <1>5 DEF RtStep

\* The render thread's steps preserve it.
LEMMA RenderWakes ==
  ASSUME WakesDue, RtStep \/ TimerFires
  PROVE  WakesDue'
<1> USE DEF WakesDue
<1>1. UNCHANGED <<active, fb>> /\ Ready' = Ready
  BY RenderLeavesBus DEF Ready
<1>2. rt' # "dead" => PostDue' = PostDue
  BY RenderLeavesBus DEF PostDue
<1>3. CASE LooksIfActive
  <2>1. UNCHANGED <<sem, skip>> /\ rt = "top" /\ rt' \in {"stopped", "size", "wait"}
    BY <1>3 DEF LooksIfActive
  <2>2. CASE rt' = "size"
    <3>1. active /\ active' /\ fb' = fb
      BY <1>1, <1>3, <2>2 DEF LooksIfActive
    <3>2. was_ready' => was_ready
      BY <1>3 DEF LooksIfActive
    <3> QED BY <1>2, <2>1, <2>2, <3>1, <3>2 DEF Ready
  <2>3. CASE rt' = "wait"
    <3>1. ~was_ready' /\ ~Ready'
      BY <1>1, <1>3, <2>3 DEF LooksIfActive, Ready
    <3> QED BY <2>1, <2>3, <3>1
  <2> QED BY <2>1, <2>2, <2>3
<1>4. CASE LooksIfAttached
  BY <1>1, <1>2, <1>4 DEF LooksIfAttached, Ready
<1>5. CASE LooksAgain
  BY <1>1, <1>2, <1>5 DEF LooksAgain, Ready
<1>6. CASE Woken
  BY <1>1, <1>2, <1>6 DEF Woken
<1>7. CASE DrainsSemaphore
  BY <1>1, <1>2, <1>7 DEF DrainsSemaphore
<1>8. CASE TakesSkips \/ TakesDirty \/ PushesConfig
  BY <1>1, <1>2, <1>8 DEF TakesSkips, TakesDirty, PushesConfig
<1>9. CASE Fetches \/ Explains \/ LocksFrame \/ WritesFrame
  BY <1>1, <1>2, <1>9 DEF Fetches, Explains, LocksFrame, WritesFrame
<1>10. CASE WritesUnmapped
  BY <1>1, <1>2, <1>10 DEF WritesUnmapped
<1>11. CASE WritesLastText \/ DrawsEink
  BY <1>1, <1>2, <1>11 DEF WritesLastText, DrawsEink, NextPhoto
<1>12. CASE TimerFires
  BY <1>1, <1>2, <1>12 DEF TimerFires
<1> QED BY <1>3, <1>4, <1>5, <1>6, <1>7, <1>8, <1>9, <1>10, <1>11, <1>12 DEF RtStep

\* So do the D-Bus thread's: a step that changes what the render thread waits
\* for leaves a post due.
LEMMA BusWakes ==
  ASSUME WakesDue, BusStep \/ Request \/ Shutdown \/ UNCHANGED vars
  PROVE  WakesDue'
<1> USE DEF WakesDue
<1>1. CASE Posts
  BY <1>1 DEF Posts, rtVars
<1>2. CASE ~Posts
  <2>1. CASE BusStep
    <3>1. UNCHANGED <<sem, rt, was_ready>>
      BY <1>2, <2>1 DEF BusStep, Boots, PressesNext, SetsDirty, Acquires, SetsFb,
         PaintsFallback, SaysAsleep, Joins, rtVars
    <3>2. PostDue' \/ (UNCHANGED <<active, fb, skip>> /\ ~PostDue)
           \/ bus' = "exited"
      BY <1>2, <2>1 DEF BusStep, Boots, Exchange, PressesNext, SetsDirty, Acquires,
         SetsFb, PaintsFallback, SaysAsleep, Joins, frameVars, PostDue
    <3>3. CASE Joins
      BY <3>1, <3>3 DEF Joins
    <3> QED BY <3>1, <3>2, <3>3, <2>1, <1>2
            DEF BusStep, Boots, Exchange, PressesNext, SetsDirty, Acquires, SetsFb,
                PaintsFallback, SaysAsleep, Ready, PostDue
  <2>2. CASE Request \/ Shutdown
    <3>1. UNCHANGED <<sem, rt, was_ready>> /\ ~PostDue
      BY <2>2 DEF Request, SetActive, Press, Announce, DisplayUp, DisplayDown,
         Shutdown, Handles, rtVars, PostDue
    <3>2. PostDue' \/ UNCHANGED <<active, fb, skip>>
      BY <2>2 DEF Request, SetActive, Exchange, Press, Announce, DisplayUp,
         DisplayDown, Shutdown, frameVars, PostDue
    <3> QED BY <3>1, <3>2 DEF Ready
  <2>3. CASE UNCHANGED vars
    BY <2>3 DEF vars, rtVars, busVars, frameVars, PostDue, Ready
  <2> QED BY <2>1, <2>2, <2>3
<1> QED BY <1>1, <1>2

LEMMA NextWakes == WakesDue /\ [Next]_vars => WakesDue'
BY RenderWakes, BusWakes DEF Next, Over

\* The render thread never sleeps through something it was told to do.
THEOREM WakeupsNeverLost == Spec => []NoLostWakeup
<1>1. WakesDue => NoLostWakeup
  BY DEF WakesDue, NoLostWakeup, PostDue
<1> QED BY <1>1, InitWakes, NextWakes, PTL DEF Spec

-----------------------------------------------------------------------------
(* TypeOK. *)

LEMMA InitBounded == Init => Bounded
<1> SUFFICES ASSUME Init PROVE Bounded
  OBVIOUS
<1>1. InRange
  <2>1. sem = 0 /\ calls = 0 /\ skip = 0 /\ bus = "boot" /\ active = FALSE
    BY DEF Init
  <2>2. calls \in 0 .. MaxCalls /\ skip \in -calls .. calls
    BY <2>1, RenderAssumption
  <2> QED BY <2>1, <2>2 DEF InRange
<1>2. FlagsTyped
  BY DEF Init, FlagsTyped
<1>3. PlacesTyped
  BY DEF Init, PlacesTyped, RtPlaces, BusPlaces
<1>4. EinkTyped
  BY DEF Init, EinkTyped
<1>5. TextsTyped
  BY DEF Init, TextsTyped, Frames, Texts, Blank, SetText
<1> QED BY <1>1, <1>2, <1>3, <1>4, <1>5 DEF Bounded

LEMMA NextInRange == InRange /\ [Next]_vars => InRange'
<1> SUFFICES ASSUME InRange, [Next]_vars PROVE InRange'
  OBVIOUS
<1> USE RenderAssumption DEF InRange
<1>1. CASE \/ LooksIfActive \/ LooksIfAttached \/ LooksAgain \/ TakesDirty
           \/ PushesConfig \/ Fetches \/ Explains \/ LocksFrame \/ WritesFrame
           \/ WritesLastText \/ DrawsEink \/ TimerFires \/ Over \/ UNCHANGED vars
  <2>1. UNCHANGED <<sem, skip, calls, booting, bus, active>>
    BY <1>1 DEF LooksIfActive, LooksIfAttached, LooksAgain, TakesDirty, PushesConfig,
       Fetches, Explains, LocksFrame, WritesFrame, WritesLastText, DrawsEink,
       TimerFires, Over, vars, busVars
  <2> QED BY <2>1
<1>2. CASE WritesUnmapped
  <2>1. /\ UNCHANGED <<sem, skip, calls, booting, active>>
        /\ bus' = bus \/ bus' = "dead"
    BY <1>2 DEF WritesUnmapped
  <2> QED BY <2>1
<1>3. CASE Woken \/ DrainsSemaphore
  BY <1>3 DEF Woken, DrainsSemaphore, busVars
<1>4. CASE TakesSkips
  BY <1>4 DEF TakesSkips, busVars
<1>5. CASE Boots
  <2>1. UNCHANGED <<sem, skip, calls>> /\ sem = 0 /\ calls = 0 /\ bus' # "boot"
    BY <1>5 DEF Boots, Exchange
  <2>2. \/ bus' \in {"dirtying"}
        \/ bus' \in {"acquire", "fallback"} /\ ~booting'
    BY <1>5 DEF Boots, Exchange
  <2> QED BY <2>1, <2>2
<1>6. CASE PressesNext
  BY <1>6 DEF PressesNext
<1>7. CASE SetsDirty \/ Acquires \/ SetsFb \/ PaintsFallback \/ SaysAsleep
  BY <1>7 DEF SetsDirty, Acquires, SetsFb, PaintsFallback, SaysAsleep
<1>8. CASE Posts
  BY <1>8 DEF Posts
<1>9. CASE Joins
  BY <1>9 DEF Joins
<1>10. ASSUME NEW v \in BOOLEAN, SetActive(v) PROVE InRange'
  BY <1>10 DEF SetActive, Handles, Exchange
<1>11. ASSUME NEW d \in {1, -1}, Press(d) PROVE InRange'
  BY <1>11 DEF Press, Handles
<1>12. CASE \E text \in {""} \cup Announcements, timed \in BOOLEAN :
              Announce(text, timed)
  <2>1. /\ bus = "idle" /\ bus' = "pressing"
        /\ calls < MaxCalls /\ calls' = calls + 1
        /\ UNCHANGED <<sem, skip, booting>>
    BY <1>12 DEF Announce, Handles
  <2>2. calls' \in 0 .. MaxCalls /\ skip' \in -calls' .. calls' /\ skip' < calls'
    BY <2>1
  <2> QED BY <2>1, <2>2
<1>13. CASE DisplayUp \/ DisplayDown
  BY <1>13 DEF DisplayUp, DisplayDown, Handles
<1>14. CASE Shutdown
  BY <1>14 DEF Shutdown, busVars
<1> QED BY <1>1, <1>2, <1>3, <1>4, <1>5, <1>6, <1>7, <1>8, <1>9, <1>10, <1>11,
           <1>12, <1>13, <1>14 DEF Next, RtStep, BusStep, Request

\* The flags.
LEMMA NextFlags == FlagsTyped /\ [Next]_vars => FlagsTyped'
<1> SUFFICES ASSUME FlagsTyped, [Next]_vars PROVE FlagsTyped'
  OBVIOUS
<1> USE DEF FlagsTyped
<1>1. CASE \/ LooksIfActive \/ LooksIfAttached \/ LooksAgain \/ Woken
           \/ DrainsSemaphore \/ TakesSkips \/ TakesDirty \/ PushesConfig
  <2>1. CASE LooksIfActive \/ LooksIfAttached \/ LooksAgain \/ Woken
    BY <2>1 DEF LooksIfActive, LooksIfAttached, LooksAgain, Woken, frameVars, busVars
  <2>2. CASE DrainsSemaphore \/ TakesSkips \/ TakesDirty \/ PushesConfig
    BY <2>2 DEF DrainsSemaphore, TakesSkips, TakesDirty, PushesConfig, frameVars,
       busVars
  <2> QED BY <1>1, <2>1, <2>2
<1>2. CASE \/ Fetches \/ Explains \/ LocksFrame \/ WritesFrame \/ WritesUnmapped
           \/ WritesLastText \/ DrawsEink \/ TimerFires
  <2>1. CASE Fetches \/ Explains \/ LocksFrame
    BY <2>1 DEF Fetches, Explains, LocksFrame, frameVars, busVars
  <2>2. CASE WritesFrame \/ WritesUnmapped
    BY <2>2 DEF WritesFrame, WritesUnmapped, NextPhoto, frameVars, busVars
  <2>3. CASE WritesLastText \/ DrawsEink \/ TimerFires
    BY <2>3 DEF WritesLastText, DrawsEink, TimerFires, NextPhoto, frameVars, busVars
  <2> QED BY <1>2, <2>1, <2>2, <2>3
<1>3. CASE \/ Boots \/ PressesNext \/ SetsDirty \/ Acquires \/ SetsFb
           \/ PaintsFallback \/ SaysAsleep \/ Posts \/ Joins
  BY <1>3 DEF Boots, Exchange, PressesNext, SetsDirty, Acquires, SetsFb,
     PaintsFallback, SaysAsleep, Posts, Joins, frameVars, rtVars
<1>4. CASE Request
  <2>1. ASSUME NEW v \in BOOLEAN, SetActive(v) PROVE FlagsTyped'
    BY <2>1 DEF SetActive, Exchange, Handles, frameVars, rtVars
  <2>2. ASSUME NEW d \in {1, -1}, Press(d) PROVE FlagsTyped'
    BY <2>2 DEF Press, Handles, frameVars, rtVars
  <2>3. ASSUME NEW text, NEW timed, Announce(text, timed) PROVE FlagsTyped'
    BY <2>3 DEF Announce, Handles, frameVars, rtVars
  <2>4. CASE DisplayUp \/ DisplayDown
    BY <2>4 DEF DisplayUp, DisplayDown, Unmaps, Handles, rtVars
  <2> QED BY <1>4, <2>1, <2>2, <2>3, <2>4 DEF Request
<1>5. CASE Shutdown \/ Over \/ UNCHANGED vars
  BY <1>5 DEF Shutdown, Over, vars, frameVars, rtVars, busVars
<1> QED BY <1>1, <1>2, <1>3, <1>4, <1>5 DEF Next, RtStep, BusStep

\* The places of the two threads.
LEMMA NextPlaces == PlacesTyped /\ [Next]_vars => PlacesTyped'
<1> SUFFICES ASSUME PlacesTyped, [Next]_vars PROVE PlacesTyped'
  OBVIOUS
<1> USE DEF PlacesTyped, RtPlaces, BusPlaces
<1>1. CASE \/ LooksIfActive \/ LooksIfAttached \/ LooksAgain \/ Woken
           \/ DrainsSemaphore \/ TakesSkips \/ TakesDirty \/ PushesConfig
  BY <1>1 DEF LooksIfActive, LooksIfAttached, LooksAgain, Woken, DrainsSemaphore,
     TakesSkips, TakesDirty, PushesConfig, busVars
<1>2. CASE \/ Fetches \/ Explains \/ LocksFrame \/ WritesFrame \/ WritesUnmapped
           \/ WritesLastText \/ DrawsEink \/ TimerFires
  BY <1>2 DEF Fetches, Explains, LocksFrame, WritesFrame, WritesUnmapped,
     WritesLastText, DrawsEink, TimerFires, NextPhoto, busVars
<1>3. CASE \/ Boots \/ PressesNext \/ SetsDirty \/ Acquires \/ SetsFb
           \/ PaintsFallback \/ SaysAsleep \/ Posts \/ Joins
  BY <1>3 DEF Boots, Exchange, PressesNext, SetsDirty, Acquires, SetsFb,
     PaintsFallback, SaysAsleep, Posts, Joins, rtVars
<1>4. CASE Request
  BY <1>4 DEF Request, SetActive, Exchange, Press, Announce, DisplayUp, DisplayDown,
     Handles, rtVars
<1>5. CASE Shutdown \/ Over \/ UNCHANGED vars
  BY <1>5 DEF Shutdown, Over, vars, rtVars, busVars
<1> QED BY <1>1, <1>2, <1>3, <1>4, <1>5 DEF Next, RtStep, BusStep

\* The e-ink strip and the result of a fetch.
LEMMA NextEink == EinkTyped /\ [Next]_vars => EinkTyped'
<1> SUFFICES ASSUME EinkTyped, [Next]_vars PROVE EinkTyped'
  OBVIOUS
<1> USE DEF EinkTyped
<1>1. CASE \/ LooksIfActive \/ LooksIfAttached \/ LooksAgain \/ Woken
           \/ DrainsSemaphore \/ TakesSkips \/ TakesDirty \/ PushesConfig
  BY <1>1 DEF LooksIfActive, LooksIfAttached, LooksAgain, Woken, DrainsSemaphore,
     TakesSkips, TakesDirty, PushesConfig, einkVars
<1>2. CASE \/ Fetches \/ Explains \/ LocksFrame \/ WritesFrame \/ WritesUnmapped
           \/ WritesLastText \/ DrawsEink \/ TimerFires
  BY <1>2 DEF Fetches, Explains, LocksFrame, WritesFrame, WritesUnmapped,
     WritesLastText, DrawsEink, TimerFires, NextPhoto, einkVars
<1>3. CASE \/ Boots \/ PressesNext \/ SetsDirty \/ Acquires \/ SetsFb
           \/ PaintsFallback \/ SaysAsleep \/ Posts \/ Joins
  BY <1>3 DEF Boots, PressesNext, SetsDirty, Acquires, SetsFb, PaintsFallback,
     SaysAsleep, Posts, Joins, einkVars, rtVars
<1>4. CASE Request
  BY <1>4 DEF Request, SetActive, Press, Announce, DisplayUp, DisplayDown,
     einkVars, rtVars
<1>5. CASE Shutdown \/ Over \/ UNCHANGED vars
  BY <1>5 DEF Shutdown, Over, vars, einkVars, rtVars
<1> QED BY <1>1, <1>2, <1>3, <1>4, <1>5 DEF Next, RtStep, BusStep

\* A text put on the layer keeps the layer's type, and so does expiry.
LEMMA LayerTyped ==
  ASSUME NEW text \in Texts, NEW timed \in BOOLEAN
  PROVE  SetText(text, timed) \in [text : Texts, timed : BOOLEAN]
BY DEF SetText

\* The frame, the layer and the error.
LEMMA NextTextsTyped == TextsTyped /\ [Next]_vars => TextsTyped'
<1> SUFFICES ASSUME TextsTyped, [Next]_vars PROVE TextsTyped'
  OBVIOUS
<1> USE DEF TextsTyped
<1>1. CASE \/ LooksIfActive \/ LooksIfAttached \/ LooksAgain \/ Woken
           \/ DrainsSemaphore \/ TakesSkips \/ TakesDirty \/ PushesConfig
  BY <1>1 DEF LooksIfActive, LooksIfAttached, LooksAgain, Woken, DrainsSemaphore,
     TakesSkips, TakesDirty, PushesConfig, frameVars, textVars
<1>2. CASE \/ Fetches \/ LocksFrame \/ WritesUnmapped \/ WritesLastText
           \/ DrawsEink \/ TimerFires
  BY <1>2 DEF Fetches, LocksFrame, WritesUnmapped, WritesLastText, DrawsEink,
     TimerFires, NextPhoto, frameVars, textVars
<1>3. CASE Explains
  <2>1. photo_error' \in {""} \cup Errors /\ rt' # "explain" /\ screen' = screen
    BY <1>3 DEF Explains, frameVars
  <2>2. layer' \in {layer, SetText(photo_error', FALSE)}
    BY <1>3 DEF Explains
  <2> QED BY <2>1, <2>2, LayerTyped DEF Texts
<1>4. CASE WritesFrame
  <2>1. layer' \in [text : Texts, timed : BOOLEAN]
    BY <1>4, LayerTyped DEF WritesFrame, Expire, Texts
  <2>2. screen' \in Frames
    BY <1>4, <2>1 DEF WritesFrame, Frames
  <2> QED BY <1>4, <2>1, <2>2 DEF WritesFrame
<1>5. CASE SetsFb \/ PaintsFallback \/ Joins
  <2>1. Blank \in Frames /\ Fallback \in Frames
    BY DEF Blank, Fallback, Frames, Texts
  <2>2. screen' \in {Blank, Fallback, screen}
    BY <1>5 DEF SetsFb, PaintsFallback, Joins
  <2>3. UNCHANGED <<layer, photo_error, rt, got>>
    BY <1>5 DEF SetsFb, PaintsFallback, Joins, textVars, rtVars
  <2> QED BY <2>1, <2>2, <2>3
<1>6. CASE \/ Boots \/ PressesNext \/ SetsDirty \/ Acquires \/ SaysAsleep \/ Posts
  BY <1>6 DEF Boots, PressesNext, SetsDirty, Acquires, SaysAsleep, Posts, frameVars,
     textVars, rtVars
<1>7. ASSUME NEW text \in {""} \cup Announcements, NEW timed \in BOOLEAN,
             Announce(text, timed)
      PROVE  TextsTyped'
  BY <1>7, LayerTyped DEF Announce, Texts, frameVars, rtVars
<1>8. CASE \/ \E v \in BOOLEAN : SetActive(v)
           \/ \E d \in {1, -1} : Press(d)
           \/ DisplayUp \/ DisplayDown
  BY <1>8 DEF SetActive, Press, DisplayUp, DisplayDown, frameVars, textVars, rtVars
<1>9. CASE Shutdown \/ Over \/ UNCHANGED vars
  BY <1>9 DEF Shutdown, Over, vars, frameVars, textVars, rtVars
<1> QED BY <1>1, <1>2, <1>3, <1>4, <1>5, <1>6, <1>7, <1>8, <1>9
        DEF Next, RtStep, BusStep, Request

\* Every reachable state is well typed, whatever the number of calls.
THEOREM RenderTypeCorrect == Spec => []TypeOK
<1>1. Bounded /\ [Next]_vars => Bounded'
  BY NextInRange, NextFlags, NextPlaces, NextEink, NextTextsTyped DEF Bounded
<1>2. Bounded => TypeOK
  <2> SUFFICES ASSUME Bounded PROVE TypeOK
    OBVIOUS
  <2>1. /\ sem \in 0 .. MaxCalls + 3 /\ skip \in -MaxCalls .. MaxCalls
        /\ calls \in 0 .. MaxCalls
    BY RenderAssumption DEF Bounded, InRange
  <2> QED BY <2>1 DEF Bounded, FlagsTyped, PlacesTyped, EinkTyped, TextsTyped, TypeOK
<1> QED BY <1>1, <1>2, InitBounded, PTL DEF Spec
=============================================================================
