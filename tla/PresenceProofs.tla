--------------------------- MODULE PresenceProofs ---------------------------
(***************************************************************************)
(* Proofs about presence-service's policy (Presence), for any thresholds,   *)
(* delay and silent window; about the service with its display              *)
(* (PresenceDisplay), and about ambience that runs its slideshow by it      *)
(* (Slideshow), for any hours, restarts and backlog besides.                *)
(***************************************************************************)
EXTENDS Slideshow, SequenceTheorems, TLAPS

-----------------------------------------------------------------------------
(* The policy: Inv is inductive, and the action properties follow from it   *)
(* at every step.                                                           *)

\* The counters never leave their range.
LEMMA CountInRange ==
  ASSUME NEW n \in 0 .. MaxCount
  PROVE  Count(n) \in 1 .. MaxCount
BY CountAssumption DEF Count

\* Counting preserves the order of two counters.
LEMMA CountMonotone ==
  ASSUME NEW m \in 0 .. MaxCount, NEW n \in 0 .. MaxCount, m <= n
  PROVE  Count(m) <= Count(n)
BY CountAssumption DEF Count

\* What is announced is one bit.
LEMMA BitIsBit ==
  ASSUME NEW b \in BOOLEAN
  PROVE  Bit(b) \in {0, 1} /\ (Bit(b) = 1 <=> b)
BY DEF Bit

\* Threshold only depends on the clock, which no handler moves.
LEMMA ThresholdStays ==
  ASSUME NEW occupied \in BOOLEAN, UNCHANGED minute
  PROVE  Threshold(occupied)' = Threshold(occupied)
BY DEF Threshold, InSilentPeriod, AtLeastOne

\* A report that disagrees with the stable value extends a run of the sensor's
\* own reports at least as long as the pending one.
LEMMA ReportExtendsRun ==
  ASSUME Inv, NEW occupied \in BOOLEAN, Report(occupied),
         stable_known, occupied # stable_state
  PROVE  pending_count' <= run'
<1>1. CASE pending_count = 0 \/ pending_state # occupied
  BY <1>1, CountInRange, CountAssumption DEF Report, Inv, TypeOK
<1>2. CASE pending_count # 0 /\ pending_state = occupied
  <2>1. pending_count <= run /\ run # 0 /\ raw = occupied
    BY <1>2 DEF Inv, TypeOK, PendingIsReported
  <2>2. pending_count' = Count(pending_count) /\ run' = Count(run)
    BY <1>2, <2>1 DEF Report
  <2> QED BY <2>1, <2>2, CountMonotone DEF Inv, TypeOK
<1> QED BY <1>1, <1>2

\* The initial states satisfy the invariant.
LEMMA InitInv == Init => Inv
<1> SUFFICES ASSUME Init PROVE Inv
  OBVIOUS
<1>1. TypeOK
  <2>1. /\ ticks \in 0 .. MaxCount /\ pending_count \in 0 .. MaxCount
        /\ run \in 0 .. MaxCount
    BY CountAssumption DEF Init
  <2>2. /\ stable_known \in BOOLEAN /\ stable_state \in BOOLEAN
        /\ pending_state \in BOOLEAN /\ force_off_latched \in BOOLEAN
        /\ sensor \in BOOLEAN /\ room \in BOOLEAN /\ raw \in BOOLEAN
    BY DEF Init
  <2>3. announced \in {-1, 0, 1} /\ minute \in 0 .. DayMinutes - 1
    BY DEF Init
  <2> QED BY <2>1, <2>2, <2>3 DEF TypeOK
<1>2. LatchKeepsOff /\ AnnouncedCurrent /\ PendingIsReported
  BY DEF Init, LatchKeepsOff, AnnouncedCurrent, PendingIsReported
<1> QED BY <1>1, <1>2 DEF Inv

\* A report preserves it.
LEMMA ReportInv ==
  ASSUME Inv, NEW occupied \in BOOLEAN, Report(occupied)
  PROVE  Inv'
<1> USE DEF Inv
<1>1. /\ ticks' \in 0 .. MaxCount
      /\ pending_count' \in 1 .. MaxCount
      /\ run' \in 1 .. MaxCount
  BY CountInRange, CountAssumption DEF Report, TypeOK
<1>2. stable_known' \in BOOLEAN /\ stable_state' \in BOOLEAN
      /\ force_off_latched' \in BOOLEAN
  <2>1. CASE Stabilize(occupied)
    BY <2>1, Z3 DEF Stabilize, TypeOK
  <2>2. CASE Commit(occupied)
    BY <2>2 DEF Commit, TypeOK
  <2>3. CASE KeepStable(occupied)
    BY <2>3 DEF KeepStable, TypeOK
  <2> QED BY <2>1, <2>2, <2>3 DEF Report
<1>3. /\ stable_known' => announced' = Bit(stable_state' /\ ~force_off_latched')
      /\ ~stable_known' => announced' = announced
  BY DEF Report, Evaluate
<1>4. TypeOK'
  <2>1. announced' \in {-1, 0, 1}
    BY <1>2, <1>3, BitIsBit DEF TypeOK
  <2> QED BY <1>1, <1>2, <2>1 DEF TypeOK, Report
<1>5. AnnouncedCurrent'
  BY <1>3 DEF AnnouncedCurrent
<1>6. LatchKeepsOff'
  <2>1. force_off_latched' => force_off_latched
    BY DEF Report, Stabilize, Commit, KeepStable
  <2>2. CASE stable_known'
    BY <2>2, <1>3 DEF LatchKeepsOff, Bit
  <2>3. CASE ~stable_known'
    BY <2>1, <2>3, <1>3 DEF LatchKeepsOff
  <2> QED BY <2>2, <2>3
<1>7. PendingIsReported'
  <2> SUFFICES ASSUME stable_known', pending_state' # stable_state'
               PROVE  pending_count' <= run' /\ raw' = pending_state'
    BY DEF PendingIsReported
  <2>1. pending_state' = occupied /\ raw' = occupied
    BY DEF Report
  <2>2. stable_known /\ occupied # stable_state
    BY <2>1 DEF Report, Stabilize, Commit, KeepStable, TypeOK
  <2> QED BY <2>1, <2>2, ReportExtendsRun
<1> QED BY <1>4, <1>5, <1>6, <1>7

\* Every step preserves it.
LEMMA NextInv == Inv /\ [Next]_vars => Inv'
<1> SUFFICES ASSUME Inv, [Next]_vars PROVE Inv'
  OBVIOUS
<1> USE DEF Inv
<1>1. CASE Report(room)
  BY <1>1, ReportInv DEF TypeOK
<1>2. CASE ForceOn
  <2>1. TypeOK'
    <3>1. /\ ticks' \in 0 .. MaxCount /\ run' \in 0 .. MaxCount
          /\ minute' \in 0 .. DayMinutes - 1
      BY <1>2 DEF ForceOn, TypeOK
    <3>2. pending_count' \in 0 .. MaxCount
      BY <1>2, CountAssumption DEF ForceOn
    <3>3. /\ stable_known' \in BOOLEAN /\ stable_state' \in BOOLEAN
          /\ pending_state' \in BOOLEAN /\ force_off_latched' \in BOOLEAN
          /\ sensor' \in BOOLEAN /\ room' \in BOOLEAN /\ raw' \in BOOLEAN
      BY <1>2 DEF ForceOn, TypeOK
    <3>4. announced' \in {-1, 0, 1}
      BY <1>2 DEF ForceOn, Evaluate, Bit
    <3> QED BY <3>1, <3>2, <3>3, <3>4 DEF TypeOK
  <2>2. LatchKeepsOff' /\ AnnouncedCurrent' /\ PendingIsReported'
    BY <1>2 DEF ForceOn, Evaluate, Bit, LatchKeepsOff, AnnouncedCurrent,
       PendingIsReported
  <2> QED BY <2>1, <2>2
<1>3. CASE ForceOff
  <2>1. TypeOK'
    <3>1. /\ ticks' \in 0 .. MaxCount /\ run' \in 0 .. MaxCount
          /\ minute' \in 0 .. DayMinutes - 1
      BY <1>3 DEF ForceOff, TypeOK
    <3>2. pending_count' \in 0 .. MaxCount
      BY <1>3, CountAssumption DEF ForceOff
    <3>3. /\ stable_known' \in BOOLEAN /\ stable_state' \in BOOLEAN
          /\ pending_state' \in BOOLEAN /\ force_off_latched' \in BOOLEAN
          /\ sensor' \in BOOLEAN /\ room' \in BOOLEAN /\ raw' \in BOOLEAN
      BY <1>3 DEF ForceOff, TypeOK
    <3>4. announced' \in {-1, 0, 1}
      BY <1>3 DEF ForceOff, Evaluate, Bit
    <3> QED BY <3>1, <3>2, <3>3, <3>4 DEF TypeOK
  <2>2. LatchKeepsOff' /\ AnnouncedCurrent' /\ PendingIsReported'
    BY <1>3 DEF ForceOff, Evaluate, Bit, LatchKeepsOff, AnnouncedCurrent,
       PendingIsReported
  <2> QED BY <2>1, <2>2
<1>4. CASE SensorUp
  <2>1. TypeOK'
    <3>1. /\ ticks' \in 0 .. MaxCount /\ run' \in 0 .. MaxCount
          /\ pending_count' \in 0 .. MaxCount
      BY <1>4, CountAssumption DEF SensorUp
    <3>2. /\ stable_known' \in BOOLEAN /\ stable_state' \in BOOLEAN
          /\ pending_state' \in BOOLEAN /\ force_off_latched' \in BOOLEAN
          /\ sensor' \in BOOLEAN /\ room' \in BOOLEAN /\ raw' \in BOOLEAN
      BY <1>4 DEF SensorUp, TypeOK
    <3>3. minute' \in 0 .. DayMinutes - 1 /\ announced' \in {-1, 0, 1}
      BY <1>4 DEF SensorUp, TypeOK
    <3> QED BY <3>1, <3>2, <3>3 DEF TypeOK
  <2>2. LatchKeepsOff' /\ AnnouncedCurrent' /\ PendingIsReported'
    BY <1>4 DEF SensorUp, LatchKeepsOff, AnnouncedCurrent, PendingIsReported
  <2> QED BY <2>1, <2>2
<1>5. CASE SensorDown
  <2>1. TypeOK'
    <3>1. /\ ticks' \in 0 .. MaxCount /\ run' \in 0 .. MaxCount
          /\ minute' \in 0 .. DayMinutes - 1
      BY <1>5 DEF SensorDown, TypeOK
    <3>2. pending_count' \in 0 .. MaxCount
      BY <1>5, CountAssumption DEF SensorDown
    <3>3. /\ stable_known' \in BOOLEAN /\ stable_state' \in BOOLEAN
          /\ pending_state' \in BOOLEAN /\ force_off_latched' \in BOOLEAN
          /\ sensor' \in BOOLEAN /\ room' \in BOOLEAN /\ raw' \in BOOLEAN
      BY <1>5 DEF SensorDown, TypeOK
    <3>4. announced' \in {-1, 0, 1}
      BY <1>5 DEF SensorDown, Evaluate, Bit
    <3> QED BY <3>1, <3>2, <3>3, <3>4 DEF TypeOK
  <2>2. LatchKeepsOff' /\ AnnouncedCurrent' /\ PendingIsReported'
    BY <1>5 DEF SensorDown, Evaluate, Bit, LatchKeepsOff, AnnouncedCurrent,
       PendingIsReported
  <2> QED BY <2>1, <2>2
<1>6. CASE ClockMoves
  BY <1>6 DEF ClockMoves, policyVars, TypeOK, LatchKeepsOff, AnnouncedCurrent,
     PendingIsReported
<1>7. CASE RoomChanges
  <2>1. UNCHANGED <<policyVars, sensor, minute, raw, run>> /\ room' \in BOOLEAN
    BY <1>7 DEF RoomChanges, TypeOK
  <2> QED BY <2>1 DEF policyVars, TypeOK, LatchKeepsOff, AnnouncedCurrent,
     PendingIsReported
<1>8. CASE UNCHANGED vars
  BY <1>8 DEF vars, policyVars, TypeOK, LatchKeepsOff, AnnouncedCurrent,
     PendingIsReported
<1> QED BY <1>1, <1>2, <1>3, <1>4, <1>5, <1>6, <1>7, <1>8 DEF Next

\* The invariant holds in every reachable state.
THEOREM Invariant == Spec => []Inv
BY InitInv, NextInv, PTL DEF Spec

\* Every variable of the policy keeps its type.
THEOREM PresenceTypeCorrect == Spec => []TypeOK
<1>1. Inv => TypeOK
  BY DEF Inv
<1> QED BY <1>1, Invariant, PTL

\* While a ForceOff is latched presence is announced false, through reports,
\* the sensor's restart and clock jumps.
THEOREM ForceOffHolds == Spec => []LatchKeepsOff
<1>1. Inv => LatchKeepsOff
  BY DEF Inv
<1> QED BY <1>1, Invariant, PTL

\* No handler leaves the announced value behind the stable one.
THEOREM AnnouncementsCurrent == Spec => []AnnouncedCurrent
<1>1. Inv => AnnouncedCurrent
  BY DEF Inv
<1> QED BY <1>1, Invariant, PTL

\* Presence changes on reports only after enough of the sensor's own reports,
\* in a row, for the time of day, or at the end of the stabilization delay.
THEOREM FlickerNeverAnnounced == Spec => FlickerSuppressed
<1> DEFINE Filtered(occupied) ==
      Report(occupied) /\ announced' # announced =>
        /\ announced' = Bit(occupied)
        /\ \/ stable_known /\ run' >= Threshold(occupied)
           \/ ~stable_known /\ ticks' >= Delay
<1>1. ASSUME Inv, NEW occupied \in BOOLEAN, Report(occupied),
             announced' # announced
      PROVE  /\ announced' = Bit(occupied)
             /\ \/ stable_known /\ run' >= Threshold(occupied)
                \/ ~stable_known /\ ticks' >= Delay
  <2>1. stable_known' /\ announced' = Bit(stable_state' /\ ~force_off_latched')
    BY <1>1 DEF Report, Evaluate
  <2>2. CASE ~stable_known
    <3>1. ticks' >= Delay /\ stable_state' = occupied
          /\ force_off_latched' = force_off_latched
      BY <1>1, <2>1, <2>2 DEF Report, Stabilize, Commit, KeepStable
    <3>2. ~force_off_latched
      BY <1>1, <2>1, <3>1 DEF Inv, LatchKeepsOff, Bit
    <3> QED BY <2>1, <2>2, <3>1, <3>2 DEF Bit
  <2>3. CASE stable_known
    <3>1. announced = Bit(stable_state /\ ~force_off_latched)
      BY <1>1, <2>3 DEF Inv, AnnouncedCurrent
    <3>2. Commit(occupied)
      BY <1>1, <2>1, <2>3, <3>1 DEF Report, Stabilize, KeepStable
    <3>3. pending_count' <= run'
      BY <1>1, <2>3, <3>2, ReportExtendsRun DEF Commit
    <3>4. run' >= Threshold(occupied)
      <4>1. pending_count' >= Threshold(occupied)
        BY <3>2 DEF Commit
      <4>2. run' \in Int /\ pending_count' \in Int
        BY <1>1, ReportInv DEF Inv, TypeOK
      <4>3. Threshold(occupied) \in Int
        BY CountAssumption DEF Threshold, AtLeastOne, Thresholds
      <4> QED BY <3>3, <4>1, <4>2, <4>3
    <3>5. announced' = Bit(occupied)
      BY <1>1, <2>1, <3>1, <3>2 DEF Commit, Bit, Inv, LatchKeepsOff, TypeOK
    <3> QED BY <2>3, <3>4, <3>5
  <2> QED BY <2>2, <2>3
<1>2. Inv /\ [Next]_vars =>
        [\A occupied \in BOOLEAN : Filtered(occupied)]_vars
  BY <1>1
<1> QED BY <1>2, Invariant, PTL DEF Spec, FlickerSuppressed

\* A ForceOff lasts until ForceOn, the sensor's loss, or a run of vacant
\* reports in a room that was committed occupied.
THEOREM LatchClearsRightly == Spec => LatchClearsOnVacancy
<1> DEFINE Cleared ==
      force_off_latched /\ ~force_off_latched' =>
        \/ ForceOn
        \/ SensorDown
        \/ stable_state /\ ~raw' /\ run' >= Threshold(FALSE)
<1>1. ASSUME Inv, Next, force_off_latched, ~force_off_latched',
             ~ForceOn, ~SensorDown
      PROVE  stable_state /\ ~raw' /\ run' >= Threshold(FALSE)
  <2>1. PICK occupied \in BOOLEAN : Report(occupied)
    BY <1>1 DEF Next, ForceOff, SensorUp, ClockMoves, RoomChanges, policyVars,
            Inv, TypeOK
  <2>2. Commit(occupied) /\ stable_state /\ ~occupied /\ stable_known
    BY <1>1, <2>1 DEF Report, Stabilize, Commit, KeepStable
  <2>3. occupied = FALSE
    BY <2>2
  <2>4. pending_count' <= run'
    BY <1>1, <2>1, <2>2, ReportExtendsRun
  <2>5. pending_count' >= Threshold(FALSE)
    BY <2>2, <2>3 DEF Commit
  <2>6. run' \in Int /\ pending_count' \in Int /\ Threshold(FALSE) \in Int
    BY <1>1, <2>1, ReportInv, CountAssumption
       DEF Inv, TypeOK, Threshold, AtLeastOne, Thresholds
  <2>7. run' >= Threshold(FALSE)
    <3>1. \A i, j, k \in Int : i <= j /\ i >= k => j >= k
      OBVIOUS
    <3> QED BY <2>4, <2>5, <2>6, <3>1
  <2>8. raw' = FALSE
    BY <2>1, <2>3 DEF Report
  <2> QED BY <2>2, <2>7, <2>8
<1>2. Inv /\ [Next]_vars => [Cleared]_vars
  BY <1>1
<1> QED BY <1>2, Invariant, PTL DEF Spec, LatchClearsOnVacancy

\* The silent window, whether or not it wraps midnight, is the minutes reached
\* from its start in less time than its end is.
THEOREM SilentWindowIsCyclic ==
  ASSUME NEW from \in 0 .. DayMinutes - 1, NEW to \in 0 .. DayMinutes - 1,
         NEW m \in 0 .. DayMinutes - 1
  PROVE  InSilentPeriod(from, to, m)
           <=> (m - from) % DayMinutes < (to - from) % DayMinutes
<1> DEFINE Cyclic(a) == IF a < 0 THEN a + DayMinutes ELSE a
<1>1. ASSUME NEW a \in 1 - DayMinutes .. DayMinutes - 1
      PROVE  a % DayMinutes = Cyclic(a)
  <2>1. CASE a < 0
    BY <2>1, WindowAssumption
  <2>2. CASE a >= 0
    BY <2>2, WindowAssumption
  <2> QED BY <2>1, <2>2, WindowAssumption
<1>2. /\ m - from \in 1 - DayMinutes .. DayMinutes - 1
      /\ to - from \in 1 - DayMinutes .. DayMinutes - 1
  BY WindowAssumption
<1>3. InSilentPeriod(from, to, m) <=> Cyclic(m - from) < Cyclic(to - from)
  BY WindowAssumption DEF InSilentPeriod
<1> HIDE DEF Cyclic
<1>4. (m - from) % DayMinutes = Cyclic(m - from)
  BY <1>1, <1>2, Zenon
<1>5. (to - from) % DayMinutes = Cyclic(to - from)
  BY <1>1, <1>2, Zenon
<1> QED BY <1>3, <1>4, <1>5, Zenon

-----------------------------------------------------------------------------
(* The inductive invariant: presence-service and display-mgr. *)

\* A service that announces a change keeps to it until it has told the display
\* and the subscribers; one that starts has nothing to announce.
GlueOK ==
  /\ glue \in {"down", "starting"} => announced = -1
  /\ glue \in {"on", "emit_true"} => announced = 1
  /\ glue \in {"emit_false", "off"} => announced = 0
  /\ glue = "emit_true" /\ ~missed => lit

\* What was heard last is what is announced, once it was emitted.
HeardOK ==
  /\ glue = "idle" /\ announced = 1 => heard = "true"
  /\ glue \in {"idle", "off"} /\ announced = 0 => heard = "false"

ServiceOK ==
  /\ Inv
  /\ ServiceTypeOK
  /\ GlueOK
  /\ HeardOK
  /\ DisplayInStep

-----------------------------------------------------------------------------
(* The inductive invariant: ambience. *)

PresenceEvents == {"true", "false", "down"}
PhotoEvents == {"photos up", "photos down"}
Events == PresenceEvents \cup PhotoEvents \cup {"up"}

NoneOf(s, E) == \A i \in DOMAIN s : s[i] \notin E

\* x is the last of the events E in s.
LastOf(s, E, x) ==
  \E i \in DOMAIN s :
    s[i] = x /\ x \in E /\ \A j \in DOMAIN s : j > i => s[j] \notin E

\* The last of the events E says on, be it still to be handled or what the
\* slideshow was last set for.
LastSays(E, up, by, on) ==
  /\ \A x \in E : LastOf(pending, E, x) => (x = up) = on
  /\ NoneOf(pending, E) /\ source = by => active = on

\* ambience has nothing to handle before it listens, and sets active only when it
\* runs.
BootOK ==
  /\ pending \in Seq(Events)
  /\ ~Hears => pending = <<>>
  /\ ~WatchesPhotos => NoneOf(pending, PhotoEvents)
  /\ (boot = "running") = (source # "nothing")
  /\ source = "startup" => active = deps

\* What presence-service told last is what it has announced, unless it is about
\* to tell more.
PresenceTold ==
  glue \in {"down", "starting", "idle", "off"} =>
    /\ announced = 1 => LastSays(PresenceEvents, "true", "presence", TRUE)
    /\ announced # 1 /\ ~blind =>
         LastSays(PresenceEvents, "true", "presence", FALSE)

\* photo-provider is as it was last said to be.
PhotosTold == LastSays(PhotoEvents, "photos up", "photos", photos)

SystemOK ==
  /\ ServiceOK
  /\ SystemTypeOK
  /\ BootOK
  /\ PresenceTold
  /\ PhotosTold

-----------------------------------------------------------------------------
(* presence-service: the policy goes on as it does by itself (PresenceProofs),  *)
(* and starts again from nothing.                                              *)

\* What a handler announces it announces as one of two values.
LEMMA DispatchFacts ==
  ASSUME Inv, Dispatch
  PROVE  /\ [Next]_vars /\ glue = "idle" /\ UNCHANGED <<powerVars, heard, missed, restarts>>
         /\ \/ announced' = announced /\ glue' = "idle"
            \/ announced' = 1 /\ glue' = "on"
            \/ announced' = 0 /\ glue' = "emit_false"
<1>1. Next
  BY DEF Dispatch, Next
<1>2. announced' = announced \/ announced' \in {0, 1}
  BY BitIsBit DEF Dispatch, Report, ForceOn, ForceOff, SensorUp, SensorDown, Evaluate, Bit
<1>3. QED
  BY <1>1, <1>2 DEF Dispatch

\* A new process knows nothing, and what follows of that holds.
LEMMA ForgetInv == Inv /\ Forget => Inv' /\ announced' = -1
<1> SUFFICES ASSUME Inv, Forget PROVE Inv' /\ announced' = -1
  OBVIOUS
<1>1. /\ ticks' = 0 /\ pending_count' = 0 /\ run' = 0 /\ announced' = -1
      /\ stable_known' = FALSE /\ stable_state' = FALSE /\ pending_state' = FALSE
      /\ force_off_latched' = FALSE /\ UNCHANGED <<sensor, minute, room, raw>>
  BY DEF Forget
<1>2. 0 \in 0 .. MaxCount
  BY CountAssumption
<1>3. TypeOK'
  BY <1>1, <1>2 DEF Inv, TypeOK
<1>4. QED
  BY <1>1, <1>3 DEF Inv, LatchKeepsOff, AnnouncedCurrent, PendingIsReported

\* Whatever the service does, its policy keeps its invariant.
LEMMA ServiceInv == Inv /\ ServiceNext => Inv'
<1> SUFFICES ASSUME Inv, ServiceNext PROVE Inv'
  OBVIOUS
<1>1. CASE Dispatch
  BY <1>1, DispatchFacts, NextInv
<1>2. CASE ServiceStops \/ ServiceCrashes
  BY <1>2, ForgetInv DEF ServiceStops, ServiceCrashes
<1>3. CASE SensorUnseen
  <2>1. /\ UNCHANGED <<policyVars, minute, room, raw, run>> /\ sensor' = ~sensor
    BY <1>3 DEF SensorUnseen
  <2>2. TypeOK'
    BY <2>1 DEF policyVars, Inv, TypeOK
  <2>3. QED
    BY <2>1, <2>2 DEF policyVars, Inv, LatchKeepsOff, AnnouncedCurrent, PendingIsReported
<1>4. CASE ClockOrRoom
  BY <1>4, NextInv DEF ClockOrRoom, Next
<1>5. CASE UNCHANGED vars
  BY <1>5, NextInv
<1>6. QED
  BY <1>1, <1>2, <1>3, <1>4, <1>5
  DEF ServiceNext, ServiceStarts, SwitchDisplay, EmitChanged, DisplayMgrStarts,
      DisplayMgrEnds, ConsoleTakesOver

\* A call to the display, answered or not, leaves the outputs as asked unless it is
\* noticed that it did not.
LEMMA CallFacts ==
  ASSUME PowerTypeOK, NEW on \in BOOLEAN, CallDisplay(on)
  PROVE  PowerTypeOK' /\ missed' \in BOOLEAN /\ (~missed' => lit' = on)
<1>1. PowerTypeOK'
  BY DEF CallDisplay, SetDisplayOn, SetCrtc, PowerTypeOK, powerVars
<1>2. QED
  BY <1>1 DEF CallDisplay, PowerTypeOK

\* Every step keeps the types.
LEMMA ServiceTypes == Inv /\ ServiceTypeOK /\ ServiceNext => ServiceTypeOK'
<1> SUFFICES ASSUME Inv, ServiceTypeOK, ServiceNext PROVE ServiceTypeOK'
  OBVIOUS
<1>0. TypeOK'
  BY ServiceInv DEF Inv
<1>1. restarts \in 0 .. MaxRestarts /\ MaxRestarts \in Nat
  BY RestartsAssumption DEF ServiceTypeOK
<1>2. PowerTypeOK'
  <2>1. CASE SwitchDisplay \/ ServiceStops
    BY <2>1, CallFacts DEF SwitchDisplay, ServiceStops, ServiceTypeOK
  <2>2. CASE DisplayMgrStarts
    BY <2>2 DEF DisplayMgrStarts, MgrStarts, SetCrtc, ServiceTypeOK, PowerTypeOK
  <2>3. CASE DisplayMgrEnds
    BY <2>3 DEF DisplayMgrEnds, MgrEnds, ServiceTypeOK, PowerTypeOK
  <2>4. CASE ConsoleTakesOver
    BY <2>4 DEF ConsoleTakesOver, ConsoleSwitches, ServiceTypeOK, PowerTypeOK
  <2>5. CASE UNCHANGED powerVars
    BY <2>5 DEF powerVars, ServiceTypeOK, PowerTypeOK
  <2>6. QED
    BY <2>1, <2>2, <2>3, <2>4, <2>5
    DEF ServiceNext, ServiceStarts, Dispatch, EmitChanged, ServiceCrashes, SensorUnseen,
        ClockOrRoom
<1>3. glue' \in Places /\ heard' \in {"nothing", "true", "false"}
  <2>1. CASE Dispatch
    BY <2>1, DispatchFacts DEF ServiceTypeOK, Places
  <2>2. CASE ServiceStarts \/ SwitchDisplay \/ EmitChanged \/ ServiceStops
             \/ ServiceCrashes
    BY <2>2 DEF ServiceStarts, SwitchDisplay, EmitChanged, ServiceStops, ServiceCrashes,
       ServiceTypeOK, Places
  <2>3. CASE UNCHANGED <<glue, heard>>
    BY <2>3 DEF ServiceTypeOK
  <2>4. QED
    BY <2>1, <2>2, <2>3
    DEF ServiceNext, SensorUnseen, DisplayMgrStarts, DisplayMgrEnds, ConsoleTakesOver,
        ClockOrRoom, serviceVars
<1>4. missed' \in BOOLEAN
  <2>1. CASE SwitchDisplay \/ ServiceStops
    BY <2>1, CallFacts DEF SwitchDisplay, ServiceStops, ServiceTypeOK
  <2>2. CASE missed' = missed \/ missed' = TRUE
    BY <2>2 DEF ServiceTypeOK
  <2>3. QED
    BY <2>1, <2>2
    DEF ServiceNext, ServiceStarts, Dispatch, EmitChanged, ServiceCrashes, SensorUnseen,
        DisplayMgrStarts, DisplayMgrEnds, ConsoleTakesOver, ClockOrRoom, serviceVars
<1>5. restarts' \in 0 .. MaxRestarts
  <2>1. restarts' = restarts \/ (restarts < MaxRestarts /\ restarts' = restarts + 1)
    BY DEF ServiceNext, ServiceStarts, Dispatch, SwitchDisplay, EmitChanged, ServiceStops,
       ServiceCrashes, SensorUnseen, DisplayMgrStarts, DisplayMgrEnds, ConsoleTakesOver,
       ClockOrRoom
  <2>2. QED
    BY <1>1, <2>1
<1>6. QED
  BY <1>0, <1>2, <1>3, <1>4, <1>5 DEF ServiceTypeOK

-----------------------------------------------------------------------------
(* presence-service: the display and the signal follow what is announced. *)

LEMMA NextGlue ==
  ServiceOK /\ ServiceNext => GlueOK' /\ HeardOK' /\ DisplayInStep'
<1> SUFFICES ASSUME ServiceOK, ServiceNext PROVE GlueOK' /\ HeardOK' /\ DisplayInStep'
  OBVIOUS
<1> USE DEF GlueOK, HeardOK, DisplayInStep
<1>0. Inv /\ GlueOK /\ HeardOK /\ DisplayInStep /\ PowerTypeOK
  BY DEF ServiceOK, ServiceTypeOK
<1>1. CASE ServiceStarts
  BY <1>0, <1>1 DEF ServiceStarts, vars, policyVars
<1>2. CASE Dispatch
  BY <1>0, <1>2, DispatchFacts DEF powerVars
<1>3. CASE SwitchDisplay
  <2>1. UNCHANGED <<announced, heard>>
    BY <1>3 DEF SwitchDisplay, vars, policyVars
  <2>2. \/ glue = "on" /\ glue' = "emit_true" /\ (~missed' => lit' = TRUE)
        \/ glue \in {"starting", "off"} /\ glue' = "idle" /\ (~missed' => lit' = FALSE)
    BY <1>0, <1>3, CallFacts DEF SwitchDisplay
  <2>3. CASE glue = "on" /\ glue' = "emit_true" /\ (~missed' => lit' = TRUE)
    BY <1>0, <2>1, <2>3
  <2>4. CASE glue \in {"starting", "off"} /\ glue' = "idle" /\ (~missed' => lit' = FALSE)
    <3>1. announced' # 1 /\ announced' = announced /\ heard' = heard
      BY <1>0, <2>1, <2>4
    <3>2. ~missed' => lit' = (announced' = 1)
      BY <2>4, <3>1, Zenon
    <3>3. glue' = "idle" /\ (announced' = 0 => heard' = "false")
      BY <1>0, <2>4, <3>1
    <3>4. QED
      BY <3>1, <3>2, <3>3
  <2>5. QED
    BY <2>2, <2>3, <2>4
<1>4. CASE EmitChanged
  <2>1. UNCHANGED <<announced, lit, missed>>
    BY <1>4 DEF EmitChanged, vars, policyVars, powerVars
  <2>2. \/ glue = "emit_true" /\ heard' = "true" /\ glue' = "idle"
        \/ glue = "emit_false" /\ heard' = "false" /\ glue' = "off"
    BY <1>4 DEF EmitChanged
  <2>3. glue = "emit_true" /\ ~missed => lit = TRUE
    BY <1>0 DEF PowerTypeOK
  <2>4. CASE glue = "emit_true" /\ heard' = "true" /\ glue' = "idle"
    <3>1. announced' = 1
      BY <1>0, <2>1, <2>4
    <3>2. ~missed' => lit' = TRUE
      BY <2>1, <2>3, <2>4
    <3>3. ~missed' => lit' = (announced' = 1)
      BY <3>1, <3>2, Zenon
    <3>4. QED
      BY <2>4, <3>1, <3>3
  <2>5. CASE glue = "emit_false" /\ heard' = "false" /\ glue' = "off"
    BY <1>0, <2>1, <2>5
  <2>6. QED
    BY <2>2, <2>4, <2>5
<1>5. CASE ServiceStops \/ ServiceCrashes
  <2>1. glue' = "down" /\ announced' = -1
    BY <1>0, <1>5, ForgetInv DEF ServiceStops, ServiceCrashes
  <2>2. QED
    BY <2>1
<1>6. CASE DisplayMgrStarts \/ DisplayMgrEnds \/ ConsoleTakesOver
  BY <1>0, <1>6 DEF DisplayMgrStarts, DisplayMgrEnds, ConsoleTakesOver, vars, policyVars
<1>7. CASE SensorUnseen \/ ClockOrRoom
  BY <1>0, <1>7 DEF SensorUnseen, ClockOrRoom, ClockMoves, RoomChanges, policyVars,
     powerVars, serviceVars
<1>8. QED
  BY <1>1, <1>2, <1>3, <1>4, <1>5, <1>6, <1>7 DEF ServiceNext

LEMMA InitService == ServiceInit => ServiceOK
<1> SUFFICES ASSUME ServiceInit PROVE ServiceOK
  OBVIOUS
<1>1. Inv /\ PowerTypeOK
  BY InitInv DEF ServiceInit, PowerInit, PowerTypeOK
<1>2. ServiceTypeOK
  BY <1>1, RestartsAssumption DEF ServiceInit, ServiceTypeOK, Inv, Places
<1>3. QED
  BY <1>1, <1>2 DEF ServiceOK, ServiceInit, Init, GlueOK, HeardOK, DisplayInStep

LEMMA NextService == ServiceOK /\ ServiceNext => ServiceOK'
  BY ServiceInv, ServiceTypes, NextGlue DEF ServiceOK

\* Deaths that only ambience or photo-provider meet use up restarts, nothing else.
LEMMA QuietService ==
  ASSUME ServiceOK, UNCHANGED <<vars, powerVars, serviceVars>>,
         restarts' = restarts \/ (restarts < MaxRestarts /\ restarts' = restarts + 1)
  PROVE  ServiceOK'
<1>1. Inv'
  BY NextInv DEF ServiceOK
<1>2. restarts' \in 0 .. MaxRestarts
  BY RestartsAssumption DEF ServiceOK, ServiceTypeOK
<1>3. ServiceTypeOK'
  BY <1>1, <1>2 DEF ServiceOK, ServiceTypeOK, Inv, powerVars, PowerTypeOK, serviceVars
<1>4. QED
  BY <1>1, <1>3 DEF ServiceOK, GlueOK, HeardOK, DisplayInStep, vars, policyVars, powerVars,
     serviceVars

-----------------------------------------------------------------------------
(* The last event of a kind. *)

\* One more event is the last of its kind, and leaves the other kinds alone.
LEMMA LastAppend ==
  ASSUME NEW s \in Seq(Events), NEW e \in Events, NEW E, NEW x
  PROVE  /\ Append(s, e) \in Seq(Events)
         /\ e \in E => /\ LastOf(Append(s, e), E, x) => x = e
                       /\ ~NoneOf(Append(s, e), E)
         /\ e \notin E => /\ LastOf(Append(s, e), E, x) => LastOf(s, E, x)
                          /\ NoneOf(Append(s, e), E) <=> NoneOf(s, E)
<1> DEFINE t == Append(s, e)
<1>1. /\ t \in Seq(Events) /\ Len(s) \in Nat
      /\ DOMAIN s = 1 .. Len(s) /\ DOMAIN t = 1 .. Len(s) + 1
      /\ \A i \in 1 .. Len(s) : t[i] = s[i]
      /\ t[Len(s) + 1] = e
  BY AppendProperties, LenProperties
<1>2. DOMAIN t = DOMAIN s \cup {Len(s) + 1} /\ \A i \in DOMAIN s : i < Len(s) + 1
  BY <1>1
<1>3. \A i \in DOMAIN s : t[i] = s[i]
  BY <1>1
<1> HIDE DEF t
<1>4. NoneOf(t, E) <=> NoneOf(s, E) /\ e \notin E
  BY <1>1, <1>2, <1>3 DEF NoneOf
<1>5. e \in E /\ LastOf(t, E, x) => x = e
  BY <1>1, <1>2, <1>3 DEF LastOf
<1>6. e \notin E /\ LastOf(t, E, x) => LastOf(s, E, x)
  <2> SUFFICES ASSUME e \notin E, LastOf(t, E, x) PROVE LastOf(s, E, x)
    OBVIOUS
  <2>1. PICK i \in DOMAIN t :
          t[i] = x /\ x \in E /\ \A j \in DOMAIN t : j > i => t[j] \notin E
    BY DEF LastOf
  <2>2. i \in DOMAIN s
    BY <1>1, <1>2, <2>1
  <2>3. QED
    BY <1>2, <1>3, <2>1, <2>2 DEF LastOf
<1>7. QED
  BY <1>1, <1>4, <1>5, <1>6 DEF t

\* Handling an event leaves the last of each kind, unless it was that one.
LEMMA LastTail ==
  ASSUME NEW s \in Seq(Events), s # <<>>, NEW E, NEW x
  PROVE  /\ Head(s) \in Events /\ Tail(s) \in Seq(Events)
         /\ LastOf(Tail(s), E, x) => LastOf(s, E, x)
         /\ NoneOf(Tail(s), E) /\ Head(s) \notin E => NoneOf(s, E)
         /\ NoneOf(Tail(s), E) /\ Head(s) \in E => LastOf(s, E, Head(s))
         /\ NoneOf(s, E) => NoneOf(Tail(s), E) /\ Head(s) \notin E
<1> DEFINE t == Tail(s)
<1>1. /\ Head(s) \in Events /\ t \in Seq(Events)
      /\ Len(s) \in Nat /\ Len(s) # 0 /\ Len(t) = Len(s) - 1
      /\ DOMAIN s = 1 .. Len(s) /\ DOMAIN t = 1 .. Len(s) - 1
      /\ \A i \in 1 .. Len(t) : t[i] = s[i + 1]
      /\ Head(s) = s[1]
  BY HeadTailProperties, LenProperties, EmptySeq
<1>2. /\ 1 \in DOMAIN s /\ \A i \in DOMAIN t : i + 1 \in DOMAIN s /\ t[i] = s[i + 1]
      /\ \A j \in DOMAIN s : j # 1 => j - 1 \in DOMAIN t /\ t[j - 1] = s[j] /\ j > 1
  BY <1>1
<1> HIDE DEF t
<1>3. LastOf(t, E, x) => LastOf(s, E, x)
  <2> SUFFICES ASSUME LastOf(t, E, x) PROVE LastOf(s, E, x)
    OBVIOUS
  <2>1. PICK i \in DOMAIN t :
          t[i] = x /\ x \in E /\ \A j \in DOMAIN t : j > i => t[j] \notin E
    BY DEF LastOf
  <2>2. i + 1 \in DOMAIN s /\ s[i + 1] = x
    BY <1>2, <2>1
  <2>3. ASSUME NEW j \in DOMAIN s, j > i + 1 PROVE s[j] \notin E
    <3>1. j # 1 /\ j - 1 > i
      BY <1>1, <2>3
    <3>2. j - 1 \in DOMAIN t /\ t[j - 1] = s[j]
      BY <1>2, <3>1
    <3>3. QED
      BY <2>1, <3>1, <3>2
  <2>4. QED
    BY <2>1, <2>2, <2>3 DEF LastOf
<1>4. NoneOf(t, E) => \A j \in DOMAIN s : j # 1 => s[j] \notin E
  BY <1>2 DEF NoneOf
<1>5. NoneOf(t, E) /\ Head(s) \notin E => NoneOf(s, E)
  BY <1>1, <1>4 DEF NoneOf
<1>6. NoneOf(t, E) /\ Head(s) \in E => LastOf(s, E, Head(s))
  <2> SUFFICES ASSUME NoneOf(t, E), Head(s) \in E PROVE LastOf(s, E, Head(s))
    OBVIOUS
  <2>1. \A j \in DOMAIN s : j > 1 => j # 1
    BY <1>1
  <2>2. QED
    BY <1>1, <1>2, <1>4, <2>1 DEF LastOf
<1>7. NoneOf(s, E) => NoneOf(t, E) /\ Head(s) \notin E
  BY <1>1, <1>2 DEF NoneOf
<1>8. QED
  BY <1>1, <1>3, <1>5, <1>6, <1>7 DEF t

\* Delivering an event of another kind, or of this kind and saying on too.
LEMMA DeliverSays ==
  ASSUME pending \in Seq(Events), NEW e \in Events, NEW E, NEW up, NEW by,
         NEW on \in BOOLEAN, pending' = Append(pending, e), UNCHANGED <<active, source>>,
         \/ e \in E /\ (e = up) = on
         \/ e \notin E /\ LastSays(E, up, by, on)
  PROVE  LastSays(E, up, by, on)'
<1>1. CASE e \in E /\ (e = up) = on
  <2>1. ~NoneOf(pending', E) /\ \A x : LastOf(pending', E, x) => x = e
    BY <1>1, LastAppend
  <2>2. QED
    BY <1>1, <2>1 DEF LastSays
<1>2. CASE e \notin E /\ LastSays(E, up, by, on)
  <2>1. /\ NoneOf(pending', E) => NoneOf(pending, E)
        /\ \A x : LastOf(pending', E, x) => LastOf(pending, E, x)
    BY <1>2, LastAppend
  <2>2. QED
    BY <1>2, <2>1 DEF LastSays
<1>3. QED
  BY <1>1, <1>2

\* Nothing was ever said.
LEMMA NothingSaid ==
  ASSUME NEW E, NEW up, NEW by, NEW on \in BOOLEAN, NoneOf(pending', E), source' # by
  PROVE  LastSays(E, up, by, on)'
<1>1. \A x : ~LastOf(pending', E, x)
  BY DEF LastOf, NoneOf
<1>2. QED
  BY <1>1 DEF LastSays

\* An empty queue holds no event.
LEMMA NoneOfNothing == \A E : NoneOf(<<>>, E)
  BY DEF NoneOf

\* Handling an event sets active by it, if it is of a kind that does.
LEMMA HandleSays ==
  ASSUME pending \in Seq(Events), pending # <<>>, Handle(Head(pending)),
         pending' = Tail(pending), NEW on \in BOOLEAN
  PROVE  /\ LastSays(PresenceEvents, "true", "presence", on) =>
              LastSays(PresenceEvents, "true", "presence", on)'
         /\ LastSays(PhotoEvents, "photos up", "photos", on) =>
              LastSays(PhotoEvents, "photos up", "photos", on)'
<1> DEFINE e == Head(pending)
<1>1. /\ e \in Events
      /\ \A E, x : LastOf(pending', E, x) => LastOf(pending, E, x)
      /\ \A E : /\ NoneOf(pending', E) /\ e \notin E => NoneOf(pending, E)
                /\ NoneOf(pending', E) /\ e \in E => LastOf(pending, E, e)
  BY LastTail
<1>2. /\ e \in PresenceEvents => active' = (e = "true") /\ source' = "presence"
      /\ e \in PhotoEvents => active' = (e = "photos up") /\ source' = "photos"
      /\ e = "up" => UNCHANGED <<active, source>>
  BY DEF Handle, SetActive, PresenceEvents, PhotoEvents
<1>3. e \in PresenceEvents \/ e \in PhotoEvents \/ e = "up"
  BY <1>1 DEF Events
<1>4. /\ e \in PresenceEvents => e \notin PhotoEvents
      /\ e = "up" => e \notin PresenceEvents /\ e \notin PhotoEvents
  BY DEF PresenceEvents, PhotoEvents
<1> HIDE DEF e
<1>5. CASE e \in PresenceEvents
  BY <1>1, <1>2, <1>4, <1>5 DEF LastSays
<1>6. CASE e \in PhotoEvents
  BY <1>1, <1>2, <1>4, <1>6 DEF LastSays
<1>7. CASE e = "up"
  BY <1>1, <1>2, <1>4, <1>7 DEF LastSays
<1>8. QED
  BY <1>3, <1>5, <1>6, <1>7

-----------------------------------------------------------------------------
(* What the steps of the system do to each other's state. *)

\* Every step is one of presence-service and display-mgr, or leaves those two as
\* they are.
LEMMA ServiceMoves ==
  ASSUME [SystemNext]_systemVars
  PROVE  \/ ServiceNext
         \/ /\ UNCHANGED <<vars, powerVars, serviceVars>>
            /\ restarts' = restarts \/ (restarts < MaxRestarts /\ restarts' = restarts + 1)
<1>1. CASE PresenceSpeaks \/ Unheard
  BY <1>1 DEF PresenceSpeaks, Unheard, ServiceNext
<1>2. CASE PhotosComeAndGo \/ AmbienceEnds
  BY <1>2 DEF PhotosComeAndGo, AmbienceEnds
<1>3. CASE UNCHANGED allVars
  BY <1>3 DEF allVars
<1>4. QED
  BY <1>1, <1>2, <1>3
  DEF SystemNext, AmbienceStarts, Subscribes, AsksIfUp, Activates, Listens, systemVars

\* What is delivered is one more event, to a listener.
LEMMA DeliverFacts ==
  ASSUME pending \in Seq(Events), Len(pending) <= MaxPending, NEW e \in Events,
         NEW listening \in BOOLEAN, Deliver(e, listening)
  PROVE  /\ pending' \in Seq(Events) /\ Len(pending') <= MaxPending
         /\ IF listening THEN pending' = Append(pending, e) ELSE pending' = pending
<1>1. CASE listening
  <2>1. Len(pending) < MaxPending /\ pending' = Append(pending, e)
    BY <1>1 DEF Deliver
  <2>2. pending' \in Seq(Events) /\ Len(pending') = Len(pending) + 1 /\ Len(pending) \in Nat
    BY <2>1, AppendProperties, LenProperties
  <2>3. QED
    BY <1>1, <2>1, <2>2, PendingAssumption
<1>2. CASE ~listening
  BY <1>2 DEF Deliver
<1>3. QED
  BY <1>1, <1>2

\* presence-service speaks: a signal, or news of its name.
LEMMA SpeaksFacts ==
  ASSUME ServiceOK, PresenceSpeaks
  PROVE  \E e \in PresenceEvents \cup {"up"}, listening \in BOOLEAN :
           /\ Deliver(e, listening)
           /\ UNCHANGED <<boot, deps, active, photos, source>>
           /\ \/ /\ listening = Hears /\ blind' = blind /\ announced' = announced
                 /\ \/ e = "true" /\ announced = 1
                    \/ e = "false" /\ announced = 0
              \/ /\ e = "up" /\ listening = Watches /\ blind' = blind
                 /\ announced' = announced /\ glue = "down"
              \/ /\ e = "down" /\ listening = Watches /\ announced' = -1
                 /\ blind' = (blind \/ boot = "hearing")
<1>1. UNCHANGED <<boot, deps, active, photos, source>>
  BY DEF PresenceSpeaks
<1>2. Hears \in BOOLEAN /\ Watches \in BOOLEAN
  BY DEF Hears, Watches
<1>3. CASE EmitChanged /\ Deliver(heard', Hears) /\ UNCHANGED blind
  <2>1. announced' = announced
    BY <1>3 DEF EmitChanged, vars, policyVars
  <2>2. \/ heard' = "true" /\ announced = 1
        \/ heard' = "false" /\ announced = 0
    BY <1>3 DEF EmitChanged, ServiceOK, GlueOK
  <2>3. heard' \in PresenceEvents
    BY <2>2 DEF PresenceEvents
  <2>4. QED
    BY <1>1, <1>2, <1>3, <2>1, <2>2, <2>3
<1>4. CASE ServiceStarts /\ Deliver("up", Watches) /\ UNCHANGED blind
  <2>1. announced' = announced /\ glue = "down"
    BY <1>4 DEF ServiceStarts, vars, policyVars
  <2>2. QED
    BY <1>1, <1>2, <1>4, <2>1
<1>5. CASE /\ ServiceStops \/ ServiceCrashes
           /\ Deliver("down", Watches)
           /\ blind' = (blind \/ boot = "hearing")
  <2>1. announced' = -1
    BY <1>5, ForgetInv DEF ServiceStops, ServiceCrashes, ServiceOK
  <2>2. "down" \in PresenceEvents
    BY DEF PresenceEvents
  <2>3. QED
    BY <1>1, <1>2, <1>5, <2>1, <2>2
<1>6. QED
  BY <1>3, <1>4, <1>5 DEF PresenceSpeaks

\* What ambience does not hear of announces nothing new, or something it will hear.
LEMMA UnheardFacts ==
  ASSUME ServiceOK, Unheard
  PROVE  /\ UNCHANGED showVars
         /\ glue' \in {"down", "starting", "idle", "off"} =>
              announced' = announced /\ glue \in {"down", "starting", "idle", "off"}
<1>1. UNCHANGED showVars
  BY DEF Unheard
<1>2. CASE Dispatch
  BY <1>1, <1>2, DispatchFacts DEF ServiceOK
<1>3. CASE SwitchDisplay
  BY <1>1, <1>3 DEF SwitchDisplay, vars, policyVars
<1>4. CASE SensorUnseen \/ DisplayMgrStarts \/ DisplayMgrEnds \/ ConsoleTakesOver
           \/ ClockOrRoom
  <2>1. UNCHANGED <<announced, glue>>
    BY <1>4 DEF SensorUnseen, DisplayMgrStarts, DisplayMgrEnds, ConsoleTakesOver,
       ClockOrRoom, ClockMoves, RoomChanges, vars, policyVars, serviceVars
  <2>2. QED
    BY <1>1, <2>1
<1>5. QED
  BY <1>2, <1>3, <1>4 DEF Unheard

-----------------------------------------------------------------------------
(* ambience: its types, and what it has where it is. *)

LEMMA NextSystemTypes ==
  ServiceOK' /\ ServiceOK /\ SystemTypeOK /\ BootOK /\ [SystemNext]_systemVars
    => SystemTypeOK' /\ BootOK'
<1> SUFFICES ASSUME ServiceOK', ServiceOK, SystemTypeOK, BootOK, [SystemNext]_systemVars
             PROVE  SystemTypeOK' /\ BootOK'
  OBVIOUS
<1>0. /\ ServiceTypeOK' /\ boot \in Boots /\ deps \in BOOLEAN /\ active \in BOOLEAN
      /\ photos \in BOOLEAN /\ blind \in BOOLEAN
      /\ source \in {"nothing", "startup", "presence", "photos"}
      /\ pending \in Seq(Events) /\ Len(pending) <= MaxPending
      /\ glue \in Places /\ mgr_up \in BOOLEAN
  BY DEF ServiceOK, ServiceTypeOK, PowerTypeOK, SystemTypeOK, BootOK
<1>1. CASE PresenceSpeaks
  <2>1. PICK e \in PresenceEvents \cup {"up"}, listening \in BOOLEAN :
          /\ Deliver(e, listening)
          /\ UNCHANGED <<boot, deps, active, photos, source>>
          /\ listening \in {Hears, Watches} /\ blind' \in BOOLEAN
    BY <1>0, <1>1, SpeaksFacts
  <2>2. e \in Events /\ e \notin PhotoEvents
    BY DEF Events, PresenceEvents, PhotoEvents
  <2>3. /\ pending' \in Seq(Events) /\ Len(pending') <= MaxPending
        /\ IF listening THEN pending' = Append(pending, e) ELSE pending' = pending
    BY <1>0, <2>1, <2>2, DeliverFacts
  <2>4. ~Hears => pending' = pending
    BY <2>1, <2>3 DEF Hears, Watches
  <2>5. NoneOf(pending, PhotoEvents) => NoneOf(pending', PhotoEvents)
    BY <1>0, <2>2, <2>3, LastAppend
  <2>6. SystemTypeOK'
    BY <1>0, <2>1, <2>3 DEF SystemTypeOK
  <2>7. BootOK'
    BY <2>1, <2>3, <2>4, <2>5 DEF BootOK, Hears, WatchesPhotos
  <2>8. QED
    BY <2>6, <2>7
<1>2. CASE Unheard \/ UNCHANGED systemVars
  <2>1. UNCHANGED <<boot, deps, active, pending, photos, source, blind>>
    BY <1>2 DEF Unheard, systemVars, showVars
  <2>2. SystemTypeOK'
    BY <1>0, <2>1 DEF SystemTypeOK
  <2>3. BootOK'
    BY <2>1 DEF BootOK, Hears, WatchesPhotos
  <2>4. QED
    BY <2>2, <2>3
<1>3. CASE PhotosComeAndGo
  <2>1. /\ UNCHANGED <<boot, deps, active, source, blind>> /\ photos' = ~photos
        /\ Deliver(IF photos' THEN "photos up" ELSE "photos down", WatchesPhotos)
    BY <1>3 DEF PhotosComeAndGo
  <2>2. PICK e \in Events : Deliver(e, WatchesPhotos)
    BY <2>1 DEF Events, PhotoEvents
  <2>3. /\ pending' \in Seq(Events) /\ Len(pending') <= MaxPending
        /\ ~WatchesPhotos => pending' = pending
    <3>1. WatchesPhotos \in BOOLEAN
      BY DEF WatchesPhotos
    <3>2. QED
      BY <1>0, <2>2, <3>1, DeliverFacts
  <2>4. ~Hears => ~WatchesPhotos
    BY DEF Hears, WatchesPhotos
  <2>5. SystemTypeOK'
    BY <1>0, <2>1, <2>3 DEF SystemTypeOK
  <2>6. BootOK'
    BY <2>1, <2>3, <2>4 DEF BootOK, Hears, WatchesPhotos
  <2>7. QED
    BY <2>5, <2>6
<1>4. CASE AmbienceStarts \/ Subscribes \/ AsksIfUp \/ Activates
  <2>1. UNCHANGED <<pending, photos, blind>>
    BY <1>4 DEF AmbienceStarts, Subscribes, AsksIfUp, Activates
  <2>2. /\ boot' \in Boots /\ deps' \in BOOLEAN /\ active' \in BOOLEAN
        /\ source' \in {"nothing", "startup", "presence", "photos"}
    BY <1>0, <1>4 DEF AmbienceStarts, Subscribes, AsksIfUp, Activates, SetActive, Boots
  <2>3. SystemTypeOK'
    BY <1>0, <2>1, <2>2 DEF SystemTypeOK
  <2>4. /\ ~Hears' => ~Hears
        /\ ~WatchesPhotos' => ~WatchesPhotos
    BY <1>4 DEF AmbienceStarts, Subscribes, AsksIfUp, Activates, Hears, WatchesPhotos
  <2>5. /\ (boot' = "running") = (source' # "nothing")
        /\ source' = "startup" => active' = deps'
    <3>1. CASE Activates
      BY <3>1 DEF Activates, SetActive
    <3>2. CASE AmbienceStarts \/ Subscribes \/ AsksIfUp
      <4>1. /\ boot # "running" /\ boot' # "running" /\ source' = source
        BY <3>2 DEF AmbienceStarts, Subscribes, AsksIfUp
      <4>2. source = "nothing"
        BY <4>1 DEF BootOK
      <4>3. QED
        BY <4>1, <4>2
    <3>3. QED
      BY <1>4, <3>1, <3>2
  <2>6. BootOK'
    BY <2>1, <2>4, <2>5 DEF BootOK
  <2>7. QED
    BY <2>3, <2>6
<1>5. CASE Listens
  <2>1. /\ boot = "running" /\ pending # <<>> /\ pending' = Tail(pending)
        /\ UNCHANGED <<boot, deps, photos, blind>>
        /\ \/ UNCHANGED <<active, source>>
           \/ active' \in BOOLEAN /\ source' \in {"presence", "photos"}
    BY <1>5 DEF Listens, Handle, SetActive
  <2>2. pending' \in Seq(Events) /\ Len(pending') <= MaxPending
    <3>1. pending' \in Seq(Events) /\ Len(pending') = Len(pending) - 1 /\ Len(pending) \in Nat
      BY <1>0, <2>1, HeadTailProperties, LenProperties
    <3>2. QED
      BY <1>0, <3>1, PendingAssumption
  <2>3. SystemTypeOK'
    BY <1>0, <2>1, <2>2 DEF SystemTypeOK
  <2>4. Hears' /\ WatchesPhotos'
    BY <2>1 DEF Hears, WatchesPhotos
  <2>5. source # "nothing" /\ (source = "startup" => active = deps)
    BY <2>1 DEF BootOK
  <2>6. BootOK'
    BY <2>1, <2>2, <2>4, <2>5 DEF BootOK
  <2>7. QED
    BY <2>3, <2>6
<1>6. CASE AmbienceEnds
  <2>1. /\ boot' = "down" /\ deps' = FALSE /\ active' = FALSE /\ pending' = <<>>
        /\ source' = "nothing" /\ blind' = FALSE /\ photos' = photos
    BY <1>6 DEF AmbienceEnds
  <2>2. pending' \in Seq(Events) /\ Len(pending') <= MaxPending
    BY <2>1, EmptySeq, PendingAssumption
  <2>3. SystemTypeOK'
    BY <1>0, <2>1, <2>2 DEF SystemTypeOK, Boots
  <2>4. BootOK'
    BY <2>1, <2>2, NoneOfNothing DEF BootOK
  <2>5. QED
    BY <2>3, <2>4
<1>7. QED
  BY <1>1, <1>2, <1>3, <1>4, <1>5, <1>6 DEF SystemNext

-----------------------------------------------------------------------------
(* ambience: what it was told, and has yet to handle, is how things are. *)

\* A step in which ambience neither hears nor handles anything.
LEMMA SaysKept ==
  ASSUME NEW E, NEW up, NEW by, NEW on \in BOOLEAN, LastSays(E, up, by, on),
         pending' = pending,
         source' = by => source = by /\ active' = active
  PROVE  LastSays(E, up, by, on)'
  BY DEF LastSays

\* Handling, starting or ending, ambience does not forget what presence-service or
\* photo-provider said last.
LEMMA AmbienceSays ==
  ASSUME BootOK, NEW on \in BOOLEAN,
         AmbienceStarts \/ Subscribes \/ AsksIfUp \/ Activates \/ Listens \/ AmbienceEnds
  PROVE  /\ LastSays(PresenceEvents, "true", "presence", on) =>
              LastSays(PresenceEvents, "true", "presence", on)'
         /\ LastSays(PhotoEvents, "photos up", "photos", on) =>
              LastSays(PhotoEvents, "photos up", "photos", on)'
<1>0. pending \in Seq(Events)
  BY DEF BootOK
<1>1. CASE AmbienceStarts \/ Subscribes \/ AsksIfUp
  <2>1. UNCHANGED <<pending, active, source>>
    BY <1>1 DEF AmbienceStarts, Subscribes, AsksIfUp
  <2>2. QED
    BY <2>1, SaysKept
<1>2. CASE Activates
  <2>1. pending' = pending /\ source' = "startup"
    BY <1>2 DEF Activates, SetActive
  <2>2. source' # "presence" /\ source' # "photos"
    BY <2>1
  <2>3. QED
    BY <2>1, <2>2, SaysKept
<1>3. CASE Listens
  <2>1. pending # <<>> /\ Handle(Head(pending)) /\ pending' = Tail(pending)
    BY <1>3 DEF Listens
  <2>2. QED
    BY <1>0, <2>1, HandleSays
<1>4. CASE AmbienceEnds
  <2>1. pending' = <<>> /\ source' = "nothing"
    BY <1>4 DEF AmbienceEnds
  <2>2. source' # "presence" /\ source' # "photos"
    BY <2>1
  <2>3. QED
    BY <2>1, <2>2, NothingSaid, NoneOfNothing
<1>5. QED
  BY <1>1, <1>2, <1>3, <1>4

\* An ambience that does not hear presence-service yet has heard nothing of it.
LEMMA Deaf ==
  ASSUME BootOK, ~Hears, pending' = pending, source' = source, NEW on \in BOOLEAN
  PROVE  LastSays(PresenceEvents, "true", "presence", on)'
<1>1. pending = <<>> /\ source # "presence"
  BY DEF BootOK, Hears
<1>2. QED
  BY <1>1, NothingSaid, NoneOfNothing

LEMMA NextPresenceTold ==
  ASSUME SystemOK, [SystemNext]_systemVars
  PROVE  PresenceTold'
<1> DEFINE Says(on) == LastSays(PresenceEvents, "true", "presence", on)
           Resting == glue \in {"down", "starting", "idle", "off"}
<1>0. /\ ServiceOK /\ BootOK /\ PresenceTold /\ pending \in Seq(Events)
      /\ Len(pending) <= MaxPending
  BY DEF SystemOK, BootOK, SystemTypeOK
<1>1. CASE PresenceSpeaks
  <2>1. PICK e \in PresenceEvents \cup {"up"}, listening \in BOOLEAN :
           /\ Deliver(e, listening)
           /\ UNCHANGED <<boot, deps, active, photos, source>>
           /\ \/ /\ listening = Hears /\ blind' = blind /\ announced' = announced
                 /\ \/ e = "true" /\ announced = 1
                    \/ e = "false" /\ announced = 0
              \/ /\ e = "up" /\ listening = Watches /\ blind' = blind
                 /\ announced' = announced /\ glue = "down"
              \/ /\ e = "down" /\ listening = Watches /\ announced' = -1
                 /\ blind' = (blind \/ boot = "hearing")
    BY <1>0, <1>1, SpeaksFacts
  <2>2. e \in Events
    BY DEF Events, PresenceEvents
  <2>3. IF listening THEN pending' = Append(pending, e) ELSE pending' = pending
    BY <1>0, <2>1, <2>2, DeliverFacts
  <2>4. CASE e \in {"true", "false"} /\ listening = Hears /\ announced' = announced
    <3>1. (announced = 1) \in BOOLEAN /\ e \in PresenceEvents
          /\ (e = "true") = (announced = 1)
      BY <2>1, <2>4 DEF PresenceEvents
    <3>2. Says(announced = 1)'
      <4>1. CASE listening
        <5>1. \A on \in BOOLEAN : (e = "true") = on => Says(on)'
          BY <1>0, <2>1, <2>2, <2>3, <3>1, <4>1, DeliverSays
        <5>2. QED
          BY <2>4, <3>1, <5>1 DEF LastSays
      <4>2. CASE ~listening
        <5>1. \A on \in BOOLEAN : Says(on)'
          BY <1>0, <2>1, <2>3, <2>4, <4>2, Deaf
        <5>2. QED
          BY <2>4, <3>1, <5>1 DEF LastSays
      <4>3. QED
        BY <4>1, <4>2
    <3>3. QED
      BY <3>2 DEF PresenceTold, LastSays
  <2>5. CASE e = "up" /\ listening = Watches /\ announced' = announced /\ glue = "down"
             /\ blind' = blind
    <3>1. "up" \notin PresenceEvents
      BY DEF PresenceEvents
    <3>2. ASSUME NEW on \in BOOLEAN, Says(on) PROVE Says(on)'
      <4>1. CASE listening
        BY <1>0, <2>1, <2>2, <2>3, <2>5, <3>1, <3>2, <4>1, DeliverSays
      <4>2. CASE ~listening
        BY <2>1, <2>3, <3>2, <4>2, SaysKept
      <4>3. QED
        BY <4>1, <4>2
    <3>3. QED
      BY <1>0, <2>5, <3>2 DEF PresenceTold
  <2>6. CASE /\ e = "down" /\ listening = Watches /\ announced' = -1
             /\ blind' = (blind \/ boot = "hearing")
    <3>1. "down" \in PresenceEvents /\ ("down" = "true") = FALSE
      BY DEF PresenceEvents
    <3>2. ~blind' => Says(FALSE)'
      <4>1. CASE listening
        BY <1>0, <2>1, <2>2, <2>3, <2>6, <3>1, <4>1, DeliverSays
      <4>2. CASE ~listening /\ ~blind'
        <5>1. ~Hears
          BY <2>6, <4>2 DEF Watches, Hears
        <5>2. QED
          BY <1>0, <2>1, <2>3, <4>2, <5>1, Deaf
      <4>3. QED
        BY <4>1, <4>2
    <3>3. QED
      <4>1. announced' # 1
        BY <2>6
      <4>2. QED
        BY <3>2, <4>1 DEF PresenceTold, LastSays
  <2>7. QED
    BY <2>1, <2>4, <2>5, <2>6
<1>2. CASE Unheard
  <2>1. /\ UNCHANGED <<pending, active, source, blind>>
        /\ Resting' => announced' = announced /\ Resting
    BY <1>0, <1>2, UnheardFacts DEF showVars
  <2>2. \A on \in BOOLEAN : Says(on) => Says(on)'
    BY <2>1, SaysKept
  <2>3. QED
    BY <1>0, <2>1, <2>2 DEF PresenceTold
<1>3. CASE PhotosComeAndGo
  <2>1. /\ UNCHANGED <<boot, active, source, blind, glue, announced>>
        /\ Deliver(IF photos' THEN "photos up" ELSE "photos down", WatchesPhotos)
    BY <1>3 DEF PhotosComeAndGo, serviceVars, vars, policyVars
  <2>2. PICK e \in PhotoEvents : Deliver(e, WatchesPhotos)
    BY <2>1 DEF PhotoEvents
  <2>3. e \in Events /\ e \notin PresenceEvents /\ WatchesPhotos \in BOOLEAN
    <3>1. e \in Events /\ e \notin PresenceEvents
      BY DEF Events, PhotoEvents, PresenceEvents
    <3>2. WatchesPhotos \in BOOLEAN
      BY DEF WatchesPhotos
    <3>3. QED
      BY <3>1, <3>2
  <2>4. IF WatchesPhotos THEN pending' = Append(pending, e) ELSE pending' = pending
    BY <1>0, <2>2, <2>3, DeliverFacts
  <2>5. ASSUME NEW on \in BOOLEAN, Says(on) PROVE Says(on)'
    <3>1. CASE WatchesPhotos
      BY <1>0, <2>1, <2>3, <2>4, <2>5, <3>1, DeliverSays
    <3>2. CASE ~WatchesPhotos
      BY <2>1, <2>4, <2>5, <3>2, SaysKept
    <3>3. QED
      BY <3>1, <3>2
  <2>6. QED
    BY <1>0, <2>1, <2>5 DEF PresenceTold
<1>4. CASE AmbienceStarts \/ Subscribes \/ AsksIfUp \/ Activates \/ Listens
  <2>1. UNCHANGED <<glue, announced, blind>>
    BY <1>4 DEF AmbienceStarts, Subscribes, AsksIfUp, Activates, Listens, allVars, vars,
       policyVars, serviceVars
  <2>2. \A on \in BOOLEAN : Says(on) => Says(on)'
    BY <1>0, <1>4, AmbienceSays
  <2>3. QED
    BY <1>0, <2>1, <2>2 DEF PresenceTold
<1>5. CASE AmbienceEnds
  <2>1. pending' = <<>> /\ source' # "presence"
    BY <1>5 DEF AmbienceEnds
  <2>2. \A on \in BOOLEAN : Says(on)'
    BY <2>1, NothingSaid, NoneOfNothing
  <2>3. QED
    BY <2>2 DEF PresenceTold
<1>6. CASE UNCHANGED systemVars
  <2>1. UNCHANGED <<glue, announced, blind, pending, active, source>>
    BY <1>6 DEF systemVars, allVars, vars, policyVars, serviceVars, showVars
  <2>2. \A on \in BOOLEAN : Says(on) => Says(on)'
    BY <2>1, SaysKept
  <2>3. QED
    BY <1>0, <2>1, <2>2 DEF PresenceTold
<1>7. QED
  BY <1>1, <1>2, <1>3, <1>4, <1>5, <1>6 DEF SystemNext

LEMMA NextPhotosTold ==
  ASSUME SystemOK, [SystemNext]_systemVars
  PROVE  PhotosTold'
<1> DEFINE Says(on) == LastSays(PhotoEvents, "photos up", "photos", on)
<1>0. /\ ServiceOK /\ BootOK /\ Says(photos) /\ pending \in Seq(Events)
      /\ Len(pending) <= MaxPending /\ photos \in BOOLEAN
  BY DEF SystemOK, BootOK, SystemTypeOK, PhotosTold
<1>1. CASE PhotosComeAndGo
  <2>1. /\ UNCHANGED <<boot, active, source>> /\ photos' = ~photos
        /\ Deliver(IF photos' THEN "photos up" ELSE "photos down", WatchesPhotos)
    BY <1>1 DEF PhotosComeAndGo
  <2>2. PICK e \in PhotoEvents : Deliver(e, WatchesPhotos) /\ (e = "photos up") = photos'
    BY <1>0, <2>1 DEF PhotoEvents
  <2>3. WatchesPhotos \in BOOLEAN
    BY DEF WatchesPhotos
  <2>4. e \in Events
    BY DEF Events
  <2>5. IF WatchesPhotos THEN pending' = Append(pending, e) ELSE pending' = pending
    BY <1>0, <2>2, <2>3, <2>4, DeliverFacts
  <2>6. \A on \in BOOLEAN : (e = "photos up") = on => Says(on)'
    <3>1. CASE WatchesPhotos
      BY <1>0, <2>1, <2>4, <2>5, <3>1, DeliverSays
    <3>2. CASE ~WatchesPhotos
      <4>1. NoneOf(pending, PhotoEvents) /\ source # "photos"
        BY <1>0, <3>2 DEF BootOK, WatchesPhotos
      <4>2. QED
        BY <2>1, <2>5, <3>2, <4>1, NothingSaid
    <3>3. QED
      BY <3>1, <3>2
  <2>7. photos' \in BOOLEAN
    BY <1>0, <2>1
  <2>8. QED
    BY <2>2, <2>6, <2>7 DEF PhotosTold, LastSays
<1>2. SUFFICES ASSUME ~PhotosComeAndGo
               PROVE  photos' = photos /\ \A on \in BOOLEAN : Says(on) => Says(on)'
  <2>1. ASSUME photos' = photos, \A on \in BOOLEAN : Says(on) => Says(on)'
        PROVE  PhotosTold'
    BY <1>0, <2>1 DEF PhotosTold, LastSays
  <2>2. QED
    BY <1>1, <2>1
<1>3. CASE PresenceSpeaks
  <2>1. PICK e \in PresenceEvents \cup {"up"}, listening \in BOOLEAN :
          Deliver(e, listening) /\ UNCHANGED <<boot, deps, active, photos, source>>
    BY <1>0, <1>3, SpeaksFacts
  <2>2. e \in Events /\ e \notin PhotoEvents
    BY DEF Events, PresenceEvents, PhotoEvents
  <2>3. IF listening THEN pending' = Append(pending, e) ELSE pending' = pending
    BY <1>0, <2>1, <2>2, DeliverFacts
  <2>4. ASSUME NEW on \in BOOLEAN, Says(on) PROVE Says(on)'
    <3>1. CASE listening
      BY <1>0, <2>1, <2>2, <2>3, <2>4, <3>1, DeliverSays
    <3>2. CASE ~listening
      BY <2>1, <2>3, <2>4, <3>2, SaysKept
    <3>3. QED
      BY <3>1, <3>2
  <2>5. QED
    BY <2>1, <2>4
<1>4. CASE Unheard \/ UNCHANGED systemVars
  <2>1. UNCHANGED <<pending, active, source, photos>>
    BY <1>4 DEF Unheard, systemVars, showVars
  <2>2. QED
    BY <2>1, SaysKept
<1>5. CASE AmbienceStarts \/ Subscribes \/ AsksIfUp \/ Activates \/ Listens \/ AmbienceEnds
  <2>1. photos' = photos
    BY <1>5 DEF AmbienceStarts, Subscribes, AsksIfUp, Activates, Listens, AmbienceEnds
  <2>2. QED
    BY <1>0, <1>5, <2>1, AmbienceSays
<1>6. QED
  BY <1>2, <1>3, <1>4, <1>5 DEF SystemNext

-----------------------------------------------------------------------------
(* The system. *)

LEMMA InitSystem == SystemInit => SystemOK
<1> SUFFICES ASSUME SystemInit PROVE SystemOK
  OBVIOUS
<1>1. ServiceOK
  BY InitService DEF SystemInit
<1>2. /\ boot = "down" /\ deps = FALSE /\ active = FALSE /\ pending = <<>>
      /\ photos \in BOOLEAN /\ source = "nothing" /\ blind = FALSE
  BY DEF SystemInit
<1>3. SystemTypeOK
  <2>1. Len(pending) <= MaxPending
    BY <1>2, EmptySeq, PendingAssumption
  <2>2. boot \in Boots /\ ServiceTypeOK
    BY <1>1, <1>2 DEF Boots, ServiceOK
  <2>3. QED
    BY <1>2, <2>1, <2>2 DEF SystemTypeOK
<1>4. BootOK
  BY <1>2, EmptySeq, NoneOfNothing DEF BootOK
<1>5. \A E, x : ~LastOf(<<>>, E, x)
  BY DEF LastOf
<1>6. PresenceTold /\ PhotosTold
  BY <1>2, <1>5 DEF PresenceTold, PhotosTold, LastSays
<1>7. QED
  BY <1>1, <1>3, <1>4, <1>6 DEF SystemOK

LEMMA NextSystem == SystemOK /\ [SystemNext]_systemVars => SystemOK'
<1> SUFFICES ASSUME SystemOK, [SystemNext]_systemVars PROVE SystemOK'
  OBVIOUS
<1>1. ServiceOK'
  BY ServiceMoves, NextService, QuietService DEF SystemOK
<1>2. SystemTypeOK' /\ BootOK'
  BY <1>1, NextSystemTypes DEF SystemOK
<1>3. PresenceTold' /\ PhotosTold'
  BY NextPresenceTold, NextPhotosTold
<1>4. QED
  BY <1>1, <1>2, <1>3 DEF SystemOK

LEMMA SystemOKAlways == SystemSpec => []SystemOK
  BY InitSystem, NextSystem, PTL DEF SystemSpec

\* Whatever dies, restarts or fails to switch the display: between dispatches the
\* panel is lit exactly when presence is announced, as far as display-mgr's
\* failures are noticed (DisplayInStep; on_presence_change in main.c).
THEOREM DisplayFollows == SystemSpec => []DisplayInStep
<1>1. SystemOK => DisplayInStep
  BY DEF SystemOK, ServiceOK
<1>2. QED
  BY <1>1, SystemOKAlways, PTL

\* All processes keep their types, and a ForceOff keeps the panel and those who
\* listen to the signal off (SystemInv; presence.c's latch and main.c).
THEOREM ForcedOffStaysDark == SystemSpec => []SystemInv
<1>1. SystemOK => SystemInv
  <2>1. ASSUME SystemOK PROVE ForcedOffIsDark
    <3>1. force_off_latched => announced = 0
      BY <2>1 DEF SystemOK, ServiceOK, Inv, LatchKeepsOff
    <3>2. glue = "idle" /\ announced = 0 => heard = "false"
      BY <2>1 DEF SystemOK, ServiceOK, HeardOK
    <3>3. glue = "idle" /\ ~missed /\ announced = 0 => ~lit
      <4>1. glue = "idle" /\ ~missed => lit = (announced = 1)
        BY <2>1 DEF SystemOK, ServiceOK, DisplayInStep
      <4>2. announced = 0 => announced # 1
        OBVIOUS
      <4>3. QED
        BY <4>1, <4>2, Zenon
    <3>4. QED
      BY <3>1, <3>2, <3>3 DEF ForcedOffIsDark
  <2>2. QED
    BY <2>1 DEF SystemOK, SystemInv
<1>2. QED
  BY <1>1, SystemOKAlways, PTL

\* Presence is signalled as it was announced, and true only once the display is
\* lit or known not to be (LitBeforeAnnounced; main.c's order of calls).
THEOREM LitFirst == SystemSpec => LitBeforeAnnounced
<1> DEFINE Step == EmitChanged =>
                     /\ heard' = IF announced = 1 THEN "true" ELSE "false"
                     /\ announced = 1 => lit \/ missed
<1>1. SystemOK => Step
  BY DEF SystemOK, ServiceOK, GlueOK, EmitChanged
<1>2. QED
  BY <1>1, SystemOKAlways, PTL DEF LitBeforeAnnounced

\* Once everything sent is handled, a slideshow set for presence-service runs
\* exactly when that service has announced presence: through its deaths and
\* restarts, and ambience's own subscriptions, call by call (InStepWithPresence;
\* dbus_listeners_init and on_presence_service_updown).
THEOREM ShowInStep == SystemSpec => []InStepWithPresence
<1>1. SystemOK => InStepWithPresence
  <2> SUFFICES ASSUME SystemOK, Settled, source = "presence", ~blind
               PROVE  active = (announced = 1)
    BY DEF InStepWithPresence
  <2>1. pending = <<>> /\ glue \in {"down", "starting", "idle", "off"} /\ active \in BOOLEAN
    BY DEF Settled, SystemOK, SystemTypeOK
  <2>2. announced = 1 => active = TRUE
    BY <2>1, NoneOfNothing DEF SystemOK, PresenceTold, LastSays
  <2>3. announced # 1 => active = FALSE
    BY <2>1, NoneOfNothing DEF SystemOK, PresenceTold, LastSays
  <2>4. QED
    BY <2>2, <2>3, Zenon
<1>2. QED
  BY <1>1, SystemOKAlways, PTL

\* While presence is announced and there are photos the slideshow runs, unless a
\* service was missing when ambience started and nothing was heard since
\* (PresentIsShown; ambience's main and its listeners).
THEOREM PresentAlwaysShown == SystemSpec => []PresentIsShown
<1>1. SystemOK => PresentIsShown
  <2> SUFFICES ASSUME SystemOK, Settled, announced = 1, photos
               PROVE  active \/ (source = "startup" /\ ~deps)
    BY DEF PresentIsShown
  <2>1. /\ pending = <<>> /\ glue \in {"down", "starting", "idle", "off"}
        /\ boot = "running" /\ active \in BOOLEAN /\ photos = TRUE
        /\ source \in {"nothing", "startup", "presence", "photos"}
    BY DEF Settled, SystemOK, SystemTypeOK
  <2>2. source = "presence" => active = TRUE
    BY <2>1, NoneOfNothing DEF SystemOK, PresenceTold, LastSays
  <2>3. source = "photos" => active = TRUE
    BY <2>1, NoneOfNothing DEF SystemOK, PhotosTold, LastSays
  <2>4. source = "startup" => active = deps
    BY DEF SystemOK, BootOK
  <2>5. source # "nothing"
    BY <2>1 DEF SystemOK, BootOK
  <2>6. QED
    BY <2>1, <2>2, <2>3, <2>4, <2>5
<1>2. QED
  BY <1>1, SystemOKAlways, PTL
=============================================================================
