-------------------------- MODULE AlbumFilterProofs --------------------------
(***************************************************************************)
(* Proofs that SetAlbumFilter keeps its promises (AlbumFilter), for any set *)
(* of filters and any number of calls and ends of the process.              *)
(***************************************************************************)
EXTENDS AlbumFilter, TLAPS

-----------------------------------------------------------------------------
(* Why a fetch under way cannot bring an excluded photo. *)

\* Once the cache is flushed, what is in it and what a fetch of this generation
\* has picked is of the picker's filter; a fetch is never of a later one.
PicksCurrent ==
  /\ picker = filter
  /\ call \in {"idle", "save", "write"} =>
       /\ cached \subseteq {filter}
       /\ worker = "fetch" /\ gen = generation => hand = filter
  /\ call # "down" /\ worker # "loop" => gen <= generation

FreshOK == TypeOK /\ PicksCurrent

\* The service starts with an empty cache and no fetch.
LEMMA InitFresh == Init => FreshOK
<1> SUFFICES ASSUME Init PROVE FreshOK
  OBVIOUS
<1>1. TypeOK
  <2>1. 0 \in 0 .. MaxCalls /\ 0 \in 0 .. MaxDeaths
    BY LimitAssumption
  <2>2. file \in Filter /\ cached \subseteq Filter /\ unsaved \in BOOLEAN
    BY DEF Init
  <2>3. Usable(file) \in Filter
    BY <2>2, FilterAssumption DEF Usable
  <2>4. QED
    BY <2>1, <2>2, <2>3 DEF Init, TypeOK, Calls, Workers
<1>2. PicksCurrent
  BY DEF Init, PicksCurrent
<1>3. QED
  BY <1>1, <1>2 DEF FreshOK

\* No step of the D-Bus thread or of the worker breaks that.
LEMMA NextFresh == FreshOK /\ [Next]_vars => FreshOK'
<1> SUFFICES ASSUME FreshOK, [Next]_vars PROVE FreshOK'
  OBVIOUS
<1> USE LimitAssumption DEF FreshOK, TypeOK, PicksCurrent, Calls, Workers
<1>0. \A f \in Filter : Usable(f) \in Filter
  BY FilterAssumption DEF Usable
<1>1. CASE Starts
  BY <1>0, <1>1 DEF Starts, counters
<1>2. CASE Dies
  BY <1>2 DEF Dies, backendVars, cacheVars, workerVars
<1>3. CASE SetsSame
  BY <1>3 DEF SetsSame, backendVars, cacheVars, workerVars, counters
<1>4. ASSUME NEW f \in Filter, RejectsFilter(f) \/ SetsFilter(f) PROVE FreshOK'
  BY <1>4 DEF RejectsFilter, SetsFilter, vars, backendVars, cacheVars, workerVars,
              counters
<1>5. CASE Flushes
  BY <1>5 DEF Flushes, backendVars, workerVars, counters
<1>6. CASE OpensFile
  BY <1>6 DEF OpensFile, backendVars, cacheVars, workerVars, counters
<1>7. CASE CannotOpenFile
  BY <1>7 DEF CannotOpenFile, Replies, backendVars, cacheVars, workerVars,
              counters
<1>8. CASE WritesFile
  BY <1>8 DEF WritesFile, Replies, backendVars, cacheVars, workerVars, counters
<1>9. CASE CannotWriteFile
  BY <1>9 DEF CannotWriteFile, Replies, backendVars, cacheVars, workerVars,
              counters
<1>10. CASE BeginsFetch
  BY <1>10 DEF BeginsFetch, WorkerOnly, backendVars, counters
<1>11. CASE Picks
  BY <1>11 DEF Picks, WorkerOnly, backendVars, counters
<1>12. CASE FetchFails
  BY <1>12 DEF FetchFails, WorkerOnly, backendVars, counters
<1>13. CASE Stores
  BY <1>13 DEF Stores, WorkerOnly, backendVars, counters
<1>14. CASE UNCHANGED vars
  BY <1>14 DEF vars, backendVars, cacheVars, workerVars, counters
<1>15. QED
  BY <1>1, <1>2, <1>3, <1>4, <1>5, <1>6, <1>7, <1>8, <1>9, <1>10, <1>11, <1>12,
     <1>13, <1>14 DEF Next

\* After SetAlbumFilter has replied no photo can be served that was picked under
\* another filter, whatever fetch the change came in the middle of.
THEOREM NoExcludedPhotoServed == Spec => []FilterInv
<1>1. FreshOK => FilterInv
  BY DEF FreshOK, PicksCurrent, FilterInv, NoExcludedPhoto
<1>2. QED
  BY <1>1, InitFresh, NextFresh, PTL DEF Spec

-----------------------------------------------------------------------------
(* Why the filter survives a restart. *)

\* The four copies of the filter, between the steps of a call: the backend has
\* the argument first, the configuration in memory after the flush, the file last
\* of all, and what was replied before stays on disk until it is opened.
CopiesFollow ==
  /\ picker = filter /\ filter \notin Rejected
  /\ file \in Filter \cup {Torn}
  /\ call = "idle" => filter = accepted /\ Usable(cfg) = accepted
  /\ call \in {"flush", "save", "write"} => arg = filter
  /\ call \in {"save", "write"} => cfg = arg /\ cfg \in Filter
  /\ call = "flush" => arg \in Filter
  /\ ~unsaved /\ call # "write" => file # Torn /\ Usable(file) = accepted

\* The picker takes what it is given at the start.
LEMMA UsableTaken == \A f : Usable(f) \notin Rejected /\ (f \notin Rejected => Usable(f) = f)
BY FilterAssumption DEF Usable

\* At the start all copies are the file's.
LEMMA InitCopies == Init => CopiesFollow
BY FilterAssumption, UsableTaken DEF Init, CopiesFollow

\* Every step of a call, and every end and start of the process, keeps them so.
LEMMA NextCopies == CopiesFollow /\ [Next]_vars => CopiesFollow'
<1> SUFFICES ASSUME CopiesFollow, [Next]_vars PROVE CopiesFollow'
  OBVIOUS
<1> USE FilterAssumption, UsableTaken DEF CopiesFollow
<1>1. CASE Starts
  BY <1>1 DEF Starts
<1>2. CASE Dies
  BY <1>2 DEF Dies, backendVars
<1>3. CASE SetsSame
  BY <1>3 DEF SetsSame, backendVars
<1>4. ASSUME NEW f \in Filter, RejectsFilter(f) \/ SetsFilter(f) PROVE CopiesFollow'
  BY <1>4 DEF RejectsFilter, SetsFilter, vars, backendVars
<1>5. CASE Flushes
  BY <1>5 DEF Flushes, backendVars
<1>6. CASE OpensFile
  BY <1>6 DEF OpensFile, backendVars
<1>7. CASE CannotOpenFile \/ WritesFile \/ CannotWriteFile
  BY <1>7 DEF CannotOpenFile, WritesFile, CannotWriteFile, Replies, backendVars
<1>8. CASE BeginsFetch \/ Picks \/ FetchFails \/ Stores
  BY <1>8 DEF BeginsFetch, Picks, FetchFails, Stores, WorkerOnly, backendVars
<1>9. CASE UNCHANGED vars
  BY <1>9 DEF vars, backendVars
<1>10. QED
  BY <1>1, <1>2, <1>3, <1>4, <1>5, <1>6, <1>7, <1>8, <1>9 DEF Next

\* What was replied to with success last is in force between calls, whatever became
\* of its file, and is what the next start makes of the file, unless its write failed
\* or was cut short and no later one made up for it.
THEOREM FilterAlwaysSurvives == Spec => []FilterSurvives
<1>1. CopiesFollow => FilterSurvives
  BY DEF CopiesFollow, FilterSurvives
<1>2. QED
  BY <1>1, InitCopies, NextCopies, PTL DEF Spec
=============================================================================
