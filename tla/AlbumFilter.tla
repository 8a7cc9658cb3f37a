----------------------------- MODULE AlbumFilter -----------------------------
(***************************************************************************)
(* The album filter of photo-provider's immich backend: SetAlbumFilter      *)
(* (dbus.c), the backend and its picker (immich_backend.c), the photos the  *)
(* cache worker picks meanwhile (cache.c), and the configuration file the   *)
(* filter is written back to and read at the next start (config.c).         *)
(*                                                                         *)
(* libimmich-random, the file system and whoever ends the process are       *)
(* external: the picker may reject a filter, a pick is of the one it has    *)
(* then, and a file is rewritten in place.  PhotoProvider has the cache in  *)
(* full; here it is the filters its photos were picked under.               *)
(***************************************************************************)
EXTENDS Naturals

CONSTANTS
  Filter,       \* what pp_config_load and SetAlbumFilter let through
  NoFilter,     \* the one that keeps every album
  Rejected,     \* those that the picker does not take all the same
  Torn,         \* a file that ends in the middle
  MaxCalls,     \* bound on calls that change the filter
  MaxDeaths     \* bound on ends of the process

ASSUME FilterAssumption ==
  Torn \notin Filter /\ Rejected \subseteq Filter /\ NoFilter \in Filter \ Rejected
ASSUME LimitAssumption == MaxCalls \in Nat /\ MaxDeaths \in Nat

VARIABLES
  file,         \* the album_filter of the configuration file
  call,         \* where the D-Bus thread is
  filter,       \* pp_immich_backend.filter
  picker,       \* the filter the picker has
  cfg,          \* g_cfg's
  arg,          \* SetAlbumFilter in progress
  generation, cached,       \* of the cache
  worker, gen, hand,        \* the worker: what it has picked, since when
  calls, deaths,
  accepted,     \* history: the filter last replied to with success, or what
                \* was left of it when the process started
  unsaved       \* history: its write failed or was cut short

backendVars == <<filter, picker>>
workerVars == <<worker, gen, hand>>
cacheVars == <<generation, cached>>
counters == <<calls, deaths>>
vars == <<file, call, backendVars, cfg, arg, cacheVars, workerVars, counters,
          accepted, unsaved>>

\* down    no process              idle           between calls
\* flush   the backend has taken the filter       save   the cache is flushed
\* write   the file is open and truncated
Calls == {"down", "idle", "flush", "save", "write"}

\* loop: about to fetch       pick: holds the generation
\* fetch: has picked
Workers == {"loop", "pick", "fetch"}

\* pp_immich_backend_init: what it makes of a configured filter.
Usable(f) == IF f \in Rejected THEN NoFilter ELSE f

Init ==
  /\ file \in Filter
  /\ call = "down"
  /\ filter = Usable(file) /\ picker = Usable(file) /\ cfg = file /\ arg = file
  /\ generation = 0 /\ cached = {}
  /\ worker = "loop" /\ gen = 0 /\ hand = file
  /\ calls = 0 /\ deaths = 0
  /\ accepted = Usable(file) /\ unsaved = FALSE

-----------------------------------------------------------------------------
(* The process. *)

\* pp_config_load does not take a torn file.
Starts ==
  /\ call = "down"
  /\ file # Torn
  /\ call' = "idle"
  /\ filter' = Usable(file) /\ picker' = Usable(file) /\ cfg' = file
  /\ generation' = 0 /\ cached' = {}
  /\ worker' = "loop"
  /\ accepted' = IF unsaved THEN Usable(file) ELSE accepted
  /\ unsaved' = FALSE
  /\ UNCHANGED <<file, arg, gen, hand, counters>>

\* Killed, or told to stop between two calls.
Dies ==
  /\ call # "down"
  /\ deaths < MaxDeaths
  /\ deaths' = deaths + 1
  /\ call' = "down"
  /\ unsaved' = (unsaved \/ call \in {"flush", "save", "write"})
  /\ UNCHANGED <<file, backendVars, cfg, arg, cacheVars, workerVars, calls,
                 accepted>>

-----------------------------------------------------------------------------
(* The D-Bus thread: method_set_album_filter. *)

\* A filter that is in force already changes nothing.
SetsSame ==
  /\ call = "idle"
  /\ accepted' = filter
  /\ UNCHANGED <<file, call, backendVars, cfg, arg, cacheVars, workerVars,
                 counters, unsaved>>

\* The picker takes it or not: an error for the caller, and nothing changes.
RejectsFilter(f) ==
  /\ call = "idle"
  /\ f # filter /\ f \in Rejected
  /\ UNCHANGED vars

\* pp_immich_backend_set_album_filter hands it to the picker.
SetsFilter(f) ==
  /\ call = "idle"
  /\ f # filter /\ f \notin Rejected
  /\ calls < MaxCalls
  /\ calls' = calls + 1
  /\ filter' = f /\ picker' = f
  /\ arg' = f
  /\ call' = "flush"
  /\ UNCHANGED <<file, cfg, cacheVars, workerVars, deaths, accepted, unsaved>>

\* Mutants of Flushes: a fetch under way is not outdated; the configuration in
\* memory stays as it was.
FlushesOnly ==
  /\ call = "flush"
  /\ cached' = {}
  /\ cfg' = arg
  /\ call' = "save"
  /\ UNCHANGED <<file, backendVars, arg, generation, workerVars, counters,
                 accepted, unsaved>>
FlushesForgets ==
  /\ call = "flush"
  /\ cached' = {} /\ generation' = generation + 1
  /\ call' = "save"
  /\ UNCHANGED <<file, backendVars, cfg, arg, workerVars, counters, accepted,
                 unsaved>>

\* pp_cache_invalidate; then g_cfg has the new filter.
Flushes ==
  /\ call = "flush"
  /\ cached' = {} /\ generation' = generation + 1
  /\ cfg' = arg
  /\ call' = "save"
  /\ UNCHANGED <<file, backendVars, arg, workerVars, counters, accepted, unsaved>>

\* The reply does not say what became of the file.
Replies ==
  /\ call' = "idle"
  /\ accepted' = arg
  /\ UNCHANGED <<backendVars, cfg, arg, cacheVars, workerVars, counters>>

OpensFile ==
  /\ call = "save"
  /\ file' = Torn
  /\ call' = "write"
  /\ UNCHANGED <<backendVars, cfg, arg, cacheVars, workerVars, counters,
                 accepted, unsaved>>

CannotOpenFile ==
  /\ call = "save"
  /\ unsaved' = TRUE
  /\ Replies
  /\ UNCHANGED file

WritesFile ==
  /\ call = "write"
  /\ file' = cfg
  /\ unsaved' = FALSE
  /\ Replies

CannotWriteFile ==
  /\ call = "write"
  /\ unsaved' = TRUE
  /\ Replies
  /\ UNCHANGED file

-----------------------------------------------------------------------------
(* The cache worker, and callers. *)

\* What the worker does leaves this alone.
WorkerOnly ==
  /\ call # "down"
  /\ UNCHANGED <<file, call, backendVars, cfg, arg, generation, counters,
                 accepted, unsaved>>

BeginsFetch ==
  /\ WorkerOnly
  /\ worker = "loop"
  /\ worker' = "pick" /\ gen' = generation
  /\ UNCHANGED <<hand, cached>>

Picks ==
  /\ WorkerOnly
  /\ worker = "pick"
  /\ worker' = "fetch" /\ hand' = picker
  /\ UNCHANGED <<gen, cached>>

\* No album, no preview, not a JPEG.
FetchFails ==
  /\ WorkerOnly
  /\ worker \in {"pick", "fetch"}
  /\ worker' = "loop"
  /\ UNCHANGED <<gen, hand, cached>>

\* The photo and what is known of it: stored unless the cache was flushed.
Stores ==
  /\ WorkerOnly
  /\ worker = "fetch"
  /\ worker' = "loop"
  /\ cached' = IF gen = generation THEN cached \cup {hand} ELSE cached
  /\ UNCHANGED <<gen, hand>>

Next ==
  \/ Starts \/ Dies
  \/ SetsSame \/ (\E f \in Filter : RejectsFilter(f) \/ SetsFilter(f))
  \/ Flushes
  \/ OpensFile \/ CannotOpenFile \/ WritesFile \/ CannotWriteFile
  \/ BeginsFetch \/ Picks \/ FetchFails \/ Stores

Spec == Init /\ [][Next]_vars

-----------------------------------------------------------------------------
(* Properties. *)

\* Every variable keeps its type.
TypeOK ==
  /\ file \in Filter \cup {Torn}
  /\ call \in Calls /\ worker \in Workers
  /\ filter \in Filter /\ picker \in Filter /\ cfg \in Filter
  /\ arg \in Filter /\ hand \in Filter /\ accepted \in Filter
  /\ cached \subseteq Filter
  /\ generation \in Nat /\ gen \in Nat
  /\ calls \in 0 .. MaxCalls /\ deaths \in 0 .. MaxDeaths
  /\ unsaved \in BOOLEAN

\* Between calls every photo that can be served was picked under the filter in
\* force, whatever the worker had under way when it changed (dbus.c: "Photos
\* already in the cache may come from an album the new filter excludes").
NoExcludedPhoto == call = "idle" => cached \subseteq {filter}

\* Backend, cache and worker agree on the filter: a setter's reply means that no
\* photo of an older one is served.
FilterInv == TypeOK /\ NoExcludedPhoto

\* A filter set survives a restart (photo-provider/README.md): what was replied to
\* with success last is in force between calls, with the picker and the configuration
\* in memory, even if its file could not be written; and it is what the next start
\* makes of the file, unless the write failed or the process died before it was done
\* and no later one made up for it.
FilterSurvives ==
  /\ call = "idle" => filter = accepted /\ picker = accepted /\ Usable(cfg) = accepted
  /\ call \in {"idle", "down"} /\ ~unsaved => file # Torn /\ Usable(file) = accepted
=============================================================================
