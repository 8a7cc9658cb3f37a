--------------------------- MODULE PhotoProvider ---------------------------
(***************************************************************************)
(* photo-provider with the wwwslide backend: the cache worker (cache.c)     *)
(* prefetches photos while the D-Bus thread (dbus.c, main.c) serves them,   *)
(* changes the rendering and shuts the service down.                        *)
(*                                                                         *)
(* A step is a critical section of pp_cache.mu, one atomic operation of     *)
(* the backend, or the end of a blocking call.  Condition variables are     *)
(* modelled by who sleeps: a broadcast moves a sleeping thread to "woken",  *)
(* and only then does it look at the ring again, so a missing broadcast     *)
(* leaves it asleep.  The D-Bus thread handles one call at a time and runs  *)
(* it to its reply.                                                         *)
(***************************************************************************)
EXTENDS PhotoRing, WwwslideBackend

CONSTANTS
  Memfd,      \* the file descriptors the process may have open
  NoCopy,     \* the reply when dup failed; Unavailable like NoPhoto
  MaxCalls    \* bound on D-Bus calls and server restarts in a behaviour

ASSUME CallsAssumption == MaxCalls \in Nat
ASSUME PhotoAssumption ==
  NoPhoto \notin [fd : Memfd, cfg : Config] /\ NoCopy \notin [fd : Memfd, cfg : Config]

VARIABLES
  ring,         \* buf, head, cursor, tail of struct pp_cache, and open memfds
  generation,   \* bumped by every invalidate
  shutdown,
  worker,       \* where worker_main is
  gen,          \* worker_main's copy of generation, taken before the fetch
  hand,         \* the photo a fetch returned, not yet stored or discarded
  dbus,         \* where the D-Bus thread is
  arg,          \* SetTargetSize in progress: the old width, the new height
  reply,        \* the photo the last call replied with, or one of Unserved
  calls         \* calls and restarts so far

cacheVars == <<ring, generation, shutdown, worker, gen, hand>>
dbusVars == <<dbus, arg, reply>>
vars == <<cacheVars, dbusVars, calls, backendVars>>

Photo == [fd : Memfd, cfg : Config]
Unserved == {NoPhoto, NoCopy}
Rings == [buf : [0 .. buf_cap - 1 -> Photo \cup {NoPhoto}],
          head : Nat, cursor : Nat \cup {-1}, tail : Nat, fds : SUBSET Memfd]

\* start: thread created      wait: asleep on the condition variable
\* fetch: in the backend      backoff: the two seconds after a failed fetch
\* fetched: back from the backend with a photo, waiting for the mutex
WorkerStates == {"start", "wait", "woken", "fetch", "backoff", "fetched", "done"}

\* set_h, raise, invalidate: inside a setter       pop, pop_woken: in GetPhoto
\* joining: pp_cache_free waits for the worker     exited: the ring is freed
DbusStates == {"idle", "set_h", "raise", "invalidate", "pop", "pop_woken",
               "joining", "exited"}

Init ==
  /\ BackendInit
  /\ ring = EmptyRing
  /\ generation = 0
  /\ shutdown = FALSE
  /\ worker = "start"
  /\ gen = 0
  /\ hand = NoPhoto
  /\ dbus = "idle"
  /\ arg = [ow |-> InitialConfig.w, h |-> InitialConfig.h]
  /\ reply = NoPhoto
  /\ calls = 0

Woken(w) == IF w = "wait" THEN "woken" ELSE w

-----------------------------------------------------------------------------
(* The cache worker. *)

\* From the top of worker_main's loop, holding the mutex, with ring contents
\* c: flush and end, go and fetch, or sleep.
LoopTop(c) ==
  \/ /\ shutdown
     /\ ring' = Flush(c)
     /\ worker' = "done"
     /\ gen' = gen
  \/ /\ ~shutdown
     /\ ShouldFetch(c)
     /\ ring' = c
     /\ worker' = "fetch"
     /\ gen' = generation
  \/ /\ ~shutdown
     /\ ~ShouldFetch(c)
     /\ ring' = c
     /\ worker' = "wait"
     /\ gen' = gen

WorkerResumes ==
  /\ worker \in {"start", "woken", "backoff"}
  /\ LoopTop(ring)
  /\ UNCHANGED <<generation, shutdown, hand, dbusVars, calls, backendVars>>

WorkerEntersBackend ==
  /\ worker = "fetch"
  /\ EnterFetch
  /\ UNCHANGED <<cacheVars, dbusVars, calls>>

WorkerInBackend ==
  /\ Register \/ LoadHeight \/ LoadQr \/ PushConfig
  /\ UNCHANGED <<cacheVars, dbusVars, calls>>

\* memfd_create gives a descriptor that is not open; the image is written to
\* it.
FetchSucceeds ==
  /\ ImageArrives
  /\ \E fd \in Memfd \ ring.fds :
       /\ ring' = OpenFd(ring, fd)
       /\ hand' = [fd |-> fd, cfg |-> client]
  /\ worker' = "fetched"
  /\ UNCHANGED <<generation, shutdown, gen, dbusVars, calls>>

\* fetch_next returns -1 and leaves no memfd open.
FetchFails ==
  /\ RegistrationFails \/ ImageFails
  /\ worker' = "backoff"
  /\ UNCHANGED <<ring, generation, shutdown, gen, hand, dbusVars, calls>>

\* Mutant of DiscardFetched: a fetch that found no room is not closed.
DiscardFetchedLeaks ==
  /\ worker = "fetched"
  /\ \/ /\ gen # generation \/ shutdown
        /\ LoopTop(CloseFd(ring, hand.fd))
     \/ /\ gen = generation /\ ~shutdown
        /\ Full(Evict(ring))
        /\ LoopTop(Evict(ring))
  /\ hand' = NoPhoto
  /\ UNCHANGED <<generation, shutdown, dbusVars, calls, backendVars>>

\* The result of a fetch that an invalidate or the shutdown overtook, or that
\* found no room because GetPrevPhoto moved the cursor back.
DiscardFetched ==
  /\ worker = "fetched"
  /\ \/ /\ gen # generation \/ shutdown
        /\ LoopTop(CloseFd(ring, hand.fd))
     \/ /\ gen = generation /\ ~shutdown
        /\ Full(Evict(ring))
        /\ LoopTop(CloseFd(Evict(ring), hand.fd))
  /\ hand' = NoPhoto
  /\ UNCHANGED <<generation, shutdown, dbusVars, calls, backendVars>>

\* Mutant of StoreFetched: a fetch that an invalidate overtook is stored.
StoreFetchedStale ==
  /\ worker = "fetched"
  /\ ~shutdown
  /\ ~Full(Evict(ring))
  /\ LoopTop(Put(Evict(ring), hand))
  /\ hand' = NoPhoto
  /\ dbus' = IF dbus = "pop" THEN "pop_woken" ELSE dbus
  /\ UNCHANGED <<generation, shutdown, arg, reply, calls, backendVars>>

StoreFetched ==
  /\ worker = "fetched"
  /\ gen = generation /\ ~shutdown
  /\ ~Full(Evict(ring))
  /\ LoopTop(Put(Evict(ring), hand))
  /\ hand' = NoPhoto
  /\ dbus' = IF dbus = "pop" THEN "pop_woken" ELSE dbus
  /\ UNCHANGED <<generation, shutdown, arg, reply, calls, backendVars>>

-----------------------------------------------------------------------------
(* The D-Bus thread. *)

ReceiveCall ==
  /\ dbus = "idle"
  /\ calls < MaxCalls
  /\ calls' = calls + 1

\* Mutant of Deliver: the worker is not told.
DeliverQuietly ==
  /\ ring' = Forward(ring)
  /\ worker' = worker
  /\ reply' \in {Current(ring'), NoCopy}
  /\ dbus' = "idle"

\* The cursor moves on and the worker is told, whether or not the photo could
\* be duplicated for the caller.
Deliver ==
  /\ ring' = Forward(ring)
  /\ worker' = Woken(worker)
  /\ reply' \in {Current(ring'), NoCopy}
  /\ dbus' = "idle"

GetPhoto ==
  /\ ReceiveCall
  /\ \/ /\ HasNext(ring)
        /\ Deliver
     \/ /\ ~HasNext(ring)
        /\ dbus' = "pop"
        /\ reply' = NoPhoto
        /\ UNCHANGED <<ring, worker>>
  /\ UNCHANGED <<generation, shutdown, gen, hand, arg, backendVars>>

GetPhotoWakes ==
  /\ dbus = "pop_woken"
  /\ \/ /\ HasNext(ring)
        /\ Deliver
     \/ /\ ~HasNext(ring)
        /\ dbus' = "pop"
        /\ UNCHANGED <<ring, worker, reply>>
  /\ UNCHANGED <<generation, shutdown, gen, hand, arg, calls, backendVars>>

\* Mutant of GetPhotoTimesOut: moves on to a photo stored at the last moment,
\* though the call is answered as one that found none.
GetPhotoTimesOutLate ==
  /\ dbus \in {"pop", "pop_woken"}
  /\ dbus' = "idle"
  /\ ring' = IF HasNext(ring) THEN Forward(ring) ELSE ring
  /\ worker' = Woken(worker)
  /\ UNCHANGED <<generation, shutdown, gen, hand, arg, reply, calls, backendVars>>

\* GET_PHOTO_TIMEOUT_MS ran out; a photo may have been stored just before the
\* thread got the mutex back, and stays for the next call.
GetPhotoTimesOut ==
  /\ dbus \in {"pop", "pop_woken"}
  /\ dbus' = "idle"
  /\ UNCHANGED <<cacheVars, arg, reply, calls, backendVars>>

GetPrevPhoto ==
  /\ ReceiveCall
  /\ \/ /\ HasPrev(ring)
        /\ ring' = Back(ring)
        /\ reply' \in {Current(ring'), NoCopy}
     \/ /\ ~HasPrev(ring)
        /\ reply' = NoPhoto
        /\ UNCHANGED ring
  /\ UNCHANGED <<generation, shutdown, worker, gen, hand, dbus, arg, backendVars>>

SetTargetSizeRejected ==
  /\ ReceiveCall
  /\ \E w, h \in Size \cup {IMG_MIN_SZ - 1, IMG_MAX_SZ + 1} : ~InRange(w, h)
  /\ reply' = NoPhoto
  /\ UNCHANGED <<cacheVars, dbus, arg, backendVars>>

SetTargetSize(w, h) ==
  /\ ReceiveCall
  /\ ExchangeWidth(w)
  /\ dbus' = "set_h"
  /\ arg' = [ow |-> target_w, h |-> h]
  /\ reply' = NoPhoto
  /\ UNCHANGED cacheVars

\* The second exchange; an unchanged size replies without invalidating.
SetTargetHeight ==
  /\ dbus = "set_h"
  /\ ExchangeHeight(arg.h)
  /\ dbus' = IF arg.ow = target_w /\ arg.h = target_h THEN "idle" ELSE "raise"
  /\ UNCHANGED <<cacheVars, arg, reply, calls>>

SetEmbedQr(v) ==
  /\ ReceiveCall
  /\ ExchangeQr(v)
  /\ dbus' = IF v = embed_qr THEN "idle" ELSE "raise"
  /\ reply' = NoPhoto
  /\ UNCHANGED <<cacheVars, arg>>

\* The setters of the backend end by raising the flag ...
RequestRegistration ==
  /\ dbus = "raise"
  /\ RaiseNeedsRegister
  /\ dbus' = "invalidate"
  /\ UNCHANGED <<cacheVars, arg, reply, calls>>

\* ... and their callers empty the cache (pp_cache_invalidate).
Invalidate ==
  /\ dbus = "invalidate"
  /\ ring' = Flush(ring)
  /\ generation' = generation + 1
  /\ worker' = Woken(worker)
  /\ dbus' = "idle"
  /\ UNCHANGED <<shutdown, gen, hand, arg, reply, calls, backendVars>>

\* Mutant of Shutdown: the worker is not told.
ShutdownQuietly ==
  /\ dbus = "idle"
  /\ shutdown' = TRUE
  /\ worker' = worker
  /\ dbus' = "joining"
  /\ UNCHANGED <<ring, generation, gen, hand, arg, reply, calls, backendVars>>

\* SIGTERM ends the main loop: pp_cache_free tells the worker and joins it.
Shutdown ==
  /\ dbus = "idle"
  /\ shutdown' = TRUE
  /\ worker' = Woken(worker)
  /\ dbus' = "joining"
  /\ UNCHANGED <<ring, generation, gen, hand, arg, reply, calls, backendVars>>

Join ==
  /\ dbus = "joining"
  /\ worker = "done"
  /\ dbus' = "exited"
  /\ UNCHANGED <<cacheVars, arg, reply, calls, backendVars>>

-----------------------------------------------------------------------------
(* The environment. *)

ClientGoesStale ==
  /\ TimePasses
  /\ UNCHANGED <<cacheVars, dbusVars, calls>>

ServerRestarts ==
  /\ ServerForgets
  /\ calls < MaxCalls
  /\ calls' = calls + 1
  /\ UNCHANGED <<cacheVars, dbusVars>>

\* POSIX lets a condition wait return without a broadcast.
SpuriousWakeup ==
  /\ \/ /\ worker = "wait"
        /\ worker' = "woken"
        /\ UNCHANGED dbus
     \/ /\ dbus = "pop"
        /\ dbus' = "pop_woken"
        /\ UNCHANGED worker
  /\ UNCHANGED <<ring, generation, shutdown, gen, hand, arg, reply, calls,
                 backendVars>>

\* Nothing is left to do once pp_cache_free returned.
Exited ==
  /\ dbus = "exited"
  /\ UNCHANGED vars

-----------------------------------------------------------------------------
WorkerStep ==
  \/ WorkerResumes
  \/ WorkerEntersBackend
  \/ WorkerInBackend
  \/ FetchSucceeds
  \/ FetchFails
  \/ DiscardFetched
  \/ StoreFetched

\* The D-Bus thread carries on with the call or the shutdown it is in.
DbusStep ==
  \/ GetPhotoWakes
  \/ GetPhotoTimesOut
  \/ SetTargetHeight
  \/ RequestRegistration
  \/ Invalidate
  \/ Join

Request ==
  \/ GetPhoto
  \/ GetPrevPhoto
  \/ SetTargetSizeRejected
  \/ \E w, h \in Size : SetTargetSize(w, h)
  \/ \E v \in BOOLEAN : SetEmbedQr(v)

Next ==
  \/ WorkerStep
  \/ DbusStep
  \/ Request
  \/ Shutdown
  \/ ClientGoesStale
  \/ ServerRestarts
  \/ SpuriousWakeup
  \/ Exited

Spec == Init /\ [][Next]_vars

\* Both threads are scheduled and a deadline passes; every HTTP call ends by
\* its own timeout; a server that is asked again and again answers at some
\* point; time passes.
Fairness ==
  /\ WF_vars(WorkerStep)
  /\ WF_vars(DbusStep)
  /\ WF_vars(GetPhotoTimesOut)
  /\ SF_vars(WorkerInBackend /\ call = "register")
  /\ SF_vars(WorkerInBackend /\ call = "push")
  /\ SF_vars(FetchSucceeds)
  /\ WF_vars(ClientGoesStale)

FairSpec == Spec /\ Fairness

-----------------------------------------------------------------------------
(* Properties. *)

\* Every variable keeps its type.
TypeOK ==
  /\ BackendTypeOK
  /\ ring \in Rings
  /\ generation \in Nat /\ gen \in Nat
  /\ shutdown \in BOOLEAN
  /\ worker \in WorkerStates
  /\ hand \in Photo \cup {NoPhoto}
  /\ dbus \in DbusStates
  /\ arg \in [ow : Size, h : Size]
  /\ reply \in Photo \cup Unserved
  /\ calls \in 0 .. MaxCalls

\* The three ranges of the ring are well formed and hold photos: what
\* cache.c's comment on struct pp_cache says of head, cursor and tail.
RingShape == WellFormed(ring)

\* Every D-Bus setter whose stores are all made, but for the invalidate ...
Final ==
  \/ dbus = "invalidate"
  \/ dbus \notin {"raise", "invalidate"} /\ (dbus = "set_h" => arg.ow = target_w)

\* ... and including it: no invalidate is due.
Settled == Final /\ dbus # "invalidate"

\* Why NoOutdatedPhoto holds.  A fetch whose generation is still current, or a
\* registration begun after the flag was raised for the configuration now
\* wanted, carries exactly that configuration at each of its stages; and with
\* the flag down, the client id in use is configured as wanted.
FetchesAreFresh ==
  /\ gen <= generation
  /\ Settled => \A p \in Live(ring) : At(ring, p).cfg = Target
  /\ Settled /\ gen = generation /\ worker = "fetched" => hand.cfg = Target
  /\ Settled /\ gen = generation /\ call = "image" => client = Target
  /\ Final /\ ~needs_register /\ call \in {"none", "image"} => client = Target
  /\ (Settled /\ gen = generation) \/ (Final /\ ~needs_register) =>
       /\ call \in {"load_h", "load_qr", "push"} => pushing.w = target_w
       /\ call \in {"load_qr", "push"} => pushing.h = target_h
       /\ call = "push" => pushing.qr = embed_qr
  /\ reply \notin Unserved =>
       dbus \notin {"set_h", "raise", "invalidate"} /\ reply.cfg = Target

\* A part of the inductive invariant of the proofs: the worker is in the backend
\* exactly while a call is, holds a photo exactly between a fetch and the lock,
\* and uses a client id only once it has one.
ThreadsInStep ==
  /\ call # "none" => worker = "fetch"
  /\ worker = "fetched" <=> hand # NoPhoto
  /\ ClientConfigured

\* A sleeping thread has nothing to do: whoever gives it something wakes it.
SleepersIdle ==
  /\ worker = "wait" => ~shutdown /\ ~ShouldFetch(ring)
  /\ dbus = "pop" => ~HasNext(ring)

\* What both threads rely on whenever the mutex is free: the ring has its shape,
\* each thread is where its data says, fetches carry what was asked for as far
\* as they have come, and whoever sleeps has nothing to do.
Inv ==
  /\ TypeOK
  /\ RingShape
  /\ ThreadsInStep
  /\ FetchesAreFresh
  /\ SleepersIdle

\* Once a setter has replied, no photo rendered for an older configuration is
\* cached or served, however the setter's stores interleaved with a fetch
\* (dbus.c: "Photos in the cache were rendered for the old size").
NoOutdatedPhoto ==
  dbus \in {"idle", "pop", "pop_woken"} =>
    /\ \A p \in Live(ring) : At(ring, p).cfg = Target
    /\ reply \notin Unserved => reply.cfg = Target

\* Every open memfd is owned exactly once: by one live position of the ring or
\* by the fetch in hand.  None is left when the service exits.
MemfdsOwnedOnce ==
  /\ ring.fds = {At(ring, p).fd : p \in Live(ring)}
                  \cup {photo.fd : photo \in {hand} \ {NoPhoto}}
  /\ \A p, q \in Live(ring) : At(ring, p).fd = At(ring, q).fd => p = q
  /\ \A p \in Live(ring) : hand # NoPhoto => At(ring, p).fd # hand.fd
  /\ dbus = "exited" => ring.fds = {}

\* A caller asleep in GetPhoto and a worker asleep for lack of room never wait
\* for each other.
NoMutualSleep == ~(dbus = "pop" /\ worker = "wait")

\* Only an invalidate or the shutdown may drop the photo delivered last or one
\* not delivered yet: storing a fetched photo evicts or overwrites none of them.
PhotosKept ==
  [][ generation' = generation /\ worker' # "done" =>
        \A p \in Live(ring) :
          p >= ring.cursor => p \in Live(ring') /\ At(ring', p) = At(ring, p)
    ]_vars

\* After the last request the ring ends up with its full prefetch, of the
\* configuration asked for last: no wakeup and no registration request is lost,
\* and a client id the server forgot is replaced.
EventuallyPrefetched ==
  <>[](shutdown \/ (dbus = "idle" /\ Ahead(ring) >= prefetch_depth))

\* SIGTERM ends the process, whatever the worker was doing.
ShutdownEnds == shutdown ~> dbus = "exited"

\* Seen from its callers the service is a photo album with a bookmark.
Album == INSTANCE PhotoAlbum WITH
  Capacity <- buf_cap,
  Nothing <- NoPhoto,
  Uncopied <- NoCopy,
  Photos <- Photo,
  album <- [i \in 1 .. Occupied(ring) |-> At(ring, ring.head + i - 1)],
  bookmark <- IF ring.cursor = -1 THEN 0 ELSE ring.cursor - ring.head + 1,
  shown <- reply

\* The album's specification, under the mapping above.
ImplementsAlbum == Album!Spec
=============================================================================
